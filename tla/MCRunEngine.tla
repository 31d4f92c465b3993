----------------------------- MODULE MCRunEngine -----------------------------
(***************************************************************************)
(* Small plans for TLC.  "Chain" is a two-node pipeline: b reads what a    *)
(* generates.  "Solo" is a single node.                                    *)
(***************************************************************************)
EXTENDS RunEngine

ChainJobs == {"a", "b"}
ChainLevel == [j \in ChainJobs |-> IF j = "a" THEN 1 ELSE 2]
ChainPreds == [j \in ChainJobs |-> IF j = "b" THEN {"a"} ELSE {}]
ChainDownstream == [j \in ChainJobs |-> IF j = "a" THEN {"b"} ELSE {}]

SoloLevel == [j \in {"a"} |-> 1]
SoloNone == [j \in {"a"} |-> {}]
=============================================================================
