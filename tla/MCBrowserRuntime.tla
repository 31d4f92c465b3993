-------------------------- MODULE MCBrowserRuntime ---------------------------
(***************************************************************************)
(* Two sessions, on one tab or on two, share a pipeline: b reads what a    *)
(* generates.                                                              *)
(***************************************************************************)
EXTENDS BrowserRuntime

ChainJobs == {"a", "b"}
ChainPreds == [j \in ChainJobs |-> IF j = "b" THEN {"a"} ELSE {}]
ChainDownstream == [j \in ChainJobs |-> IF j = "a" THEN {"b"} ELSE {}]

\* One tab that is reloaded, or two tabs on two devices.
OneOrTwoTabs == {[s \in {1, 2} |-> "t1"],
                 [s \in {1, 2} |-> IF s = 1 THEN "t1" ELSE "t2"]}
=============================================================================
