---------------------------- MODULE MCAssetStorage ----------------------------
(***************************************************************************)
(* An upload, and one job with two outputs, the second larger than the     *)
(* hold they share.                                                        *)
(***************************************************************************)
EXTENDS AssetStorage

OneUpload == {"u"}
TwoOutputs == {"o1", "o2"}
OneJob == {"j"}
SameJob == [o \in TwoOutputs |-> "j"]
Bytes == [i \in {"u", "o1", "o2"} |-> IF i = "u" THEN 2 ELSE IF i = "o1" THEN 1 ELSE 3]
ThreeHeld == [j \in OneJob |-> 3]
=============================================================================
