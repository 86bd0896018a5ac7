---------------------------- MODULE MCCheckpoint ----------------------------
(***************************************************************************)
(* Two handoffs, one of them in the working tree when the batch starts or  *)
(* not, a disposition, a page, a projection and a path out of scope.       *)
(***************************************************************************)
EXTENDS Checkpoint

MCTree == [f \in Files |-> IF f \in Events THEN Absent ELSE "v1"]

MCStarts == {MCTree, [MCTree EXCEPT !["h1"] = "v1", !["log"] = "v2"]}
=============================================================================
