------------------------- MODULE MCRestoreRequests --------------------------
(* Two clients ask to restore the same operation.                           *)
EXTENDS RestoreRequests, TLC

CONSTANTS r1, r2, o1
AboutDef == r1 :> o1 @@ r2 :> o1
=============================================================================
