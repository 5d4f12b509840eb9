---------------------------- MODULE TreeBuilder ----------------------------
(***************************************************************************)
(* What writing a device tree promises: first reservations, then tokens,   *)
(* each appended whole or not at all, then nothing any more until somebody *)
(* takes the tree.  A call that fails, and a move to another buffer,       *)
(* changes nothing that can be seen.                                       *)
(***************************************************************************)
EXTENDS DeviceTree

CONSTANTS BuilderEntries,   (* reservations <<address, size>>                *)
          BuilderTokens     (* tokens of trees                               *)

VARIABLES stage,      (* "none", "reserve", "struct" or "complete"           *)
          reserved,   (* the reservations made                               *)
          tree        (* the tokens written                                  *)

Create ==
  /\ stage = "none"
  /\ stage' = "reserve" /\ reserved' = <<>> /\ tree' = <<>>

Reserve ==
  /\ stage = "reserve"
  /\ \E e \in BuilderEntries : reserved' = Append(reserved, e)
  /\ UNCHANGED <<stage, tree>>

FinishReserve == stage = "reserve" /\ stage' = "struct" /\ UNCHANGED <<reserved, tree>>

Write ==
  /\ stage = "struct"
  /\ \E t \in BuilderTokens : tree' = Append(tree, t)
  /\ UNCHANGED <<stage, reserved>>

Finish == stage = "struct" /\ stage' = "complete" /\ UNCHANGED <<reserved, tree>>

Take == stage = "complete" /\ stage' = "none" /\ reserved' = <<>> /\ tree' = <<>>

BuilderInit == stage = "none" /\ reserved = <<>> /\ tree = <<>>
BuilderNext == Create \/ Reserve \/ FinishReserve \/ Write \/ Finish \/ Take
BuilderSpec == BuilderInit /\ [][BuilderNext]_<<stage, reserved, tree>>
=============================================================================
