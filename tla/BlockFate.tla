----------------------------- MODULE BlockFate -----------------------------
(***************************************************************************)
(* What the pool promises about a found block, whatever fails or restarts: *)
(* a block is recorded in the found_blocks table, or its archive file      *)
(* moved to submitted/, only after the node has taken it, and none of the  *)
(* three is ever undone.                                                   *)
(***************************************************************************)
CONSTANT Blocks

VARIABLES
  accepted,   \* the node has the block
  recorded,   \* it has a row in found_blocks
  filed       \* its archive file is in submitted/

fateVars == <<accepted, recorded, filed>>

Init == accepted = {} /\ recorded = {} /\ filed = {}

Accept(b) ==
  /\ accepted' = accepted \cup {b}
  /\ UNCHANGED <<recorded, filed>>

Record(b) ==
  /\ b \in accepted
  /\ recorded' = recorded \cup {b}
  /\ UNCHANGED <<accepted, filed>>

FileAway(b) ==
  /\ b \in accepted
  /\ filed' = filed \cup {b}
  /\ UNCHANGED <<accepted, recorded>>

Next == \E b \in Blocks : Accept(b) \/ Record(b) \/ FileAway(b)

Spec == Init /\ [][Next]_fateVars

=============================================================================
