--------------------------- MODULE MCBlockSubmit ---------------------------
(* BlockSubmit on small instances: one block, which one session or two may  *)
(* find, and two stops, so that a replay can itself be interrupted.  Blocks *)
(* share nothing but the order of the replay, and the theorems of           *)
(* BlockSubmitProofs hold for any number of them.                           *)
EXTENDS BlockSubmit

CONSTANTS B1, F1, F2

MCBlocks == {B1}
MCOneFind == {F1}
MCTwoFinds == {F1, F2}
=============================================================================
