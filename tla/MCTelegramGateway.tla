-------------------------- MODULE MCTelegramGateway --------------------------
(***************************************************************************)
(* TelegramGateway for TLC.  Slots and stamps differ in nothing but their  *)
(* name, replies in whether they are proposals; Symmetry is used by the    *)
(* safety run only.                                                        *)
(***************************************************************************)
EXTENDS TelegramGateway, TLC

Symmetry == Permutations(Slots) \cup Permutations(Stamps)
=============================================================================
