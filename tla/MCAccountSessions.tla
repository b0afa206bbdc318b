-------------------------- MODULE MCAccountSessions --------------------------
(* AccountSessions on small sets; the slots are interchangeable.            *)
EXTENDS AccountSessions, TLC

SlotSymmetry == Permutations(Slots)

=============================================================================
