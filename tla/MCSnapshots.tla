----------------------------- MODULE MCSnapshots -----------------------------
(***************************************************************************)
(* Snapshots of up to two parts, and snapshots of one part while the client*)
(* rejoins, where the view starts again.                                   *)
(***************************************************************************)
EXTENDS Snapshots, TLC

VARIABLE case

Rejoining == INSTANCE Snapshots WITH MaxParts <- 1, MaxResets <- 1

CasesInit == case \in {"parts", "rejoins"} /\ Init

CasesNext ==
  /\ \/ case = "parts" /\ Next
     \/ case = "rejoins" /\ Rejoining!Next
  /\ UNCHANGED case

CasesSpec == CasesInit /\ [][CasesNext]_<<case, vars>>

\* What a snapshot holds has no order.
Symmetric == Permutations(Contents)

=============================================================================
