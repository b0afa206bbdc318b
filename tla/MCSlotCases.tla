----------------------------- MODULE MCSlotCases -----------------------------
(***************************************************************************)
(* ServerSlots with two addresses: those of two people, those of one, who  *)
(* can take over his slot from the other address, or one of them only,     *)
(* while the game server is loaded again.                                  *)
(***************************************************************************)
EXTENDS ServerSlots, TLC

CONSTANTS a1, b1

VARIABLE case   \* which of these it is; the third by the address that is used

TwoPeople == {{a1}, {b1}}

OnePerson == INSTANCE ServerSlots WITH Persons <- {{a1, b1}}, MaxConnects <- 3
Reloading == INSTANCE ServerSlots
               WITH Persons <- {{a1, b1}}, MaxConnects <- 2, MaxReloads <- 1

CasesInit == case \in {"two people", "one person"} \cup Clients /\ Init

CasesNext ==
  /\ \/ case = "two people" /\ Next
     \/ case = "one person" /\ OnePerson!Next
     \/ /\ case \in Clients /\ Reloading!Next
        /\ \A c \in Clients \ {case} : client'[c] = client[c]
  /\ UNCHANGED case

CasesSpec == CasesInit /\ [][CasesNext]_<<case, vars>>

(***************************************************************************)
(* A player with a timeout code belongs to the person at the other end of  *)
(* its connection: a takeover, which compares codes (ddracechat.cpp:338),  *)
(* never gives somebody the player of another who has set one.  Whose code *)
(* it is is known when the addresses are those of two people.              *)
(***************************************************************************)
PlayersPeers == case = "two people" => CodeIsPeers

\* In each case the two addresses are interchangeable.
Symmetric == Permutations({a1, b1})

=============================================================================
