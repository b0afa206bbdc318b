----------------------------- MODULE MCWorldCases -----------------------------
(***************************************************************************)
(* LuaWorld with a work item, and without it but with rains and lua_reload,*)
(* on two places for what is spawned.                                      *)
(***************************************************************************)
EXTENDS LuaWorld, TLC

VARIABLE case

Rains == INSTANCE LuaWorld
           WITH WorkItems <- {}, LuaReloads <- TRUE, Spells <- TRUE, Deaths <- FALSE,
                SegmentIds <- 1, MobTicks <- 1, ItemTicks <- 1, HammerTicks <- 1

WorkItemMissing == \A w \in WorkItems : ent'[w] = None

CasesInit ==
  \/ case = "work" /\ Init
  \/ case = "rains" /\ Rains!Init

CasesNext ==
  /\ \/ case = "work" /\ Next
     \/ case = "rains" /\ Rains!Next /\ WorkItemMissing
  /\ UNCHANGED case

CasesSpec == CasesInit /\ [][CasesNext]_<<case, vars>>

\* Ids and clients are interchangeable; so are the places for entities that
\* are not there from the start.
Symmetric ==
  Permutations(Ids) \cup Permutations(Clients)
    \cup Permutations(Entities \ (Mobs \cup WorkItems))

=============================================================================
