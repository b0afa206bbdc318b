------------------------------- MODULE LuaWorld -------------------------------
(***************************************************************************)
(* The entities of the MMO layer (src/lua/sv/base/world.lua and            *)
(* src/lua/sv/entities): mobs and work items that are there from the start,*)
(* projectiles and spells of the clients, and the pickups that fly to who  *)
(* killed a mob.  World.OnTick visits them type by type, and removes an    *)
(* entity from the list that it is going through.                          *)
(*                                                                         *)
(* One visit of World.OnTick is one action; nothing but visits happens     *)
(* between the first and the last one of a tick.  A Lua error ends the tick*)
(* early.  The order of the types is any order (pairs over a hash table);  *)
(* when a type gets its list during the tick, Lua promises nothing about   *)
(* the rest of the traversal, which may skip types or visit them again.    *)
(*                                                                         *)
(* Abstractions.  Geometry is a choice: who hits what, whether a spell is  *)
(* over.  Health is a choice: a hit kills or does not.  The ids come from  *)
(* the pool as IdAllocator promises them, but for what it says of a        *)
(* quarantine.  Of the three spells only the rain appears: the other two   *)
(* name types that no file registers, and World.Spawn gives nothing for    *)
(* them.                                                                   *)
(***************************************************************************)
EXTENDS Naturals, Sequences, SequencesExt, FiniteSets

CONSTANTS
  Entities,     \* bound: entities there are at one time
  Mobs,         \* the mobs of the world that is loaded
  WorkItems,    \* its work items
  Clients,
  Ids,          \* snap ids of the pool
  SegmentIds,   \* ids of a rain beside its own: 10
  MobTicks,     \* ticks a dead mob is gone: 50
  ItemTicks,    \* ticks a broken work item is gone: 200
  HammerTicks,  \* reload time of a hammer that broke something: 50
  LuaReloads,   \* bound: is lua_reload used
  Spells,       \* bound: are spells cast
  Deaths,       \* bound: do clients die
  None

Types == {"dummy_simple", "work_item", "basic_projectile", "spell_healing_rain", "pickup"}

Entity == [type : Types, ids : SUBSET Ids, snapID : Ids \cup {None},
           owner : Clients \cup {None}, alive : BOOLEAN, wait : Nat]

ASSUME EntitiesAssumption ==
  /\ IsFiniteSet(Entities) /\ IsFiniteSet(Ids)
  /\ Mobs \subseteq Entities /\ WorkItems \subseteq Entities
  /\ Mobs \cap WorkItems = {}
  /\ Cardinality(Mobs \cup WorkItems) <= Cardinality(Ids)
ASSUME NumbersAssumption ==
  /\ SegmentIds \in Nat
  /\ MobTicks \in Nat \ {0} /\ ItemTicks \in Nat \ {0} /\ HammerTicks \in Nat \ {0}
  /\ LuaReloads \in BOOLEAN /\ Spells \in BOOLEAN /\ Deaths \in BOOLEAN
ASSUME NoneAssumption == None \notin Entities \cup Clients \cup Ids \cup Types \cup Entity

VARIABLES
  lists,     \* World._Entities: the entities of each type, in order
  known,     \* the types that have a list
  ent,       \* each entity that exists
  used,      \* ids that the pool counts as used
  hasData,   \* clients with account data
  reload,    \* ticks until each client's character can fire: its ReloadTimer
  todo,      \* types the tick has not visited yet
  current,   \* the type that is being visited
  index,     \* the next entity of its list
  ticked,    \* history: entities visited in this tick
  disturbed, \* history: in this tick a type got its list, or an error came
  place,     \* history: where each entity was when the tick began
  rewards    \* history: how often an entity was worth something to a client,
             \* since it was found to be there and since the client came

worldVars == <<lists, known, ent, used>>
tickVars == <<todo, current, index, ticked, disturbed, place>>
vars == <<worldVars, hasData, reload, tickVars, rewards>>

Exists(e) == ent[e] # None

TypeOK ==
  /\ lists \in [Types -> Seq(Entities)]
  /\ known \subseteq Types
  /\ ent \in [Entities -> Entity \cup {None}]
  /\ used \subseteq Ids
  /\ hasData \subseteq Clients
  /\ reload \in [Clients -> 0 .. HammerTicks]
  /\ todo \subseteq Types
  /\ current \in Types \cup {None}
  /\ index \in Nat \ {0}
  /\ ticked \subseteq Entities
  /\ disturbed \in BOOLEAN
  /\ place \in [Entities -> Nat]
  /\ rewards \in [Entities -> [Clients -> Nat]]
  /\ \A t \in Types : \A i \in DOMAIN lists[t] : Exists(lists[t][i]) /\ ent[lists[t][i]].type = t

\* InitMobs, InitJobs: one id each.
Init ==
  LET start == Mobs \cup WorkItems IN
  /\ \E give \in [start -> Ids] :
       /\ \A e, f \in start : give[e] = give[f] => e = f
       /\ ent = [e \in Entities |->
                   IF e \in start
                   THEN [type |-> IF e \in Mobs THEN "dummy_simple" ELSE "work_item",
                         ids |-> {}, snapID |-> give[e], owner |-> None,
                         alive |-> FALSE, wait |-> 0]
                   ELSE None]
       /\ used = {give[e] : e \in start}
  /\ lists = [t \in Types |-> CASE t = "dummy_simple" -> SetToSeq(Mobs)
                                [] t = "work_item" -> SetToSeq(WorkItems)
                                [] OTHER -> << >>]
  /\ known = {t \in Types : lists[t] # << >>}
  /\ hasData = Clients
  /\ reload = [c \in Clients |-> 0]
  /\ todo = {} /\ current = None /\ index = 1
  /\ ticked = {} /\ disturbed = FALSE
  /\ place = [e \in Entities |-> 0]
  /\ rewards = [e \in Entities |-> [c \in Clients |-> 0]]

Idle == todo = {} /\ current = None
Elsewhere == UNCHANGED <<hasData, reload>>

-----------------------------------------------------------------------------
(***************************************************************************)
(* Spawning, damage and death.  A world is the value of worldVars; these   *)
(* operators give the worlds an operation may lead to.                     *)
(***************************************************************************)
World == [lists |-> lists, known |-> known, ent |-> ent, used |-> used]

Become(w) ==
  /\ lists' = w.lists /\ known' = w.known /\ ent' = w.ent /\ used' = w.used

\* SnapNewID n times: fewer ids when the pool is empty.
Given(w, n) ==
  LET left == Ids \ w.used IN
  {S \in SUBSET left : Cardinality(S) = IF Cardinality(left) < n THEN Cardinality(left) ELSE n}

\* World.Spawn.
Spawned(w, type, owner) ==
  LET n == IF type = "spell_healing_rain" THEN 1 + SegmentIds ELSE 1 IN
  UNION {UNION {{[lists |-> [w.lists EXCEPT ![type] = Append(@, e)],
                  known |-> w.known \cup {type},
                  ent |-> [w.ent EXCEPT ![e] =
                             [type |-> type, ids |-> S \ {i}, snapID |-> i,
                              owner |-> owner, alive |-> TRUE, wait |-> 0]],
                  used |-> w.used \cup S]
                   : i \in IF S = {} THEN {None} ELSE S}
                : S \in Given(w, n)}
         : e \in {f \in Entities : w.ent[f] = None}}

\* OnDeath: a pickup for a client, none when the mob fell.
Killed(w, m, c) ==
  LET dead == [w EXCEPT !.ent[m].alive = FALSE, !.ent[m].wait = MobTicks]
  IN IF c = None THEN {dead} ELSE Spawned(dead, "pickup", c)

\* GiveExp raises an error for a client without account data.
Reward(e, c) ==
  rewards' = IF c \in hasData THEN [rewards EXCEPT ![e][c] = @ + 1] ELSE rewards

\* Mutant: a melee hit does not ask whether the mob is alive.
AnyMobs == {e \in Entities : Exists(e) /\ ent[e].type = "dummy_simple"}

\* GetClosestEntity, GetEntitiesInRadius: living mobs only.
LivingMobs == {e \in Entities : Exists(e) /\ ent[e].type = "dummy_simple" /\ ent[e].alive}

-----------------------------------------------------------------------------
(***************************************************************************)
(* What clients do between the ticks.                                      *)
(***************************************************************************)
CanFire(c) == Idle /\ c \in hasData /\ reload[c] = 0

\* A hit that kills nobody changes nothing but the timer, which a quick
\* character gets back at zero.
FireMelee(c) ==
  /\ CanFire(c)
  /\ \E m \in LivingMobs :
       /\ \E w \in Killed(World, m, c) : Become(w)
       /\ Reward(m, c)
  /\ \E n \in 0 .. 1 : reload' = [reload EXCEPT ![c] = n]
  /\ UNCHANGED <<hasData, tickVars>>

FireProjectile(c) ==
  /\ CanFire(c)
  /\ \E w \in Spawned(World, "basic_projectile", c) : Become(w)
  /\ \E n \in 0 .. 1 : reload' = [reload EXCEPT ![c] = n]
  /\ UNCHANGED <<hasData, tickVars, rewards>>

CastSpell(c) ==
  /\ Spells
  /\ Idle /\ c \in hasData
  /\ \E w \in Spawned(World, "spell_healing_rain", c) : Become(w)
  /\ UNCHANGED <<hasData, reload, tickVars, rewards>>

\* The hammer on a work item.  It breaks at the first hit and is alive until
\* its next visit.
FireHammer(c, e) ==
  /\ CanFire(c)
  /\ Exists(e) /\ ent[e].type = "work_item" /\ ent[e].alive
  /\ ent' = [ent EXCEPT ![e].wait = ItemTicks]
  /\ Reward(e, c)
  /\ reload' = [reload EXCEPT ![c] = HammerTicks]
  /\ UNCHANGED <<lists, known, used, hasData, tickVars>>

Leave(c) ==
  /\ Idle /\ c \in hasData
  /\ hasData' = hasData \ {c}
  /\ reload' = [reload EXCEPT ![c] = 0]
  /\ rewards' = [e \in Entities |-> [rewards[e] EXCEPT ![c] = 0]]
  /\ UNCHANGED <<worldVars, tickVars>>

\* lua_reload: a new Lua state with no entities and no account data.
LuaReload ==
  /\ LuaReloads /\ Idle
  /\ lists' = [t \in Types |-> << >>]
  /\ known' = {}
  /\ ent' = [e \in Entities |-> None]
  /\ hasData' = {}
  /\ place' = [e \in Entities |-> 0]
  /\ UNCHANGED <<used, reload, todo, current, index, ticked, disturbed, rewards>>

-----------------------------------------------------------------------------
(***************************************************************************)
(* World.OnTick                                                            *)
(***************************************************************************)
PlaceOf(e) == IF Exists(e) /\ e \in Range(lists[ent[e].type])
              THEN CHOOSE i \in DOMAIN lists[ent[e].type] : lists[ent[e].type][i] = e
              ELSE 0

\* The characters tick before the entities: timers run down.  Who logs in at the
\* end of the last tick has his character, and can fire, after this one began.
\* The timer is the character's (character.h:102): who dies loses it.  A tick
\* deletes the dead character, and a later one makes another that can fire
\* (player.cpp:216-222, 505-510, 646-657).
BeginTick ==
  /\ Idle
  /\ todo' = known
  /\ \E S \in SUBSET (Clients \ hasData) : hasData' = hasData \cup S
  /\ \E dead \in SUBSET Clients :
       /\ Deaths \/ dead = {}
       /\ reload' = [c \in Clients |-> IF c \in dead THEN 1
                                      ELSE IF reload[c] = 0 THEN 0 ELSE reload[c] - 1]
  /\ ent' = [e \in Entities |-> IF Exists(e) /\ ent[e].wait > 0
                                THEN [ent[e] EXCEPT !.wait = @ - 1] ELSE ent[e]]
  /\ ticked' = {}
  /\ disturbed' = FALSE
  /\ place' = [e \in Entities |-> PlaceOf(e)]
  /\ UNCHANGED <<lists, known, used, current, index, rewards>>

NextType ==
  /\ todo # {} /\ current = None
  /\ current' \in todo
  /\ todo' = todo \ {current'}
  /\ index' = 1
  /\ UNCHANGED <<worldVars, hasData, reload, ticked, disturbed, place, rewards>>

EndType ==
  /\ current # None /\ index > Len(lists[current])
  /\ current' = None
  /\ UNCHANGED <<worldVars, hasData, reload, todo, index, ticked, disturbed, place, rewards>>

\* Mutant: the entity before the one that is gone loses its place.
RemovedBefore(w, e) ==
  [w EXCEPT !.lists[current] = RemoveAt(@, IF index = 1 THEN 1 ELSE index - 1),
            !.ent[e] = None,
            !.used = @ \ {w.ent[e].snapID}]

\* Mutant: the id goes back, the entity stays.
RemovedIdOnly(w, e) == [w EXCEPT !.used = @ \ {w.ent[e].snapID}]

\* The entity leaves its list and gives back the one id that is SnapID.
Removed(w, e) ==
  [w EXCEPT !.lists[current] = RemoveAt(@, index),
            !.ent[e] = None,
            !.used = @ \ {w.ent[e].snapID}]

\* Mutant: one entity too far.
AfterVisitTooFar == index + 2

\* pairs goes on with the next index, whatever was removed.
AfterVisit == index + 1

Visiting == current # None /\ index <= Len(lists[current])
Visited == lists[current][index]

Goes(e) ==
  /\ ticked' = ticked \cup {e}
  /\ index' = AfterVisit
  /\ UNCHANGED <<todo, current, disturbed, place>>

Forget(e) ==
  /\ ticked' = ticked \ {e}
  /\ place' = [place EXCEPT ![e] = 0]

\* Nothing happens, or the entity is over: a wall, a character, the end of a
\* spell, a client without a character.
VisitPassing ==
  /\ Visiting
  /\ ent[Visited].type \in {"basic_projectile", "spell_healing_rain", "pickup"}
  /\ \/ Goes(Visited) /\ UNCHANGED worldVars
     \/ /\ Become(Removed(World, Visited))
        /\ Forget(Visited)
        /\ index' = AfterVisit
        /\ UNCHANGED <<todo, current, disturbed>>
  /\ Elsewhere /\ UNCHANGED rewards

\* A rain that would heal a character adds a number to nil: OnInit takes Heal from
\* an argument that ConCastSpell does not give.  The error ends the tick.
VisitRainFails ==
  /\ Visiting
  /\ ent[Visited].type = "spell_healing_rain"
  /\ todo' = {} /\ current' = None /\ disturbed' = TRUE
  /\ UNCHANGED <<worldVars, hasData, reload, index, ticked, place, rewards>>

\* A projectile kills a living mob.  Its owner gets experience if he has
\* account data; if not, the error ends the tick before the projectile is
\* marked.
VisitHits ==
  /\ Visiting
  /\ ent[Visited].type = "basic_projectile"
  /\ \E m \in LivingMobs : \E w \in Killed(World, m, ent[Visited].owner) :
       /\ Reward(m, ent[Visited].owner)
       /\ \/ /\ ent[Visited].owner \in hasData
             /\ Become(Removed(w, Visited))
             /\ todo' \in IF "pickup" \in known THEN {todo} ELSE SUBSET w.known
             /\ disturbed' = (disturbed \/ "pickup" \notin known)
             /\ Forget(Visited)
             /\ index' = AfterVisit
             /\ UNCHANGED current
          \/ /\ ent[Visited].owner \notin hasData
             /\ Become(w)
             /\ todo' = {} /\ current' = None
             /\ disturbed' = TRUE
             /\ UNCHANGED <<index, ticked, place>>
  /\ Elsewhere

\* A dead mob comes back when its time is over, and a living one may fall.
VisitMob ==
  /\ Visiting
  /\ ent[Visited].type = "dummy_simple"
  /\ \/ UNCHANGED <<worldVars, rewards>>
     \/ /\ ~ent[Visited].alive /\ ent[Visited].wait = 0
        /\ ent' = [ent EXCEPT ![Visited].alive = TRUE]
        /\ rewards' = [rewards EXCEPT ![Visited] = [c \in Clients |-> 0]]
        /\ UNCHANGED <<lists, known, used>>
     \/ /\ ent[Visited].alive
        /\ \E w \in Killed(World, Visited, None) : Become(w)
        /\ UNCHANGED rewards
  /\ Goes(Visited)
  /\ Elsewhere

\* A work item is alive when the tick is after SpawnTick.
IsThere(e) == ent[e].wait = 0

VisitWorkItem ==
  /\ Visiting
  /\ ent[Visited].type = "work_item"
  /\ ent' = [ent EXCEPT ![Visited].alive = IsThere(Visited)]
  /\ rewards' = IF IsThere(Visited)
                THEN [rewards EXCEPT ![Visited] = [c \in Clients |-> 0]] ELSE rewards
  /\ UNCHANGED <<lists, known, used>>
  /\ Goes(Visited)
  /\ Elsewhere

Tick == BeginTick \/ NextType \/ EndType \/ VisitPassing \/ VisitRainFails \/ VisitHits
  \/ VisitMob \/ VisitWorkItem

Next ==
  \/ \E c \in Clients :
       \/ FireMelee(c) \/ FireProjectile(c) \/ CastSpell(c)
       \/ \E e \in Entities : FireHammer(c, e)
       \/ Leave(c)
  \/ LuaReload
  \/ Tick

Spec == Init /\ [][Next]_vars

\* CServer::Run ticks the game world again and again.
FairSpec == Spec /\ WF_vars(Tick)

-----------------------------------------------------------------------------
(***************************************************************************)
(* No two entities ever show themselves with one snap id, and the pool has *)
(* not taken back an id that an entity still shows: World.OnTick frees the *)
(* SnapID of what it removes (world.lua:53) and never of anything else.    *)
(***************************************************************************)
Held(e) == ent[e].ids \cup {ent[e].snapID}

NoSharedIds ==
  \A e \in Entities : Exists(e) =>
    /\ Held(e) \ {None} \subseteq used
    /\ \A f \in Entities \ {e} : Exists(f) => Held(e) \cap Held(f) \subseteq {None}

(***************************************************************************)
(* Every entity that exists is in the list of its type, once: the removal  *)
(* by index, while pairs goes through the list, removes the entity that was*)
(* visited (world.lua:52-55).                                              *)
(***************************************************************************)
ListsExact ==
  \A e \in Entities : Exists(e) =>
    Cardinality({i \in DOMAIN lists[ent[e].type] : lists[ent[e].type][i] = e}) = 1

(***************************************************************************)
(* A mob is worth its experience once, whoever hits it, in whatever order  *)
(* the hits and the ticks come.                                            *)
(***************************************************************************)
MobsRewardedOnce ==
  \A e \in Entities : Exists(e) /\ ent[e].type = "dummy_simple" =>
    \A c, d \in Clients : rewards[e][c] + (IF c = d THEN 0 ELSE rewards[e][d]) <= 1

(***************************************************************************)
(* A broken work item, which stays alive until its next visit              *)
(* (work_item.lua:15-32, items.lua:68-79), is gone before a hammer that got*)
(* something for it can hit again, whether the hammer waits for its timer  *)
(* or its owner dies and is back with a new one: only an error, which keeps*)
(* a tick from visiting the item, lets it pay a client twice.              *)
(***************************************************************************)
ItemsRewardedOnce ==
  Idle /\ ~disturbed =>
    \A e \in Entities : Exists(e) /\ ent[e].type = "work_item" /\ ent[e].alive =>
      \A c \in Clients : reload[c] = 0 => rewards[e][c] = 0

(***************************************************************************)
(* Both: what is dead pays nobody again before it is back, and what is     *)
(* broken not unless the tick after was disturbed.                         *)
(***************************************************************************)
RewardedOnce == MobsRewardedOnce /\ ItemsRewardedOnce

(***************************************************************************)
(* An entity that a whole tick did not visit has come nearer to the front  *)
(* of its list: what was removed stood before it.                          *)
(***************************************************************************)
MissedMovedUp ==
  Idle /\ ~disturbed =>
    \A e \in Entities : Exists(e) /\ place[e] > 0 /\ e \notin ticked => PlaceOf(e) < place[e]

(***************************************************************************)
(* Every entity is visited again and again, although each removal makes the*)
(* next entity miss a tick and an error ends a tick early.                 *)
(***************************************************************************)
NoStarvation ==
  \A e \in Entities :
    Exists(e) /\ Idle ~> (~Exists(e) \/ (Visiting /\ Visited = e))

=============================================================================
