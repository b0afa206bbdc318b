---------------------------- MODULE LuaWorld_proofs ----------------------------
(***************************************************************************)
(* Proofs about LuaWorld, for any number of entities, clients and ids: no  *)
(* snap id is shown by two, the lists hold what exists, what a tick missed *)
(* moved up, and what is broken or dead pays once.                         *)
(***************************************************************************)
EXTENDS LuaWorld, FiniteSetTheorems, TLAPS

-----------------------------------------------------------------------------
(***************************************************************************)
(* Worlds                                                                  *)
(***************************************************************************)
WorldType(w) ==
  w \in [lists : [Types -> Seq(Entities)], known : SUBSET Types,
         ent : [Entities -> Entity \cup {None}], used : SUBSET Ids]

(* The lists hold what exists, each entity once, under its type.           *)
Listed(w) ==
  /\ \A t \in Types : \A i \in DOMAIN w.lists[t] :
       w.ent[w.lists[t][i]] # None /\ w.ent[w.lists[t][i]].type = t
  /\ \A t \in Types : \A i, j \in DOMAIN w.lists[t] : w.lists[t][i] = w.lists[t][j] => i = j
  /\ \A e \in Entities : w.ent[e] # None =>
       \E i \in DOMAIN w.lists[w.ent[e].type] : w.lists[w.ent[e].type][i] = e
  /\ \A t \in Types : w.lists[t] # << >> => t \in w.known

(* Who is a mob, and what has an owner.                                    *)
Kinds(w) ==
  \A e \in Entities : w.ent[e] # None =>
    /\ w.ent[e].type = "dummy_simple" => e \in Mobs
    /\ w.ent[e].type = "basic_projectile" => w.ent[e].owner \in Clients

HeldIn(w, e) == w.ent[e].ids \cup {w.ent[e].snapID}

OwnIds(w) ==
  \A e \in Entities : w.ent[e] # None =>
    /\ HeldIn(w, e) \ {None} \subseteq w.used
    /\ \A f \in Entities \ {e} : w.ent[f] # None => HeldIn(w, e) \cap HeldIn(w, f) \subseteq {None}

GoodWorld(w) == WorldType(w) /\ Listed(w) /\ Kinds(w) /\ OwnIds(w)

(* v is w and at most one new entity, of type T.                           *)
Grown(w, v, T) ==
  /\ \A e \in Entities : w.ent[e] # None =>
       v.ent[e] # None /\ v.ent[e].type = w.ent[e].type
  /\ \A e \in Entities : w.ent[e] = None /\ v.ent[e] # None => v.ent[e].type = T
  /\ \A t \in Types : \A p \in DOMAIN v.lists[t] :
       \/ p \in DOMAIN w.lists[t] /\ v.lists[t][p] = w.lists[t][p]
       \/ w.ent[v.lists[t][p]] = None
  /\ \A t \in Types \ {T} : v.lists[t] = w.lists[t]
  /\ \A t \in Types : \A p \in DOMAIN w.lists[t] :
       p \in DOMAIN v.lists[t] /\ v.lists[t][p] = w.lists[t][p]

(* But for m, the mobs and the work items of the two worlds are the same.  *)
Fixed == {"dummy_simple", "work_item"}
KeepsFixed(w, v, m) ==
  /\ \A e \in Entities \ {m} :
       (w.ent[e] # None /\ w.ent[e].type \in Fixed) \/ (v.ent[e] # None /\ v.ent[e].type \in Fixed)
         => v.ent[e] = w.ent[e]
  /\ v.lists["work_item"] = w.lists["work_item"]

-----------------------------------------------------------------------------
(***************************************************************************)
(* The inductive invariant                                                 *)
(***************************************************************************)
TickType ==
  /\ hasData \subseteq Clients
  /\ reload \in [Clients -> 0 .. HammerTicks]
  /\ todo \subseteq Types
  /\ current \in Types \cup {None}
  /\ index \in Nat \ {0}
  /\ ticked \subseteq Entities
  /\ disturbed \in BOOLEAN
  /\ place \in [Entities -> Nat]
  /\ rewards \in [Entities -> [Clients -> Nat]]

(* What the tick has still to visit stands where it stood or nearer to the *)
(* front, and nearer when its turn is over.                                *)
OrderIn(w) ==
  /\ \A e \in Entities : w.ent[e] = None => place[e] = 0
  /\ ~disturbed =>
       /\ current \notin todo
       /\ \A t \in Types : \A p \in DOMAIN w.lists[t] :
            place[w.lists[t][p]] > 0 /\ w.lists[t][p] \notin ticked =>
              IF t \in todo \/ (t = current /\ p >= index)
              THEN p <= place[w.lists[t][p]] ELSE p < place[w.lists[t][p]]

(* A living mob has paid nobody, a dead one at most one client once.       *)
PaysOnce(alive, paid) ==
  /\ alive => \A c \in Clients : paid[c] = 0
  /\ \A c \in Clients : paid[c] <= 1
  /\ \A c, d \in Clients : c # d => paid[c] = 0 \/ paid[d] = 0

MobsPay ==
  \A e \in Entities : Exists(e) /\ ent[e].type = "dummy_simple" =>
    PaysOnce(ent[e].alive, rewards[e])

IInv == GoodWorld(World) /\ TickType /\ OrderIn(World) /\ MobsPay

-----------------------------------------------------------------------------
LEMMA NoneIsNone == None \notin Entities /\ None \notin Clients /\ None \notin Ids
                    /\ None \notin Types /\ None \notin Entity
BY NoneAssumption

(* The world w with one entity more, of that type, owner and those ids.    *)
Made(w, type, owner, e, S, i) ==
  [lists |-> [w.lists EXCEPT ![type] = Append(@, e)],
   known |-> w.known \cup {type},
   ent |-> [w.ent EXCEPT ![e] = [type |-> type, ids |-> S \ {i}, snapID |-> i,
                                 owner |-> owner, alive |-> TRUE, wait |-> 0]],
   used |-> w.used \cup S]

(* What World.Spawn may make of a world.                                   *)
LEMMA SpawnedIs ==
  ASSUME NEW w, NEW type, NEW owner, NEW v \in Spawned(w, type, owner)
  PROVE  \E e \in Entities, S \in SUBSET (Ids \ w.used), i \in Ids \cup {None} :
           /\ w.ent[e] = None
           /\ (S = {} /\ i = None) \/ i \in S
           /\ v = Made(w, type, owner, e, S, i)
<1> DEFINE n == IF type = "spell_healing_rain" THEN 1 + SegmentIds ELSE 1
<1> HIDE DEF n
<1>1. v \in UNION {UNION {{Made(w, type, owner, e, S, i) : i \in IF S = {} THEN {None} ELSE S}
                          : S \in Given(w, n)}
                   : e \in {f \in Entities : w.ent[f] = None}}
  BY DEF Spawned, n, Made
<1>2. PICK e \in {f \in Entities : w.ent[f] = None} :
        v \in UNION {{Made(w, type, owner, e, S, i) : i \in IF S = {} THEN {None} ELSE S} : S \in Given(w, n)}
  BY <1>1
<1>3. PICK S \in Given(w, n) : v \in {Made(w, type, owner, e, S, i) : i \in IF S = {} THEN {None} ELSE S}
  BY <1>2
<1>4. PICK i \in IF S = {} THEN {None} ELSE S : v = Made(w, type, owner, e, S, i)
  BY <1>3
<1>5. S \in SUBSET (Ids \ w.used)
  BY DEF Given
<1>6. i \in Ids \cup {None} /\ ((S = {} /\ i = None) \/ i \in S)
  BY <1>5
<1>7. QED
  BY <1>4, <1>5, <1>6

LEMMA AppendIs ==
  ASSUME NEW S, NEW s \in Seq(S), NEW e \in S
  PROVE  /\ Append(s, e) \in Seq(S)
         /\ DOMAIN s = 1 .. Len(s) /\ Len(s) \in Nat
         /\ DOMAIN Append(s, e) = 1 .. Len(s) + 1
         /\ \A i \in DOMAIN s : i \in DOMAIN Append(s, e) /\ Append(s, e)[i] = s[i]
         /\ Append(s, e)[Len(s) + 1] = e
         /\ \A i \in DOMAIN Append(s, e) : i \in DOMAIN s \/ i = Len(s) + 1
OBVIOUS

LEMMA SpawnedGood ==
  ASSUME NEW w, GoodWorld(w), NEW T \in Types \ {"dummy_simple"}, NEW owner \in Clients \cup {None},
         T = "basic_projectile" => owner \in Clients,
         NEW v \in Spawned(w, T, owner)
  PROVE  /\ GoodWorld(v) /\ Grown(w, v, T)
         /\ \A e \in Entities : w.ent[e] # None => v.ent[e] = w.ent[e]
         /\ v.known = w.known \cup {T}
<1>1. PICK e \in Entities, S \in SUBSET (Ids \ w.used), i \in Ids \cup {None} :
        /\ w.ent[e] = None
        /\ (S = {} /\ i = None) \/ i \in S
        /\ v = Made(w, T, owner, e, S, i)
  BY SpawnedIs
<1> DEFINE r == [type |-> T, ids |-> S \ {i}, snapID |-> i,
                 owner |-> owner, alive |-> TRUE, wait |-> 0]
           s == w.lists[T]
<1>2. /\ v.lists = [w.lists EXCEPT ![T] = Append(s, e)]
      /\ v.known = w.known \cup {T}
      /\ v.ent = [w.ent EXCEPT ![e] = r]
      /\ v.used = w.used \cup S
      /\ v = [lists |-> v.lists, known |-> v.known, ent |-> v.ent, used |-> v.used]
  BY <1>1 DEF Made
<1>3. /\ w.lists \in [Types -> Seq(Entities)] /\ w.known \subseteq Types
      /\ w.ent \in [Entities -> Entity \cup {None}] /\ w.used \subseteq Ids
  BY DEF GoodWorld, WorldType
<1>4. r \in Entity /\ r # None /\ r.type = T /\ r.owner = owner /\ r.ids \cup {r.snapID} \subseteq S \cup {None}
      /\ r.ids = S \ {i} /\ r.snapID = i
  <2>1. r \in Entity
    BY DEF Entity
  <2>2. QED
    BY <2>1, NoneIsNone, <1>1
<1> HIDE DEF r
<1>5. s \in Seq(Entities)
  BY <1>3
<1>6. v.ent[e] = r /\ \A f \in Entities \ {e} : v.ent[f] = w.ent[f]
  BY <1>2, <1>3
<1>7. v.lists[T] = Append(s, e) /\ \A t \in Types \ {T} : v.lists[t] = w.lists[t]
  BY <1>2, <1>3
<1> HIDE DEF s
<1>8. Append(s, e) \in Seq(Entities)
  BY <1>5, AppendIs
<1>9. WorldType(v)
  <2>1. v.lists \in [Types -> Seq(Entities)]
    BY <1>2, <1>3, <1>8
  <2>2. v.ent \in [Entities -> Entity \cup {None}]
    BY <1>2, <1>3, <1>4
  <2>3. QED
    BY <1>2, <1>3, <2>1, <2>2 DEF WorldType
<1>10. Grown(w, v, T)
  <2>1. \A f \in Entities : w.ent[f] # None => f # e /\ v.ent[f] = w.ent[f]
    BY <1>1, <1>6
  <2>2. \A f \in Entities : w.ent[f] = None /\ v.ent[f] # None => v.ent[f].type = T
    BY <1>6, <1>4
  <2>3. \A p \in DOMAIN v.lists[T] :
          (p \in DOMAIN w.lists[T] /\ v.lists[T][p] = w.lists[T][p]) \/ w.ent[v.lists[T][p]] = None
    BY <1>7, <1>1, AppendIs, <1>5 DEF s
  <2>4. \A p \in DOMAIN w.lists[T] : p \in DOMAIN v.lists[T] /\ v.lists[T][p] = w.lists[T][p]
    BY <1>7, AppendIs, <1>5 DEF s
  <2>5. QED
    BY <1>7, <2>1, <2>2, <2>3, <2>4 DEF Grown
<1>11. Listed(v)
  <2>1. ASSUME NEW t \in Types, NEW p \in DOMAIN v.lists[t]
        PROVE  v.ent[v.lists[t][p]] # None /\ v.ent[v.lists[t][p]].type = t
    <3>1. CASE p \in DOMAIN w.lists[t] /\ v.lists[t][p] = w.lists[t][p]
      <4>1. w.ent[w.lists[t][p]] # None /\ w.ent[w.lists[t][p]].type = t /\ w.lists[t][p] \in Entities
        BY <3>1, <1>3 DEF GoodWorld, Listed
      <4>2. QED
        BY <4>1, <3>1, <1>10 DEF Grown
    <3>2. CASE t = T /\ p = Len(s) + 1
      BY <3>2, <1>7, <1>6, <1>4, <1>5, AppendIs
    <3>3. QED
      BY <3>1, <3>2, <1>7, <1>5, AppendIs DEF s
  <2>2. ASSUME NEW t \in Types, NEW p \in DOMAIN v.lists[t], NEW q \in DOMAIN v.lists[t],
               v.lists[t][p] = v.lists[t][q]
        PROVE  p = q
    <3>1. CASE t # T
      BY <3>1, <1>7, <2>2 DEF GoodWorld, Listed
    <3>2. CASE t = T
      <4>1. \A k \in DOMAIN s : s[k] # e /\ Append(s, e)[k] = s[k]
        BY <1>1, <1>5, AppendIs DEF GoodWorld, Listed, s
      <4>2. Append(s, e)[Len(s) + 1] = e
        BY <1>5, AppendIs
      <4>3. (p \in DOMAIN s \/ p = Len(s) + 1) /\ (q \in DOMAIN s \/ q = Len(s) + 1)
        BY <1>5, <1>7, <3>2, AppendIs
      <4>4. Append(s, e)[p] = Append(s, e)[q]
        BY <2>2, <3>2, <1>7
      <4>5. p \in DOMAIN s /\ q \in DOMAIN s => p = q
        BY <4>4, <4>1 DEF GoodWorld, Listed, s
      <4>6. QED
        BY <4>1, <4>2, <4>3, <4>4, <4>5
    <3>3. QED
      BY <3>1, <3>2
  <2>3. ASSUME NEW f \in Entities, v.ent[f] # None
        PROVE  \E k \in DOMAIN v.lists[v.ent[f].type] : v.lists[v.ent[f].type][k] = f
    <3>1. CASE f = e
      <4>1. Len(s) + 1 \in DOMAIN Append(s, e) /\ Append(s, e)[Len(s) + 1] = e
        BY <1>5, AppendIs
      <4>2. QED
        BY <4>1, <3>1, <1>6, <1>4, <1>7
    <3>2. CASE f # e
      <4>1. v.ent[f] = w.ent[f]
        BY <3>2, <1>6
      <4>2. w.ent[f].type \in Types
        BY <4>1, <2>3, <1>3 DEF Entity
      <4>3. PICK k \in DOMAIN w.lists[w.ent[f].type] : w.lists[w.ent[f].type][k] = f
        BY <4>1, <2>3 DEF GoodWorld, Listed
      <4>4. k \in DOMAIN v.lists[w.ent[f].type] /\ v.lists[w.ent[f].type][k] = f
        BY <4>2, <4>3, <1>10 DEF Grown
      <4>5. QED
        BY <4>1, <4>4
    <3>3. QED
      BY <3>1, <3>2
  <2>4. \A t \in Types : v.lists[t] # << >> => t \in v.known
    BY <1>2, <1>7 DEF GoodWorld, Listed
  <2>5. QED
    BY <2>1, <2>2, <2>3, <2>4 DEF Listed
<1>12. Kinds(v)
  BY <1>6, <1>4, <1>1 DEF GoodWorld, Kinds
<1>13. OwnIds(v)
  <2>1. \A f \in Entities \ {e} : v.ent[f] # None =>
          HeldIn(v, f) = HeldIn(w, f) /\ HeldIn(w, f) \ {None} \subseteq w.used
    BY <1>6 DEF GoodWorld, OwnIds, HeldIn
  <2>2. HeldIn(v, e) \subseteq S \cup {None}
    BY <1>6, <1>4 DEF HeldIn
  <2>3. S \cap w.used = {}
    OBVIOUS
  <2>4. \A f, g \in Entities \ {e} : f # g /\ v.ent[f] # None /\ v.ent[g] # None =>
          HeldIn(w, f) \cap HeldIn(w, g) \subseteq {None}
    BY <1>6 DEF GoodWorld, OwnIds
  <2>5. v.used = w.used \cup S
    BY <1>2
  <2>6. ASSUME NEW f \in Entities, v.ent[f] # None
        PROVE  HeldIn(v, f) \ {None} \subseteq v.used
    BY <2>1, <2>2, <2>5, <2>6
  <2>7. ASSUME NEW f \in Entities, NEW g \in Entities \ {f}, v.ent[f] # None, v.ent[g] # None
        PROVE  HeldIn(v, f) \cap HeldIn(v, g) \subseteq {None}
    <3>1. CASE f # e /\ g # e
      BY <3>1, <2>7, <2>4, <2>1
    <3>2. CASE f = e /\ g # e
      <4>1. HeldIn(v, g) \subseteq w.used \cup {None}
        BY <2>1, <2>7, <3>2
      <4>2. QED
        BY <4>1, <2>2, <3>2
    <3>3. CASE g = e /\ f # e
      <4>1. HeldIn(v, f) \subseteq w.used \cup {None}
        BY <2>1, <2>7, <3>3
      <4>2. QED
        BY <4>1, <2>2, <3>3
    <3>4. QED
      BY <3>1, <3>2, <3>3
  <2>8. QED
    BY <2>6, <2>7 DEF OwnIds
<1>14. \A f \in Entities : w.ent[f] # None => v.ent[f] = w.ent[f]
  BY <1>1, <1>6
<1>15. QED
  BY <1>2, <1>9, <1>10, <1>11, <1>12, <1>13, <1>14 DEF GoodWorld

(* What only changes who is alive and how long one waits keeps a world good.*)
LEMMA RefreshedGood ==
  ASSUME NEW w, GoodWorld(w),
         NEW v \in [lists : {w.lists}, known : {w.known},
                    ent : [Entities -> Entity \cup {None}], used : {w.used}],
         \A e \in Entities :
           /\ v.ent[e] = None <=> w.ent[e] = None
           /\ w.ent[e] # None =>
                /\ v.ent[e].type = w.ent[e].type /\ v.ent[e].owner = w.ent[e].owner
                /\ v.ent[e].ids = w.ent[e].ids /\ v.ent[e].snapID = w.ent[e].snapID
  PROVE  GoodWorld(v)
<1>1. WorldType(v) /\ v.lists = w.lists /\ v.known = w.known /\ v.used = w.used
  BY DEF GoodWorld, WorldType
<1>2. \A t \in Types : \A i \in DOMAIN w.lists[t] : w.lists[t][i] \in Entities
  BY DEF GoodWorld, WorldType
<1>3. Listed(v)
  BY <1>1, <1>2 DEF GoodWorld, Listed
<1>4. \A e \in Entities : w.ent[e] # None => HeldIn(v, e) = HeldIn(w, e)
  BY DEF HeldIn
<1>5. Kinds(v) /\ OwnIds(v)
  BY <1>1, <1>4 DEF GoodWorld, Kinds, OwnIds
<1>6. QED
  BY <1>1, <1>3, <1>5 DEF GoodWorld

(* The world w after the death of m.                                       *)
Dead(w, m) == [w EXCEPT !.ent[m].alive = FALSE, !.ent[m].wait = MobTicks]

LEMMA DeadGood ==
  ASSUME NEW w, GoodWorld(w), NEW m \in Entities, w.ent[m] # None
  PROVE  /\ GoodWorld(Dead(w, m))
         /\ Dead(w, m).lists = w.lists /\ Dead(w, m).known = w.known
         /\ \A e \in Entities \ {m} : Dead(w, m).ent[e] = w.ent[e]
         /\ Dead(w, m).ent[m] # None
         /\ Dead(w, m).ent[m].type = w.ent[m].type
         /\ ~Dead(w, m).ent[m].alive /\ Dead(w, m).ent[m].wait = MobTicks
<1> DEFINE r == [w.ent[m] EXCEPT !.alive = FALSE, !.wait = MobTicks]
           d == Dead(w, m)
<1>1. /\ w \in [lists : [Types -> Seq(Entities)], known : SUBSET Types,
                ent : [Entities -> Entity \cup {None}], used : SUBSET Ids]
      /\ w.ent[m] \in Entity
  BY DEF GoodWorld, WorldType
<1>2. /\ r \in Entity /\ r # None
      /\ r.type = w.ent[m].type /\ r.ids = w.ent[m].ids /\ r.snapID = w.ent[m].snapID
      /\ r.owner = w.ent[m].owner /\ ~r.alive /\ r.wait = MobTicks
  <2>1. r \in Entity
    BY <1>1, NumbersAssumption DEF Entity
  <2>2. r.type = w.ent[m].type /\ r.ids = w.ent[m].ids /\ r.snapID = w.ent[m].snapID
        /\ r.owner = w.ent[m].owner /\ ~r.alive /\ r.wait = MobTicks
    BY <1>1 DEF Entity
  <2>3. QED
    BY <2>1, <2>2, NoneIsNone
<1>3. /\ d.lists = w.lists /\ d.known = w.known /\ d.used = w.used
      /\ d.ent = [w.ent EXCEPT ![m] = r]
      /\ d \in [lists : {d.lists}, known : {d.known}, ent : {d.ent}, used : {d.used}]
  BY <1>1 DEF Dead
<1> HIDE DEF r, d
<1>4. d.ent[m] = r /\ \A e \in Entities \ {m} : d.ent[e] = w.ent[e]
  BY <1>1, <1>3
<1>5. d.ent \in [Entities -> Entity \cup {None}]
  BY <1>1, <1>2, <1>3
<1>6. GoodWorld(d)
  <2>1. d \in [lists : {w.lists}, known : {w.known},
               ent : [Entities -> Entity \cup {None}], used : {w.used}]
    BY <1>3, <1>5
  <2>2. QED
    BY <2>1, <1>2, <1>4, RefreshedGood
<1>7. QED
  BY <1>2, <1>3, <1>4, <1>6 DEF d

LEMMA KilledGood ==
  ASSUME NEW w, GoodWorld(w), NEW m \in Entities, w.ent[m] # None,
         NEW c \in Clients \cup {None}, NEW v \in Killed(w, m, c)
  PROVE  /\ GoodWorld(v) /\ Grown(w, v, "pickup")
         /\ \A e \in Entities \ {m} : w.ent[e] # None => v.ent[e] = w.ent[e]
         /\ ~v.ent[m].alive /\ v.ent[m].wait = MobTicks
         /\ w.known \subseteq v.known /\ v.known \subseteq w.known \cup {"pickup"}
         /\ c = None => v.lists = w.lists /\ v.known = w.known
<1> DEFINE d == Dead(w, m)
<1>1. /\ GoodWorld(d) /\ d.lists = w.lists /\ d.known = w.known
      /\ \A e \in Entities \ {m} : d.ent[e] = w.ent[e]
      /\ d.ent[m] # None /\ d.ent[m].type = w.ent[m].type
      /\ ~d.ent[m].alive /\ d.ent[m].wait = MobTicks
  BY DeadGood
<1>2. v \in IF c = None THEN {d} ELSE Spawned(d, "pickup", c)
  BY DEF Killed, Dead
<1> HIDE DEF d
<1>3. CASE c = None
  <2>1. v = d
    BY <1>2, <1>3
  <2>2. \A t \in Types : \A p \in DOMAIN w.lists[t] : w.lists[t][p] \in Entities
    BY DEF GoodWorld, WorldType
  <2>3. Grown(w, d, "pickup")
    BY <1>1 DEF Grown
  <2>4. QED
    BY <1>1, <2>1, <2>3
<1>4. CASE c # None
  <2>1. v \in Spawned(d, "pickup", c) /\ c \in Clients
    BY <1>2, <1>4
  <2>2. "pickup" \in Types \ {"dummy_simple"}
    BY DEF Types
  <2>3. /\ GoodWorld(v) /\ Grown(d, v, "pickup")
        /\ \A e \in Entities : d.ent[e] # None => v.ent[e] = d.ent[e]
        /\ v.known = d.known \cup {"pickup"}
    BY <2>1, <2>2, <1>1, SpawnedGood
  <2>4. \A e \in Entities : d.ent[e] # None <=> w.ent[e] # None
    BY <1>1
  <2>5. \A e \in Entities : d.ent[e].type = w.ent[e].type
    BY <1>1
  <2>6. \A t \in Types : \A p \in DOMAIN v.lists[t] : v.lists[t][p] \in Entities
    BY <2>3 DEF GoodWorld, WorldType
  <2>7. Grown(w, v, "pickup")
    BY <1>1, <2>3, <2>4, <2>5, <2>6 DEF Grown
  <2>8. QED
    BY <1>1, <1>4, <2>3, <2>4, <2>7
<1>5. QED
  BY <1>3, <1>4

LEMMA RemoveAtIs ==
  ASSUME NEW S, NEW s \in Seq(S), NEW i \in DOMAIN s
  PROVE  /\ RemoveAt(s, i) \in Seq(S)
         /\ DOMAIN s = 1 .. Len(s) /\ Len(s) \in Nat
         /\ DOMAIN RemoveAt(s, i) = 1 .. Len(s) - 1
         /\ \A p \in DOMAIN RemoveAt(s, i) :
              /\ p < i => p \in DOMAIN s /\ RemoveAt(s, i)[p] = s[p]
              /\ p >= i => p + 1 \in DOMAIN s /\ RemoveAt(s, i)[p] = s[p + 1]
<1> DEFINE a == SubSeq(s, 1, i - 1)
           b == SubSeq(s, i + 1, Len(s))
<1>1. Len(s) \in Nat /\ DOMAIN s = 1 .. Len(s) /\ i \in 1 .. Len(s)
  OBVIOUS
<1>2. a \in Seq(S) /\ Len(a) = i - 1 /\ \A p \in 1 .. i - 1 : a[p] = s[p]
  <2>1. \A p \in 1 .. i - 1 : p \in 1 .. Len(s)
    BY <1>1
  <2>2. 1 \in Int /\ i - 1 \in Int /\ i - 1 >= 0
    BY <1>1
  <2>3. QED
    BY <1>1, <2>1, <2>2
<1>3. b \in Seq(S) /\ Len(b) = Len(s) - i /\ \A p \in 1 .. Len(s) - i : b[p] = s[i + p]
  BY <1>1
<1> HIDE DEF a, b
<1>4. RemoveAt(s, i) = a \o b
  BY DEF RemoveAt, a, b
<1>5. /\ a \o b \in Seq(S) /\ Len(a \o b) = Len(s) - 1
      /\ \A p \in 1 .. Len(s) - 1 : (a \o b)[p] = IF p <= i - 1 THEN a[p] ELSE b[p - (i - 1)]
  <2>1. /\ a \o b \in Seq(S) /\ Len(a \o b) = Len(a) + Len(b)
        /\ \A p \in 1 .. Len(a) + Len(b) :
             (a \o b)[p] = IF p <= Len(a) THEN a[p] ELSE b[p - Len(a)]
    <3>1. a \in Seq(S) /\ b \in Seq(S)
      BY <1>2, <1>3
    <3>2. QED
      BY <3>1
  <2>2. Len(a) + Len(b) = Len(s) - 1 /\ Len(a) = i - 1
    BY <1>1, <1>2, <1>3
  <2>3. QED
    BY <2>1, <2>2
<1>6. ASSUME NEW p \in 1 .. Len(s) - 1
      PROVE  /\ p < i => p \in DOMAIN s /\ (a \o b)[p] = s[p]
             /\ p >= i => p + 1 \in DOMAIN s /\ (a \o b)[p] = s[p + 1]
  <2>1. p < i => (a \o b)[p] = s[p]
    BY <1>1, <1>2, <1>5
  <2>2. p >= i => p - (i - 1) \in 1 .. Len(s) - i /\ i + (p - (i - 1)) = p + 1
    BY <1>1
  <2>3. p >= i => (a \o b)[p] = s[p + 1]
    BY <1>1, <1>3, <1>5, <2>2
  <2>4. p \in 1 .. Len(s) /\ p + 1 \in 1 .. Len(s)
    BY <1>1
  <2>5. p \in DOMAIN s /\ p + 1 \in DOMAIN s
    BY <1>1, <2>4
  <2>6. QED
    BY <2>1, <2>3, <2>5
<1>7. DOMAIN (a \o b) = 1 .. Len(s) - 1
  BY <1>5
<1>8. QED
  BY <1>1, <1>4, <1>5, <1>6, <1>7

(* What was visited leaves its list, and what stood behind it moves up.    *)
MovedUp(w, v) ==
  \A p \in DOMAIN v.lists[current] :
    /\ p < index => p \in DOMAIN w.lists[current]
                    /\ v.lists[current][p] = w.lists[current][p]
    /\ p >= index => p + 1 \in DOMAIN w.lists[current]
                     /\ v.lists[current][p] = w.lists[current][p + 1]

LEMMA RemovedGood ==
  ASSUME NEW w, GoodWorld(w), NEW e, current \in Types, index \in DOMAIN w.lists[current],
         w.lists[current][index] = e, NEW v, v = Removed(w, e)
  PROVE  /\ GoodWorld(v) /\ e \in Entities
         /\ v.ent[e] = None /\ \A f \in Entities \ {e} : v.ent[f] = w.ent[f]
         /\ v.known = w.known
         /\ \A t \in Types \ {current} : v.lists[t] = w.lists[t]
         /\ MovedUp(w, v)
<1> DEFINE s == w.lists[current]
           r == RemoveAt(s, index)
<1>1. /\ w \in [lists : [Types -> Seq(Entities)], known : SUBSET Types,
                ent : [Entities -> Entity \cup {None}], used : SUBSET Ids]
      /\ s \in Seq(Entities) /\ index \in DOMAIN s /\ s[index] = e
  BY DEF GoodWorld, WorldType
<1>2. e \in Entities
  BY <1>1
<1>3. w.ent[e] # None /\ w.ent[e].type = current
  BY DEF GoodWorld, Listed
<1>4. /\ v.lists = [w.lists EXCEPT ![current] = r]
      /\ v.ent = [w.ent EXCEPT ![e] = None]
      /\ v.used = w.used \ {w.ent[e].snapID}
      /\ v.known = w.known
      /\ v \in [lists : {v.lists}, known : {v.known}, ent : {v.ent}, used : {v.used}]
  BY <1>1 DEF Removed
<1> HIDE DEF s, r
<1>5. /\ r \in Seq(Entities) /\ DOMAIN s = 1 .. Len(s) /\ Len(s) \in Nat
      /\ DOMAIN r = 1 .. Len(s) - 1
      /\ \A p \in DOMAIN r : /\ p < index => p \in DOMAIN s /\ r[p] = s[p]
                             /\ p >= index => p + 1 \in DOMAIN s /\ r[p] = s[p + 1]
  BY <1>1, RemoveAtIs DEF r
<1>6. v.ent[e] = None /\ \A f \in Entities \ {e} : v.ent[f] = w.ent[f]
  BY <1>1, <1>2, <1>4
<1>7. v.lists[current] = r /\ \A t \in Types \ {current} : v.lists[t] = w.lists[t]
  BY <1>1, <1>4
<1>8. WorldType(v)
  <2>1. v.lists \in [Types -> Seq(Entities)] /\ v.ent \in [Entities -> Entity \cup {None}]
    BY <1>1, <1>4, <1>5
  <2>2. QED
    BY <1>1, <1>4, <2>1 DEF WorldType
<1>9. \A i, j \in DOMAIN s : s[i] = s[j] => i = j
  BY DEF GoodWorld, Listed, s
<1>10. index \in 1 .. Len(s)
  BY <1>1, <1>5
<1>11. \A p \in DOMAIN r : \E k \in DOMAIN s : r[p] = s[k] /\ k # index
                                              /\ k = IF p < index THEN p ELSE p + 1
  BY <1>5, <1>10
<1>12. \A k \in DOMAIN s : k # index => \E p \in DOMAIN r : r[p] = s[k]
  <2>1. ASSUME NEW k \in DOMAIN s, k # index
        PROVE  \E p \in DOMAIN r : r[p] = s[k]
    <3>1. k \in 1 .. Len(s)
      BY <1>5
    <3>2. CASE k < index
      <4>1. k \in DOMAIN r
        BY <1>5, <1>10, <3>1, <3>2
      <4>2. QED
        BY <4>1, <3>2, <1>5
    <3>3. CASE k > index
      <4>1. k - 1 \in DOMAIN r /\ k - 1 >= index /\ (k - 1) + 1 = k
        BY <1>5, <1>10, <3>1, <3>3
      <4>2. QED
        BY <4>1, <1>5
    <3>4. QED
      BY <2>1, <3>1, <3>2, <3>3, <1>10
  <2>2. QED
    BY <2>1
<1>13. \A t \in Types : \A p \in DOMAIN v.lists[t] : v.lists[t][p] \in Entities /\ v.lists[t][p] # e
  <2>1. ASSUME NEW p \in DOMAIN r PROVE r[p] # e
    BY <1>1, <1>9, <1>11
  <2>2. ASSUME NEW t \in Types \ {current}, NEW p \in DOMAIN w.lists[t]
        PROVE  w.lists[t][p] # e
    BY <1>3 DEF GoodWorld, Listed
  <2>3. QED
    BY <2>1, <2>2, <1>7, <1>8 DEF WorldType
<1>14. Listed(v)
  <2>1. ASSUME NEW t \in Types, NEW p \in DOMAIN v.lists[t]
        PROVE  v.ent[v.lists[t][p]] # None /\ v.ent[v.lists[t][p]].type = t
    <3>1. \E k \in DOMAIN w.lists[t] : v.lists[t][p] = w.lists[t][k]
      BY <1>7, <1>11 DEF s
    <3>2. QED
      BY <3>1, <1>6, <1>13 DEF GoodWorld, Listed
  <2>2. ASSUME NEW t \in Types, NEW p \in DOMAIN v.lists[t], NEW q \in DOMAIN v.lists[t],
               v.lists[t][p] = v.lists[t][q]
        PROVE  p = q
    <3>1. CASE t # current
      BY <3>1, <1>7, <2>2 DEF GoodWorld, Listed
    <3>2. CASE t = current
      <4>1. p \in DOMAIN r /\ q \in DOMAIN r /\ r[p] = r[q]
        BY <3>2, <2>2, <1>7
      <4>2. PICK k \in DOMAIN s : r[p] = s[k] /\ k # index /\ k = IF p < index THEN p ELSE p + 1
        BY <4>1, <1>11
      <4>3. PICK l \in DOMAIN s : r[q] = s[l] /\ l # index /\ l = IF q < index THEN q ELSE q + 1
        BY <4>1, <1>11
      <4>4. k = l
        BY <4>1, <4>2, <4>3, <1>9
      <4>5. p \in Nat /\ q \in Nat /\ index \in Nat
        BY <4>1, <1>5, <1>10
      <4>6. QED
        BY <4>2, <4>3, <4>4, <4>5
    <3>3. QED
      BY <3>1, <3>2
  <2>3. ASSUME NEW f \in Entities, v.ent[f] # None
        PROVE  \E k \in DOMAIN v.lists[v.ent[f].type] : v.lists[v.ent[f].type][k] = f
    <3>1. f # e /\ v.ent[f] = w.ent[f] /\ w.ent[f].type \in Types
      BY <1>1, <1>6, <2>3 DEF Entity
    <3>2. PICK k \in DOMAIN w.lists[w.ent[f].type] : w.lists[w.ent[f].type][k] = f
      BY <2>3, <3>1 DEF GoodWorld, Listed
    <3>3. CASE w.ent[f].type = current
      BY <3>1, <3>2, <3>3, <1>1, <1>7, <1>12 DEF s
    <3>4. CASE w.ent[f].type # current
      BY <3>1, <3>2, <3>4, <1>7
    <3>5. QED
      BY <3>3, <3>4
  <2>4. \A t \in Types : v.lists[t] # << >> => t \in v.known
    <3>1. s # << >>
      BY <1>10, <1>5
    <3>2. QED
      BY <1>4, <1>7, <3>1 DEF GoodWorld, Listed, s
  <2>5. QED
    BY <2>1, <2>2, <2>3, <2>4 DEF Listed
<1>15. Kinds(v)
  BY <1>6 DEF GoodWorld, Kinds
<1>16. OwnIds(v)
  <2>1. \A f \in Entities : v.ent[f] # None => f # e /\ w.ent[f] # None /\ HeldIn(v, f) = HeldIn(w, f)
    BY <1>6 DEF HeldIn
  <2>2. \A f \in Entities : v.ent[f] # None =>
          /\ HeldIn(w, f) \ {None} \subseteq w.used
          /\ w.ent[e].snapID # None => w.ent[e].snapID \notin HeldIn(w, f)
    BY <2>1, <1>2, <1>3 DEF GoodWorld, OwnIds, HeldIn
  <2>3. \A f \in Entities : v.ent[f] # None => HeldIn(w, f) \ {None} \subseteq v.used
    BY <2>2, <1>4
  <2>4. QED
    BY <2>1, <2>3 DEF GoodWorld, OwnIds
<1>17. MovedUp(w, v)
  BY <1>5, <1>7 DEF MovedUp, s
<1>18. QED
  BY <1>2, <1>4, <1>6, <1>7, <1>8, <1>13, <1>14, <1>15, <1>16, <1>17 DEF GoodWorld


-----------------------------------------------------------------------------
(***************************************************************************)
(* The worlds that a step leads to                                         *)
(***************************************************************************)
LEMMA WorldIs ==
  /\ World.lists = lists /\ World.known = known /\ World.ent = ent /\ World.used = used
  /\ World' = [lists |-> lists', known |-> known', ent |-> ent', used |-> used']
BY DEF World

LEMMA BecomeIs ==
  ASSUME NEW w, GoodWorld(w), Become(w)
  PROVE  World' = w /\ GoodWorld(World)'
<1>1. w \in [lists : [Types -> Seq(Entities)], known : SUBSET Types,
             ent : [Entities -> Entity \cup {None}], used : SUBSET Ids]
  BY DEF GoodWorld, WorldType
<1>2. World' = w
  BY <1>1, WorldIs DEF Become
<1>3. GoodWorld(World')
  BY <1>2
<1>4. QED
  BY <1>2, <1>3

LEMMA GrownKeeps ==
  ASSUME NEW w, NEW v, NEW T \in Types \ Fixed, NEW m, Grown(w, v, T),
         \A e \in Entities \ {m} : w.ent[e] # None => v.ent[e] = w.ent[e]
  PROVE  KeepsFixed(w, v, m)
<1>1. "work_item" \in Types \ {T}
  BY DEF Types, Fixed
<1>2. QED
  BY <1>1 DEF Grown, KeepsFixed

LEMMA RemovedKeeps ==
  ASSUME NEW w, NEW v, NEW u, NEW m, NEW e \in Entities, KeepsFixed(w, v, m),
         GoodWorld(w), current \in Types \ Fixed,
         v.ent[e].type \notin Fixed, e # m, w.ent[e] # None, w.ent[e].type \notin Fixed,
         u.ent[e] = None, \A f \in Entities \ {e} : u.ent[f] = v.ent[f],
         \A t \in Types \ {current} : u.lists[t] = v.lists[t]
  PROVE  KeepsFixed(w, u, m)
<1>1. "work_item" \in Types \ {current}
  BY DEF Types, Fixed
<1>2. QED
  BY <1>1 DEF KeepsFixed

LEMMA VisitedIs ==
  ASSUME GoodWorld(World), TickType, Visiting
  PROVE  /\ current \in Types /\ index \in DOMAIN lists[current]
         /\ Visited \in Entities /\ Exists(Visited) /\ ent[Visited].type = current
<1>1. current \in Types /\ lists[current] \in Seq(Entities) /\ index \in 1 .. Len(lists[current])
  BY NoneIsNone, WorldIs DEF Visiting, TickType, GoodWorld, WorldType
<1>2. index \in DOMAIN lists[current] /\ Visited \in Entities
  BY <1>1 DEF Visited
<1>3. QED
  BY <1>1, <1>2, WorldIs DEF GoodWorld, Listed, Visited, Exists

(* A step that spawns an entity of type T and does nothing else to a world.*)
Spawns(T) ==
  /\ GoodWorld(World)' /\ Grown(World, World', T) /\ KeepsFixed(World, World', None)
  /\ \A e \in Entities : Exists(e) => ent'[e] = ent[e]

LEMMA SpawnStep ==
  ASSUME GoodWorld(World), NEW T \in Types \ Fixed, NEW c \in Clients,
         \E w \in Spawned(World, T, c) : Become(w)
  PROVE  Spawns(T)
<1>1. PICK w \in Spawned(World, T, c) : Become(w)
  OBVIOUS
<1>2. /\ GoodWorld(w) /\ Grown(World, w, T)
      /\ \A e \in Entities : World.ent[e] # None => w.ent[e] = World.ent[e]
  BY SpawnedGood DEF Fixed
<1>3. World' = w /\ GoodWorld(World)'
  BY <1>1, <1>2, BecomeIs
<1>4. KeepsFixed(World, World', None)
  BY <1>2, <1>3, GrownKeeps
<1>5. World'.ent = ent'
  BY WorldIs
<1>6. QED
  BY <1>2, <1>3, <1>4, <1>5, WorldIs DEF Spawns, Exists

LEMMA LivingMobsAre ==
  ASSUME GoodWorld(World), NEW m \in LivingMobs
  PROVE  /\ m \in Entities /\ Exists(m) /\ ent[m].type = "dummy_simple" /\ ent[m].alive
         /\ m \in Mobs /\ m # None
BY NoneIsNone, WorldIs DEF LivingMobs, GoodWorld, Kinds, Exists

(* A step in which the mob m dies, and else only a pickup may come.        *)
Kills(m) ==
  /\ GoodWorld(World)' /\ KeepsFixed(World, World', m)
  /\ ent'[m] # None /\ ent'[m].type = "dummy_simple" /\ ~ent'[m].alive /\ ent'[m].wait = MobTicks

LEMMA KillStep ==
  ASSUME GoodWorld(World), NEW m \in Entities, Exists(m), ent[m].type = "dummy_simple",
         NEW c \in Clients \cup {None}, NEW w \in Killed(World, m, c), Become(w)
  PROVE  /\ Kills(m) /\ Grown(World, World', "pickup")
         /\ \A e \in Entities \ {m} : Exists(e) => ent'[e] = ent[e]
         /\ known \subseteq known' /\ known' \subseteq known \cup {"pickup"}
         /\ c = None => lists' = lists
<1>1. World.ent[m] # None
  BY WorldIs DEF Exists
<1>2. /\ GoodWorld(w) /\ Grown(World, w, "pickup")
      /\ \A e \in Entities \ {m} : World.ent[e] # None => w.ent[e] = World.ent[e]
      /\ ~w.ent[m].alive /\ w.ent[m].wait = MobTicks
      /\ World.known \subseteq w.known /\ w.known \subseteq World.known \cup {"pickup"}
      /\ c = None => w.lists = World.lists /\ w.known = World.known
  BY <1>1, KilledGood
<1>3. World' = w /\ GoodWorld(World)'
  BY <1>2, BecomeIs
<1>4. "pickup" \in Types \ Fixed
  BY DEF Types, Fixed
<1>5. KeepsFixed(World, World', m)
  BY <1>2, <1>3, <1>4, GrownKeeps
<1>6. w.ent = ent' /\ w.lists = lists' /\ w.known = known'
  BY <1>3, WorldIs
<1>7. ent'[m] # None /\ ent'[m].type = "dummy_simple"
  BY <1>1, <1>2, <1>6, WorldIs DEF Grown
<1>8. QED
  BY <1>2, <1>3, <1>5, <1>6, <1>7, WorldIs DEF Kills, Exists

LEMMA MeleeStep ==
  ASSUME GoodWorld(World), NEW c \in Clients, FireMelee(c)
  PROVE  \E m \in LivingMobs :
           /\ Kills(m) /\ Grown(World, World', "pickup") /\ Reward(m, c)
           /\ \A e \in Entities \ {m} : Exists(e) => ent'[e] = ent[e]
<1>1. PICK m \in LivingMobs : (\E w \in Killed(World, m, c) : Become(w)) /\ Reward(m, c)
  BY DEF FireMelee
<1>2. PICK w \in Killed(World, m, c) : Become(w)
  BY <1>1
<1>3. QED
  BY <1>1, <1>2, LivingMobsAre, KillStep

(* What was visited is gone, the rest is as it was.                        *)
LEMMA PassingStep ==
  ASSUME GoodWorld(World), TickType, VisitPassing
  PROVE  GoodWorld(World)' /\ KeepsFixed(World, World', None)
<1>1. /\ current \in Types /\ index \in DOMAIN lists[current]
      /\ Visited \in Entities /\ Exists(Visited) /\ ent[Visited].type = current
  BY VisitedIs DEF VisitPassing
<1>2. current \in Types \ Fixed
  BY <1>1 DEF VisitPassing, Types, Fixed
<1>3. CASE UNCHANGED worldVars
  <2>1. World' = World
    BY <1>3 DEF World, worldVars
  <2>2. GoodWorld(World')
    BY <2>1
  <2>3. QED
    BY <2>1, <2>2 DEF KeepsFixed
<1>4. CASE Become(Removed(World, Visited))
  <2> DEFINE v == Removed(World, Visited)
  <2>1. /\ GoodWorld(v) /\ v.ent[Visited] = None
        /\ \A f \in Entities \ {Visited} : v.ent[f] = World.ent[f]
        /\ \A t \in Types \ {current} : v.lists[t] = World.lists[t]
    <3>1. World.lists[current][index] = Visited /\ index \in DOMAIN World.lists[current]
      BY <1>1, WorldIs DEF Visited
    <3>2. QED
      BY <3>1, <1>1, RemovedGood
  <2> HIDE DEF v
  <2>2. World' = v /\ GoodWorld(World)'
    BY <2>1, <1>4, BecomeIs DEF v
  <2>3. KeepsFixed(World, World, None)
    BY DEF KeepsFixed
  <2>4. Visited # None /\ World.ent[Visited] # None /\ World.ent[Visited].type \notin Fixed
    BY <1>1, <1>2, NoneIsNone, WorldIs DEF Exists
  <2>5. KeepsFixed(World, v, None)
    BY <1>1, <1>2, <2>1, <2>3, <2>4, RemovedKeeps
  <2>6. QED
    BY <2>2, <2>5
<1>5. QED
  BY <1>3, <1>4 DEF VisitPassing

LEMMA HitsStep ==
  ASSUME GoodWorld(World), TickType, VisitHits
  PROVE  \E m \in LivingMobs : Kills(m) /\ Reward(m, ent[Visited].owner) /\ ent[Visited].owner \in Clients
<1>1. /\ current \in Types /\ index \in DOMAIN lists[current]
      /\ Visited \in Entities /\ Exists(Visited) /\ ent[Visited].type = current
  BY VisitedIs DEF VisitHits
<1>2. current = "basic_projectile" /\ current \in Types \ Fixed
  BY <1>1 DEF VisitHits, Types, Fixed
<1>3. ent[Visited].owner \in Clients
  BY <1>1, <1>2, WorldIs DEF GoodWorld, Kinds, Exists
<1>4. PICK m \in LivingMobs : \E w \in Killed(World, m, ent[Visited].owner) :
        /\ Reward(m, ent[Visited].owner)
        /\ Become(Removed(w, Visited)) \/ Become(w)
  BY DEF VisitHits
<1>5. PICK w \in Killed(World, m, ent[Visited].owner) :
        /\ Reward(m, ent[Visited].owner)
        /\ Become(Removed(w, Visited)) \/ Become(w)
  BY <1>4
<1>6. m \in Entities /\ Exists(m) /\ ent[m].type = "dummy_simple" /\ m # Visited /\ m # None
  BY <1>1, <1>2, LivingMobsAre
<1>7. CASE Become(w)
  BY <1>3, <1>5, <1>6, <1>7, KillStep
<1>8. CASE Become(Removed(w, Visited))
  <2> DEFINE v == Removed(w, Visited)
  <2>1. World.ent[m] # None /\ World.ent[Visited] # None /\ World.ent[Visited].type = current
    BY <1>1, <1>6, WorldIs DEF Exists
  <2>2. /\ GoodWorld(w) /\ Grown(World, w, "pickup")
        /\ \A e \in Entities \ {m} : World.ent[e] # None => w.ent[e] = World.ent[e]
        /\ ~w.ent[m].alive /\ w.ent[m].wait = MobTicks
    BY <2>1, <1>3, <1>6, KilledGood
  <2>3. "pickup" \in Types \ Fixed
    BY DEF Types, Fixed
  <2>4. KeepsFixed(World, w, m)
    BY <2>2, <2>3, GrownKeeps
  <2>5. index \in DOMAIN w.lists[current] /\ w.lists[current][index] = Visited
    BY <1>1, <2>2, WorldIs DEF Grown, Visited
  <2>6. /\ GoodWorld(v) /\ v.ent[Visited] = None
        /\ \A f \in Entities \ {Visited} : v.ent[f] = w.ent[f]
        /\ \A t \in Types \ {current} : v.lists[t] = w.lists[t]
    BY <1>1, <2>2, <2>5, RemovedGood
  <2> HIDE DEF v
  <2>7. World' = v /\ GoodWorld(World)'
    BY <2>6, <1>8, BecomeIs DEF v
  <2>8. w.ent[Visited].type \notin Fixed /\ World.ent[Visited].type \notin Fixed
    BY <1>1, <1>2, <1>6, <2>1, <2>2
  <2>9. KeepsFixed(World, v, m)
    BY <1>1, <1>2, <1>6, <2>1, <2>4, <2>6, <2>8, RemovedKeeps
  <2>10. ent'[m] = w.ent[m] /\ ent'[m] # None /\ ent'[m].type = "dummy_simple"
    <3>1. ent' = v.ent
      BY <2>7, WorldIs
    <3>2. w.ent[m] # None /\ w.ent[m].type = World.ent[m].type
      BY <2>1, <2>2, <1>6 DEF Grown
    <3>3. QED
      BY <3>1, <3>2, <2>6, <1>6, WorldIs
  <2>11. Kills(m)
    BY <2>2, <2>7, <2>9, <2>10 DEF Kills, Exists
  <2>12. QED
    BY <1>3, <1>5, <2>11
<1>9. QED
  BY <1>5, <1>7, <1>8

LEMMA RefreshStep ==
  ASSUME GoodWorld(World), UNCHANGED <<lists, known, used>>,
         ent' \in [Entities -> Entity \cup {None}],
         \A e \in Entities :
           /\ ent'[e] = None <=> ent[e] = None
           /\ ent[e] # None =>
                /\ ent'[e].type = ent[e].type /\ ent'[e].owner = ent[e].owner
                /\ ent'[e].ids = ent[e].ids /\ ent'[e].snapID = ent[e].snapID
  PROVE  GoodWorld(World)'
<1>1. World' \in [lists : {World.lists}, known : {World.known},
                  ent : [Entities -> Entity \cup {None}], used : {World.used}]
  BY WorldIs
<1>2. World'.ent = ent' /\ World.ent = ent
  BY WorldIs
<1> DEFINE v == World'
<1>3. GoodWorld(v)
  <2> HIDE DEF v
  <2>1. v \in [lists : {World.lists}, known : {World.known},
               ent : [Entities -> Entity \cup {None}], used : {World.used}]
    BY <1>1 DEF v
  <2>2. v.ent = ent'
    BY <1>2 DEF v
  <2>3. QED
    BY <2>1, <2>2, <1>2, RefreshedGood
<1>4. QED
  BY <1>3

LEMMA EntIs ==
  ASSUME GoodWorld(World)
  PROVE  /\ ent \in [Entities -> Entity \cup {None}]
         /\ \A e \in Entities : Exists(e) => ent[e] \in Entity
         /\ lists \in [Types -> Seq(Entities)] /\ known \subseteq Types
BY WorldIs DEF GoodWorld, WorldType, Exists

(* A step that gives an entity a new alive and a new wait.                 *)
LEMMA SetStep ==
  ASSUME GoodWorld(World), UNCHANGED <<lists, known, used>>, NEW e \in Entities, Exists(e),
         NEW r \in Entity,
         r.type = ent[e].type, r.owner = ent[e].owner, r.ids = ent[e].ids, r.snapID = ent[e].snapID,
         ent' = [ent EXCEPT ![e] = r]
  PROVE  /\ GoodWorld(World)' /\ KeepsFixed(World, World', e)
         /\ ent'[e] # None /\ ent'[e] = r
         /\ \A f \in Entities \ {e} : ent'[f] = ent[f]
<1>1. r # None
  BY NoneIsNone
<1>2. ent'[e] = r /\ \A f \in Entities \ {e} : ent'[f] = ent[f]
  BY EntIs
<1>3. ent' \in [Entities -> Entity \cup {None}]
  BY EntIs
<1>4. GoodWorld(World)'
  BY <1>1, <1>2, <1>3, RefreshStep DEF Exists
<1>5. KeepsFixed(World, World', e)
  BY <1>2, WorldIs DEF KeepsFixed
<1>6. QED
  BY <1>1, <1>2, <1>4, <1>5

LEMMA HammerStep ==
  ASSUME GoodWorld(World), NEW c \in Clients, NEW e \in Entities, FireHammer(c, e)
  PROVE  /\ GoodWorld(World)' /\ KeepsFixed(World, World', e)
         /\ Exists(e)' /\ ent'[e].type = "work_item" /\ ent'[e].alive /\ ent'[e].wait = ItemTicks
         /\ \A f \in Entities \ {e} : ent'[f] = ent[f]
<1>1. Exists(e) /\ ent[e].type = "work_item" /\ ent[e].alive
      /\ ent' = [ent EXCEPT ![e].wait = ItemTicks] /\ UNCHANGED <<lists, known, used>>
  BY DEF FireHammer
<1> DEFINE r == [ent[e] EXCEPT !.wait = ItemTicks]
<1>2. /\ r \in Entity /\ r.type = ent[e].type /\ r.owner = ent[e].owner /\ r.ids = ent[e].ids
      /\ r.snapID = ent[e].snapID /\ r.alive = ent[e].alive /\ r.wait = ItemTicks
  BY <1>1, EntIs, NumbersAssumption DEF Entity
<1>3. ent' = [ent EXCEPT ![e] = r]
  BY <1>1
<1> HIDE DEF r
<1>4. /\ GoodWorld(World)' /\ KeepsFixed(World, World', e)
      /\ ent'[e] # None /\ ent'[e] = r /\ \A f \in Entities \ {e} : ent'[f] = ent[f]
  BY <1>1, <1>2, <1>3, SetStep
<1>5. QED
  BY <1>1, <1>2, <1>4 DEF Exists

LEMMA WorkStep ==
  ASSUME GoodWorld(World), TickType, VisitWorkItem
  PROVE  /\ GoodWorld(World)' /\ KeepsFixed(World, World', Visited)
         /\ Visited \in Entities /\ Exists(Visited) /\ ent[Visited].type = "work_item"
         /\ ent'[Visited] # None /\ ent'[Visited].type = "work_item"
         /\ ent'[Visited].alive = IsThere(Visited) /\ ent'[Visited].wait = ent[Visited].wait
         /\ \A f \in Entities \ {Visited} : ent'[f] = ent[f]
<1>1. Visited \in Entities /\ Exists(Visited) /\ ent[Visited].type = "work_item"
  BY VisitedIs DEF VisitWorkItem
<1>2. PICK e \in Entities : e = Visited
  BY <1>1
<1>3. ent' = [ent EXCEPT ![e].alive = IsThere(e)] /\ UNCHANGED <<lists, known, used>>
  BY <1>2 DEF VisitWorkItem
<1>4. Exists(e) /\ ent[e] \in Entity /\ IsThere(e) \in BOOLEAN
  BY <1>1, <1>2, EntIs DEF IsThere
<1> DEFINE r == [ent[e] EXCEPT !.alive = IsThere(e)]
<1>5. /\ r \in Entity /\ r.type = ent[e].type /\ r.owner = ent[e].owner /\ r.ids = ent[e].ids
      /\ r.snapID = ent[e].snapID /\ r.alive = IsThere(e) /\ r.wait = ent[e].wait
  BY <1>4 DEF Entity
<1>6. ent' = [ent EXCEPT ![e] = r]
  BY <1>3
<1> HIDE DEF r
<1>7. /\ GoodWorld(World)' /\ KeepsFixed(World, World', e)
      /\ ent'[e] # None /\ ent'[e] = r /\ \A f \in Entities \ {e} : ent'[f] = ent[f]
  BY <1>3, <1>4, <1>5, <1>6, SetStep
<1>8. QED
  BY <1>1, <1>2, <1>5, <1>7

(* A visited mob stays, comes back or falls.                               *)
Revives(m) ==
  /\ ~ent[m].alive /\ ent[m].wait = 0
  /\ ent'[m].alive /\ ent'[m].wait = 0 /\ \A f \in Entities \ {m} : ent'[f] = ent[f]
  /\ lists' = lists /\ rewards' = [rewards EXCEPT ![m] = [c \in Clients |-> 0]]

LEMMA MobStep ==
  ASSUME GoodWorld(World), TickType, VisitMob
  PROVE  /\ Visited \in Mobs /\ Exists(Visited) /\ ent[Visited].type = "dummy_simple"
         /\ GoodWorld(World)' /\ KeepsFixed(World, World', Visited)
         /\ ent'[Visited] # None /\ ent'[Visited].type = "dummy_simple"
         /\ \A e \in Entities \ {Visited} : Exists(e) => ent'[e] = ent[e]
         /\ lists' = lists /\ known' = known
         /\ Grown(World, World', "pickup")
         /\ \/ UNCHANGED <<worldVars, rewards>>
            \/ Revives(Visited)
            \/ Kills(Visited) /\ ent[Visited].alive /\ UNCHANGED rewards
<1>1. PICK e \in Entities : e = Visited /\ Exists(e) /\ ent[e].type = "dummy_simple"
  BY VisitedIs DEF VisitMob
<1>2. e \in Mobs
  BY <1>1, WorldIs DEF GoodWorld, Kinds, Exists
<1>3. CASE UNCHANGED <<worldVars, rewards>>
  <2>1. World' = World
    BY <1>3 DEF World, worldVars
  <2>2. GoodWorld(World')
    BY <2>1
  <2>3. \A t \in Types : \A p \in DOMAIN World.lists[t] : World.lists[t][p] \in Entities
    BY DEF GoodWorld, WorldType
  <2>4. KeepsFixed(World, World', e) /\ Grown(World, World', "pickup")
    BY <2>1 DEF KeepsFixed, Grown
  <2>5. ent[e] # None /\ ent' = ent /\ lists' = lists /\ known' = known
    BY <1>3, <1>1 DEF Exists, worldVars
  <2>6. QED
    BY <1>1, <1>2, <1>3, <2>2, <2>4, <2>5
<1>4. CASE /\ ~ent[e].alive /\ ent[e].wait = 0
           /\ ent' = [ent EXCEPT ![e].alive = TRUE]
           /\ rewards' = [rewards EXCEPT ![e] = [c \in Clients |-> 0]]
           /\ UNCHANGED <<lists, known, used>>
  <2> DEFINE r == [ent[e] EXCEPT !.alive = TRUE]
  <2>1. /\ r \in Entity /\ r.type = ent[e].type /\ r.owner = ent[e].owner /\ r.ids = ent[e].ids
        /\ r.snapID = ent[e].snapID /\ r.alive /\ r.wait = 0
    BY <1>1, <1>4, EntIs DEF Entity
  <2>2. ent' = [ent EXCEPT ![e] = r]
    BY <1>4
  <2> HIDE DEF r
  <2>3. /\ GoodWorld(World)' /\ KeepsFixed(World, World', e)
        /\ ent'[e] # None /\ ent'[e] = r /\ \A f \in Entities \ {e} : ent'[f] = ent[f]
    BY <1>1, <1>4, <2>1, <2>2, SetStep
  <2>4. ent'[e].type = ent[e].type /\ ent'[e].alive /\ ent'[e].wait = 0
    BY <2>1, <2>3
  <2>5. Revives(e) /\ known' = known
    BY <1>4, <2>3, <2>4 DEF Revives
  <2>6. Grown(World, World', "pickup")
    <3>1. \A f \in Entities : ent'[f].type = ent[f].type /\ (ent'[f] # None <=> ent[f] # None)
      BY <1>1, <2>3, <2>4 DEF Exists
    <3>2. QED
      BY <1>4, <3>1, WorldIs DEF Grown
  <2>7. QED
    BY <1>1, <1>2, <1>4, <2>3, <2>4, <2>5, <2>6
<1>5. CASE /\ ent[e].alive
           /\ \E w \in Killed(World, e, None) : Become(w)
           /\ UNCHANGED rewards
  <2>1. PICK w \in Killed(World, e, None) : Become(w)
    BY <1>5
  <2>2. None \in Clients \cup {None}
    OBVIOUS
  <2>3. /\ Kills(e) /\ Grown(World, World', "pickup")
        /\ \A f \in Entities \ {e} : Exists(f) => ent'[f] = ent[f]
        /\ lists' = lists
    BY <1>1, <2>1, <2>2, KillStep
  <2>4. known' = known
    BY <1>1, <2>1, <2>2, KilledGood, WorldIs DEF Become, Exists
  <2>5. QED
    BY <1>1, <1>2, <1>5, <2>3, <2>4 DEF Kills
<1>6. QED
  BY <1>1, <1>3, <1>4, <1>5 DEF VisitMob

LEMMA BeginStep ==
  ASSUME GoodWorld(World), BeginTick
  PROVE  /\ GoodWorld(World)'
         /\ \A e \in Entities :
              /\ Exists(e)' <=> Exists(e)
              /\ Exists(e) => /\ ent'[e].type = ent[e].type /\ ent'[e].alive = ent[e].alive
                              /\ ent'[e].wait = IF ent[e].wait > 0 THEN ent[e].wait - 1 ELSE 0
<1>1. ent' = [e \in Entities |-> IF Exists(e) /\ ent[e].wait > 0
                                 THEN [ent[e] EXCEPT !.wait = @ - 1] ELSE ent[e]]
      /\ UNCHANGED <<lists, known, used>>
  BY DEF BeginTick
<1>2. ASSUME NEW e \in Entities, Exists(e)
      PROVE  /\ ent'[e] \in Entity /\ ent'[e] # None
             /\ ent'[e].type = ent[e].type /\ ent'[e].owner = ent[e].owner
             /\ ent'[e].ids = ent[e].ids /\ ent'[e].snapID = ent[e].snapID
             /\ ent'[e].alive = ent[e].alive
             /\ ent'[e].wait = IF ent[e].wait > 0 THEN ent[e].wait - 1 ELSE 0
  <2>1. ent[e] \in Entity /\ ent[e].wait \in Nat
    BY <1>2, EntIs DEF Entity
  <2>2. CASE ent[e].wait > 0
    <3>1. ent'[e] = [ent[e] EXCEPT !.wait = ent[e].wait - 1] /\ ent[e].wait - 1 \in Nat
      BY <1>1, <1>2, <2>1, <2>2
    <3>2. ent'[e] \in Entity
      BY <3>1, <2>1 DEF Entity
    <3>3. QED
      BY <2>1, <2>2, <3>1, <3>2, NoneIsNone DEF Entity
  <2>3. CASE ~(ent[e].wait > 0)
    <3>1. ent'[e] = ent[e] /\ ent[e].wait = 0
      BY <1>1, <2>1, <2>3
    <3>2. QED
      BY <2>1, <3>1, NoneIsNone
  <2>4. QED
    BY <2>2, <2>3
<1>3. \A e \in Entities : ~Exists(e) => ent'[e] = None
  BY <1>1 DEF Exists
<1>4. ent' \in [Entities -> Entity \cup {None}]
  <2>1. \A e \in Entities : ent'[e] \in Entity \cup {None}
    BY <1>2, <1>3
  <2>2. QED
    BY <1>1, <2>1
<1>5. GoodWorld(World)'
  BY <1>1, <1>2, <1>3, <1>4, RefreshStep DEF Exists
<1>6. QED
  BY <1>2, <1>3, <1>5 DEF Exists

LEMMA ReloadStep ==
  ASSUME GoodWorld(World), LuaReload
  PROVE  GoodWorld(World)' /\ \A e \in Entities : ~Exists(e)'
<1>1. /\ lists' = [t \in Types |-> << >>] /\ known' = {} /\ ent' = [e \in Entities |-> None]
      /\ used' = used
  BY DEF LuaReload
<1> DEFINE v == World'
<1>2. /\ v.lists = lists' /\ v.known = known' /\ v.ent = ent' /\ v.used = used'
      /\ v \in [lists : {lists'}, known : {known'}, ent : {ent'}, used : {used'}]
  BY WorldIs
<1>3. used \subseteq Ids
  BY WorldIs DEF GoodWorld, WorldType
<1>4. \A e \in Entities : v.ent[e] = None
  BY <1>1, <1>2
<1>5. GoodWorld(v)
  <2> HIDE DEF v
  <2>1. WorldType(v)
    <3>1. << >> \in Seq(Entities) /\ {} \subseteq Types
      OBVIOUS
    <3>2. lists' \in [Types -> Seq(Entities)] /\ ent' \in [Entities -> Entity \cup {None}]
      BY <1>1, <3>1
    <3>3. v \in [lists : [Types -> Seq(Entities)], known : SUBSET Types,
                 ent : [Entities -> Entity \cup {None}], used : SUBSET Ids]
      BY <1>1, <1>2, <1>3, <3>2
    <3>4. QED
      BY <3>3 DEF WorldType
  <2>2. \A t \in Types : v.lists[t] = << >> /\ DOMAIN v.lists[t] = {}
    BY <1>1, <1>2
  <2>3. Listed(v)
    BY <2>2, <1>4 DEF Listed
  <2>4. Kinds(v) /\ OwnIds(v)
    BY <1>4 DEF Kinds, OwnIds
  <2>5. QED
    BY <2>1, <2>3, <2>4 DEF GoodWorld
<1>6. QED
  BY <1>4, <1>5, <1>2 DEF Exists

LEMMA SameWorld ==
  ASSUME GoodWorld(World), UNCHANGED worldVars
  PROVE  World' = World /\ GoodWorld(World)' /\ ent' = ent /\ lists' = lists /\ known' = known
<1>1. World' = World
  BY DEF World, worldVars
<1>2. GoodWorld(World')
  BY <1>1
<1>3. QED
  BY <1>1, <1>2 DEF worldVars

LEMMA ProjectileStep ==
  ASSUME GoodWorld(World), NEW c \in Clients, FireProjectile(c)
  PROVE  Spawns("basic_projectile")
<1>1. "basic_projectile" \in Types \ Fixed
  BY DEF Types, Fixed
<1>2. QED
  BY <1>1, SpawnStep DEF FireProjectile

LEMMA SpellStep ==
  ASSUME GoodWorld(World), NEW c \in Clients, CastSpell(c)
  PROVE  Spawns("spell_healing_rain")
<1>1. "spell_healing_rain" \in Types \ Fixed
  BY DEF Types, Fixed
<1>2. QED
  BY <1>1, SpawnStep DEF CastSpell

LEMMA WorldStep ==
  ASSUME GoodWorld(World), TickType, [Next]_vars
  PROVE  GoodWorld(World)'
<1>1. ASSUME NEW c \in Clients, FireMelee(c) PROVE GoodWorld(World)'
  BY <1>1, MeleeStep DEF Kills
<1>2. ASSUME NEW c \in Clients, FireProjectile(c) PROVE GoodWorld(World)'
  BY <1>2, ProjectileStep DEF Spawns
<1>3. ASSUME NEW c \in Clients, CastSpell(c) PROVE GoodWorld(World)'
  BY <1>3, SpellStep DEF Spawns
<1>4. ASSUME NEW c \in Clients, NEW e \in Entities, FireHammer(c, e) PROVE GoodWorld(World)'
  BY <1>4, HammerStep
<1>5. ASSUME NEW c \in Clients, Leave(c) PROVE GoodWorld(World)'
  BY <1>5, SameWorld DEF Leave
<1>6. CASE LuaReload
  BY <1>6, ReloadStep
<1>7. CASE BeginTick
  BY <1>7, BeginStep
<1>8. CASE NextType
  BY <1>8, SameWorld DEF NextType
<1>9. CASE EndType
  BY <1>9, SameWorld DEF EndType
<1>10. CASE VisitPassing
  BY <1>10, PassingStep
<1>11. CASE VisitRainFails
  BY <1>11, SameWorld DEF VisitRainFails
<1>12. CASE VisitHits
  BY <1>12, HitsStep DEF Kills
<1>13. CASE VisitMob
  BY <1>13, MobStep
<1>14. CASE VisitWorkItem
  BY <1>14, WorkStep
<1>15. CASE UNCHANGED vars
  BY <1>15, SameWorld DEF vars
<1>16. QED
  BY <1>1, <1>2, <1>3, <1>4, <1>5, <1>6, <1>7, <1>8, <1>9, <1>10, <1>11, <1>12, <1>13, <1>14, <1>15
     DEF Next, Tick

-----------------------------------------------------------------------------
(***************************************************************************)
(* The types of the tick, and the rains                                    *)
(***************************************************************************)
LEMMA PlaceIs ==
  ASSUME GoodWorld(World), NEW e \in Entities
  PROVE  /\ ~Exists(e) => PlaceOf(e) = 0
         /\ Exists(e) => /\ PlaceOf(e) \in DOMAIN lists[ent[e].type]
                         /\ lists[ent[e].type][PlaceOf(e)] = e
                         /\ PlaceOf(e) \in Nat \ {0}
                         /\ \A p \in DOMAIN lists[ent[e].type] :
                              lists[ent[e].type][p] = e => p = PlaceOf(e)
<1>1. ~Exists(e) => PlaceOf(e) = 0
  BY DEF PlaceOf
<1>2. ASSUME Exists(e)
      PROVE  /\ PlaceOf(e) \in DOMAIN lists[ent[e].type]
             /\ lists[ent[e].type][PlaceOf(e)] = e
             /\ PlaceOf(e) \in Nat \ {0}
             /\ \A p \in DOMAIN lists[ent[e].type] :
                  lists[ent[e].type][p] = e => p = PlaceOf(e)
  <2> DEFINE s == lists[ent[e].type]
  <2>1. ent[e].type \in Types /\ s \in Seq(Entities)
    BY <1>2, EntIs DEF Entity
  <2>2. \A i, j \in DOMAIN s : s[i] = s[j] => i = j
    BY <2>1, WorldIs DEF GoodWorld, Listed
  <2>3. \E i \in DOMAIN s : s[i] = e
    BY <1>2, WorldIs DEF GoodWorld, Listed, Exists
  <2>4. e \in Range(s)
    BY <2>3 DEF Range
  <2>5. PlaceOf(e) = CHOOSE i \in DOMAIN s : s[i] = e
    BY <1>2, <2>4 DEF PlaceOf
  <2> HIDE DEF s
  <2>6. PlaceOf(e) \in DOMAIN s /\ s[PlaceOf(e)] = e
    BY <2>3, <2>5
  <2>7. DOMAIN s = 1 .. Len(s) /\ Len(s) \in Nat
    BY <2>1
  <2>8. PlaceOf(e) \in Nat \ {0}
    BY <2>6, <2>7
  <2>9. \A p \in DOMAIN s : s[p] = e => p = PlaceOf(e)
    BY <2>2, <2>6
  <2>10. QED
    BY <2>6, <2>8, <2>9 DEF s
<1>3. QED
  BY <1>1, <1>2

LEMMA RewardType ==
  ASSUME TickType, NEW m \in Entities, NEW c \in Clients, Reward(m, c)
  PROVE  /\ rewards' \in [Entities -> [Clients -> Nat]]
         /\ \A e \in Entities \ {m} : rewards'[e] = rewards[e]
         /\ \A d \in Clients \ {c} : rewards'[m][d] = rewards[m][d]
         /\ rewards'[m][c] = rewards[m][c] \/ rewards'[m][c] = rewards[m][c] + 1
<1>1. rewards \in [Entities -> [Clients -> Nat]]
  BY DEF TickType
<1>2. CASE c \in hasData
  <2>1. rewards' = [rewards EXCEPT ![m] = [rewards[m] EXCEPT ![c] = rewards[m][c] + 1]]
    BY <1>2 DEF Reward
  <2> DEFINE r == [rewards[m] EXCEPT ![c] = rewards[m][c] + 1]
  <2>2. /\ r \in [Clients -> Nat] /\ r[c] = rewards[m][c] + 1
        /\ \A d \in Clients \ {c} : r[d] = rewards[m][d]
    BY <1>1
  <2>3. rewards' = [rewards EXCEPT ![m] = r]
    BY <2>1
  <2> HIDE DEF r
  <2>4. rewards'[m] = r /\ \A e \in Entities \ {m} : rewards'[e] = rewards[e]
    BY <1>1, <2>3
  <2>5. QED
    BY <1>1, <2>2, <2>3, <2>4
<1>3. CASE c \notin hasData
  BY <1>1, <1>3 DEF Reward
<1>4. QED
  BY <1>2, <1>3

LEMMA TickTypeStep ==
  ASSUME GoodWorld(World), TickType, [Next]_vars
  PROVE  TickType'
<1>1. HammerTicks \in Nat \ {0}
  BY NumbersAssumption
<1>2. AfterVisit \in Nat \ {0}
  BY DEF TickType, AfterVisit
<1>3. ASSUME NEW e \in Entities, Goes(e) \/ (Forget(e) /\ index' = AfterVisit)
      PROVE  /\ index' \in Nat \ {0} /\ ticked' \subseteq Entities
             /\ place' \in [Entities -> Nat]
  BY <1>2, <1>3 DEF Goes, Forget, TickType
<1>4. ASSUME NEW c \in Clients, CanFire(c), \E n \in 0 .. 1 : reload' = [reload EXCEPT ![c] = n]
      PROVE  reload' \in [Clients -> 0 .. HammerTicks]
  BY <1>1, <1>4 DEF TickType
<1>5. ASSUME NEW c \in Clients, FireMelee(c) PROVE TickType'
  <2>1. PICK m \in LivingMobs : Reward(m, c)
    BY <1>5, MeleeStep
  <2>2. rewards' \in [Entities -> [Clients -> Nat]]
    BY <2>1, LivingMobsAre, RewardType
  <2>3. reload' \in [Clients -> 0 .. HammerTicks]
    BY <1>4, <1>5 DEF FireMelee
  <2>4. QED
    BY <1>5, <2>2, <2>3 DEF FireMelee, TickType, tickVars
<1>6. ASSUME NEW c \in Clients, FireProjectile(c) PROVE TickType'
  <2>1. reload' \in [Clients -> 0 .. HammerTicks]
    BY <1>4, <1>6 DEF FireProjectile
  <2>2. QED
    BY <1>6, <2>1 DEF FireProjectile, TickType, tickVars
<1>7. ASSUME NEW c \in Clients, CastSpell(c) PROVE TickType'
  BY <1>7 DEF CastSpell, TickType, tickVars
<1>8. ASSUME NEW c \in Clients, NEW e \in Entities, FireHammer(c, e) PROVE TickType'
  <2>1. rewards' \in [Entities -> [Clients -> Nat]]
    BY <1>8, RewardType DEF FireHammer
  <2>2. QED
    BY <1>1, <1>8, <2>1 DEF FireHammer, TickType, tickVars
<1>9. ASSUME NEW c \in Clients, Leave(c) PROVE TickType'
  <2>1. \A e \in Entities : [rewards[e] EXCEPT ![c] = 0] \in [Clients -> Nat]
    BY DEF TickType
  <2>2. rewards' \in [Entities -> [Clients -> Nat]]
    BY <1>9, <2>1 DEF Leave
  <2>3. QED
    BY <1>1, <1>9, <2>2 DEF Leave, TickType, tickVars
<1>10. CASE LuaReload
  BY <1>10 DEF LuaReload, TickType
<1>11. CASE BeginTick
  <2>1. \A e \in Entities : PlaceOf(e) \in Nat
    BY PlaceIs
  <2>2. place' \in [Entities -> Nat]
    BY <1>11, <2>1 DEF BeginTick
  <2>3. reload' \in [Clients -> 0 .. HammerTicks]
    <3>1. PICK dead \in SUBSET Clients :
            reload' = [c \in Clients |-> IF c \in dead THEN 1
                                        ELSE IF reload[c] = 0 THEN 0 ELSE reload[c] - 1]
      BY <1>11, Zenon DEF BeginTick
    <3>2. \A c \in Clients : (IF c \in dead THEN 1
                             ELSE IF reload[c] = 0 THEN 0 ELSE reload[c] - 1) \in 0 .. HammerTicks
      <4>1. \A c \in Clients : reload[c] \in 0 .. HammerTicks
        BY DEF TickType
      <4>2. \A n \in 0 .. HammerTicks : n = 0 \/ n - 1 \in 0 .. HammerTicks
        BY <1>1
      <4>3. 0 \in 0 .. HammerTicks /\ 1 \in 0 .. HammerTicks
        BY <1>1
      <4>4. QED
        BY <4>1, <4>2, <4>3
    <3>3. QED
      BY <3>1, <3>2
  <2>4. todo' \subseteq Types /\ hasData' \subseteq Clients
    BY <1>11, EntIs DEF BeginTick, TickType
  <2>5. QED
    BY <1>11, <2>2, <2>3, <2>4 DEF BeginTick, TickType
<1>12. CASE NextType
  BY <1>12 DEF NextType, TickType
<1>13. CASE EndType
  BY <1>13 DEF EndType, TickType
<1>14. CASE VisitPassing
  <2>1. Visited \in Entities
    BY <1>14, VisitedIs DEF VisitPassing
  <2>2. PICK e \in Entities : e = Visited
    BY <2>1
  <2>3. Goes(e) \/ (Forget(e) /\ index' = AfterVisit)
    BY <1>14, <2>2 DEF VisitPassing
  <2>4. UNCHANGED <<todo, current, disturbed, hasData, reload, rewards>>
    BY <1>14 DEF VisitPassing, Goes, Elsewhere
  <2>5. QED
    BY <1>3, <2>3, <2>4 DEF TickType
<1>15. CASE VisitRainFails
  BY <1>15 DEF VisitRainFails, TickType
<1>16. CASE VisitHits
  <2>1. Visited \in Entities
    BY <1>16, VisitedIs DEF VisitHits
  <2>2. PICK m \in LivingMobs : Reward(m, ent[Visited].owner) /\ ent[Visited].owner \in Clients
    BY <1>16, HitsStep
  <2>3. rewards' \in [Entities -> [Clients -> Nat]]
    BY <2>2, LivingMobsAre, RewardType
  <2>4. PICK n \in LivingMobs : \E w \in Killed(World, n, ent[Visited].owner) :
          \/ /\ todo' \in IF "pickup" \in known THEN {todo} ELSE SUBSET w.known
             /\ disturbed' = (disturbed \/ "pickup" \notin known)
             /\ Forget(Visited) /\ index' = AfterVisit /\ UNCHANGED current
          \/ /\ todo' = {} /\ current' = None /\ disturbed' = TRUE
             /\ UNCHANGED <<index, ticked, place>>
    BY <1>16 DEF VisitHits
  <2>5. PICK w \in Killed(World, n, ent[Visited].owner) :
          \/ /\ todo' \in IF "pickup" \in known THEN {todo} ELSE SUBSET w.known
             /\ disturbed' = (disturbed \/ "pickup" \notin known)
             /\ Forget(Visited) /\ index' = AfterVisit /\ UNCHANGED current
          \/ /\ todo' = {} /\ current' = None /\ disturbed' = TRUE
             /\ UNCHANGED <<index, ticked, place>>
    BY <2>4
  <2>6. w.known \subseteq Types
    BY <2>2, LivingMobsAre, KilledGood, WorldIs DEF Exists, GoodWorld, WorldType
  <2>7. todo' \subseteq Types /\ current' \in Types \cup {None} /\ disturbed' \in BOOLEAN
    BY <2>5, <2>6 DEF TickType
  <2>8. index' \in Nat \ {0} /\ ticked' \subseteq Entities /\ place' \in [Entities -> Nat]
    BY <1>2, <2>1, <2>5 DEF Forget, TickType
  <2>9. hasData' = hasData /\ reload' = reload
    BY <1>16 DEF VisitHits, Elsewhere
  <2>10. QED
    BY <2>3, <2>7, <2>8, <2>9 DEF TickType
<1>17. CASE VisitMob \/ VisitWorkItem
  <2>1. PICK e \in Entities : e = Visited
    BY <1>17, VisitedIs DEF VisitMob, VisitWorkItem
  <2>2. Goes(e) /\ hasData' = hasData /\ reload' = reload
    BY <1>17, <2>1 DEF VisitMob, VisitWorkItem, Elsewhere
  <2>3. [c \in Clients |-> 0] \in [Clients -> Nat]
    OBVIOUS
  <2>4. rewards' = rewards \/ rewards' = [rewards EXCEPT ![e] = [c \in Clients |-> 0]]
    BY <1>17, <2>1 DEF VisitMob, VisitWorkItem
  <2>5. rewards' \in [Entities -> [Clients -> Nat]]
    BY <2>3, <2>4 DEF TickType
  <2>6. QED
    BY <1>3, <2>2, <2>5 DEF Goes, TickType
<1>18. CASE UNCHANGED vars
  BY <1>18 DEF vars, tickVars, TickType
<1>19. QED
  BY <1>5, <1>6, <1>7, <1>8, <1>9, <1>10, <1>11, <1>12, <1>13, <1>14, <1>15, <1>16, <1>17, <1>18
     DEF Next, Tick

-----------------------------------------------------------------------------
(***************************************************************************)
(* What the tick has still to visit                                        *)
(***************************************************************************)
LEMMA GrownOrder ==
  ASSUME NEW w, NEW v, NEW T, GoodWorld(w), GoodWorld(v), Grown(w, v, T), OrderIn(w)
  PROVE  OrderIn(v)
<1>1. \A t \in Types : \A p \in DOMAIN v.lists[t] : v.lists[t][p] \in Entities
  BY DEF GoodWorld, WorldType
<1>2. \A e \in Entities : v.ent[e] = None => place[e] = 0
  BY DEF Grown, OrderIn
<1>3. \A t \in Types : \A p \in DOMAIN v.lists[t] :
        place[v.lists[t][p]] > 0 => p \in DOMAIN w.lists[t] /\ v.lists[t][p] = w.lists[t][p]
  BY <1>1 DEF Grown, OrderIn
<1>4. QED
  BY <1>2, <1>3 DEF OrderIn

LEMMA OrderStays ==
  ASSUME NEW v, OrderIn(v), World' = v, UNCHANGED tickVars
  PROVE  OrderIn(World)'
BY DEF OrderIn, tickVars

LEMMA VisitedOrder ==
  ASSUME GoodWorld(World), TickType, NEW v, OrderIn(v), World' = v, NEW e, Goes(e),
         current \in Types, index \in DOMAIN v.lists[current], v.lists[current][index] = e,
         v.lists \in [Types -> Seq(Entities)]
  PROVE  OrderIn(World)'
<1>1. /\ ticked' = ticked \cup {e} /\ index' = index + 1
      /\ UNCHANGED <<todo, current, disturbed, place>>
  BY DEF Goes, AfterVisit
<1>2. \A e1 \in Entities : v.ent[e1] = None => place'[e1] = 0
  BY <1>1 DEF OrderIn
<1>3. ASSUME ~disturbed, NEW t \in Types, NEW p \in DOMAIN v.lists[t],
             place[v.lists[t][p]] > 0, v.lists[t][p] \notin ticked \cup {e}
      PROVE  IF t \in todo \/ (t = current /\ p >= index + 1)
             THEN p <= place[v.lists[t][p]] ELSE p < place[v.lists[t][p]]
  <2>1. IF t \in todo \/ (t = current /\ p >= index)
        THEN p <= place[v.lists[t][p]] ELSE p < place[v.lists[t][p]]
    BY <1>3 DEF OrderIn
  <2>2. t = current => p # index
    BY <1>3
  <2>3. p \in Nat /\ index \in Nat
    BY DEF TickType
  <2>4. QED
    BY <2>1, <2>2, <2>3
<1>4. QED
  BY <1>1, <1>2, <1>3 DEF OrderIn

LEMMA RemovedOrder ==
  ASSUME TickType, NEW w, GoodWorld(w), OrderIn(w), NEW e,
         current \in Types, index \in DOMAIN w.lists[current], w.lists[current][index] = e,
         World' = Removed(w, e), Forget(e), index' = AfterVisit,
         disturbed' \/ UNCHANGED <<todo, current, disturbed>>
  PROVE  OrderIn(World)'
<1> DEFINE v == Removed(w, e)
<1>1. /\ ticked' = ticked \ {e} /\ place' = [place EXCEPT ![e] = 0] /\ index' = index + 1
      /\ place \in [Entities -> Nat]
  BY DEF Forget, AfterVisit, TickType
<1>2. /\ GoodWorld(v) /\ e \in Entities
      /\ v.ent[e] = None /\ \A f \in Entities \ {e} : v.ent[f] = w.ent[f]
      /\ \A t \in Types \ {current} : v.lists[t] = w.lists[t]
      /\ MovedUp(w, v)
  BY RemovedGood
<1>3. World' = v
  OBVIOUS
<1> HIDE DEF v
<1>4. v.lists \in [Types -> Seq(Entities)] /\ w.lists \in [Types -> Seq(Entities)]
  BY <1>2 DEF GoodWorld, WorldType
<1>5. \A f \in Entities : v.ent[f] = None => place'[f] = 0
  BY <1>1, <1>2 DEF OrderIn
<1>6. ASSUME ~disturbed, NEW t \in Types, NEW p \in DOMAIN v.lists[t],
             place'[v.lists[t][p]] > 0, v.lists[t][p] \notin ticked'
      PROVE  IF t \in todo \/ (t = current /\ p >= index + 1)
             THEN p <= place'[v.lists[t][p]] ELSE p < place'[v.lists[t][p]]
  <2>1. v.lists[t][p] \in Entities /\ v.lists[t][p] # e /\ p \in Nat /\ index \in Nat
    BY <1>2, <1>4 DEF TickType, GoodWorld, Listed
  <2>2. place'[v.lists[t][p]] = place[v.lists[t][p]] /\ v.lists[t][p] \notin ticked
    BY <1>1, <1>6, <2>1
  <2>3. place[v.lists[t][p]] > 0 /\ place[v.lists[t][p]] \in Nat
    BY <1>1, <1>6, <2>1, <2>2
  <2>4. CASE t # current
    <3>1. v.lists[t] = w.lists[t]
      BY <1>2, <2>4
    <3>2. IF t \in todo THEN p <= place[v.lists[t][p]] ELSE p < place[v.lists[t][p]]
      BY <1>6, <2>2, <2>3, <2>4, <3>1 DEF OrderIn
    <3>3. QED
      BY <2>2, <2>4, <3>2
  <2>5. CASE t = current /\ p < index
    <3>1. p \in DOMAIN w.lists[t] /\ v.lists[t][p] = w.lists[t][p]
      BY <1>2, <2>5 DEF MovedUp
    <3>2. ~(p >= index) /\ ~(p >= index + 1) /\ current \notin todo
      BY <1>6, <2>1, <2>5 DEF OrderIn
    <3>3. p < place[v.lists[t][p]]
      BY <1>6, <2>2, <2>3, <2>5, <3>1, <3>2 DEF OrderIn
    <3>4. QED
      BY <2>2, <2>5, <3>2, <3>3
  <2>6. CASE t = current /\ p >= index
    <3>1. p + 1 \in DOMAIN w.lists[t] /\ v.lists[t][p] = w.lists[t][p + 1]
      BY <1>2, <2>6 DEF MovedUp
    <3>2. p + 1 >= index
      BY <2>1, <2>6
    <3>3. p + 1 <= place[v.lists[t][p]]
      BY <1>6, <2>2, <2>3, <2>6, <3>1, <3>2 DEF OrderIn
    <3>4. QED
      BY <2>1, <2>2, <2>3, <3>3
  <2>7. QED
    BY <2>1, <2>4, <2>5, <2>6
<1>7. CASE disturbed'
  BY <1>3, <1>5, <1>7 DEF OrderIn
<1>8. CASE ~disturbed' /\ UNCHANGED <<todo, current, disturbed>>
  <2>1. ~disturbed => current \notin todo
    BY DEF OrderIn
  <2>2. QED
    BY <1>1, <1>3, <1>5, <1>6, <1>8, <2>1 DEF OrderIn
<1>9. QED
  BY <1>7, <1>8

LEMMA OrderStep ==
  ASSUME GoodWorld(World), TickType, OrderIn(World), [Next]_vars
  PROVE  OrderIn(World)'
<1>1. ASSUME NEW c \in Clients, FireMelee(c) PROVE OrderIn(World)'
  BY <1>1, MeleeStep, GrownOrder, OrderStays DEF Kills, FireMelee
<1>2. ASSUME NEW c \in Clients, FireProjectile(c) PROVE OrderIn(World)'
  BY <1>2, ProjectileStep, GrownOrder, OrderStays DEF Spawns, FireProjectile
<1>3. ASSUME NEW c \in Clients, CastSpell(c) PROVE OrderIn(World)'
  BY <1>3, SpellStep, GrownOrder, OrderStays DEF Spawns, CastSpell
<1>4. ASSUME NEW c \in Clients, NEW e \in Entities, FireHammer(c, e) PROVE OrderIn(World)'
  <2>1. \A f \in Entities : ent'[f] = None => ent[f] = None
    BY <1>4, HammerStep DEF Exists
  <2>2. lists' = lists /\ UNCHANGED tickVars
    BY <1>4 DEF FireHammer
  <2>3. QED
    BY <2>1, <2>2, WorldIs DEF OrderIn, tickVars
<1>5. ASSUME NEW c \in Clients, Leave(c) PROVE OrderIn(World)'
  BY <1>5, SameWorld, OrderStays DEF Leave
<1>6. CASE LuaReload
  <2>1. \A e \in Entities : place'[e] = 0
    BY <1>6 DEF LuaReload
  <2>2. \A t \in Types : DOMAIN lists'[t] = {}
    BY <1>6 DEF LuaReload
  <2>3. UNCHANGED <<todo, current, index, ticked, disturbed>>
    BY <1>6 DEF LuaReload
  <2>4. QED
    BY <2>1, <2>2, <2>3, WorldIs DEF OrderIn
<1>7. CASE BeginTick
  <2>1. /\ todo' = known /\ current' = None /\ ticked' = {}
        /\ place' = [e \in Entities |-> PlaceOf(e)] /\ lists' = lists
    BY <1>7 DEF BeginTick, Idle
  <2>2. \A e \in Entities : ent'[e] = None => place'[e] = 0
    BY <1>7, <2>1, BeginStep, PlaceIs DEF Exists
  <2>3. ASSUME NEW t \in Types, NEW p \in DOMAIN lists[t]
        PROVE  t \in known /\ p <= place'[lists[t][p]]
    <3>1. lists[t] # << >>
      OBVIOUS
    <3>2. t \in known
      BY <3>1, WorldIs DEF GoodWorld, Listed
    <3>3. /\ lists[t][p] \in Entities /\ Exists(lists[t][p]) /\ ent[lists[t][p]].type = t
          /\ p \in Nat
      BY EntIs, WorldIs DEF GoodWorld, Listed, Exists
    <3>4. place'[lists[t][p]] = p
      BY <2>1, <3>3, PlaceIs
    <3>5. QED
      BY <3>2, <3>3, <3>4
  <2>4. current' \notin todo'
    BY <2>1, EntIs, NoneIsNone
  <2>5. QED
    BY <2>1, <2>2, <2>3, <2>4, WorldIs DEF OrderIn
<1>8. CASE NextType
  <2>1. /\ current' \in todo /\ todo' = todo \ {current'} /\ index' = 1 /\ current = None
        /\ UNCHANGED <<ticked, disturbed, place>>
    BY <1>8 DEF NextType
  <2>2. World' = World
    BY <1>8, SameWorld DEF NextType
  <2>3. \A t \in Types : \A p \in DOMAIN World.lists[t] : p >= 1
    BY EntIs, WorldIs
  <2>4. None \notin Types
    BY NoneIsNone
  <2>5. QED
    BY <2>1, <2>2, <2>3, <2>4 DEF OrderIn
<1>9. CASE EndType
  <2>1. /\ index > Len(lists[current]) /\ current' = None /\ current # None
        /\ UNCHANGED <<todo, index, ticked, disturbed, place>>
    BY <1>9 DEF EndType
  <2>2. World' = World
    BY <1>9, SameWorld DEF EndType
  <2>3. current \in Types
    BY <2>1 DEF TickType
  <2>4. \A p \in DOMAIN World.lists[current] : ~(p >= index)
    BY <2>1, <2>3, EntIs, WorldIs DEF TickType
  <2>5. None \notin Types /\ todo \subseteq Types
    BY NoneIsNone DEF TickType
  <2>6. QED
    BY <2>1, <2>2, <2>4, <2>5 DEF OrderIn
<1>10. CASE VisitPassing
  <2>1. /\ current \in Types /\ index \in DOMAIN World.lists[current]
        /\ World.lists[current][index] = Visited
    BY <1>10, VisitedIs, WorldIs DEF VisitPassing, Visited
  <2>2. CASE Goes(Visited) /\ UNCHANGED worldVars
    BY <2>1, <2>2, SameWorld, EntIs, WorldIs, VisitedOrder
  <2>3. CASE /\ Become(Removed(World, Visited)) /\ Forget(Visited) /\ index' = AfterVisit
             /\ UNCHANGED <<todo, current, disturbed>>
    <3>1. World' = Removed(World, Visited)
      BY <2>1, <2>3, RemovedGood, BecomeIs
    <3>2. QED
      BY <2>1, <2>3, <3>1, RemovedOrder
  <2>4. QED
    BY <1>10, <2>2, <2>3 DEF VisitPassing
<1>11. CASE VisitRainFails
  BY <1>11, SameWorld DEF VisitRainFails, OrderIn
<1>12. CASE VisitHits
  <2>1. /\ current \in Types /\ index \in DOMAIN World.lists[current]
        /\ World.lists[current][index] = Visited
    BY <1>12, VisitedIs, WorldIs DEF VisitHits, Visited
  <2>2. ent[Visited].owner \in Clients
    BY <1>12, HitsStep
  <2>3. PICK m \in LivingMobs : \E w \in Killed(World, m, ent[Visited].owner) :
          \/ /\ Become(Removed(w, Visited))
             /\ todo' \in IF "pickup" \in known THEN {todo} ELSE SUBSET w.known
             /\ disturbed' = (disturbed \/ "pickup" \notin known)
             /\ Forget(Visited) /\ index' = AfterVisit /\ UNCHANGED current
          \/ Become(w) /\ disturbed' = TRUE /\ UNCHANGED place
    BY <1>12 DEF VisitHits
  <2>4. PICK w \in Killed(World, m, ent[Visited].owner) :
          \/ /\ Become(Removed(w, Visited))
             /\ todo' \in IF "pickup" \in known THEN {todo} ELSE SUBSET w.known
             /\ disturbed' = (disturbed \/ "pickup" \notin known)
             /\ Forget(Visited) /\ index' = AfterVisit /\ UNCHANGED current
          \/ Become(w) /\ disturbed' = TRUE /\ UNCHANGED place
    BY <2>3
  <2>5. GoodWorld(w) /\ Grown(World, w, "pickup")
    BY <2>2, LivingMobsAre, KilledGood, WorldIs DEF Exists
  <2>6. OrderIn(w)
    BY <2>5, GrownOrder
  <2>7. index \in DOMAIN w.lists[current] /\ w.lists[current][index] = Visited
    BY <2>1, <2>5 DEF Grown
  <2>8. CASE /\ Become(Removed(w, Visited))
             /\ todo' \in IF "pickup" \in known THEN {todo} ELSE SUBSET w.known
             /\ disturbed' = (disturbed \/ "pickup" \notin known)
             /\ Forget(Visited) /\ index' = AfterVisit /\ UNCHANGED current
    <3>1. World' = Removed(w, Visited)
      BY <2>1, <2>5, <2>7, <2>8, RemovedGood, BecomeIs
    <3>2. disturbed' \/ UNCHANGED <<todo, current, disturbed>>
      BY <2>8 DEF TickType
    <3>3. QED
      BY <2>1, <2>5, <2>6, <2>7, <2>8, <3>1, <3>2, RemovedOrder
  <2>9. CASE Become(w) /\ disturbed' = TRUE /\ UNCHANGED place
    <3>1. World' = w
      BY <2>5, <2>9, BecomeIs
    <3>2. QED
      BY <2>6, <2>9, <3>1 DEF OrderIn
  <2>10. QED
    BY <2>4, <2>8, <2>9
<1>13. CASE VisitMob \/ VisitWorkItem
  <2>1. /\ current \in Types /\ index \in DOMAIN World.lists[current]
        /\ World.lists[current][index] = Visited
    BY <1>13, VisitedIs, WorldIs DEF VisitMob, VisitWorkItem, Visited
  <2>2. Goes(Visited) /\ lists' = lists
    BY <1>13, MobStep DEF VisitMob, VisitWorkItem
  <2>3. \A f \in Entities : ent'[f] = None => ent[f] = None
    BY <1>13, MobStep, WorkStep DEF Exists
  <2> DEFINE v == World'
  <2>4. v.lists = lists /\ v.ent = ent'
    BY <2>2, WorldIs
  <2>5. OrderIn(v)
    BY <2>3, <2>4, WorldIs DEF OrderIn
  <2>6. v.lists \in [Types -> Seq(Entities)]
    BY <2>4, EntIs
  <2>7. index \in DOMAIN v.lists[current] /\ v.lists[current][index] = Visited
    BY <2>1, <2>4, WorldIs
  <2>8. World' = v
    OBVIOUS
  <2> HIDE DEF v
  <2>9. QED
    BY <2>1, <2>2, <2>5, <2>6, <2>7, <2>8, VisitedOrder
<1>14. CASE UNCHANGED vars
  BY <1>14, SameWorld, OrderStays DEF vars
<1>15. QED
  BY <1>1, <1>2, <1>3, <1>4, <1>5, <1>6, <1>7, <1>8, <1>9, <1>10, <1>11, <1>12, <1>13, <1>14
     DEF Next, Tick

-----------------------------------------------------------------------------
(***************************************************************************)
(* What a mob pays, and where rains come from                              *)
(***************************************************************************)
(* The mobs of the next state are those of this one, and pay as they did.  *)
LEMMA SamePay ==
  ASSUME TickType, MobsPay, KeepsFixed(World, World', None), UNCHANGED rewards
  PROVE  MobsPay'
<1>1. \A e \in Entities : ent'[e] # None /\ ent'[e].type = "dummy_simple" => ent'[e] = ent[e]
  BY NoneIsNone, WorldIs DEF KeepsFixed, Fixed
<1>2. QED
  BY <1>1 DEF MobsPay, Exists

(* A death pays one client at most, and the mob is dead then.              *)
LEMMA KillPays ==
  ASSUME TickType, MobsPay, GoodWorld(World), NEW m \in LivingMobs, NEW c \in Clients,
         Kills(m), Reward(m, c)
  PROVE  MobsPay'
<1>1. /\ m \in Entities /\ Exists(m) /\ ent[m].type = "dummy_simple" /\ ent[m].alive
  BY LivingMobsAre
<1>2. \A d \in Clients : rewards[m][d] = 0
  BY <1>1 DEF MobsPay, PaysOnce
<1>3. /\ rewards' \in [Entities -> [Clients -> Nat]]
      /\ \A e \in Entities \ {m} : rewards'[e] = rewards[e]
      /\ \A d \in Clients \ {c} : rewards'[m][d] = 0
      /\ rewards'[m][c] = 0 \/ rewards'[m][c] = 1
  BY <1>1, <1>2, RewardType
<1>4. ~ent'[m].alive /\ PaysOnce(ent'[m].alive, rewards'[m])
  BY <1>3 DEF Kills, PaysOnce
<1>5. \A e \in Entities \ {m} :
        ent'[e] # None /\ ent'[e].type = "dummy_simple" => ent'[e] = ent[e]
  BY WorldIs DEF Kills, KeepsFixed, Fixed
<1>6. QED
  BY <1>3, <1>4, <1>5 DEF MobsPay, Exists

LEMMA MobsPayStep ==
  ASSUME GoodWorld(World), TickType, MobsPay, [Next]_vars
  PROVE  MobsPay'
<1>1. ASSUME NEW c \in Clients, FireMelee(c) PROVE MobsPay'
  BY <1>1, MeleeStep, KillPays
<1>2. ASSUME NEW c \in Clients, FireProjectile(c) PROVE MobsPay'
  BY <1>2, ProjectileStep, SamePay DEF Spawns, FireProjectile
<1>3. ASSUME NEW c \in Clients, CastSpell(c) PROVE MobsPay'
  BY <1>3, SpellStep, SamePay DEF Spawns, CastSpell
<1>4. ASSUME NEW c \in Clients, NEW e \in Entities, FireHammer(c, e) PROVE MobsPay'
  <2>1. /\ ent'[e].type = "work_item" /\ \A f \in Entities \ {e} : ent'[f] = ent[f]
    BY <1>4, HammerStep
  <2>2. \A f \in Entities \ {e} : rewards'[f] = rewards[f]
    BY <1>4, RewardType DEF FireHammer
  <2>3. QED
    BY <2>1, <2>2 DEF MobsPay, Exists
<1>5. ASSUME NEW c \in Clients, Leave(c) PROVE MobsPay'
  <2>1. rewards' = [e \in Entities |-> [rewards[e] EXCEPT ![c] = 0]] /\ ent' = ent
    BY <1>5, SameWorld DEF Leave
  <2>2. \A e \in Entities : /\ rewards'[e][c] = 0
                            /\ \A d \in Clients \ {c} : rewards'[e][d] = rewards[e][d]
    BY <2>1 DEF TickType
  <2>3. \A e \in Entities : PaysOnce(ent[e].alive, rewards[e]) => PaysOnce(ent[e].alive, rewards'[e])
    BY <2>2 DEF PaysOnce
  <2>4. QED
    BY <2>1, <2>3 DEF MobsPay, Exists
<1>6. CASE LuaReload
  BY <1>6, ReloadStep DEF MobsPay
<1>7. CASE BeginTick
  BY <1>7, BeginStep DEF MobsPay, BeginTick, Exists
<1>8. CASE NextType \/ EndType \/ VisitRainFails \/ UNCHANGED vars
  BY <1>8, SameWorld DEF NextType, EndType, VisitRainFails, vars, MobsPay, Exists
<1>9. CASE VisitPassing
  BY <1>9, PassingStep, SamePay DEF VisitPassing
<1>10. CASE VisitHits
  <2>1. PICK m \in LivingMobs : Kills(m) /\ Reward(m, ent[Visited].owner) /\ ent[Visited].owner \in Clients
    BY <1>10, HitsStep
  <2>2. PICK c \in Clients : c = ent[Visited].owner
    BY <2>1
  <2>3. QED
    BY <2>1, <2>2, KillPays
<1>11. CASE VisitMob
  <2>1. PICK e \in Mobs : e = Visited
    BY <1>11, MobStep
  <2>2. /\ Exists(e) /\ ent[e].type = "dummy_simple" /\ e \in Entities
        /\ KeepsFixed(World, World', e)
        /\ ent'[e] # None /\ ent'[e].type = "dummy_simple"
        /\ \/ UNCHANGED <<worldVars, rewards>>
           \/ Revives(e)
           \/ Kills(e) /\ ent[e].alive /\ UNCHANGED rewards
    BY <1>11, <2>1, MobStep, EntitiesAssumption
  <2>3. \A f \in Entities \ {e} :
          ent'[f] # None /\ ent'[f].type = "dummy_simple" => ent'[f] = ent[f]
    BY <2>2, WorldIs DEF KeepsFixed, Fixed
  <2>4. CASE UNCHANGED <<worldVars, rewards>>
    BY <2>4, SameWorld DEF MobsPay, Exists
  <2>5. CASE Revives(e)
    <3>1. \A f \in Entities \ {e} : rewards'[f] = rewards[f]
      BY <2>5 DEF Revives, TickType
    <3>2. \A c \in Clients : rewards'[e][c] = 0
      BY <2>2, <2>5 DEF Revives, TickType
    <3>3. PaysOnce(ent'[e].alive, rewards'[e])
      BY <3>2 DEF PaysOnce
    <3>4. QED
      BY <2>3, <3>1, <3>3 DEF MobsPay, Exists
  <2>6. CASE Kills(e) /\ ent[e].alive /\ UNCHANGED rewards
    <3>1. PaysOnce(ent[e].alive, rewards[e])
      BY <2>2 DEF MobsPay
    <3>2. PaysOnce(ent'[e].alive, rewards'[e])
      BY <2>6, <3>1 DEF PaysOnce, Kills
    <3>3. QED
      BY <2>3, <2>6, <3>2 DEF MobsPay, Exists
  <2>7. QED
    BY <2>2, <2>4, <2>5, <2>6
<1>12. CASE VisitWorkItem
  <2>1. PICK e \in Entities : e = Visited
    BY <1>12, WorkStep
  <2>2. ent'[e].type = "work_item" /\ \A f \in Entities \ {e} : ent'[f] = ent[f]
    BY <1>12, <2>1, WorkStep
  <2>3. rewards' = rewards \/ rewards' = [rewards EXCEPT ![e] = [c \in Clients |-> 0]]
    BY <1>12, <2>1 DEF VisitWorkItem
  <2>4. \A f \in Entities \ {e} : rewards'[f] = rewards[f]
    BY <2>3 DEF TickType
  <2>5. QED
    BY <2>2, <2>4 DEF MobsPay, Exists
<1>13. QED
  BY <1>1, <1>2, <1>3, <1>4, <1>5, <1>6, <1>7, <1>8, <1>9, <1>10, <1>11, <1>12
     DEF Next, Tick

-----------------------------------------------------------------------------
(***************************************************************************)
(* The start                                                               *)
(***************************************************************************)
LEMMA SetToSeqIs ==
  ASSUME NEW S, IsFiniteSet(S)
  PROVE  /\ SetToSeq(S) \in Seq(S)
         /\ \A i, j \in DOMAIN SetToSeq(S) : SetToSeq(S)[i] = SetToSeq(S)[j] => i = j
         /\ \A e \in S : \E i \in DOMAIN SetToSeq(S) : SetToSeq(S)[i] = e
<1> DEFINE n == Cardinality(S)
           s == SetToSeq(S)
<1>1. n \in Nat /\ ExistsBijection(1 .. n, S)
  BY FS_CardinalityType
<1>2. \E f \in [1 .. n -> S] : IsInjective(f)
  BY <1>1 DEF ExistsBijection, Bijection, Injection
<1>3. s \in [1 .. n -> S] /\ IsInjective(s)
  <2>1. s = CHOOSE f \in [1 .. n -> S] : IsInjective(f)
    BY DEF SetToSeq
  <2> HIDE DEF s, n
  <2>2. QED
    BY <1>2, <2>1
<1> HIDE DEF s
<1>4. s \in Seq(S)
  BY <1>1, <1>3
<1>5. s \in Injection(1 .. n, S)
  BY <1>3 DEF Injection
<1>6. IsFiniteSet(1 .. n) /\ Cardinality(1 .. n) = n
  BY <1>1, FS_Interval
<1>7. s \in Surjection(1 .. n, S)
  BY <1>5, <1>6, FS_Injection
<1>8. DOMAIN s = 1 .. n /\ \A e \in S : \E i \in 1 .. n : s[i] = e
  BY <1>3, <1>7 DEF Surjection
<1>9. QED
  BY <1>3, <1>4, <1>8 DEF IsInjective, s

LEMMA InitIInv == Init => IInv
<1> SUFFICES ASSUME Init PROVE IInv
  OBVIOUS
<1> DEFINE start == Mobs \cup WorkItems
           Kind(e) == IF e \in Mobs THEN "dummy_simple" ELSE "work_item"
<1>1. PICK give \in [start -> Ids] :
        /\ \A e, f \in start : give[e] = give[f] => e = f
        /\ ent = [e \in Entities |->
                    IF e \in start
                    THEN [type |-> Kind(e), ids |-> {}, snapID |-> give[e], owner |-> None,
                          alive |-> FALSE, wait |-> 0]
                    ELSE None]
        /\ used = {give[e] : e \in start}
  BY DEF Init
<1>2. /\ lists = [t \in Types |-> CASE t = "dummy_simple" -> SetToSeq(Mobs)
                                    [] t = "work_item" -> SetToSeq(WorkItems)
                                    [] OTHER -> << >>]
      /\ known = {t \in Types : lists[t] # << >>}
      /\ hasData = Clients /\ reload = [c \in Clients |-> 0]
      /\ todo = {} /\ current = None /\ index = 1 /\ ticked = {} /\ disturbed = FALSE
      /\ place = [e \in Entities |-> 0]
      /\ rewards = [e \in Entities |-> [c \in Clients |-> 0]]
  BY DEF Init
<1>3. /\ Mobs \subseteq Entities /\ WorkItems \subseteq Entities /\ Mobs \cap WorkItems = {}
      /\ IsFiniteSet(Mobs) /\ IsFiniteSet(WorkItems)
  BY EntitiesAssumption, FS_Subset
<1>4. ASSUME NEW e \in start
      PROVE  /\ ent[e] \in Entity /\ ent[e] # None /\ ent[e].type = Kind(e) /\ ent[e].ids = {}
             /\ ent[e].snapID = give[e] /\ ~ent[e].alive
  <2> DEFINE r == [type |-> Kind(e), ids |-> {}, snapID |-> give[e], owner |-> None,
                   alive |-> FALSE, wait |-> 0]
  <2>1. r \in Entity
    BY <1>1 DEF Entity, Types
  <2>2. ent[e] = r
    BY <1>1, <1>3
  <2>3. /\ r.type = Kind(e) /\ r.ids = {} /\ r.snapID = give[e] /\ ~r.alive
    OBVIOUS
  <2> HIDE DEF r, start, Kind
  <2>4. ent[e] \in Entity /\ ent[e] # None
    BY <2>1, <2>2, NoneIsNone
  <2>5. QED
    BY <2>2, <2>3, <2>4
<1>5. \A e \in Entities \ start : ent[e] = None
  BY <1>1
<1> HIDE DEF start
<1>6. ent \in [Entities -> Entity \cup {None}]
  <2>1. \A e \in Entities : ent[e] \in Entity \cup {None}
    BY <1>4, <1>5
  <2>2. QED
    BY <1>1, <2>1
<1>7. /\ lists["dummy_simple"] = SetToSeq(Mobs) /\ lists["work_item"] = SetToSeq(WorkItems)
      /\ \A t \in Types \ {"dummy_simple", "work_item"} : lists[t] = << >>
      /\ "dummy_simple" \in Types /\ "work_item" \in Types
  BY <1>2 DEF Types
<1>8. lists \in [Types -> Seq(Entities)]
  <2>1. \A t \in Types : lists[t] \in Seq(Entities)
    <3>1. SetToSeq(Mobs) \in Seq(Entities)
      BY <1>3, SetToSeqIs
    <3>2. SetToSeq(WorkItems) \in Seq(Entities)
      BY <1>3, SetToSeqIs
    <3>3. << >> \in Seq(Entities)
      OBVIOUS
    <3>4. QED
      BY <1>7, <3>1, <3>2, <3>3
  <2>2. QED
    BY <1>2, <2>1
<1>9. WorldType(World)
  BY <1>1, <1>2, <1>6, <1>8, WorldIs DEF WorldType, World
<1>10. /\ \A i \in DOMAIN SetToSeq(Mobs) : SetToSeq(Mobs)[i] \in Mobs
       /\ \A i \in DOMAIN SetToSeq(WorkItems) : SetToSeq(WorkItems)[i] \in WorkItems
       /\ \A e \in Mobs : e \in start /\ Kind(e) = "dummy_simple"
       /\ \A e \in WorkItems : e \in start /\ Kind(e) = "work_item"
  BY <1>3, SetToSeqIs DEF start
<1>11. Listed(World)
  <2>1. ASSUME NEW t \in Types, NEW i \in DOMAIN lists[t]
        PROVE  ent[lists[t][i]] # None /\ ent[lists[t][i]].type = t
    <3>1. CASE t = "dummy_simple"
      BY <3>1, <1>7, <1>10, <1>4
    <3>2. CASE t = "work_item"
      BY <3>2, <1>7, <1>10, <1>4
    <3>3. CASE t \notin {"dummy_simple", "work_item"}
      BY <3>3, <1>7
    <3>4. QED
      BY <3>1, <3>2, <3>3
  <2>2. ASSUME NEW t \in Types, NEW i \in DOMAIN lists[t], NEW j \in DOMAIN lists[t],
               lists[t][i] = lists[t][j]
        PROVE  i = j
    <3>1. CASE t = "dummy_simple"
      BY <2>2, <3>1, <1>3, <1>7, SetToSeqIs
    <3>2. CASE t = "work_item"
      BY <2>2, <3>2, <1>3, <1>7, SetToSeqIs
    <3>3. CASE t \notin {"dummy_simple", "work_item"}
      BY <3>3, <1>7
    <3>4. QED
      BY <3>1, <3>2, <3>3
  <2>3. ASSUME NEW e \in Entities, ent[e] # None
        PROVE  \E i \in DOMAIN lists[ent[e].type] : lists[ent[e].type][i] = e
    <3>1. e \in start /\ ent[e].type = Kind(e)
      BY <2>3, <1>4, <1>5
    <3>2. CASE e \in Mobs
      BY <3>1, <3>2, <1>3, <1>7, <1>10, SetToSeqIs
    <3>3. CASE e \in WorkItems
      BY <3>1, <3>3, <1>3, <1>7, <1>10, SetToSeqIs
    <3>4. QED
      BY <3>1, <3>2, <3>3 DEF start
  <2>4. \A t \in Types : lists[t] # << >> => t \in known
    BY <1>2
  <2>5. QED
    BY <2>1, <2>2, <2>3, <2>4, WorldIs DEF Listed
<1>12. Kinds(World)
  <2>1. ASSUME NEW e \in Entities, ent[e] # None
        PROVE  /\ ent[e].type = "dummy_simple" => e \in Mobs
               /\ ent[e].type # "basic_projectile"
    <3>1. e \in start /\ ent[e].type = Kind(e)
      BY <2>1, <1>4, <1>5
    <3>2. QED
      BY <3>1
  <2>2. QED
    BY <2>1, WorldIs DEF Kinds
<1>13. OwnIds(World)
  <2>1. \A e \in Entities : ent[e] # None => e \in start /\ HeldIn(World, e) = {give[e]}
    BY <1>4, <1>5, WorldIs DEF HeldIn
  <2>2. \A e, f \in start : e # f => give[e] # give[f]
    BY <1>1
  <2>3. \A e \in start : give[e] \in used
    BY <1>1
  <2>4. QED
    BY <2>1, <2>2, <2>3, WorldIs DEF OwnIds
<1>14. TickType
  <2>1. [c \in Clients |-> 0] \in [Clients -> Nat]
    OBVIOUS
  <2>2. reload \in [Clients -> 0 .. HammerTicks]
    BY <1>2, NumbersAssumption
  <2>3. place \in [Entities -> Nat] /\ rewards \in [Entities -> [Clients -> Nat]]
    BY <1>2, <2>1
  <2>4. ticked \subseteq Entities /\ todo \subseteq Types /\ index \in Nat \ {0}
    BY <1>2
  <2>5. QED
    BY <1>2, <2>2, <2>3, <2>4 DEF TickType
<1>15. OrderIn(World)
  <2>1. \A t \in Types : \A p \in DOMAIN lists[t] : lists[t][p] \in Entities
    BY <1>8
  <2>2. \A e \in Entities : place[e] = 0
    BY <1>2
  <2>3. QED
    BY <1>2, <2>1, <2>2, WorldIs DEF OrderIn
<1>16. MobsPay
  <2>1. \A e \in Entities : \A c \in Clients : rewards[e][c] = 0
    BY <1>2
  <2>2. QED
    BY <2>1 DEF MobsPay, PaysOnce
<1>17. QED
  BY <1>9, <1>11, <1>12, <1>13, <1>14, <1>15, <1>16 DEF IInv, GoodWorld

LEMMA StepIInv == IInv /\ [Next]_vars => IInv'
BY WorldStep, TickTypeStep, OrderStep, MobsPayStep DEF IInv

LEMMA IInvAlways == Spec => []IInv
BY InitIInv, StepIInv, PTL DEF Spec

-----------------------------------------------------------------------------
(***************************************************************************)
(* The world has the types of its declarations.                            *)
(***************************************************************************)
THEOREM WorldTypeCorrect == Spec => []TypeOK
<1>1. IInv => TypeOK
  BY WorldIs DEF IInv, GoodWorld, WorldType, Listed, TickType, TypeOK, Exists
<1>2. QED
  BY <1>1, IInvAlways, PTL

(***************************************************************************)
(* World.OnTick frees no id that an entity still shows, and SnapNewID gives*)
(* none that one shows (world.lua:23-55), over any number of ticks, deaths,*)
(* spells and lua_reloads.                                                 *)
(***************************************************************************)
THEOREM IdsNeverShared == Spec => []NoSharedIds
<1>1. \A e : HeldIn(World, e) = Held(e)
  BY WorldIs DEF HeldIn, Held
<1>2. IInv => NoSharedIds
  BY <1>1, WorldIs DEF IInv, GoodWorld, OwnIds, NoSharedIds, Exists
<1>3. QED
  BY <1>2, IInvAlways, PTL

(***************************************************************************)
(* table.remove while pairs goes through the list takes out what was       *)
(* visited and nothing else (world.lua:47-55): every entity that exists is *)
(* in the list of its type, at one index.                                  *)
(***************************************************************************)
THEOREM ListsAlwaysExact == Spec => []ListsExact
<1>1. ASSUME IInv, NEW e \in Entities, Exists(e)
      PROVE  Cardinality({i \in DOMAIN lists[ent[e].type] : lists[ent[e].type][i] = e}) = 1
  <2>1. GoodWorld(World)
    BY <1>1 DEF IInv
  <2>2. /\ PlaceOf(e) \in DOMAIN lists[ent[e].type] /\ lists[ent[e].type][PlaceOf(e)] = e
        /\ \A p \in DOMAIN lists[ent[e].type] : lists[ent[e].type][p] = e => p = PlaceOf(e)
    BY <1>1, <2>1, PlaceIs
  <2>3. {i \in DOMAIN lists[ent[e].type] : lists[ent[e].type][i] = e} = {PlaceOf(e)}
    BY <2>2
  <2>4. QED
    BY <2>3, FS_Singleton
<1>2. IInv => ListsExact
  BY <1>1 DEF ListsExact
<1>3. QED
  BY <1>2, IInvAlways, PTL

(***************************************************************************)
(* Whoever a whole tick passed over has moved up (world.lua:47-55): each   *)
(* removal lets only the next one miss its turn.                           *)
(***************************************************************************)
LEMMA MovedUpAlways == IInv => MissedMovedUp
<1> SUFFICES ASSUME IInv, Idle, ~disturbed, NEW e \in Entities, Exists(e), place[e] > 0, e \notin ticked
             PROVE  PlaceOf(e) < place[e]
  BY DEF MissedMovedUp
<1>1. GoodWorld(World) /\ OrderIn(World)
  BY DEF IInv
<1>2. /\ PlaceOf(e) \in DOMAIN lists[ent[e].type] /\ lists[ent[e].type][PlaceOf(e)] = e
      /\ ent[e].type \in Types
  BY <1>1, PlaceIs, EntIs DEF Entity
<1>3. ent[e].type \notin todo /\ ent[e].type # current
  BY <1>2, NoneIsNone DEF Idle
<1>4. QED
  BY <1>1, <1>2, <1>3, WorldIs DEF OrderIn

THEOREM MissedAlwaysMoveUp == Spec => []MissedMovedUp
BY MovedUpAlways, IInvAlways, PTL

(***************************************************************************)
(* A mob is worth its experience once between two lives, to one client,    *)
(* whatever hits it in one tick (dummy_base.lua:18-36).                    *)
(***************************************************************************)
THEOREM MobsAlwaysPayOnce == Spec => []MobsRewardedOnce
<1>1. ASSUME IInv, NEW e \in Entities, Exists(e), ent[e].type = "dummy_simple",
             NEW c \in Clients, NEW d \in Clients
      PROVE  rewards[e][c] + (IF c = d THEN 0 ELSE rewards[e][d]) <= 1
  <2>1. PaysOnce(ent[e].alive, rewards[e])
    BY <1>1 DEF IInv, MobsPay
  <2>2. rewards[e][c] \in Nat /\ rewards[e][d] \in Nat
    BY <1>1 DEF IInv, TickType
  <2>3. rewards[e][c] <= 1 /\ rewards[e][d] <= 1
    BY <2>1 DEF PaysOnce
  <2>4. c # d => rewards[e][c] = 0 \/ rewards[e][d] = 0
    BY <2>1 DEF PaysOnce
  <2>5. QED
    BY <2>2, <2>3, <2>4
<1>2. IInv => MobsRewardedOnce
  BY <1>1 DEF MobsRewardedOnce
<1>3. QED
  BY <1>2, IInvAlways, PTL

-----------------------------------------------------------------------------
(***************************************************************************)
(* What a work item pays.  It is alive until its next visit, and a hammer  *)
(* that got something for it is ready no earlier than after a tick, be it  *)
(* for the timer or for a new character.  That tick has the item ahead, as *)
(* nothing is removed from the list of the work items, so that the tick    *)
(* ends with the item gone, or is disturbed.                               *)
(***************************************************************************)
Broken(e, c) == ent[e].alive /\ rewards[e][c] # 0

Ahead(e) ==
  /\ e \notin ticked
  /\ place[e] \in DOMAIN lists["work_item"] /\ lists["work_item"][place[e]] = e

Pays(e, c) == Broken(e, c) => disturbed \/ Ahead(e) \/ (Idle /\ reload[c] > 0)

ItemsPay ==
  \A e \in Entities : Exists(e) /\ ent[e].type = "work_item" => \A c \in Clients : Pays(e, c)

(* Nothing is ahead of a tick that is over and was not disturbed.          *)
LEMMA NoneAhead ==
  ASSUME IInv, Idle, ~disturbed, NEW e \in Entities, Exists(e), ent[e].type = "work_item"
  PROVE  ~Ahead(e)
<1> SUFFICES ASSUME Ahead(e) PROVE FALSE
  OBVIOUS
<1>1. GoodWorld(World)
  BY DEF IInv
<1>2. "work_item" \in Types /\ lists["work_item"] \in Seq(Entities)
  BY <1>1, EntIs DEF Types
<1>3. place[e] \in Nat /\ place[e] > 0
  BY <1>2 DEF Ahead
<1>4. PlaceOf(e) < place[e]
  BY <1>3, MovedUpAlways DEF Ahead, MissedMovedUp
<1>5. place[e] = PlaceOf(e)
  BY <1>1, PlaceIs DEF Ahead
<1>6. QED
  BY <1>3, <1>4, <1>5

(* One work item and one client through a step.                            *)
LEMMA PaysStays ==
  ASSUME NEW e \in Entities, NEW c \in Clients, Pays(e, c),
         ent'[e] = ent[e], rewards'[e][c] = rewards[e][c],
         lists'["work_item"] = lists["work_item"], place'[e] = place[e],
         e \notin ticked => e \notin ticked', disturbed => disturbed',
         Idle /\ reload[c] > 0 => Idle' /\ reload'[c] > 0
  PROVE  Pays(e, c)'
BY DEF Pays, Broken, Ahead

LEMMA PaysNothing ==
  ASSUME NEW e, NEW c, ~ent'[e].alive \/ rewards'[e][c] = 0
  PROVE  Pays(e, c)'
BY DEF Pays, Broken

(* Whether one of the next state's items was one of this state's.          *)
LEMMA ItemWas ==
  ASSUME NEW m, KeepsFixed(World, World', m), NEW e \in Entities \ {m},
         Exists(e)', ent'[e].type = "work_item"
  PROVE  /\ Exists(e) /\ ent[e].type = "work_item" /\ ent'[e] = ent[e]
         /\ lists'["work_item"] = lists["work_item"]
<1>1. ent'[e] = ent[e]
  BY WorldIs DEF KeepsFixed, Fixed, Exists
<1>2. lists'["work_item"] = lists["work_item"]
  BY WorldIs DEF KeepsFixed
<1>3. QED
  BY <1>1, <1>2 DEF Exists

(* A step that does nothing to the work items but for m.                   *)
LEMMA ItemsStay ==
  ASSUME ItemsPay, NEW m, KeepsFixed(World, World', m),
         disturbed => disturbed',
         \A c \in Clients : Idle /\ reload[c] > 0 => Idle' /\ reload'[c] > 0,
         NEW e \in Entities \ {m}, Exists(e)', ent'[e].type = "work_item",
         place'[e] = place[e], e \notin ticked => e \notin ticked',
         NEW c \in Clients, rewards'[e][c] = rewards[e][c]
  PROVE  Pays(e, c)'
<1>1. /\ Exists(e) /\ ent[e].type = "work_item" /\ ent'[e] = ent[e]
      /\ lists'["work_item"] = lists["work_item"]
  BY ItemWas
<1>2. Pays(e, c)
  BY <1>1 DEF ItemsPay
<1>3. QED
  BY <1>1, <1>2, PaysStays

LEMMA ItemsPayStep ==
  ASSUME IInv, ItemsPay, [Next]_vars,
         NEW e \in Entities, Exists(e)', ent'[e].type = "work_item", NEW c \in Clients
  PROVE  Pays(e, c)'
<1>1. GoodWorld(World) /\ TickType /\ e # None
  BY NoneIsNone DEF IInv
<1>2. ASSUME NEW c0 \in Clients, FireMelee(c0) PROVE Pays(e, c)'
  <2>1. PICK m \in LivingMobs : Kills(m) /\ Reward(m, c0)
    BY <1>1, <1>2, MeleeStep
  <2>2. KeepsFixed(World, World', m) /\ e # m /\ m \in Entities
    BY <1>1, <2>1, LivingMobsAre DEF Kills
  <2>3. rewards'[e] = rewards[e]
    BY <1>1, <2>1, <2>2, RewardType
  <2>4. /\ UNCHANGED <<disturbed, ticked, place, todo, current>>
        /\ \A d \in Clients : Idle /\ reload[d] > 0 => Idle' /\ reload'[d] > 0
    BY <1>1, <1>2 DEF FireMelee, CanFire, tickVars, Idle, TickType
  <2>5. QED
    BY <2>2, <2>3, <2>4, ItemsStay
<1>3. ASSUME NEW c0 \in Clients, FireProjectile(c0) PROVE Pays(e, c)'
  <2>1. KeepsFixed(World, World', None)
    BY <1>1, <1>3, ProjectileStep DEF Spawns
  <2>2. /\ UNCHANGED <<disturbed, ticked, place, rewards>>
        /\ \A d \in Clients : Idle /\ reload[d] > 0 => Idle' /\ reload'[d] > 0
    BY <1>1, <1>3 DEF FireProjectile, CanFire, tickVars, Idle, TickType
  <2>3. QED
    BY <1>1, <2>1, <2>2, ItemsStay
<1>4. ASSUME NEW c0 \in Clients, CastSpell(c0) PROVE Pays(e, c)'
  <2>1. KeepsFixed(World, World', None)
    BY <1>1, <1>4, SpellStep DEF Spawns
  <2>2. UNCHANGED <<disturbed, ticked, place, rewards, reload, todo, current>>
    BY <1>4 DEF CastSpell, tickVars
  <2>3. QED
    BY <1>1, <2>1, <2>2, ItemsStay DEF Idle
<1>5. ASSUME NEW c0 \in Clients, NEW f \in Entities, FireHammer(c0, f) PROVE Pays(e, c)'
  <2>1. KeepsFixed(World, World', f)
    BY <1>1, <1>5, HammerStep
  <2>2. /\ Idle /\ reload[c0] = 0 /\ Reward(f, c0) /\ lists' = lists
        /\ reload' = [reload EXCEPT ![c0] = HammerTicks]
        /\ UNCHANGED <<disturbed, ticked, place, todo, current>>
        /\ Exists(f) /\ ent[f].type = "work_item" /\ ent[f].alive
    BY <1>5 DEF FireHammer, CanFire, tickVars
  <2>3. Idle' /\ reload'[c0] > 0 /\ \A d \in Clients \ {c0} : reload'[d] = reload[d]
    BY <1>1, <2>2, NumbersAssumption DEF Idle, TickType
  <2>4. CASE e # f
    <3>1. rewards'[e] = rewards[e]
      BY <1>1, <2>2, <2>4, RewardType
    <3>2. \A d \in Clients : Idle /\ reload[d] > 0 => Idle' /\ reload'[d] > 0
      BY <2>2, <2>3
    <3>3. QED
      BY <2>1, <2>2, <2>4, <3>1, <3>2, ItemsStay
  <2>5. CASE e = f /\ c = c0
    BY <2>3, <2>5 DEF Pays
  <2>6. CASE e = f /\ c # c0
    <3>1. rewards'[e][c] = rewards[e][c] /\ reload'[c] = reload[c]
      BY <1>1, <2>2, <2>3, <2>6, RewardType
    <3>2. Pays(e, c)
      BY <2>2, <2>6 DEF ItemsPay
    <3>3. Pays(e, c) /\ Broken(e, c)' => Broken(e, c)
      BY <2>2, <2>6, <3>1 DEF Broken
    <3>4. QED
      BY <2>2, <2>3, <3>1, <3>2, <3>3 DEF Pays, Ahead
  <2>7. QED
    BY <2>4, <2>5, <2>6
<1>6. ASSUME NEW c0 \in Clients, Leave(c0) PROVE Pays(e, c)'
  <2>1. /\ UNCHANGED <<ent, lists, disturbed, ticked, place, todo, current>>
        /\ reload' = [reload EXCEPT ![c0] = 0]
        /\ rewards' = [f \in Entities |-> [rewards[f] EXCEPT ![c0] = 0]]
    BY <1>6 DEF Leave, tickVars, worldVars
  <2>2. CASE c = c0
    <3>1. rewards'[e][c] = 0
      BY <1>1, <2>1, <2>2 DEF TickType
    <3>2. QED
      BY <3>1, PaysNothing
  <2>3. CASE c # c0
    <3>1. rewards'[e][c] = rewards[e][c] /\ reload'[c] = reload[c]
      BY <1>1, <2>1, <2>3 DEF TickType
    <3>2. Exists(e) /\ ent[e].type = "work_item" /\ Pays(e, c)
      BY <2>1 DEF Exists, ItemsPay
    <3>3. QED
      BY <2>1, <3>1, <3>2, PaysStays DEF Idle
  <2>4. QED
    BY <2>2, <2>3
<1>7. CASE LuaReload
  BY <1>1, <1>7, ReloadStep
<1>8. CASE BeginTick
  <2>1. /\ ticked' = {} /\ place' = [f \in Entities |-> PlaceOf(f)] /\ lists' = lists
    BY <1>8 DEF BeginTick
  <2>2. Exists(e) /\ ent[e].type = "work_item"
    BY <1>1, <1>8, BeginStep
  <2>3. PlaceOf(e) \in DOMAIN lists["work_item"] /\ lists["work_item"][PlaceOf(e)] = e
    BY <1>1, <2>2, PlaceIs
  <2>4. QED
    BY <2>1, <2>3 DEF Pays, Ahead
<1>9. CASE NextType \/ EndType \/ UNCHANGED vars
  <2>1. /\ UNCHANGED <<ent, lists, reload, rewards, disturbed, place, ticked>>
        /\ Idle => Idle'
    BY <1>1, <1>9, NoneIsNone DEF NextType, EndType, vars, tickVars, worldVars, Idle
  <2>2. Exists(e) /\ ent[e].type = "work_item" /\ Pays(e, c)
    BY <2>1 DEF Exists, ItemsPay
  <2>3. QED
    BY <2>1, <2>2, PaysStays
<1>10. CASE VisitPassing
  <2>1. KeepsFixed(World, World', None)
    BY <1>1, <1>10, PassingStep
  <2>2. PICK v \in Entities : v = Visited
    BY <1>1, <1>10, VisitedIs DEF VisitPassing
  <2>3. /\ ent[v].type \in {"basic_projectile", "spell_healing_rain", "pickup"}
        /\ UNCHANGED <<rewards, disturbed>> /\ ~Idle
        /\ Goes(v) \/ Forget(v)
    BY <1>10, <2>2 DEF VisitPassing, Goes, Elsewhere, Visiting, Idle
  <2>4. e # v
    <3>1. ent[e].type = "work_item"
      BY <1>1, <2>1, ItemWas
    <3>2. QED
      BY <2>3, <3>1
  <2>5. place'[e] = place[e] /\ (e \notin ticked => e \notin ticked')
    BY <1>1, <2>3, <2>4 DEF Goes, Forget, TickType
  <2>6. QED
    BY <1>1, <2>1, <2>3, <2>5, ItemsStay
<1>11. CASE VisitRainFails \/ (VisitHits /\ disturbed')
  <2>1. disturbed'
    BY <1>11 DEF VisitRainFails
  <2>2. QED
    BY <2>1 DEF Pays
<1>12. CASE VisitHits /\ ~disturbed'
  <2>1. PICK m \in LivingMobs : Kills(m) /\ Reward(m, ent[Visited].owner) /\ ent[Visited].owner \in Clients
    BY <1>1, <1>12, HitsStep
  <2>2. KeepsFixed(World, World', m) /\ e # m /\ m \in Entities
    BY <1>1, <2>1, LivingMobsAre DEF Kills
  <2>3. rewards'[e] = rewards[e]
    BY <1>1, <2>1, <2>2, RewardType
  <2>4. PICK v \in Entities : v = Visited
    BY <1>1, <1>12, VisitedIs DEF VisitHits
  <2>5. ent[v].type = "basic_projectile" /\ Forget(v) /\ ~disturbed /\ ~Idle
    BY <1>12, <2>4 DEF VisitHits, Visiting, Idle
  <2>6. e # v
    <3>1. ent[e].type = "work_item"
      BY <2>2, ItemWas
    <3>2. QED
      BY <2>5, <3>1
  <2>7. place'[e] = place[e] /\ (e \notin ticked => e \notin ticked')
    BY <1>1, <2>5, <2>6 DEF Forget, TickType
  <2>8. QED
    BY <2>2, <2>3, <2>5, <2>7, ItemsStay
<1>13. CASE VisitMob
  <2>1. PICK v \in Mobs : v = Visited
    BY <1>1, <1>13, MobStep
  <2>2. /\ v \in Entities /\ KeepsFixed(World, World', v) /\ ent'[v].type = "dummy_simple"
        /\ \/ UNCHANGED <<worldVars, rewards>>
           \/ Revives(v)
           \/ Kills(v) /\ ent[v].alive /\ UNCHANGED rewards
    BY <1>1, <1>13, <2>1, MobStep, EntitiesAssumption
  <2>3. Goes(v) /\ ~Idle /\ e # v
    BY <1>13, <2>1, <2>2 DEF VisitMob, Visiting, Idle
  <2>4. rewards'[e][c] = rewards[e][c]
    BY <1>1, <2>2, <2>3 DEF Revives, TickType
  <2>5. place'[e] = place[e] /\ (e \notin ticked => e \notin ticked') /\ disturbed' = disturbed
    BY <2>3 DEF Goes
  <2>6. QED
    BY <2>2, <2>3, <2>4, <2>5, ItemsStay
<1>14. CASE VisitWorkItem
  <2>1. PICK v \in Entities : v = Visited
    BY <1>1, <1>14, WorkStep
  <2>2. KeepsFixed(World, World', v) /\ ent'[v].alive = IsThere(v)
    BY <1>1, <1>14, <2>1, WorkStep
  <2>3. /\ rewards' = IF IsThere(v) THEN [rewards EXCEPT ![v] = [d \in Clients |-> 0]] ELSE rewards
        /\ Goes(v) /\ ~Idle
    BY <1>14, <2>1 DEF VisitWorkItem, Visiting, Idle
  <2>4. CASE e # v
    <3>1. rewards'[e] = rewards[e]
      BY <1>1, <2>3, <2>4 DEF TickType
    <3>2. place'[e] = place[e] /\ (e \notin ticked => e \notin ticked') /\ disturbed' = disturbed
      BY <2>3, <2>4 DEF Goes
    <3>3. QED
      BY <2>2, <2>3, <2>4, <3>1, <3>2, ItemsStay
  <2>5. CASE e = v
    <3>1. IsThere(v) => rewards'[e][c] = 0
      BY <1>1, <2>3, <2>5 DEF TickType
    <3>2. QED
      BY <2>2, <2>5, <3>1, PaysNothing
  <2>6. QED
    BY <2>4, <2>5
<1>15. QED
  BY <1>2, <1>3, <1>4, <1>5, <1>6, <1>7, <1>8, <1>9, <1>10, <1>11, <1>12, <1>13, <1>14
     DEF Next, Tick

LEMMA InitItems == Init => ItemsPay
<1> SUFFICES ASSUME Init PROVE ItemsPay
  OBVIOUS
<1>1. \A e \in Entities : \A c \in Clients : rewards[e][c] = 0
  BY DEF Init
<1>2. QED
  BY <1>1 DEF ItemsPay, Pays, Broken

(***************************************************************************)
(* A dead mob pays one client, once; a broken work item, which stays alive *)
(* until its next visit, pays a client again only after a tick that an     *)
(* error ended or a new type disturbed, however the timers are set and     *)
(* whoever dies in between (work_item.lua:15-50, items.lua:59,             *)
(* dummy_base.lua:28, character.h:102).                                    *)
(***************************************************************************)
THEOREM AlwaysRewardedOnce == Spec => []RewardedOnce
<1>1. Init => IInv /\ ItemsPay
  BY InitIInv, InitItems
<1>2. IInv /\ ItemsPay /\ [Next]_vars => ItemsPay'
  <2> SUFFICES ASSUME IInv, ItemsPay, [Next]_vars PROVE ItemsPay'
    OBVIOUS
  <2>1. \A e \in Entities : Exists(e)' /\ ent'[e].type = "work_item" =>
          \A c \in Clients : Pays(e, c)'
    BY ItemsPayStep
  <2>2. QED
    BY <2>1 DEF ItemsPay
<1>3. IInv /\ ItemsPay => ItemsRewardedOnce
  <2> SUFFICES ASSUME IInv, ItemsPay, Idle, ~disturbed,
                      NEW e \in Entities, Exists(e), ent[e].type = "work_item", ent[e].alive,
                      NEW c \in Clients, reload[c] = 0
               PROVE  rewards[e][c] = 0
    BY DEF ItemsRewardedOnce
  <2>1. Pays(e, c) /\ ~Ahead(e)
    BY NoneAhead DEF ItemsPay
  <2>2. QED
    BY <2>1 DEF Pays, Broken
<1>4. Spec => [](IInv /\ ItemsPay)
  BY <1>1, <1>2, StepIInv, PTL DEF Spec
<1>5. Spec => []MobsRewardedOnce
  BY MobsAlwaysPayOnce
<1>6. QED
  BY <1>3, <1>4, <1>5, PTL DEF RewardedOnce

=============================================================================
