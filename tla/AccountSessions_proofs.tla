------------------------ MODULE AccountSessions_proofs ------------------------
(***************************************************************************)
(* Proofs about AccountSessions: type correctness, that a slot in the game *)
(* is logged in, the invariants of levels, experience and points, and that *)
(* the tables are made before they are used.                               *)
(***************************************************************************)
EXTENDS AccountSessions, TLAPS

(***************************************************************************)
(* Facts about the cost of a level (account_utils.lua:57-72).              *)
(***************************************************************************)
(* Every level costs at least 250 and no less than the level below it.     *)
LEMMA LevelCost ==
  ASSUME NEW level \in Nat \ {0}
  PROVE  /\ GetExpForLevelUp(level) \in Nat
         /\ GetExpForLevelUp(level) >= 250
         /\ GetExpForLevelUp(level) <= GetExpForLevelUp(level + 1)
<1>1. /\ ExpPerLevel(level) \in Nat
      /\ ExpPerLevel(level) >= 250
      /\ ExpPerLevel(level + 1) \in Nat
      /\ ExpPerLevel(level) <= ExpPerLevel(level + 1)
  BY DEF ExpPerLevel
<1>2. ASSUME NEW a \in Nat, NEW b \in Nat, a >= 250, a <= b
      PROVE  level * a \in Nat /\ level * a >= 250 /\ level * a <= (level + 1) * b
  <2>1. level * a >= a
    BY <1>2
  <2>2. level * a <= level * b /\ level * b <= (level + 1) * b
    BY <1>2
  <2>3. QED
    BY <1>2, <2>1, <2>2
<1>3. QED
  BY <1>1, <1>2 DEF GetExpForLevelUp

(* What one call of GiveExp does to the data of a character: at most one   *)
(* level, two points for it, and no experience left above the threshold.   *)
LEMMA WithExpFacts ==
  ASSUME NEW p \in Session, NEW gain \in 1 .. 250, BelowThreshold(p)
  PROVE  /\ WithExp(p, gain) \in Session
         /\ BelowThreshold(WithExp(p, gain))
         /\ Conserved(p) => Conserved(WithExp(p, gain))
         /\ Bounded(p) => Bounded(WithExp(p, gain))
<1> DEFINE cost == GetExpForLevelUp(p.level)
           next == GetExpForLevelUp(p.level + 1)
<1>1. /\ p.level \in Nat \ {0} /\ p.exp \in Nat /\ p.points \in Nat /\ p.spent \in Nat
      /\ p.exp < cost
  BY DEF Session, BelowThreshold
<1>2. cost \in Nat /\ next \in Nat /\ cost >= 250 /\ cost <= next
  <2>1. p.level + 1 \in Nat \ {0}
    BY <1>1
  <2>2. QED
    BY <1>1, <2>1, LevelCost
<1>3. CASE LevelsUp(p, gain)
  <2>1. PICK e \in Nat, l \in Nat \ {0}, n \in Nat :
          e = p.exp + gain - cost /\ l = p.level + 1 /\ n = p.points + 2
    BY <1>1, <1>2, <1>3 DEF LevelsUp
  <2>2. WithExp(p, gain) = [p EXCEPT !.exp = e, !.level = l, !.points = n]
    BY <1>3, <2>1, Zenon DEF WithExp
  <2> DEFINE q == [p EXCEPT !.exp = e, !.level = l, !.points = n]
  <2>3. /\ q \in Session /\ q.level = l /\ q.exp = e
        /\ q.points = n /\ q.spent = p.spent
    BY DEF Session
  <2>4. WithExp(p, gain) = q
    BY <2>2
  <2> HIDE DEF q
  <2>5. e < next
    BY <1>1, <1>2, <2>1
  <2>6. q.level = p.level + 1 /\ q.exp = e /\ q.points = p.points + 2
    BY <2>1, <2>3
  <2>7. QED
    BY <1>1, <2>3, <2>4, <2>5, <2>6 DEF BelowThreshold, Conserved, Bounded
<1>4. CASE ~LevelsUp(p, gain)
  <2> DEFINE q == [p EXCEPT !.exp = @ + gain]
  <2>1. WithExp(p, gain) = q
    BY <1>4, Zenon DEF WithExp
  <2>2. /\ q \in Session /\ q.level = p.level /\ q.exp = p.exp + gain
        /\ q.points = p.points /\ q.spent = p.spent
    BY <1>1 DEF Session
  <2> HIDE DEF q
  <2>3. QED
    BY <1>1, <1>2, <1>4, <2>1, <2>2 DEF LevelsUp, BelowThreshold, Conserved, Bounded
<1>5. QED
  BY <1>3, <1>4

(* Experience never makes the data of a character ill typed.               *)
LEMMA WithExpTyped ==
  ASSUME NEW p \in Session, NEW gain \in 1 .. 250
  PROVE  WithExp(p, gain) \in Session
<1> DEFINE cost == GetExpForLevelUp(p.level)
<1>1. p.level \in Nat \ {0} /\ p.exp \in Nat /\ p.points \in Nat
  BY DEF Session
<1>2. cost \in Nat
  BY <1>1, LevelCost
<1>3. CASE LevelsUp(p, gain)
  <2>1. PICK e \in Nat, l \in Nat \ {0}, n \in Nat :
          e = p.exp + gain - cost /\ l = p.level + 1 /\ n = p.points + 2
    BY <1>1, <1>2, <1>3 DEF LevelsUp
  <2>2. WithExp(p, gain) = [p EXCEPT !.exp = e, !.level = l, !.points = n]
    BY <1>3, <2>1, Zenon DEF WithExp
  <2>3. [p EXCEPT !.exp = e, !.level = l, !.points = n] \in Session
    BY DEF Session
  <2>4. QED
    BY <2>2, <2>3
<1>4. CASE ~LevelsUp(p, gain)
  <2>1. WithExp(p, gain) = [p EXCEPT !.exp = @ + gain]
    BY <1>4, Zenon DEF WithExp
  <2>2. QED
    BY <1>1, <2>1 DEF Session
<1>5. QED
  BY <1>3, <1>4

(* Spending a point keeps the sum of points.                               *)
LEMMA WithUpgradeFacts ==
  ASSUME NEW p \in Session, p.points > 0
  PROVE  /\ WithUpgrade(p) \in Session
         /\ WithUpgrade(p).level = p.level
         /\ WithUpgrade(p).exp = p.exp
         /\ Conserved(p) => Conserved(WithUpgrade(p))
         /\ Bounded(p) => Bounded(WithUpgrade(p))
<1>1. /\ p.level \in Nat \ {0} /\ p.exp \in Nat /\ p.points \in Nat /\ p.spent \in Nat
  BY DEF Session
<1>2. PICK m \in Nat, n \in Nat : m = p.points - 1 /\ n = p.spent + 1
  BY <1>1
<1> DEFINE q == [p EXCEPT !.points = m, !.spent = n]
<1>3. WithUpgrade(p) = q
  BY <1>2, Zenon DEF WithUpgrade
<1>4. /\ q \in Session /\ q.level = p.level /\ q.exp = p.exp
      /\ q.points = m /\ q.spent = n
  BY DEF Session
<1> HIDE DEF q
<1>5. QED
  BY <1>1, <1>2, <1>3, <1>4 DEF Conserved, Bounded

-----------------------------------------------------------------------------
(***************************************************************************)
(* Type correctness.  TypeOK is not inductive alone: Loop must find a      *)
(* closure under the name at the head of the queue.                        *)
(***************************************************************************)
NeverEmpty == \A i \in DOMAIN requests : globals[requests[i]] # NoClosure

TypeInv == TypeOK /\ NeverEmpty

(* A name in the table of names, and what a closure of each kind is.       *)
LEMMA ClosureKinds ==
  ASSUME NEW c \in Closures
  PROVE  /\ c.kind = "create" => c \in CreateClosure
         /\ c.kind \in {"register", "login"} => c \in ChatClosure
         /\ c.kind = "save" => c \in SaveClosure
BY DEF Closures, CreateClosure, ChatClosure, SaveClosure

LEMMA DBCallbackName == DBCallback \in DBNames
BY DEF DBNames

(* The queue of a server that has just loaded its scripts.                 *)
LEMMA FreshTyped ==
  ASSUME NEW g, NEW r, g = FreshGlobals, r = TableOrder
  PROVE  /\ g \in [DBNames -> Closures \cup {NoClosure}]
         /\ r \in Seq(DBNames)
         /\ \A i \in DOMAIN r : g[r[i]] # NoClosure
<1>1. g \in [DBNames -> Closures \cup {NoClosure}]
  <2>1. ASSUME NEW n \in DBNames, n # DBCallback
        PROVE  [kind |-> "create", table |-> n] \in Closures
    BY <2>1 DEF DBNames, Closures, CreateClosure
  <2>2. QED
    BY <2>1 DEF FreshGlobals
<1>2. r \in Seq(DBNames)
  BY DEF TableOrder, DBNames, TableNames
<1>3. ASSUME NEW i \in DOMAIN r
      PROVE  g[r[i]] # NoClosure
  <2>1. r[i] \in TableNames
    BY DEF TableOrder, TableNames
  <2>2. r[i] \in DBNames /\ r[i] # DBCallback
    BY <2>1 DEF TableNames, DBNames, DBCallback
  <2>3. [kind |-> "create", table |-> r[i]] \in Closures
    BY <2>1 DEF Closures, CreateClosure
  <2>4. QED
    BY <2>2, <2>3, NullAssumption DEF FreshGlobals
<1>4. QED
  BY <1>1, <1>2, <1>3

LEMMA TypeInvInit == Init => TypeInv
BY FreshTyped DEF Init, TypeInv, TypeOK, NeverEmpty, NoOccupants, NoSessions

(* DB.Execute keeps the queue well typed and no request without a closure. *)
LEMMA ExecuteTyped ==
  ASSUME TypeInv, NEW c \in Closures, Execute(c)
  PROVE  /\ globals' \in [DBNames -> Closures \cup {NoClosure}]
         /\ requests' \in Seq(DBNames)
         /\ NeverEmpty'
<1> USE DEF TypeInv, TypeOK
<1>1. /\ globals' = [globals EXCEPT ![DBCallback] = c]
      /\ requests' = Append(requests, DBCallback)
  BY DEF Execute, DBQ!Execute, DBQ!Enqueue
<1>2. globals' \in [DBNames -> Closures \cup {NoClosure}]
  BY <1>1
<1>3. requests' \in Seq(DBNames)
  BY <1>1, DBCallbackName
<1>4. ASSUME NEW i \in DOMAIN requests'
      PROVE  globals'[requests'[i]] # NoClosure
  <2>1. c # NoClosure
    BY NullAssumption
  <2>2. CASE i \in DOMAIN requests
    <3>1. requests'[i] = requests[i] /\ requests[i] \in DBNames
      BY <1>1, <2>2
    <3>2. globals[requests[i]] # NoClosure
      BY <2>2 DEF NeverEmpty
    <3>3. QED
      BY <1>1, <2>1, <3>1, <3>2
  <2>3. CASE i \notin DOMAIN requests
    <3>1. requests'[i] = DBCallback
      BY <1>1, <1>4, <2>3, DBCallbackName
    <3>2. QED
      BY <1>1, <2>1, <3>1, DBCallbackName
  <2>4. QED
    BY <2>2, <2>3
<1>5. QED
  BY <1>2, <1>3, <1>4 DEF NeverEmpty

(* CSQLite::Loop finds a closure and leaves the rest of the queue alone.   *)
LEMMA LoopTyped ==
  ASSUME TypeInv, DBQ!Loop
  PROVE  /\ DBQ!NextClosure \in Closures
         /\ globals' = globals
         /\ requests' \in Seq(DBNames)
         /\ NeverEmpty'
<1> USE DEF TypeInv, TypeOK
<1>1. requests # << >> /\ requests' = Tail(requests) /\ globals' = globals
  BY DEF DBQ!Loop, DBQ!Dequeue
<1>2. 1 \in DOMAIN requests /\ Head(requests) = requests[1] /\ requests[1] \in DBNames
  BY <1>1
<1>3. DBQ!NextClosure \in Closures
  BY <1>2 DEF DBQ!NextClosure, NeverEmpty
<1>4. requests' \in Seq(DBNames)
  BY <1>1
<1>5. ASSUME NEW i \in DOMAIN requests'
      PROVE  globals'[requests'[i]] # NoClosure
  <2>1. i + 1 \in DOMAIN requests /\ requests'[i] = requests[i + 1]
    BY <1>1, <1>5
  <2>2. QED
    BY <1>1, <2>1 DEF NeverEmpty
<1>6. QED
  BY <1>1, <1>3, <1>4, <1>5 DEF NeverEmpty

(* A row read from the tables is a session.                                *)
LEMMA LoadedTyped ==
  ASSUME TypeOK, NEW id \in Registered
  PROVE  /\ id \in Ids /\ accounts[id] \in AccountRow
         /\ LoadedSession(id) \in Session
<1>1. id \in Ids /\ accounts[id] \in AccountRow
  BY DEF TypeOK, Registered
<1>2. StoredSpent(id) \in Nat
  BY <1>1 DEF TypeOK, StoredSpent
<1>3. QED
  BY <1>1, <1>2 DEF LoadedSession, Session, AccountRow

(* The effect of UPDATE accounts on the rows.                              *)
LEMMA UpdateAccountFacts ==
  ASSUME TypeOK, NEW p \in Session, UpdateAccount(p)
  PROVE  /\ accounts' \in [Ids -> AccountRow \cup {NoRow}]
         /\ \A id \in Ids : id # p.id => accounts'[id] = accounts[id]
         /\ accounts'[p.id] = NoRow <=> accounts[p.id] = NoRow
         /\ accounts[p.id] # NoRow =>
              /\ accounts'[p.id].level = p.level
              /\ accounts'[p.id].exp = p.exp
              /\ accounts'[p.id].points = p.points
              /\ accounts'[p.id].name = accounts[p.id].name
<1>1. PICK i \in Ids, l \in Nat \ {0}, e \in Nat, n \in Nat :
        i = p.id /\ l = p.level /\ e = p.exp /\ n = p.points
  BY DEF Session
<1> DEFINE row == [accounts[i] EXCEPT !.level = l, !.exp = e, !.points = n]
<1>2. accounts' = [accounts EXCEPT ![i] = IF accounts[i] = NoRow THEN NoRow ELSE row]
  BY <1>1, Zenon DEF UpdateAccount
<1>3. accounts[i] # NoRow =>
        /\ row \in AccountRow
        /\ row.level = l /\ row.exp = e /\ row.points = n
        /\ row.name = accounts[i].name
  <2>1. ASSUME NEW r \in AccountRow
        PROVE  LET q == [r EXCEPT !.level = l, !.exp = e, !.points = n]
               IN  /\ q \in AccountRow
                   /\ q.level = l /\ q.exp = e /\ q.points = n
                   /\ q.name = r.name
    BY DEF AccountRow
  <2>2. accounts[i] # NoRow => accounts[i] \in AccountRow
    BY DEF TypeOK
  <2>3. QED
    BY <2>1, <2>2, Zenon
<1> HIDE DEF row
<1>4. QED
  <2>1. i \in Ids /\ accounts \in [Ids -> AccountRow \cup {NoRow}]
    BY DEF TypeOK
  <2>2. NoRow \notin AccountRow
    BY NullAssumption
  <2>3. QED
    BY <1>1, <1>2, <1>3, <2>1, <2>2

(* What a crash can leave of the closure that was running.                 *)
LEMMA CrashRows ==
  ASSUME TypeInv, requests # << >>, PartialClosure(DBQ!NextClosure)
  PROVE  accounts' \in [Ids -> AccountRow \cup {NoRow}]
<1> DEFINE c == DBQ!NextClosure
<1>0. TypeOK
  BY DEF TypeInv
<1>1. c \in Closures
  <2>1. 1 \in DOMAIN requests /\ Head(requests) = requests[1] /\ requests[1] \in DBNames
    BY <1>0 DEF TypeOK
  <2>2. QED
    BY <1>0, <2>1 DEF TypeInv, TypeOK, NeverEmpty, DBQ!NextClosure
<1> HIDE DEF c
<1>2. ASSUME c.kind = "register", NEW id \in Ids, InsertAccount(c, id)
      PROVE  accounts' \in [Ids -> AccountRow \cup {NoRow}]
  <2>1. NewRow(c) \in AccountRow
    BY <1>1, <1>2, ClosureKinds DEF NewRow, AccountRow, ChatClosure
  <2>2. QED
    BY <1>0, <1>2, <2>1 DEF InsertAccount, TypeOK
<1>3. ASSUME c.kind = "save", UpdateAccount(c.data)
      PROVE  accounts' \in [Ids -> AccountRow \cup {NoRow}]
  <2>1. c.data \in Session
    BY <1>1, <1>3, ClosureKinds DEF SaveClosure
  <2>2. QED
    BY <1>0, <1>3, <2>1, UpdateAccountFacts
<1>4. PartialClosure(c)
  BY DEF c
<1>5. QED
  BY <1>2, <1>3, <1>4 DEF PartialClosure

(* Every action, a crash included, keeps the types.                        *)
LEMMA TypeInvStep == TypeInv /\ [Next \/ Crash]_vars => TypeInv'
<1> SUFFICES ASSUME TypeInv, [Next \/ Crash]_vars
             PROVE  TypeInv'
  OBVIOUS
<1>0. TypeOK /\ NeverEmpty
  BY DEF TypeInv
<1> USE DEF TypeOK
<1>1. ASSUME NEW s \in Slots, NEW u \in Users, Join(s, u)
      PROVE  TypeInv'
  BY <1>0, <1>1 DEF Join, queue, database, TypeInv, NeverEmpty
<1>2. ASSUME NEW s \in Slots, Leave(s)
      PROVE  TypeInv'
  <2>1. /\ occupant' \in [Slots -> Users \cup {NoUser}]
        /\ inGame' \in SUBSET Slots
        /\ session' \in [Slots -> Session \cup {NoSession}]
        /\ tables' = tables /\ accounts' = accounts /\ u_upgrs' = u_upgrs
    BY <1>0, <1>2 DEF Leave, database
  <2>2. CASE LoggedIn(s)
    <3>1. [kind |-> "save", data |-> session[s]] \in Closures
      BY <1>0, <2>2 DEF LoggedIn, Closures, SaveClosure
    <3>2. Execute([kind |-> "save", data |-> session[s]])
      BY <1>2, <2>2 DEF Leave
    <3>3. QED
      BY <1>0, <2>1, <3>1, <3>2, ExecuteTyped DEF TypeInv
  <2>3. CASE ~LoggedIn(s)
    BY <1>0, <1>2, <2>1, <2>3 DEF Leave, queue, TypeInv, NeverEmpty
  <2>4. QED
    BY <2>2, <2>3
<1>3. ASSUME NEW s \in Slots, NEW l \in Logins, NEW k \in {"register", "login"},
             occupant[s] # NoUser, UNCHANGED memory, UNCHANGED database,
             Execute([kind |-> k, slot |-> s, name |-> l, password |-> occupant[s]])
      PROVE  TypeInv'
  <2>1. [kind |-> k, slot |-> s, name |-> l, password |-> occupant[s]] \in Closures
    BY <1>0, <1>3 DEF Closures, ChatClosure
  <2>2. /\ globals' \in [DBNames -> Closures \cup {NoClosure}]
        /\ requests' \in Seq(DBNames)
        /\ NeverEmpty'
    BY <1>3, <2>1, ExecuteTyped
  <2>3. QED
    BY <1>0, <1>3, <2>2 DEF memory, database, TypeInv
<1>4. ASSUME NEW s \in Slots, NEW l \in Logins, ChatRegister(s, l)
      PROVE  TypeInv'
  BY <1>3, <1>4 DEF ChatRegister
<1>5. ASSUME NEW s \in Slots, NEW l \in Logins, ChatLogin(s, l)
      PROVE  TypeInv'
  BY <1>3, <1>5 DEF ChatLogin
<1>6. ASSUME NEW s \in Slots, LoggedIn(s), NEW p \in Session,
             session' = [session EXCEPT ![s] = p],
             UNCHANGED <<occupant, inGame>>, UNCHANGED queue, UNCHANGED database
      PROVE  TypeInv'
  BY <1>0, <1>6 DEF queue, database, TypeInv, NeverEmpty
<1>7. ASSUME NEW s \in Slots, LoggedIn(s)
      PROVE  session[s] \in Session
  BY <1>0, <1>7 DEF LoggedIn
<1>8. ASSUME NEW s \in Slots, NEW gain \in ExpGains, GiveExp(s, gain)
      PROVE  TypeInv'
  <2>1. session[s] \in Session /\ LoggedIn(s)
    BY <1>7, <1>8 DEF GiveExp
  <2>2. WithExp(session[s], gain) \in Session
    BY <2>1, GainAssumption, WithExpTyped
  <2>3. QED
    BY <1>6, <1>8, <2>1, <2>2 DEF GiveExp
<1>9. ASSUME NEW s \in Slots, UpgradeStat(s)
      PROVE  TypeInv'
  <2>1. session[s] \in Session /\ LoggedIn(s)
    BY <1>7, <1>9 DEF UpgradeStat
  <2>2. WithUpgrade(session[s]) \in Session
    BY <1>9, <2>1, WithUpgradeFacts DEF UpgradeStat
  <2>3. QED
    BY <1>6, <1>9, <2>1, <2>2 DEF UpgradeStat
<1>10. ASSUME NEW id \in Ids, BanAccount(id)
       PROVE  TypeInv'
  <2>1. accounts[id] \in AccountRow
    BY <1>0, <1>10 DEF BanAccount
  <2>2. accounts' = [accounts EXCEPT ![id] = [accounts[id] EXCEPT !.banned = TRUE]]
    BY <1>10 DEF BanAccount
  <2>3. [accounts[id] EXCEPT !.banned = TRUE] \in AccountRow
    BY <2>1 DEF AccountRow
  <2>4. accounts' \in [Ids -> AccountRow \cup {NoRow}]
    BY <1>0, <2>2, <2>3
  <2>5. QED
    BY <1>0, <1>10, <2>4 DEF BanAccount, memory, queue, TypeInv, NeverEmpty
<1>11. CASE Tick
  <2> DEFINE c == DBQ!NextClosure
  <2>1. c \in Closures /\ globals' = globals /\ requests' \in Seq(DBNames) /\ NeverEmpty'
    BY <1>11, LoopTyped DEF Tick
  <2> HIDE DEF c
  <2>2. CASE RunCreate(c)
    <3>1. c.table \in TableNames
      BY <2>1, <2>2, ClosureKinds DEF RunCreate, CreateClosure
    <3>2. QED
      BY <1>0, <2>1, <2>2, <3>1 DEF RunCreate, memory, TypeInv
  <2>3. CASE RunRegister(c)
    <3>1. c \in ChatClosure
      BY <2>1, <2>3, ClosureKinds DEF RunRegister
    <3>2. NewRow(c) \in AccountRow
      BY <3>1 DEF NewRow, AccountRow, ChatClosure
    <3>3. accounts' \in [Ids -> AccountRow \cup {NoRow}] /\ u_upgrs' \in [Ids -> Nat \cup {NoRow}]
      BY <1>0, <2>3, <3>2 DEF RunRegister, InsertAccount, InsertStats
    <3>4. QED
      BY <1>0, <2>1, <2>3, <3>3 DEF RunRegister, memory, TypeInv
  <2>4. CASE RunLogin(c)
    <3>1. c.slot \in Slots
      BY <2>1, <2>4, ClosureKinds DEF RunLogin, ChatClosure
    <3>2. ASSUME NEW id \in Matching(c), OpenSession(c.slot, id)
          PROVE  session' \in [Slots -> Session \cup {NoSession}] /\ inGame' \in SUBSET Slots
      <4>1. LoadedSession(id) \in Session
        BY <1>0, LoadedTyped DEF Matching
      <4>2. QED
        BY <1>0, <3>1, <3>2, <4>1 DEF OpenSession
    <3>3. session' \in [Slots -> Session \cup {NoSession}] /\ inGame' \in SUBSET Slots
      BY <1>0, <2>4, <3>2 DEF RunLogin
    <3>4. QED
      BY <1>0, <2>1, <2>4, <3>3 DEF RunLogin, database, TypeInv
  <2>5. CASE RunSave(c)
    <3>1. c.data \in Session
      BY <2>1, <2>5, ClosureKinds DEF RunSave, SaveClosure
    <3>2. accounts' \in [Ids -> AccountRow \cup {NoRow}]
      BY <1>0, <2>5, <3>1, UpdateAccountFacts DEF RunSave
    <3>3. u_upgrs' \in [Ids -> Nat \cup {NoRow}]
      BY <1>0, <2>5, <3>1 DEF RunSave, UpdateStats, Session
    <3>4. QED
      BY <1>0, <2>1, <2>5, <3>2, <3>3 DEF RunSave, memory, TypeInv
  <2>6. QED
    BY <1>11, <2>2, <2>3, <2>4, <2>5 DEF Tick, c
<1>12. CASE Crash
  <2>1. /\ occupant' \in [Slots -> Users \cup {NoUser}]
        /\ inGame' \in SUBSET Slots
        /\ session' \in [Slots -> Session \cup {NoSession}]
        /\ globals' \in [DBNames -> Closures \cup {NoClosure}]
        /\ requests' \in Seq(DBNames)
        /\ NeverEmpty'
    <3>1. globals' = FreshGlobals /\ requests' = TableOrder
      BY <1>12 DEF Crash
    <3>2. /\ globals' \in [DBNames -> Closures \cup {NoClosure}]
          /\ requests' \in Seq(DBNames)
          /\ \A i \in DOMAIN requests' : globals'[requests'[i]] # NoClosure
      BY <3>1, FreshTyped
    <3>3. QED
      BY <1>12, <3>2 DEF Crash, NoOccupants, NoSessions, NeverEmpty
  <2>2. accounts' \in [Ids -> AccountRow \cup {NoRow}]
    BY <1>0, <1>12, CrashRows DEF Crash
  <2>3. QED
    BY <1>0, <1>12, <2>1, <2>2 DEF Crash, TypeInv
<1>13. CASE UNCHANGED vars
  BY <1>0, <1>13 DEF vars, TypeInv, NeverEmpty
<1>14. QED
  BY <1>1, <1>2, <1>4, <1>5, <1>8, <1>9, <1>10, <1>11, <1>12, <1>13 DEF Next

LEMMA TypeInvAlways == CrashSpec => []TypeInv
<1>1. TypeInv /\ [Next \/ Crash]_vars => TypeInv'
  BY TypeInvStep
<1>2. QED
  BY TypeInvInit, <1>1, PTL DEF CrashSpec

(* A behaviour without crashes is one of those with crashes.               *)
LEMMA SpecCrash == Spec => CrashSpec
<1>1. [Next]_vars => [Next \/ Crash]_vars
  OBVIOUS
<1>2. QED
  BY <1>1, PTL DEF Spec, CrashSpec

(* The state is well typed in every behaviour, with crashes or without.    *)
THEOREM TypeCorrect == CrashSpec \/ Spec => []TypeOK
<1>1. TypeInv => TypeOK
  BY DEF TypeInv
<1>2. QED
  BY TypeInvAlways, SpecCrash, <1>1, PTL

-----------------------------------------------------------------------------
(***************************************************************************)
(* A slot in the game is logged in.                                        *)
(***************************************************************************)
LEMMA InGameStep ==
  TypeInv /\ InGameIsLoggedIn /\ [Next \/ Crash]_vars => InGameIsLoggedIn'
<1> SUFFICES ASSUME TypeInv, InGameIsLoggedIn, [Next \/ Crash]_vars
             PROVE  InGameIsLoggedIn'
  OBVIOUS
<1>0. TypeOK
  BY DEF TypeInv
<1> USE NullAssumption DEF TypeOK, InGameIsLoggedIn, LoggedIn
<1>1. ASSUME NEW s \in Slots, NEW u \in Users, Join(s, u)
      PROVE  InGameIsLoggedIn'
  BY <1>0, <1>1 DEF Join
<1>2. ASSUME NEW s \in Slots, Leave(s)
      PROVE  InGameIsLoggedIn'
  BY <1>0, <1>2 DEF Leave
<1>3. ASSUME NEW s \in Slots, NEW l \in Logins, ChatRegister(s, l) \/ ChatLogin(s, l)
      PROVE  InGameIsLoggedIn'
  BY <1>0, <1>3 DEF ChatRegister, ChatLogin, memory
<1>4. ASSUME NEW s \in Slots, NEW p \in Session, session' = [session EXCEPT ![s] = p],
             UNCHANGED <<occupant, inGame>>
      PROVE  InGameIsLoggedIn'
  BY <1>0, <1>4
<1>5. ASSUME NEW s \in Slots, NEW gain \in ExpGains, GiveExp(s, gain)
      PROVE  InGameIsLoggedIn'
  <2>1. WithExp(session[s], gain) \in Session
    BY <1>0, <1>5, GainAssumption, WithExpTyped DEF GiveExp
  <2>2. QED
    BY <1>4, <1>5, <2>1 DEF GiveExp
<1>6. ASSUME NEW s \in Slots, UpgradeStat(s)
      PROVE  InGameIsLoggedIn'
  <2>1. WithUpgrade(session[s]) \in Session
    BY <1>0, <1>6, WithUpgradeFacts DEF UpgradeStat
  <2>2. QED
    BY <1>4, <1>6, <2>1 DEF UpgradeStat
<1>7. ASSUME NEW id \in Ids, BanAccount(id)
      PROVE  InGameIsLoggedIn'
  BY <1>0, <1>7 DEF BanAccount, memory
<1>8. CASE Tick
  <2> DEFINE c == DBQ!NextClosure
  <2>1. c \in Closures
    BY <1>8, LoopTyped DEF Tick
  <2> HIDE DEF c
  <2>2. CASE RunCreate(c) \/ RunRegister(c) \/ RunSave(c)
    BY <1>0, <2>2 DEF RunCreate, RunRegister, RunSave, memory
  <2>3. CASE RunLogin(c)
    <3>0. c.slot \in Slots
      BY <2>1, <2>3, ClosureKinds DEF RunLogin, ChatClosure
    <3>1. ASSUME NEW id \in Matching(c), OpenSession(c.slot, id), occupant' = occupant
          PROVE  InGameIsLoggedIn'
      <4>1. LoadedSession(id) \in Session
        BY <1>0, LoadedTyped DEF Matching
      <4>2. QED
        BY <1>0, <3>0, <3>1, <4>1 DEF OpenSession
    <3>2. QED
      BY <1>0, <2>3, <3>1 DEF RunLogin
  <2>4. QED
    BY <1>8, <2>2, <2>3 DEF Tick, c
<1>9. CASE Crash
  BY <1>9 DEF Crash
<1>10. CASE UNCHANGED vars
  BY <1>0, <1>10 DEF vars
<1>11. QED
  BY <1>1, <1>2, <1>3, <1>5, <1>6, <1>7, <1>8, <1>9, <1>10 DEF Next

(* The game code that uses the data of an in-game client unasked always    *)
(* finds it (players.lua:12-19, :231-235).                                 *)
THEOREM InGameHasData == CrashSpec \/ Spec => []InGameIsLoggedIn
<1>1. Init => InGameIsLoggedIn
  BY DEF Init, InGameIsLoggedIn
<1>2. CrashSpec => []InGameIsLoggedIn
  BY <1>1, TypeInvAlways, InGameStep, PTL DEF CrashSpec
<1>3. QED
  BY <1>2, SpecCrash, PTL

-----------------------------------------------------------------------------
(***************************************************************************)
(* Levels, experience and unspent points, crashes included.                *)
(***************************************************************************)
Fine(p) == BelowThreshold(p) /\ Bounded(p)

Levels ==
  /\ \A s \in Slots : LoggedIn(s) => Fine(session[s])
  /\ \A n \in DBNames : globals[n] \in SaveClosure => Fine(globals[n].data)
  /\ \A id \in Registered : Fine(accounts[id])

(* Fine depends on level, experience and points only.                      *)
LEMMA FineFields ==
  ASSUME NEW p, NEW q, Fine(p),
         q.level = p.level, q.exp = p.exp, q.points = p.points
  PROVE  Fine(q)
BY DEF Fine, BelowThreshold, Bounded

(* A change of the data of one slot by game code.                          *)
LEMMA LevelsSession ==
  ASSUME TypeOK, Levels, NEW s \in Slots, NEW p \in Session, Fine(p),
         session' = [session EXCEPT ![s] = p],
         UNCHANGED queue, UNCHANGED database
  PROVE  Levels'
BY DEF TypeOK, Levels, LoggedIn, queue, database, Registered

(* A closure handed to DB.Execute, the other variables but session kept.   *)
LEMMA LevelsExecute ==
  ASSUME TypeOK, Levels, NEW c \in Closures, Execute(c),
         c \in SaveClosure => Fine(c.data),
         \A s \in Slots : session'[s] = session[s] \/ session'[s] = NoSession,
         UNCHANGED database
  PROVE  Levels'
<1>1. \A n \in DBNames : globals'[n] = c \/ globals'[n] = globals[n]
  BY DEF Execute, DBQ!Execute, DBQ!Enqueue, TypeOK
<1>2. Registered' = Registered /\ accounts' = accounts
  BY DEF database, Registered
<1>3. QED
  BY <1>1, <1>2 DEF Levels, LoggedIn

(* Rows that a registration leaves.                                        *)
LEMMA LevelsInsert ==
  ASSUME TypeOK, Levels, NEW c \in ChatClosure, NEW id \in Ids, InsertAccount(c, id)
  PROVE  \A i \in Registered' : Fine(accounts'[i])
<1>1. /\ NewRow(c).level = 1 /\ NewRow(c).exp = 0 /\ NewRow(c).points = 0
  BY DEF NewRow
<1>2. Fine(NewRow(c))
  <2>1. GetExpForLevelUp(1) >= 250 /\ GetExpForLevelUp(1) \in Nat
    BY LevelCost
  <2>2. QED
    BY <1>1, <2>1 DEF Fine, BelowThreshold, Bounded
<1>3. QED
  BY <1>2 DEF InsertAccount, TypeOK, Levels, Registered

(* Rows that the first statement of a save leaves.                         *)
LEMMA LevelsUpdate ==
  ASSUME TypeOK, Levels, NEW p \in Session, Fine(p), UpdateAccount(p)
  PROVE  \A i \in Registered' : Fine(accounts'[i])
<1> SUFFICES ASSUME NEW i \in Registered'
             PROVE  Fine(accounts'[i])
  OBVIOUS
<1>0. i \in Ids /\ accounts'[i] # NoRow
  BY DEF Registered
<1>1. CASE i = p.id
  BY <1>0, <1>1, UpdateAccountFacts, FineFields
<1>2. CASE i # p.id
  BY <1>0, <1>2, UpdateAccountFacts DEF Registered, Levels
<1>3. QED
  BY <1>1, <1>2

LEMMA LevelsStep == TypeInv /\ Levels /\ [Next \/ Crash]_vars => Levels'
<1> SUFFICES ASSUME TypeInv, Levels, [Next \/ Crash]_vars
             PROVE  Levels'
  OBVIOUS
<1>0. TypeOK
  BY DEF TypeInv
<1>1. ASSUME NEW s \in Slots, NEW u \in Users, Join(s, u)
      PROVE  Levels'
  BY <1>1 DEF Join, Levels, LoggedIn, Registered, queue, database
<1>2. ASSUME NEW s \in Slots, Leave(s)
      PROVE  Levels'
  <2>1. /\ \A r \in Slots : session'[r] = session[r] \/ session'[r] = NoSession
        /\ UNCHANGED database
    BY <1>0, <1>2 DEF Leave, TypeOK
  <2>2. CASE LoggedIn(s)
    <3> DEFINE c == [kind |-> "save", data |-> session[s]]
    <3>1. c \in Closures /\ c.data = session[s]
      BY <1>0, <2>2 DEF TypeOK, LoggedIn, Closures, SaveClosure
    <3>2. Fine(session[s])
      BY <2>2 DEF Levels
    <3>3. Execute(c)
      BY <1>2, <2>2 DEF Leave
    <3> HIDE DEF c
    <3>4. QED
      BY <1>0, <2>1, <3>1, <3>2, <3>3, LevelsExecute
  <2>3. CASE ~LoggedIn(s)
    <3>1. globals' = globals /\ accounts' = accounts /\ Registered' = Registered
      BY <1>2, <2>3 DEF Leave, queue, database, Registered
    <3>2. QED
      BY <2>1, <3>1 DEF Levels, LoggedIn
  <2>4. QED
    BY <2>2, <2>3
<1>3. ASSUME NEW s \in Slots, NEW l \in Logins, NEW k \in {"register", "login"},
             occupant[s] # NoUser, UNCHANGED memory, UNCHANGED database,
             Execute([kind |-> k, slot |-> s, name |-> l, password |-> occupant[s]])
      PROVE  Levels'
  <2> DEFINE c == [kind |-> k, slot |-> s, name |-> l, password |-> occupant[s]]
  <2>1. c \in Closures /\ c \notin SaveClosure
    BY <1>0, <1>3 DEF TypeOK, Closures, ChatClosure, SaveClosure
  <2>2. session' = session
    BY <1>3 DEF memory
  <2> HIDE DEF c
  <2>3. Execute(c)
    BY <1>3 DEF c
  <2>4. QED
    BY <1>0, <1>3, <2>1, <2>2, <2>3, LevelsExecute
<1>4. ASSUME NEW s \in Slots, NEW l \in Logins, ChatRegister(s, l)
      PROVE  Levels'
  BY <1>3, <1>4 DEF ChatRegister
<1>5. ASSUME NEW s \in Slots, NEW l \in Logins, ChatLogin(s, l)
      PROVE  Levels'
  BY <1>3, <1>5 DEF ChatLogin
<1>6. ASSUME NEW s \in Slots, NEW gain \in ExpGains, GiveExp(s, gain)
      PROVE  Levels'
  <2>1. session[s] \in Session /\ Fine(session[s])
    BY <1>0, <1>6 DEF GiveExp, TypeOK, LoggedIn, Levels
  <2>2. WithExp(session[s], gain) \in Session /\ Fine(WithExp(session[s], gain))
    BY <2>1, GainAssumption, WithExpFacts DEF Fine
  <2>3. QED
    BY <1>0, <1>6, <2>2, LevelsSession DEF GiveExp
<1>7. ASSUME NEW s \in Slots, UpgradeStat(s)
      PROVE  Levels'
  <2>1. session[s] \in Session /\ Fine(session[s]) /\ session[s].points > 0
    BY <1>0, <1>7 DEF UpgradeStat, TypeOK, LoggedIn, Levels
  <2>2. WithUpgrade(session[s]) \in Session /\ Fine(WithUpgrade(session[s]))
    BY <2>1, WithUpgradeFacts DEF Fine, BelowThreshold
  <2>3. QED
    BY <1>0, <1>7, <2>2, LevelsSession DEF UpgradeStat
<1>8. ASSUME NEW id \in Ids, BanAccount(id)
      PROVE  Levels'
  <2>1. accounts[id] \in AccountRow /\ id \in Registered
    BY <1>0, <1>8 DEF BanAccount, TypeOK, Registered
  <2> DEFINE row == [accounts[id] EXCEPT !.banned = TRUE]
  <2>2. /\ row.level = accounts[id].level /\ row.exp = accounts[id].exp
        /\ row.points = accounts[id].points
    BY <2>1 DEF AccountRow
  <2>3. accounts' = [accounts EXCEPT ![id] = row]
    BY <1>8 DEF BanAccount
  <2> HIDE DEF row
  <2>4. Fine(row)
    BY <2>1, <2>2, FineFields DEF Levels
  <2>5. \A i \in Registered' : Fine(accounts'[i])
    BY <1>0, <2>1, <2>3, <2>4 DEF TypeOK, Registered, Levels
  <2>6. QED
    BY <1>8, <2>5 DEF BanAccount, memory, queue, Levels, LoggedIn
<1>9. CASE Tick
  <2> DEFINE c == DBQ!NextClosure
  <2>1. c \in Closures /\ globals' = globals
    BY <1>9, LoopTyped DEF Tick
  <2>2. c.kind = "save" => c.data \in Session /\ Fine(c.data)
    <3>1. c = globals[Head(requests)] /\ Head(requests) \in DBNames
      BY <1>0, <1>9 DEF Tick, DBQ!Loop, DBQ!Dequeue, DBQ!NextClosure, TypeOK
    <3>2. c.kind = "save" => c \in SaveClosure
      BY <2>1, ClosureKinds
    <3> HIDE DEF c
    <3>3. QED
      BY <3>1, <3>2 DEF Levels, SaveClosure
  <2> HIDE DEF c
  <2>3. CASE RunCreate(c)
    BY <2>1, <2>3 DEF RunCreate, memory, Levels, LoggedIn, Registered
  <2>4. CASE RunRegister(c)
    <3>1. c \in ChatClosure
      BY <2>1, <2>4, ClosureKinds DEF RunRegister
    <3>2. \A i \in Registered' : Fine(accounts'[i])
      BY <1>0, <2>4, <3>1, LevelsInsert DEF RunRegister, Registered, Levels
    <3>3. QED
      BY <2>1, <2>4, <3>2 DEF RunRegister, memory, Levels, LoggedIn
  <2>5. CASE RunLogin(c)
    <3>1. c.slot \in Slots
      BY <2>1, <2>5, ClosureKinds DEF RunLogin, ChatClosure
    <3>2. ASSUME NEW id \in Matching(c), OpenSession(c.slot, id)
          PROVE  \A s \in Slots : session'[s] = session[s] \/ Fine(session'[s])
      <4>1. Fine(LoadedSession(id))
        BY <3>2, FineFields DEF Matching, LoadedSession, Levels
      <4>2. QED
        BY <1>0, <3>1, <3>2, <4>1 DEF OpenSession, TypeOK
    <3>3. \A s \in Slots : session'[s] = session[s] \/ Fine(session'[s])
      BY <2>5, <3>2 DEF RunLogin
    <3>4. QED
      BY <2>1, <2>5, <3>3 DEF RunLogin, database, Levels, LoggedIn, Registered
  <2>6. CASE RunSave(c)
    <3>1. \A i \in Registered' : Fine(accounts'[i])
      BY <1>0, <2>2, <2>6, LevelsUpdate DEF RunSave
    <3>2. QED
      BY <2>1, <2>6, <3>1 DEF RunSave, memory, Levels, LoggedIn
  <2>7. QED
    BY <1>9, <2>3, <2>4, <2>5, <2>6 DEF Tick, c
<1>10. CASE Crash
  <2>1. \A i \in Registered' : Fine(accounts'[i])
    <3>1. CASE accounts' = accounts
      BY <3>1 DEF Registered, Levels
    <3>2. CASE requests # << >> /\ PartialClosure(DBQ!NextClosure)
      <4> DEFINE c == DBQ!NextClosure
      <4>1. /\ c = globals[Head(requests)] /\ Head(requests) \in DBNames
            /\ c \in Closures
        <5>1. Head(requests) = requests[1] /\ 1 \in DOMAIN requests
          BY <1>0, <3>2 DEF TypeOK
        <5>2. QED
          BY <1>0, <5>1 DEF TypeOK, TypeInv, NeverEmpty, DBQ!NextClosure
      <4> HIDE DEF c
      <4>2. c.kind = "save" => c.data \in Session /\ Fine(c.data)
        BY <4>1, ClosureKinds DEF Levels, SaveClosure
      <4>3. c.kind = "register" => c \in ChatClosure
        BY <4>1, ClosureKinds
      <4>4. PartialClosure(c)
        BY <3>2 DEF c
      <4>5. QED
        BY <1>0, <4>2, <4>3, <4>4, LevelsInsert, LevelsUpdate DEF PartialClosure
    <3>3. QED
      BY <1>10, <3>1, <3>2 DEF Crash
  <2>2. \A n \in DBNames : globals'[n] \notin SaveClosure
    BY <1>10, NullAssumption DEF Crash, FreshGlobals, Closures, SaveClosure
  <2>3. QED
    BY <1>10, <2>1, <2>2 DEF Crash, Levels, LoggedIn, NoSessions
<1>11. CASE UNCHANGED vars
  BY <1>11 DEF vars, Levels, LoggedIn, Registered
<1>12. QED
  BY <1>1, <1>2, <1>4, <1>5, <1>6, <1>7, <1>8, <1>9, <1>10, <1>11 DEF Next

LEMMA LevelsAlways == CrashSpec => []Levels
<1>1. Init => Levels
  <2>1. \A n \in DBNames : FreshGlobals[n] \notin SaveClosure
    BY NullAssumption DEF FreshGlobals, Closures, SaveClosure
  <2>2. QED
    BY <2>1 DEF Init, Levels, LoggedIn, NoSessions, Registered
<1>2. QED
  BY <1>1, TypeInvAlways, LevelsStep, PTL DEF CrashSpec

LEMMA LevelsImply == Levels => ExpBelowThreshold /\ PointsBounded
BY DBCallbackName DEF Levels, Fine, ExpBelowThreshold, PointsBounded,
   Sessions, PendingSaves

(* No character is due for a level it did not get, whatever was saved,     *)
(* loaded, replaced in the queue or cut short by a crash.                  *)
THEOREM NoLevelIsDue == CrashSpec \/ Spec => []ExpBelowThreshold
BY LevelsAlways, LevelsImply, SpecCrash, PTL

(* No account and no session holds more unspent points than its levels     *)
(* gave, crashes between two statements of a save included.                *)
THEOREM PointsStayBounded == CrashSpec \/ Spec => []PointsBounded
BY LevelsAlways, LevelsImply, SpecCrash, PTL

-----------------------------------------------------------------------------
(***************************************************************************)
(* The tables.  A table that is not there has its CREATE TABLE request in  *)
(* the queue, with its closure, before any request of a client.            *)
(***************************************************************************)
Made(t) ==
  \/ t \in tables
  \/ \E i \in DOMAIN requests :
       requests[i] = t /\ \A j \in 1 .. i : requests[j] # DBCallback

TablesFirst ==
  \A t \in TableNames : Made(t) /\ globals[t] = [kind |-> "create", table |-> t]

LEMMA TableNotCallback == \A t \in TableNames : t # DBCallback /\ t \in DBNames
BY DEF TableNames, DBNames, DBCallback

(* Closures and requests of a fresh server.                                *)
LEMMA FreshTables ==
  ASSUME NEW g, NEW r, g = FreshGlobals, r = TableOrder, NEW t \in TableNames
  PROVE  /\ g[t] = [kind |-> "create", table |-> t]
         /\ \E i \in DOMAIN r : r[i] = t /\ \A j \in 1 .. i : r[j] # DBCallback
<1>1. g[t] = [kind |-> "create", table |-> t]
  BY TableNotCallback DEF FreshGlobals
<1>2. \A i \in DOMAIN r : r[i] # DBCallback
  BY DEF TableOrder, DBCallback
<1>3. DOMAIN r = 1 .. 5
  BY DEF TableOrder
<1>4. \E i \in 1 .. 5 : r[i] = t
  BY DEF TableOrder, TableNames
<1>5. QED
  BY <1>1, <1>2, <1>3, <1>4

(* A request that is put at the end is behind all those before.            *)
LEMMA TablesExecute ==
  ASSUME TypeInv, TablesFirst, NEW c, Execute(c), tables' = tables
  PROVE  TablesFirst'
<1>1. /\ globals' = [globals EXCEPT ![DBCallback] = c]
      /\ requests' = Append(requests, DBCallback)
  BY DEF Execute, DBQ!Execute, DBQ!Enqueue
<1>2. /\ requests \in Seq(DBNames)
      /\ globals \in [DBNames -> Closures \cup {NoClosure}]
  BY DEF TypeInv, TypeOK
<1>3. ASSUME NEW t \in TableNames PROVE Made(t)'
  <2>1. CASE t \in tables
    BY <2>1 DEF Made
  <2>2. CASE \E i \in DOMAIN requests :
               requests[i] = t /\ \A j \in 1 .. i : requests[j] # DBCallback
    <3>1. PICK i \in DOMAIN requests :
            requests[i] = t /\ \A j \in 1 .. i : requests[j] # DBCallback
      BY <2>2
    <3>2. i \in DOMAIN requests' /\ \A j \in 1 .. i : requests'[j] = requests[j]
      BY <1>1, <1>2
    <3>3. requests'[i] = t /\ \A j \in 1 .. i : requests'[j] # DBCallback
      BY <1>2, <3>1, <3>2
    <3>4. QED
      BY <3>2, <3>3 DEF Made
  <2>3. QED
    BY <2>1, <2>2 DEF TablesFirst, Made
<1>4. \A t \in TableNames : globals'[t] = globals[t]
  BY <1>1, <1>2, TableNotCallback
<1>5. QED
  BY <1>3, <1>4 DEF TablesFirst

(* The first request: a client's, and then every table is there, or one    *)
(* that makes its table.                                                   *)
LEMMA TablesTick ==
  ASSUME TypeInv, TablesFirst, Tick
  PROVE  TablesFirst'
<1> DEFINE c == DBQ!NextClosure
<1>1. /\ requests \in Seq(DBNames) /\ requests # << >>
      /\ requests' = Tail(requests) /\ globals' = globals
      /\ c = globals[Head(requests)]
  BY DEF TypeInv, TypeOK, Tick, DBQ!Loop, DBQ!Dequeue, DBQ!NextClosure
<1>2. tables \subseteq tables' /\ (c.kind = "create" => c.table \in tables')
  BY DEF Tick, RunCreate, RunRegister, RunLogin, RunSave, database
<1> HIDE DEF c
<1>3. ASSUME NEW t \in TableNames PROVE Made(t)'
  <2>1. CASE t \in tables
    BY <1>2, <2>1 DEF Made
  <2>2. CASE \E i \in DOMAIN requests :
               requests[i] = t /\ \A j \in 1 .. i : requests[j] # DBCallback
    <3>1. PICK i \in DOMAIN requests :
            requests[i] = t /\ \A j \in 1 .. i : requests[j] # DBCallback
      BY <2>2
    <3>2. CASE i = 1
      <4>1. Head(requests) = t
        BY <1>1, <3>1, <3>2
      <4>2. c = [kind |-> "create", table |-> t]
        BY <1>1, <4>1 DEF TablesFirst
      <4>3. t \in tables'
        BY <1>2, <4>2
      <4>4. QED
        BY <4>3 DEF Made
    <3>3. CASE i # 1
      <4>1. i - 1 \in DOMAIN requests' /\ requests'[i - 1] = requests[i]
        BY <1>1, <3>1, <3>3
      <4>2. \A j \in 1 .. i - 1 : requests'[j] = requests[j + 1] /\ j + 1 \in 1 .. i
        BY <1>1, <3>1, <3>3
      <4>3. \A j \in 1 .. i - 1 : requests'[j] # DBCallback
        BY <3>1, <4>2
      <4>4. QED
        BY <3>1, <4>1, <4>3 DEF Made
    <3>4. QED
      BY <3>2, <3>3
  <2>3. QED
    BY <2>1, <2>2 DEF TablesFirst, Made
<1>4. QED
  BY <1>1, <1>3 DEF TablesFirst

LEMMA TablesStep == TypeInv /\ TablesFirst /\ [Next \/ Crash]_vars => TablesFirst'
<1> SUFFICES ASSUME TypeInv, TablesFirst, [Next \/ Crash]_vars PROVE TablesFirst'
  OBVIOUS
<1>1. CASE UNCHANGED <<globals, requests, tables>>
  <2>1. \A t : Made(t)' <=> Made(t)
    BY <1>1 DEF Made
  <2>2. QED
    BY <1>1, <2>1 DEF TablesFirst
<1>2. CASE \E c : Execute(c) /\ tables' = tables
  BY <1>2, TablesExecute
<1>3. ASSUME NEW s \in Slots, Leave(s) PROVE TablesFirst'
  <2>1. CASE LoggedIn(s)
    <3>1. Execute([kind |-> "save", data |-> session[s]]) /\ tables' = tables
      BY <1>3, <2>1 DEF Leave, database
    <3>2. QED
      BY <3>1, TablesExecute
  <2>2. CASE ~LoggedIn(s)
    BY <1>1, <1>3, <2>2 DEF Leave, queue, database
  <2>3. QED
    BY <2>1, <2>2
<1>4. ASSUME NEW s \in Slots, NEW l \in Logins, ChatRegister(s, l) \/ ChatLogin(s, l)
      PROVE  TablesFirst'
  <2>1. tables' = tables /\ \E c : Execute(c)
    BY <1>4 DEF ChatRegister, ChatLogin, database
  <2>2. QED
    BY <1>2, <2>1
<1>5. CASE Tick
  BY <1>5, TablesTick
<1>6. CASE Crash
  <2>1. tables' = tables /\ globals' = FreshGlobals /\ requests' = TableOrder
    BY <1>6 DEF Crash
  <2>2. ASSUME NEW t \in TableNames
        PROVE  Made(t)' /\ globals'[t] = [kind |-> "create", table |-> t]
    BY <2>1, FreshTables DEF Made
  <2>3. QED
    BY <2>2 DEF TablesFirst
<1>7. CASE \/ \E s \in Slots, u \in Users : Join(s, u)
           \/ \E s \in Slots, gain \in ExpGains : GiveExp(s, gain)
           \/ \E s \in Slots : UpgradeStat(s)
           \/ \E id \in Ids : BanAccount(id)
  BY <1>1, <1>7 DEF Join, GiveExp, UpgradeStat, BanAccount, queue, database
<1>8. CASE UNCHANGED vars
  BY <1>1, <1>8 DEF vars
<1>9. QED
  BY <1>3, <1>4, <1>5, <1>6, <1>7, <1>8 DEF Next

LEMMA TablesFirstNeeded == TypeInv /\ TablesFirst => TablesExistWhenNeeded
<1> SUFFICES ASSUME TypeInv, TablesFirst, requests # << >>, Head(requests) = DBCallback
             PROVE  tables = TableNames
  BY DEF TablesExistWhenNeeded
<1>1. requests \in Seq(DBNames) /\ tables \subseteq TableNames
  BY DEF TypeInv, TypeOK
<1>2. requests[1] = DBCallback /\ \A i \in DOMAIN requests : 1 \in 1 .. i
  BY <1>1
<1>3. \A t \in TableNames : t \in tables
  BY <1>2 DEF TablesFirst, Made
<1>4. QED
  BY <1>1, <1>3

(* No request of a client, however many wait and however often the server  *)
(* crashes while it makes its tables, runs before all five of them exist.  *)
THEOREM TablesAreThere == CrashSpec \/ Spec => []TablesExistWhenNeeded
<1>1. Init => TablesFirst
  <2>1. ASSUME Init, NEW t \in TableNames
        PROVE  Made(t) /\ globals[t] = [kind |-> "create", table |-> t]
    BY <2>1, FreshTables DEF Init, Made
  <2>2. QED
    BY <2>1 DEF TablesFirst
<1>2. CrashSpec => []TablesExistWhenNeeded
  BY <1>1, TypeInvAlways, TablesStep, TablesFirstNeeded, PTL DEF CrashSpec
<1>3. QED
  BY <1>2, SpecCrash, PTL

-----------------------------------------------------------------------------
(***************************************************************************)
(* What a server without crashes keeps in its tables: names of accounts,   *)
(* complete rows, and the upgrade points of every character.               *)
(***************************************************************************)
(* A session in memory, a save that waits, a row with its upgrades.        *)
Owed(p) == Conserved(p) /\ p.id \in Registered

Points ==
  /\ \A s \in Slots : LoggedIn(s) => Owed(session[s])
  /\ \A n \in DBNames : globals[n] \in SaveClosure => Owed(globals[n].data)
  /\ \A id \in Registered : u_upgrs[id] # NoRow /\ Conserved(LoadedSession(id))

(* Game code never changes whose data a session is.                        *)
LEMMA UpgradeSameId ==
  ASSUME NEW p \in Session
  PROVE  WithUpgrade(p).id = p.id
<1>1. PICK m, k : m = p.points - 1 /\ k = p.spent + 1
  OBVIOUS
<1>2. WithUpgrade(p) = [p EXCEPT !.points = m, !.spent = k]
  BY <1>1, Zenon DEF WithUpgrade
<1>3. QED
  BY <1>2 DEF Session

LEMMA ExpSameId ==
  ASSUME NEW p \in Session, NEW gain \in 1 .. 250
  PROVE  WithExp(p, gain).id = p.id
<1>1. PICK e, l, n : /\ e = p.exp + gain - GetExpForLevelUp(p.level)
                     /\ l = p.level + 1 /\ n = p.points + 2
  OBVIOUS
<1>2. LevelsUp(p, gain) => WithExp(p, gain) = [p EXCEPT !.exp = e, !.level = l, !.points = n]
  BY <1>1, Zenon DEF WithExp
<1>3. ~LevelsUp(p, gain) => WithExp(p, gain) = [p EXCEPT !.exp = @ + gain]
  BY Zenon DEF WithExp
<1>4. /\ [p EXCEPT !.exp = e, !.level = l, !.points = n].id = p.id
      /\ [p EXCEPT !.exp = @ + gain].id = p.id
  BY DEF Session
<1>5. QED
  BY <1>2, <1>3, <1>4

(* A change of the data of one slot by game code.                          *)
LEMMA PointsSession ==
  ASSUME TypeOK, Points, NEW s \in Slots, NEW p \in Session, Owed(p),
         session' = [session EXCEPT ![s] = p],
         UNCHANGED queue, UNCHANGED database
  PROVE  Points'
<1>1. Registered' = Registered /\ globals' = globals /\ u_upgrs' = u_upgrs
      /\ \A id \in Ids : LoadedSession(id)' = LoadedSession(id)
  BY DEF queue, database, Registered, LoadedSession, StoredSpent
<1>2. \A r \in Slots : LoggedIn(r)' => Owed(session'[r])
  BY DEF TypeOK, Points, LoggedIn
<1>3. QED
  BY <1>1, <1>2 DEF Points, Owed, Registered

(* A closure handed to DB.Execute.                                         *)
LEMMA PointsExecute ==
  ASSUME TypeOK, Points, NEW c \in Closures, Execute(c),
         c \in SaveClosure => Owed(c.data),
         \A s \in Slots : session'[s] = session[s] \/ session'[s] = NoSession,
         UNCHANGED database
  PROVE  Points'
<1>1. \A n \in DBNames : globals'[n] = c \/ globals'[n] = globals[n]
  BY DEF Execute, DBQ!Execute, DBQ!Enqueue, TypeOK
<1>2. Registered' = Registered /\ u_upgrs' = u_upgrs
      /\ \A id \in Ids : LoadedSession(id)' = LoadedSession(id)
  BY DEF database, Registered, LoadedSession, StoredSpent
<1>3. QED
  BY <1>1, <1>2 DEF Points, Owed, LoggedIn, Registered

LEMMA PointsRegister ==
  ASSUME TypeOK, Points, NEW c \in ChatClosure, NEW id \in Ids,
         InsertAccount(c, id), u_upgrs' = [u_upgrs EXCEPT ![id] = 0]
  PROVE  /\ \A i \in Registered : i \in Registered'
         /\ \A i \in Registered' : u_upgrs'[i] # NoRow /\ Conserved(LoadedSession(i)')
<1>1. NewRow(c).level = 1 /\ NewRow(c).points = 0
  BY DEF NewRow
<1>2. NewRow(c) \in AccountRow /\ NewRow(c) # NoRow
  <2>1. NewRow(c) \in AccountRow
    BY DEF NewRow, AccountRow, ChatClosure
  <2>2. QED
    BY <2>1, NullAssumption
<1>3. /\ accounts' = [accounts EXCEPT ![id] = NewRow(c)]
      /\ id \in DOMAIN accounts /\ id \in DOMAIN u_upgrs
  BY DEF InsertAccount, TypeOK
<1>4. \A i \in Registered : i \in Registered'
  BY <1>2, <1>3 DEF Registered
<1>5. ASSUME NEW i \in Registered'
      PROVE  u_upgrs'[i] # NoRow /\ Conserved(LoadedSession(i)')
  <2>1. CASE i = id
    <3>1. accounts'[i] = NewRow(c) /\ u_upgrs'[i] = 0
      BY <1>3, <2>1
    <3>2. 0 # NoRow
      BY NullAssumption
    <3>3. /\ LoadedSession(i)'.level = 1 /\ LoadedSession(i)'.points = 0
          /\ LoadedSession(i)'.spent = 0
      BY <1>1, <3>1, <3>2 DEF LoadedSession, StoredSpent
    <3>4. QED
      BY <3>1, <3>2, <3>3 DEF Conserved
  <2>2. CASE i # id
    <3>1. accounts'[i] = accounts[i] /\ u_upgrs'[i] = u_upgrs[i] /\ i \in Registered
      BY <1>3, <2>2 DEF Registered, TypeOK
    <3>2. LoadedSession(i)' = LoadedSession(i)
      BY <3>1 DEF LoadedSession, StoredSpent
    <3>3. QED
      BY <3>1, <3>2 DEF Points
  <2>3. QED
    BY <2>1, <2>2
<1>6. QED
  BY <1>4, <1>5

LEMMA PointsSave ==
  ASSUME TypeOK, Points, NEW p \in Session, Owed(p), UpdateAccount(p), UpdateStats(p)
  PROVE  /\ Registered' = Registered
         /\ \A i \in Registered' : u_upgrs'[i] # NoRow /\ Conserved(LoadedSession(i)')
<1>1. Registered' = Registered
  BY UpdateAccountFacts DEF Registered, TypeOK, UpdateAccount
<1>2. ASSUME NEW i \in Registered'
      PROVE  u_upgrs'[i] # NoRow /\ Conserved(LoadedSession(i)')
  <2>0. i \in Registered /\ i \in Ids /\ u_upgrs[i] # NoRow
    BY <1>1, <1>2 DEF Registered, Points
  <2>1. CASE i = p.id
    <3>1. u_upgrs'[i] = p.spent
      BY <2>0, <2>1 DEF UpdateStats, TypeOK
    <3>2. p.spent # NoRow
      BY NullAssumption DEF Session
    <3>3. accounts'[i].level = p.level /\ accounts'[i].points = p.points
      BY <2>0, <2>1, UpdateAccountFacts DEF Registered
    <3>4. /\ LoadedSession(i)'.level = p.level /\ LoadedSession(i)'.points = p.points
          /\ LoadedSession(i)'.spent = p.spent
      BY <3>1, <3>2, <3>3 DEF LoadedSession, StoredSpent
    <3>5. QED
      BY <3>1, <3>2, <3>4 DEF Conserved, Owed
  <2>2. CASE i # p.id
    <3>1. accounts'[i] = accounts[i] /\ u_upgrs'[i] = u_upgrs[i]
      BY <2>0, <2>2, UpdateAccountFacts DEF UpdateStats, TypeOK
    <3>2. LoadedSession(i)' = LoadedSession(i)
      BY <3>1 DEF LoadedSession, StoredSpent
    <3>3. QED
      BY <2>0, <3>1, <3>2 DEF Points
  <2>3. QED
    BY <2>1, <2>2
<1>3. QED
  BY <1>1, <1>2

LEMMA PointsStep == TypeInv /\ Levels /\ Points /\ [Next]_vars => Points'
<1> SUFFICES ASSUME TypeInv, Levels, Points, [Next]_vars
             PROVE  Points'
  OBVIOUS
<1>0. TypeOK
  BY DEF TypeInv
<1>1. ASSUME session' = session, UNCHANGED queue, UNCHANGED database
      PROVE  Points'
  BY <1>1 DEF Points, Owed, LoggedIn, Registered, LoadedSession, StoredSpent, queue, database
<1>2. ASSUME NEW s \in Slots, NEW u \in Users, Join(s, u)
      PROVE  Points'
  BY <1>1, <1>2 DEF Join
<1>3. ASSUME NEW s \in Slots, Leave(s)
      PROVE  Points'
  <2>1. /\ \A r \in Slots : session'[r] = session[r] \/ session'[r] = NoSession
        /\ UNCHANGED database
    BY <1>0, <1>3 DEF Leave, TypeOK
  <2>2. CASE LoggedIn(s)
    <3> DEFINE c == [kind |-> "save", data |-> session[s]]
    <3>1. c \in Closures /\ c.data = session[s]
      BY <1>0, <2>2 DEF TypeOK, LoggedIn, Closures, SaveClosure
    <3>2. Owed(session[s])
      BY <2>2 DEF Points
    <3>3. Execute(c)
      BY <1>3, <2>2 DEF Leave
    <3> HIDE DEF c
    <3>4. QED
      BY <1>0, <2>1, <3>1, <3>2, <3>3, PointsExecute
  <2>3. CASE ~LoggedIn(s)
    <3>1. session' = session
      BY <1>0, <1>3, <2>3 DEF Leave, LoggedIn, TypeOK
    <3>2. QED
      BY <1>1, <1>3, <2>1, <2>3, <3>1 DEF Leave
  <2>4. QED
    BY <2>2, <2>3
<1>4. ASSUME NEW s \in Slots, NEW l \in Logins, NEW k \in {"register", "login"},
             UNCHANGED memory, UNCHANGED database, occupant[s] # NoUser,
             Execute([kind |-> k, slot |-> s, name |-> l, password |-> occupant[s]])
      PROVE  Points'
  <2> DEFINE c == [kind |-> k, slot |-> s, name |-> l, password |-> occupant[s]]
  <2>1. c \in Closures /\ c \notin SaveClosure
    BY <1>0, <1>4 DEF TypeOK, Closures, ChatClosure, SaveClosure
  <2>2. session' = session
    BY <1>4 DEF memory
  <2> HIDE DEF c
  <2>3. Execute(c)
    BY <1>4 DEF c
  <2>4. QED
    BY <1>0, <1>4, <2>1, <2>2, <2>3, PointsExecute
<1>5. ASSUME NEW s \in Slots, NEW l \in Logins, ChatRegister(s, l) \/ ChatLogin(s, l)
      PROVE  Points'
  BY <1>4, <1>5 DEF ChatRegister, ChatLogin
<1>6. ASSUME NEW s \in Slots, NEW gain \in ExpGains, GiveExp(s, gain)
      PROVE  Points'
  <2>1. /\ session[s] \in Session /\ Owed(session[s]) /\ BelowThreshold(session[s])
        /\ gain \in 1 .. 250
    BY <1>0, <1>6, GainAssumption DEF GiveExp, TypeOK, LoggedIn, Levels, Fine, Points
  <2>2. WithExp(session[s], gain) \in Session /\ Owed(WithExp(session[s], gain))
    BY <2>1, WithExpFacts, ExpSameId DEF Owed
  <2>3. QED
    BY <1>0, <1>6, <2>2, PointsSession DEF GiveExp
<1>7. ASSUME NEW s \in Slots, UpgradeStat(s)
      PROVE  Points'
  <2>1. session[s] \in Session /\ Owed(session[s]) /\ session[s].points > 0
    BY <1>0, <1>7 DEF UpgradeStat, TypeOK, LoggedIn, Points
  <2>2. WithUpgrade(session[s]) \in Session /\ Owed(WithUpgrade(session[s]))
    BY <2>1, WithUpgradeFacts, UpgradeSameId DEF Owed
  <2>3. QED
    BY <1>0, <1>7, <2>2, PointsSession DEF UpgradeStat
<1>8. ASSUME NEW id \in Ids, BanAccount(id)
      PROVE  Points'
  <2>1. accounts[id] \in AccountRow /\ id \in Registered
    BY <1>0, <1>8 DEF BanAccount, TypeOK, Registered
  <2> DEFINE row == [accounts[id] EXCEPT !.banned = TRUE]
  <2>2. /\ row.level = accounts[id].level /\ row.exp = accounts[id].exp
        /\ row.points = accounts[id].points /\ row # NoRow
    BY <2>1, NullAssumption DEF AccountRow
  <2>3. accounts' = [accounts EXCEPT ![id] = row]
    BY <1>8 DEF BanAccount
  <2> HIDE DEF row
  <2>4. Registered' = Registered
    BY <1>0, <2>1, <2>2, <2>3 DEF TypeOK, Registered
  <2>5. u_upgrs' = u_upgrs /\ session' = session /\ globals' = globals
    BY <1>8 DEF BanAccount, memory, queue
  <2>6. \A i \in Registered : LoadedSession(i)' = LoadedSession(i)
    BY <1>0, <2>2, <2>3, <2>5 DEF TypeOK, LoadedSession, StoredSpent
  <2>7. QED
    BY <2>4, <2>5, <2>6 DEF Points, Owed, LoggedIn
<1>9. CASE Tick
  <2> DEFINE c == DBQ!NextClosure
  <2>1. c \in Closures /\ globals' = globals
    BY <1>9, LoopTyped DEF Tick
  <2>2. c.kind = "save" => c.data \in Session /\ Owed(c.data)
    <3>1. c = globals[Head(requests)] /\ Head(requests) \in DBNames
      BY <1>0, <1>9 DEF Tick, DBQ!Loop, DBQ!Dequeue, DBQ!NextClosure, TypeOK
    <3>2. c.kind = "save" => c \in SaveClosure
      BY <2>1, ClosureKinds
    <3> HIDE DEF c
    <3>3. QED
      BY <3>1, <3>2 DEF Points, SaveClosure
  <2> HIDE DEF c
  <2>3. ASSUME session' = session, \A i \in Registered : i \in Registered',
               \A i \in Registered' : u_upgrs'[i] # NoRow /\ Conserved(LoadedSession(i)')
        PROVE  Points'
    BY <2>1, <2>3 DEF Points, Owed, LoggedIn
  <2>4. ASSUME session' = session, accounts' = accounts, u_upgrs' = u_upgrs
        PROVE  Points'
    BY <2>1, <2>4 DEF Points, Owed, LoggedIn, Registered, LoadedSession, StoredSpent
  <2>5. CASE RunCreate(c)
    BY <2>4, <2>5 DEF RunCreate, memory
  <2>6. CASE RunRegister(c)
    <3>1. c \in ChatClosure
      BY <2>1, <2>6, ClosureKinds DEF RunRegister
    <3>2. QED
      BY <1>0, <2>3, <2>4, <2>6, <3>1, PointsRegister DEF RunRegister, InsertStats, memory
  <2>7. CASE RunLogin(c)
    <3>1. c.slot \in Slots
      BY <2>1, <2>7, ClosureKinds DEF RunLogin, ChatClosure
    <3>2. ASSUME NEW id \in Matching(c), OpenSession(c.slot, id)
          PROVE  \A s \in Slots : session'[s] = session[s] \/ Owed(session'[s])
      <4>1. Conserved(LoadedSession(id)) /\ LoadedSession(id).id = id /\ id \in Registered
        BY <3>2 DEF Matching, LoadedSession, Points
      <4>2. Owed(LoadedSession(id))
        BY <4>1 DEF Owed
      <4>3. QED
        BY <1>0, <3>1, <3>2, <4>2 DEF OpenSession, TypeOK
    <3>3. \A s \in Slots : session'[s] = session[s] \/ Owed(session'[s])
      BY <2>7, <3>2 DEF RunLogin
    <3>4. accounts' = accounts /\ u_upgrs' = u_upgrs
      BY <2>7 DEF RunLogin, database
    <3>5. QED
      BY <2>1, <3>3, <3>4 DEF Points, Owed, LoggedIn, Registered, LoadedSession, StoredSpent
  <2>8. CASE RunSave(c)
    BY <1>0, <2>2, <2>3, <2>8, PointsSave DEF RunSave, memory
  <2>9. QED
    BY <1>9, <2>5, <2>6, <2>7, <2>8 DEF Tick, c
<1>10. CASE UNCHANGED vars
  BY <1>1, <1>10 DEF vars, queue, database
<1>11. QED
  BY <1>2, <1>3, <1>5, <1>6, <1>7, <1>8, <1>9, <1>10 DEF Next

LEMMA PointsAlways == Spec => []Points
<1>1. Init => Points
  <2>1. \A n \in DBNames : FreshGlobals[n] \notin SaveClosure
    BY NullAssumption DEF FreshGlobals, Closures, SaveClosure
  <2>2. QED
    BY <2>1 DEF Init, Points, LoggedIn, NoSessions, Registered
<1>2. Spec => []TypeInv
  BY TypeInvAlways, SpecCrash, PTL
<1>3. Spec => []Levels
  BY LevelsAlways, SpecCrash, PTL
<1>4. QED
  BY <1>1, <1>2, <1>3, PointsStep, PTL DEF Spec

(* As long as the process lives, no point is lost or doubled: not by a     *)
(* closure that is replaced or run twice, not by a slot that changes hands *)
(* between a command and its closure.                                      *)
THEOREM PointsAreConserved == Spec => []PointsConserved
<1>1. Points => PointsConserved
  BY DBCallbackName DEF Points, Owed, PointsConserved, Sessions, PendingSaves
<1>2. QED
  BY PointsAlways, <1>1, PTL

(* As long as the process lives, every UPDATE of a save finds its row.     *)
THEOREM RowsAreComplete == Spec => []RowsComplete
<1>1. Points => RowsComplete
  BY DBCallbackName DEF Points, Owed, RowsComplete, Sessions, PendingSaves
<1>2. QED
  BY PointsAlways, <1>1, PTL

-----------------------------------------------------------------------------
(***************************************************************************)
(* Names, with or without crashes.                                         *)
(***************************************************************************)
(* An UPDATE of a save changes no name and registers nobody.               *)
LEMMA UpdateKeepsNames ==
  ASSUME TypeOK, NEW p \in Session, UpdateAccount(p)
  PROVE  /\ Registered' = Registered
         /\ \A i \in Registered : accounts'[i].name = accounts[i].name
<1>1. p.id \in Ids
  BY DEF Session
<1>2. QED
  BY <1>1, UpdateAccountFacts DEF Registered

LEMMA NamesStep ==
  TypeInv /\ NamesUnique /\ [Next \/ Crash]_vars => NamesUnique'
<1> SUFFICES ASSUME TypeInv, NamesUnique, [Next \/ Crash]_vars
             PROVE  NamesUnique'
  OBVIOUS
<1>0. TypeOK
  BY DEF TypeInv
<1>1. ASSUME accounts' = accounts
      PROVE  NamesUnique'
  BY <1>1 DEF NamesUnique, Registered
<1>2. ASSUME Registered' = Registered,
             \A i \in Registered : accounts'[i].name = accounts[i].name
      PROVE  NamesUnique'
  BY <1>2 DEF NamesUnique
<1>3. ASSUME NEW c \in ChatClosure, NEW id \in Ids, InsertAccount(c, id)
      PROVE  NamesUnique'
  <2>1. NewRow(c).name = c.name
    BY DEF NewRow
  <2>2. \A i \in Registered' : i = id \/ (i \in Registered /\ accounts'[i] = accounts[i])
    BY <1>0, <1>3 DEF InsertAccount, TypeOK, Registered
  <2>3. accounts'[id].name = c.name
    BY <1>0, <1>3, <2>1 DEF InsertAccount, TypeOK
  <2>4. \A i \in Registered : accounts[i].name # c.name
    BY <1>3 DEF InsertAccount, NameTaken
  <2>5. QED
    BY <2>2, <2>3, <2>4 DEF NamesUnique
<1>4. ASSUME NEW id \in Ids, BanAccount(id)
      PROVE  NamesUnique'
  <2>1. accounts[id] \in AccountRow
    BY <1>0, <1>4 DEF BanAccount, TypeOK
  <2> DEFINE row == [accounts[id] EXCEPT !.banned = TRUE]
  <2>2. row.name = accounts[id].name /\ row # NoRow
    BY <2>1, NullAssumption DEF AccountRow
  <2>3. accounts' = [accounts EXCEPT ![id] = row]
    BY <1>4 DEF BanAccount
  <2> HIDE DEF row
  <2>4. QED
    BY <1>0, <1>2, <1>4, <2>2, <2>3 DEF TypeOK, Registered, BanAccount
<1>5. CASE \E s \in Slots, u \in Users : Join(s, u)
  BY <1>1, <1>5 DEF Join, database
<1>6. CASE \E s \in Slots : Leave(s) \/ UpgradeStat(s)
  BY <1>1, <1>6 DEF Leave, UpgradeStat, database
<1>7. CASE \E s \in Slots, l \in Logins : ChatRegister(s, l) \/ ChatLogin(s, l)
  BY <1>1, <1>7 DEF ChatRegister, ChatLogin, database
<1>8. CASE \E s \in Slots, gain \in ExpGains : GiveExp(s, gain)
  BY <1>1, <1>8 DEF GiveExp, database
<1>9. ASSUME requests # << >>
      PROVE  DBQ!NextClosure \in Closures
  <2>1. Head(requests) = requests[1] /\ 1 \in DOMAIN requests
    BY <1>0, <1>9 DEF TypeOK
  <2>2. QED
    BY <1>0, <2>1 DEF TypeOK, TypeInv, NeverEmpty, DBQ!NextClosure
<1>10. CASE Tick
  <2> DEFINE c == DBQ!NextClosure
  <2>1. c \in Closures
    BY <1>9, <1>10 DEF Tick, DBQ!Loop, DBQ!Dequeue
  <2> HIDE DEF c
  <2>2. CASE RunCreate(c) \/ RunLogin(c)
    BY <1>1, <2>2 DEF RunCreate, RunLogin, database
  <2>3. CASE RunRegister(c)
    <3>1. c \in ChatClosure
      BY <2>1, <2>3, ClosureKinds DEF RunRegister
    <3>2. QED
      BY <1>1, <1>3, <2>3, <3>1 DEF RunRegister
  <2>4. CASE RunSave(c)
    <3>1. c.data \in Session
      BY <2>1, <2>4, ClosureKinds DEF RunSave, SaveClosure
    <3>2. QED
      BY <1>0, <1>2, <2>4, <3>1, UpdateKeepsNames DEF RunSave
  <2>5. QED
    BY <1>10, <2>2, <2>3, <2>4 DEF Tick, c
<1>11. CASE Crash
  <2>1. CASE requests # << >> /\ PartialClosure(DBQ!NextClosure)
    <3> DEFINE c == DBQ!NextClosure
    <3>1. c \in Closures /\ PartialClosure(c)
      BY <1>9, <2>1
    <3> HIDE DEF c
    <3>2. CASE c.kind = "register" /\ \E id \in Ids : InsertAccount(c, id)
      BY <1>3, <3>1, <3>2, ClosureKinds
    <3>3. CASE c.kind = "save" /\ UpdateAccount(c.data)
      <4>1. c.data \in Session
        BY <3>1, <3>3, ClosureKinds DEF SaveClosure
      <4>2. QED
        BY <1>0, <1>2, <3>3, <4>1, UpdateKeepsNames
    <3>4. QED
      BY <3>1, <3>2, <3>3 DEF PartialClosure
  <2>2. QED
    BY <1>1, <1>11, <2>1 DEF Crash
<1>12. CASE UNCHANGED vars
  BY <1>1, <1>12 DEF vars
<1>13. QED
  BY <1>4, <1>5, <1>6, <1>7, <1>8, <1>10, <1>11, <1>12 DEF Next

(* No two accounts ever have the same name: a registration counts the name *)
(* and inserts the row in one closure (auth.lua:14-48).                    *)
THEOREM NamesAreUnique == CrashSpec \/ Spec => []NamesUnique
<1>1. Init => NamesUnique
  BY DEF Init, NamesUnique, Registered
<1>2. CrashSpec => []NamesUnique
  BY <1>1, TypeInvAlways, NamesStep, PTL DEF CrashSpec
<1>3. QED
  BY <1>2, SpecCrash, PTL

=============================================================================
