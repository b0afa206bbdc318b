--------------------------- MODULE AccountSessions ---------------------------
(***************************************************************************)
(* Accounts of the MMO layer: registration, login, progress and save       *)
(* (lua/sv/game/auth.lua, lua/sv/game/account_utils.lua) over the database *)
(* queue of module DBQueue, with clients that join and leave               *)
(* (CGameContext::OnClientConnected and OnClientDrop) and server crashes.  *)
(*                                                                         *)
(* Chat commands and departures only queue a closure; its effect on the    *)
(* tables and on Player._Player_Data comes a few server ticks later, when  *)
(* CSQLite::Loop runs whatever closure the global variable then holds.     *)
(*                                                                         *)
(* Abstractions.  A password is the user who chose it.  Strength, dexterity*)
(* and intelligence are one number, the points spent on them.  Money,      *)
(* inventory, equipment and works travel in the same closures and are left *)
(* out.  Statements do not fail: TablesExistWhenNeeded shows that the one  *)
(* failure the queue could cause, a missing table, does not happen.  Names *)
(* are names without a quote: string.format puts them into the statements  *)
(* as they are (sql_queries.lua:60-65), and what a statement means that is *)
(* made with another name is not modelled.                                 *)
(***************************************************************************)
EXTENDS Naturals, Sequences, FiniteSets

CONSTANTS
  Slots,         \* client ids of the server
  Users,         \* the people who connect
  Logins,        \* account names, none with a quote in it
  Ids,           \* primary keys of the table accounts
  NumericNames,  \* users whose nickname starts with a number, like "42tee"
  ExpGains,      \* amounts of experience a game event gives
  MaxLevel,      \* bound: no experience is given from this level on
  MaxSpent,      \* bound: no point is spent from this many on
  MaxRequests,   \* bound: requests in the database queue
  NoUser, NoSession, NoRow, NoClosure

ASSUME NamesAssumption == NumericNames \subseteq Users

\* GiveExp is called with 5, 10 and 10 times the level of a mob
\* (players.lua:13, players.lua:17, dummy_base.lua:35): never above the cost
\* of the first level.
ASSUME GainAssumption == ExpGains \subseteq 1 .. 250

VARIABLES
  occupant,      \* who holds the slot: m_apPlayers[ClientID]
  inGame,        \* slots whose CPlayer left the spectators (team 0)
  session,       \* Player._Player_Data[CID] of a logged in slot
  globals,       \* Lua globals that hold the closures of database requests
  requests,      \* CSQLite::m_Requests
  tables,        \* tables of mmotee.db
  accounts,      \* table accounts, by primary key
  u_upgrs        \* table u_upgrs: points spent, by user_id

memory == <<occupant, inGame, session>>
queue == <<globals, requests>>
database == <<tables, accounts, u_upgrs>>
vars == <<occupant, inGame, session, globals, requests, tables, accounts, u_upgrs>>

-----------------------------------------------------------------------------
(***************************************************************************)
(* Data                                                                    *)
(***************************************************************************)
DBCallback == "__DB_Callback"
\* Mutant: DB.CreateTables without its last statement.
TableOrderWithoutWorks == <<"accounts", "u_inv", "u_equip", "u_upgrs">>

TableOrder == <<"accounts", "u_inv", "u_equip", "u_upgrs", "u_works">>
TableNames == {"accounts", "u_inv", "u_equip", "u_upgrs", "u_works"}
DBNames == TableNames \cup {DBCallback}

\* What a session, a pending save and the tables know of a character.
Progress == [level : Nat \ {0}, exp : Nat, points : Nat, spent : Nat]
Session == [id : Ids, level : Nat \ {0}, exp : Nat, points : Nat, spent : Nat]

AccountRow == [name : Logins, password : Users, numericName : BOOLEAN,
               banned : BOOLEAN, level : Nat \ {0}, exp : Nat, points : Nat]

CreateClosure == [kind : {"create"}, table : TableNames]
ChatClosure == [kind : {"register", "login"}, slot : Slots, name : Logins,
                password : Users]
SaveClosure == [kind : {"save"}, data : Session]
Closures == CreateClosure \cup ChatClosure \cup SaveClosure

\* The null values are none of the values they stand beside.
ASSUME NullAssumption ==
  /\ NoUser \notin Users
  /\ NoSession \notin Session
  /\ NoRow \notin Nat \cup AccountRow
  /\ NoClosure \notin Closures

DBQ == INSTANCE DBQueue
         WITH Names <- DBNames, Disciplined <- FALSE

TypeOK ==
  /\ occupant \in [Slots -> Users \cup {NoUser}]
  /\ inGame \in SUBSET Slots
  /\ session \in [Slots -> Session \cup {NoSession}]
  /\ globals \in [DBNames -> Closures \cup {NoClosure}]
  /\ requests \in Seq(DBNames)
  /\ tables \in SUBSET TableNames
  /\ accounts \in [Ids -> AccountRow \cup {NoRow}]
  /\ u_upgrs \in [Ids -> Nat \cup {NoRow}]

-----------------------------------------------------------------------------
(***************************************************************************)
(* Experience and upgrade points (account_utils.lua)                       *)
(***************************************************************************)
ExpPerLevel(level) ==
  CASE level <= 100  -> 250
    [] level > 100 /\ level <= 200 -> 700
    [] level > 200 /\ level <= 300 -> 1000
    [] level > 300 /\ level <= 400 -> 1500
    [] level > 400 /\ level <= 500 -> 2500
    [] level > 500 /\ level <= 600 -> 4000
    [] level > 600 /\ level <= 700 -> 6000
    [] level > 700 /\ level <= 1000 -> 8000
    [] level > 1000 /\ level <= 1100 -> 12000
    [] level > 1100 /\ level <= 1200 -> 13000
    [] level > 1200 -> 14000

GetExpForLevelUp(level) == level * ExpPerLevel(level)

\* Mutant: the loop of GiveExp compares with > instead of >=.
LevelsUpAbove(p, gain) == p.exp + gain > GetExpForLevelUp(p.level)

\* The loop of GiveExp runs at most once, because a gain does not exceed the
\* cost of one level.
LevelsUp(p, gain) == p.exp + gain >= GetExpForLevelUp(p.level)

WithExp(p, gain) ==
  IF LevelsUp(p, gain)
  THEN [p EXCEPT !.exp = @ + gain - GetExpForLevelUp(p.level),
                 !.level = @ + 1, !.points = @ + 2]
  ELSE [p EXCEPT !.exp = @ + gain]

WithUpgrade(p) == [p EXCEPT !.points = @ - 1, !.spent = @ + 1]

-----------------------------------------------------------------------------
(***************************************************************************)
(* A server that has just loaded lua/sv/main.lua: CreateTables has queued  *)
(* its five requests, nobody is connected.                                 *)
(***************************************************************************)
NoOccupants == [s \in Slots |-> NoUser]
NoSessions == [s \in Slots |-> NoSession]
FreshGlobals ==
  [n \in DBNames |-> IF n = DBCallback THEN NoClosure
                     ELSE [kind |-> "create", table |-> n]]

Init ==
  /\ occupant = NoOccupants
  /\ inGame = {}
  /\ session = NoSessions
  /\ globals = FreshGlobals
  /\ requests = TableOrder
  /\ tables = {}
  /\ accounts = [id \in Ids |-> NoRow]
  /\ u_upgrs = [id \in Ids |-> NoRow]

LoggedIn(s) == session[s] # NoSession

\* DB.Execute: always under the same name.
Execute(c) == DBQ!Execute(DBCallback, c)

-----------------------------------------------------------------------------
(***************************************************************************)
(* Clients                                                                 *)
(***************************************************************************)
\* OnClientConnected: a new CPlayer among the spectators.  Player data of
\* the slot is not touched.
Join(s, u) ==
  /\ occupant[s] = NoUser
  /\ occupant' = [occupant EXCEPT ![s] = u]
  /\ UNCHANGED <<inGame, session>>
  /\ UNCHANGED queue
  /\ UNCHANGED database

\* OnClientDrop: the hook OnPlayerLeft queues the save, the CPlayer is
\* deleted, the hook OnPostPlayerLeft clears the data of the slot.
Leave(s) ==
  /\ occupant[s] # NoUser
  /\ IF LoggedIn(s)
     THEN Execute([kind |-> "save", data |-> session[s]])
     ELSE UNCHANGED queue
  /\ occupant' = [occupant EXCEPT ![s] = NoUser]
  /\ inGame' = inGame \ {s}
  /\ session' = [session EXCEPT ![s] = NoSession]
  /\ UNCHANGED database

\* Chat command "register", the two passwords being equal.
ChatRegister(s, l) ==
  /\ occupant[s] # NoUser
  /\ Execute([kind |-> "register", slot |-> s, name |-> l, password |-> occupant[s]])
  /\ UNCHANGED memory
  /\ UNCHANGED database

\* Chat command "login": a slot that is logged in is turned away now, the
\* closure does not look again.
ChatLogin(s, l) ==
  /\ occupant[s] # NoUser
  /\ ~LoggedIn(s)
  /\ Execute([kind |-> "login", slot |-> s, name |-> l, password |-> occupant[s]])
  /\ UNCHANGED memory
  /\ UNCHANGED database

-----------------------------------------------------------------------------
(***************************************************************************)
(* The game                                                                *)
(***************************************************************************)
\* A chair, or a mob that dies by a projectile of the slot: the owner of the
\* projectile may have left, then the data of the slot decides.
GiveExp(s, gain) ==
  /\ LoggedIn(s)
  /\ session[s].level < MaxLevel
  /\ session' = [session EXCEPT ![s] = WithExp(@, gain)]
  /\ UNCHANGED <<occupant, inGame>>
  /\ UNCHANGED queue
  /\ UNCHANGED database

\* The vote menu and the message upgrade@stats of the client in the slot.
UpgradeStat(s) ==
  /\ occupant[s] # NoUser
  /\ LoggedIn(s)
  /\ session[s].points > 0
  /\ session[s].spent < MaxSpent
  /\ session' = [session EXCEPT ![s] = WithUpgrade(@)]
  /\ UNCHANGED <<occupant, inGame>>
  /\ UNCHANGED queue
  /\ UNCHANGED database

\* External: an operator sets the column `banned` with a database tool.
BanAccount(id) ==
  /\ accounts[id] # NoRow
  /\ ~accounts[id].banned
  /\ accounts' = [accounts EXCEPT ![id].banned = TRUE]
  /\ UNCHANGED memory
  /\ UNCHANGED queue
  /\ UNCHANGED <<tables, u_upgrs>>

-----------------------------------------------------------------------------
(***************************************************************************)
(* The closures that CSQLite::Loop runs                                    *)
(***************************************************************************)
Registered == {id \in Ids : accounts[id] # NoRow}
NameTaken(l) == \E id \in Registered : accounts[id].name = l

\* CREATE TABLE IF NOT EXISTS
RunCreate(c) ==
  /\ c.kind = "create"
  /\ tables' = tables \cup {c.table}
  /\ UNCHANGED memory
  /\ UNCHANGED <<accounts, u_upgrs>>

\* The row that INSERT INTO accounts leaves.  The nickname is that of the
\* client who holds the slot when the closure runs.
NewRow(c) ==
  [name |-> c.name, password |-> c.password,
   numericName |-> occupant[c.slot] \in NumericNames,
   banned |-> FALSE, level |-> 1, exp |-> 0, points |-> 0]

\* Mutant: the count of accounts is made when the command arrives.
InsertAccountUncounted(c, id) ==
  /\ accounts[id] = NoRow
  /\ accounts' = [accounts EXCEPT ![id] = NewRow(c)]

InsertAccount(c, id) ==
  /\ ~NameTaken(c.name)
  /\ accounts[id] = NoRow
  /\ accounts' = [accounts EXCEPT ![id] = NewRow(c)]

\* Mutant: a registration that stops after the row of accounts.
InsertStatsForgotten(id) == UNCHANGED u_upgrs

\* INSERT INTO u_upgrs(user_id)
InsertStats(id) == u_upgrs' = [u_upgrs EXCEPT ![id] = 0]

RunRegister(c) ==
  /\ c.kind = "register"
  /\ \/ /\ NameTaken(c.name)
        /\ UNCHANGED <<accounts, u_upgrs>>
     \/ \E id \in Ids :
          /\ InsertAccount(c, id)
          /\ InsertStats(id)
  /\ UNCHANGED memory
  /\ UNCHANGED tables

\* CheckForAccountWithPassword, for a name without a quote
Matching(c) ==
  {id \in Registered : accounts[id].name = c.name /\ accounts[id].password = c.password}

\* The check of auth.lua:82 reads column 11 of the row, name_latest, as an
\* integer; the column banned is number 12.
BanCheckFails(row) == row.numericName

\* Stmt:GetInt on a statement without a row gives 0.
StoredSpent(id) == IF u_upgrs[id] = NoRow THEN 0 ELSE u_upgrs[id]

LoadedSession(id) ==
  [id |-> id, level |-> accounts[id].level, exp |-> accounts[id].exp,
   points |-> accounts[id].points, spent |-> StoredSpent(id)]

\* Mutant: the client is put into the game whoever holds the slot.
OpenSessionUnasked(s, id) ==
  /\ session' = [session EXCEPT ![s] = LoadedSession(id)]
  /\ inGame' = inGame \cup {s}

\* The data of the slot is written first; without a player in the slot
\* Game.Players(CID) is nil and the closure stops before SetTeam and the hook
\* OnPlayerLoggedIn.
OpenSession(s, id) ==
  /\ session' = [session EXCEPT ![s] = LoadedSession(id)]
  /\ inGame' = IF occupant[s] = NoUser THEN inGame ELSE inGame \cup {s}

RunLogin(c) ==
  /\ c.kind = "login"
  /\ \/ /\ Matching(c) = {}
        /\ UNCHANGED <<session, inGame>>
     \/ \E id \in Matching(c) :
          IF BanCheckFails(accounts[id])
          THEN UNCHANGED <<session, inGame>>
          ELSE OpenSession(c.slot, id)
  /\ UNCHANGED occupant
  /\ UNCHANGED database

\* Mutant: the column level is left out of the UPDATE.
UpdateAccountWithoutLevel(p) ==
  accounts' = [accounts EXCEPT ![p.id] =
                 IF @ = NoRow THEN NoRow
                 ELSE [@ EXCEPT !.exp = p.exp, !.points = p.points]]

\* UPDATE accounts ... WHERE id
UpdateAccount(p) ==
  accounts' = [accounts EXCEPT ![p.id] =
                 IF @ = NoRow THEN NoRow
                 ELSE [@ EXCEPT !.level = p.level, !.exp = p.exp, !.points = p.points]]

\* Mutant: the save ends before the statement on u_upgrs.
UpdateStatsForgotten(p) == UNCHANGED u_upgrs

\* UPDATE u_upgrs ... WHERE user_id: no effect without a row
UpdateStats(p) ==
  u_upgrs' = [u_upgrs EXCEPT ![p.id] = IF @ = NoRow THEN NoRow ELSE p.spent]

RunSave(c) ==
  /\ c.kind = "save"
  /\ UpdateAccount(c.data)
  /\ UpdateStats(c.data)
  /\ UNCHANGED memory
  /\ UNCHANGED tables

\* CGameContext::OnMMOTick
Tick ==
  /\ DBQ!Loop
  /\ \/ RunCreate(DBQ!NextClosure)
     \/ RunRegister(DBQ!NextClosure)
     \/ RunLogin(DBQ!NextClosure)
     \/ RunSave(DBQ!NextClosure)

-----------------------------------------------------------------------------
(***************************************************************************)
(* Crashes.  Every statement commits on its own, so the closure that runs  *)
(* when the process dies may have executed some of its statements.         *)
(***************************************************************************)
PartialClosure(c) ==
  \/ /\ c.kind = "register"
     /\ \E id \in Ids : InsertAccount(c, id)
  \/ /\ c.kind = "save"
     /\ UpdateAccount(c.data)

Crash ==
  /\ \/ UNCHANGED accounts
     \/ requests # << >> /\ PartialClosure(DBQ!NextClosure)
  /\ UNCHANGED <<tables, u_upgrs>>
  /\ occupant' = NoOccupants
  /\ inGame' = {}
  /\ session' = NoSessions
  /\ globals' = FreshGlobals
  /\ requests' = TableOrder

-----------------------------------------------------------------------------
Next ==
  \/ \E s \in Slots, u \in Users : Join(s, u)
  \/ \E s \in Slots : Leave(s)
  \/ \E s \in Slots, l \in Logins : ChatRegister(s, l)
  \/ \E s \in Slots, l \in Logins : ChatLogin(s, l)
  \/ \E s \in Slots, gain \in ExpGains : GiveExp(s, gain)
  \/ \E s \in Slots : UpgradeStat(s)
  \/ \E id \in Ids : BanAccount(id)
  \/ Tick

\* The main loop of the server keeps ticking.
Fairness == WF_vars(Tick)

Spec == Init /\ [][Next]_vars

FairSpec == Spec /\ Fairness

CrashSpec == Init /\ [][Next \/ Crash]_vars

FairCrashSpec == CrashSpec /\ Fairness

-----------------------------------------------------------------------------
(***************************************************************************)
(* Safety                                                                  *)
(***************************************************************************)
Sessions == {session[s] : s \in {r \in Slots : LoggedIn(r)}}
PendingSaves ==
  IF globals[DBCallback] \in SaveClosure THEN {globals[DBCallback].data} ELSE {}

Conserved(p) == p.points + p.spent = 2 * (p.level - 1)
BelowThreshold(p) == p.exp < GetExpForLevelUp(p.level)

(***************************************************************************)
(* A character has exactly the two points of each level it gained, spent   *)
(* or not: in memory, in a save that waits and in the tables, where the    *)
(* level and the spent points are rows of two tables written by different  *)
(* statements of SaveAccount (auth.lua:207-255) and any closure may be     *)
(* replaced, run twice or belong to a slot that changed hands.             *)
(***************************************************************************)
PointsConserved ==
  /\ \A p \in Sessions \cup PendingSaves : Conserved(p)
  /\ \A id \in Registered : Conserved(LoadedSession(id))

(***************************************************************************)
(* No character is due for a level it did not get: the loop of GiveExp     *)
(* (account_utils.lua:80-88) leaves less experience than the next level    *)
(* costs, and no later load or save undoes that.                           *)
(***************************************************************************)
ExpBelowThreshold ==
  /\ \A p \in Sessions \cup PendingSaves : BelowThreshold(p)
  /\ \A id \in Registered : BelowThreshold(accounts[id])

(***************************************************************************)
(* Two people who register one name at the same time do not both get it:   *)
(* the table has no UNIQUE constraint, the count of auth.lua:14-23 is all  *)
(* that keeps GetAccount, which looks a row up by its name, unambiguous.   *)
(***************************************************************************)
NamesUnique ==
  \A i, j \in Registered : accounts[i].name = accounts[j].name => i = j

(***************************************************************************)
(* A CPlayer outside the spectators has account data.  HandleTiles,        *)
(* PlayerWeapons and Ent:Damage (players.lua:12-19, :231-235) use the data *)
(* of an in-game client without asking whether it is logged in.            *)
(***************************************************************************)
InGameIsLoggedIn ==
  \A s \in inGame : occupant[s] # NoUser /\ LoggedIn(s)

(***************************************************************************)
(* Every UPDATE finds its row: sessions and waiting saves belong to a      *)
(* registered account, and every account has a row of upgrades.  An UPDATE *)
(* without a row changes nothing and reports nothing (auth.lua:245-248).   *)
(***************************************************************************)
RowsComplete ==
  /\ \A p \in Sessions \cup PendingSaves : p.id \in Registered
  /\ \A id \in Registered : u_upgrs[id] # NoRow

(***************************************************************************)
(* The closures of registration, login and save never run before the five  *)
(* CREATE TABLE requests of DB.CreateTables (sql_queries.lua:1-56).        *)
(***************************************************************************)
TablesExistWhenNeeded ==
  requests # << >> /\ Head(requests) = DBCallback => tables = TableNames

(***************************************************************************)
(* What survives a crash between two statements: level, experience and     *)
(* unspent points are written by one UPDATE, so an account never holds     *)
(* more unspent points than its levels gave.  PointsConserved does not     *)
(* survive: a crash before UpdateStats loses or doubles spent points.      *)
(***************************************************************************)
Bounded(p) == p.points <= 2 * (p.level - 1)

PointsBounded ==
  /\ \A p \in Sessions \cup PendingSaves : Bounded(p)
  /\ \A id \in Registered : Bounded(accounts[id])

\* A slot gets the data of another account.
Opened(s) ==
  /\ session'[s] # NoSession
  /\ LoggedIn(s) => session'[s].id # session[s].id

(***************************************************************************)
(* Two statements of the repository that the code does not keep.           *)
(* auth.lua:81, "Check for ban on account": a banned account is not loaded.*)
(***************************************************************************)
BannedStaysOut ==
  [][ \A s \in Slots : Opened(s) => ~accounts[session'[s].id].banned ]_vars

(***************************************************************************)
(* lua/docs.txt:18-20, OnPlayerLoggedIn is "Called when player logged in   *)
(* account" with his ClientID: the hook, which follows SetTeam             *)
(* (auth.lua:175-177), is called for the slot of the one who logged in.    *)
(***************************************************************************)
HookIsForWhoLoggedIn ==
  \A s \in inGame : accounts[session[s].id].password = occupant[s]

-----------------------------------------------------------------------------
(***************************************************************************)
(* Liveness                                                                *)
(***************************************************************************)
(***************************************************************************)
(* The save of a client that left reaches both tables, unless a later      *)
(* DB.Execute replaces its closure (database.lua:5-6) or the server crashes*)
(* before.  An account whose registration a crash has cut in two has no row*)
(* in u_upgrs, and none of its saves is stored as a whole.                 *)
(***************************************************************************)
LastRequestSaves(id) ==
  \E p \in PendingSaves : p.id = id

Stored(id) == id \in Registered /\ LoadedSession(id) \in PendingSaves

SaveIsStored ==
  \A id \in Ids :
    LastRequestSaves(id) /\ u_upgrs[id] # NoRow ~>
      (Stored(id) \/ ~LastRequestSaves(id))

=============================================================================
