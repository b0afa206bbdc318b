# Formal verification of the MMOTee server

MMOTee is a DDNet (Teeworlds) server with an MMO layer written in Lua. This
directory holds TLA+ modules that model parts of the server, TLC
configurations that check them on small instances, and theorems that TLAPS
proves for every instance. `PROJECT.json` maps each definition to the source
lines it models.

## 1. The system

| Part | State | Operations | What is hard about it |
| --- | --- | --- | --- |
| Database queue (`lua/sv/base/database.lua`, `engine/shared/sqlite`) | `m_Requests`, the Lua globals that hold closures | `DB.Execute`, `DB.SimpleExecute`, `CSQLite::Loop` | a request names a global, the closure may be replaced while it waits |
| Accounts (`lua/sv/game/auth.lua`, `account_utils.lua`, `sql_queries.lua`) | `Player._Player_Data`, tables `accounts`, `u_upgrs`, ... | `register`, `login`, `GiveExp`, `UpgradeStat`, save on departure | closures act ticks after the command, on slots that may have changed hands; saves are several statements without a transaction |
| Reliable transport (`engine/shared/network_conn.cpp`, `network.cpp`) | sequence numbers, resend buffer, packet under construction, unpacker | `QueueChunk`, `Flush`, `Feed`, `FetchChunk`, `Update`, `Disconnect` | loss, duplication, reordering, wrap-around of numbers, full buffer |
| Handshake and slots (`network_server.cpp`) | connection of each slot, tokens | CONNECT, CONNECTACCEPT, ACCEPT, rejoin, takeover after a timeout | repeated or lost control packets |
| Client lifecycle (`engine/server/server.cpp`) | `CClient::m_State`, the player of the slot | `ProcessClientPacket`, `DelClientCallback`, `SetTimedOut`, reload of the game server | connection, client state and player of a slot are kept in three places |
| Transfers (`mmo_gamecontext.cpp`, `multiworld_manager.cpp`, client) | current file, next chunk, current world | chunk requests and answers | repeated requests, world change in the middle |
| Snap ids (`CSnapIDPool`) | free list, timed list | `NewID`, `FreeID`, `TimeoutIDs` | two lists over one field, exhaustion, times in an `int` |
| Lua world (`lua/sv/base/world.lua`, `lua/sv/entities`) | entity lists by type, snap ids | `Spawn`, `OnTick`, `Damage`, `OnDeath` | removal while iterating, owners that left |
| Inventory, equipment, works, spells (`lua/sv/game`) | items by account, mana | `GiveItem`, `SetEquip`, `GiveWorkExp` | saved with the account, duplicated with it |
| Snapshots (`snapshot.cpp`) | stored snapshots, acknowledged ticks | create, delta, apply | lost and late deltas |
| Connection pool and jobs (`databases/`, `jobs.cpp`) | request ring, worker threads | `Execute`, worker loops | real concurrency |
| Bans, authentication manager, votes, econ | lists | | little interaction |
| Physics, rendering, tools, vendored code | | | not a subject of this project |

How they interact. The server thread runs one loop: it reads packets
(`PumpNetwork`), hands chunks to `ProcessClientPacket`, which calls the game
and, through hooks, Lua; then it runs game ticks, each of which ends with
`CGameContext::OnMMOTick`: the Lua `OnTick` and one step of the database queue.
Lua commands and hooks (`OnPlayerLeft`) put closures on the database queue; a
closure reads and writes the tables and `Player._Player_Data`, moves the client
out of the spectators and calls further hooks. Everything in the server is one
thread, so the interleavings are those of handlers and ticks, not of
instructions; the peers of a connection and the network are concurrent to it.

## 2. Modules

| Module | Models | Role |
| --- | --- | --- |
| `FifoQueue` | what callers expect of a queue | abstract |
| `DBQueue` | `DB.Execute`, `CSQLite::Execute`, `CSQLite::Loop` | component, implements `FifoQueue` |
| `AccountSessions` | registration, login, progress, save, departure, crash; instantiates `DBQueue` for its queue | component, composition |
| `ReliableChannel` | what one direction of a connection promises | abstract |
| `NetConn` | both ends of a connection and the network between | component, implements `ReliableChannel` in each direction |
| `ServerSlots` | handshake, slots, client states, players, takeover | component |
| `LuaFiles` | transfer of the client scripts, both ends | component |
| `MapTransfer` | worlds and their maps, both ends | component |
| `Snapshots` | snapshots, differences and acknowledgements, both ends | component |
| `IdAllocator` | what the game expects of the snap ids | abstract |
| `SnapIDPool` | `CSnapIDPool` | component, implements `IdAllocator` |
| `LuaWorld` | entities, `World.OnTick`, rewards | component, over the ids of `IdAllocator` |
| `JobPool` | `CJobPool` and its threads | component |
| `ConnectionPool` | `CDbConnectionPool` and its threads | component, implements `FifoQueue` |
| `MC*` | | instances for TLC |
| `*_proofs` | | theorems; `MCPools_proofs`, `MCSlotCases_proofs` and `MCClient_proofs` are about the components of those compositions and about the compositions themselves |

The modules lean on each other as the code does: `AccountSessions` contains
`DBQueue`; `LuaFiles`, `MapTransfer` and the chunks of `ServerSlots` assume of the
transport what `NetConn` shows, messages once and in order; `LuaWorld` takes ids
as `IdAllocator` gives them. Where two components share no state, composing them
only multiplies their states, so the MC modules that hold several components (or
several instances of one) are sums: a variable (`component`, `part`, `case`) says
which of them moves in a behaviour, the others stay as they were set up, and the
fairness conditions and leads-to properties speak of the one that moves.

### DBQueue

`globals` is `_G` of the Lua state restricted to the names of requests, and `requests`
is `m_Requests`. `Execute(n, c)` stores the closure and appends the name; `Loop` takes
the first name, and `NextClosure` is what the global holds then. The constant
`Disciplined` says whether callers avoid giving a waiting name another closure. The
assumptions on the constants are an operator, `Assumptions`, which the modules that
instantiate the queue assume. `DB.SimpleExecute` does (its name is a hash of the query),
`DB.Execute` does not (its name is a constant), so `AccountSessions` uses the
undisciplined queue.

### AccountSessions

Slots hold users; a user may hold several slots. A closure is a record of its
kind and of the Lua locals it captures (`slot`, `name`, `password`, or the data
of a save). `Tick` is `OnMMOTick`: it takes one request and runs the closure as
one step, as the server does, whatever happened to the slot since. A password
is the user who chose it, a name a model value that stands for a name without a quote
(section 7). `session[s]` is what `Player._Player_Data` holds of
level, experience, unspent and spent points and of the account's id.
`Crash` restarts the server on the tables it left; the closure that was running
may have executed only its first statements (`PartialClosure`).

### NetConn

The ends are `client` and `server`. Each action is one handler: `QueueChunk`
(with the flush it makes when the packet is full), `Flush`, `Feed` (validity of
the acknowledgement, then resend, then acknowledged chunks leave the buffer,
then the packet is handed to the unpacker), `Fetch` (one call of `FetchChunk`
for one chunk), the timers of `Update` (`ResendFirst`, `KeepAlive`, `Timeout`),
`Disconnect` and `Closed`. `network[e]` is a set of packets; they are delivered
in any order, again (`last = FALSE`) or never (`Lose`). `sent` and `got` are
histories. A chunk carries its index as datum, so that "in order, at most once"
can be said; the code only ever looks at `seq`. The one assumption on the network
(`Fresh`) is that no packet arrives after a whole turn of sequence numbers has
been queued behind it.

### ServerSlots

`slot[s]` is the connection `m_aSlots[s]`, `server[s]` the state of
`CServer::m_aClients[s]` (PREAUTH stands for AUTH as well), `player[s]` is
`m_apPlayers[s]`, `client[c]` the connection at the address `c`. Persons are sets of
addresses. A timeout code is the person who chose it, who tells it to nobody, or `Nil`,
the empty code of whoever set none; two empty codes are equal, as strings are. `bound` abstracts
the sequence numbers: an end is bound when it has exchanged a chunk since it was
reset, and ends that differ in it refuse each other's packets. `network` holds the
control packets ACCEPT, CLOSE and CLOSED, which may arrive never, late and again;
CONNECT and CONNECTACCEPT keep no state and are one step. `RecvAccept` is
`CNetServer::Recv` up to `TryAcceptClient` or, for an address that has a slot, the
rejoin; `TakeUp` is one chunk through `ProcessClientPacket`; `Drop` is
`CNetServer::Drop` with `DelClientCallback`; `ConTimeout` is the chat command, whose code
is optional, with `SetTimedOut`: without an argument it asks with the code of the player
and, when nothing is found, clears it; `Reload` is what `CServer::Run` does after
`MAX_TICK`. A chunk remembers the slot whose ring buffer holds it (`home`): whatever the next
client of that slot queues overwrites it, which is more than the ring buffer does before it wraps.

### LuaFiles

`files` is the list of client files of the Lua manager, `size` the whole chunks of
each file on the disk of the server, `current` and `next` the position of the
transfer, `copy` what the client has of each file. `SendLuaFileChunk` answers a
request from the disk as it is then; `Edit`, which may also remove a file, and `LuaReload`
change what it finds. A client that cannot be sent a file is kicked.

### MapTransfer

`server` is the state of the client's slot with its world, `client` the state of
CClient with the map it has loaded, `download` the download that goes on, `disk` the
maps it has. `ChangeWorld` is what the world manager does to a client, `down` and `up`
are the vital messages. `Offered` are the maps on an HTTP server. A takeover sends
no map; a rejoin takes the world back to 0.

### Snapshots

Both ends hold their storages as sets of snapshots with an age in ticks; `Tick` is
one turn of `DoSnapshot`, `TakeSnapshot` the handler of NETMSG_SNAP, NETMSG_SNAPSINGLE and
NETMSG_SNAPEMPTY with assembly, difference, checksum, purge and acknowledgement,
`TakeInput` the handler of NETMSG_INPUT with the rates INIT, RECOVER and FULL. `Resets`
are a rejoin, a loaded map and, where `Takeovers` says so, a takeover, a moment or long after
the slot lost its peer: it brings any storage, with the rate and the last acknowledgement of
that peer, still stored or not.

### SnapIDPool

An array of ids with the one field `next` that both lists run over. The loops over
the timed list are modelled step by step. `m_Timeout` wraps at `IntLimit`, with no
assumption about how the quarantine compares to it: in the code `5 * 10^9` nanoseconds are
more than twice 2^31. What the pool promises, `IdAllocator`, is therefore one user at a time
for an id, and that `NewID` refuses only while each id is held or was freed less than the
quarantine ago. That an id is withheld until the quarantine is over is no part of it,
since the code does not do so (section 6).

### LuaWorld

`lists` and `ent` are `World._Entities`, `used` the ids that the pool counts as
used. A tick is `BeginTick`, then types in any order (`pairs` over a hash table), and
one `Visit...` for each entity; a visit may kill, spawn, remove or raise an error,
which ends the tick. `MobTicks` and `ItemTicks` are how long a dead mob and a broken
work item are gone (50 and 200 ticks), `HammerTicks` how long a hammer that broke
something reloads (50). `reload[c]` is the timer of the character of `c`, which goes with
the character: with `Deaths`, any clients may die in a tick and be back a tick later with
a new one. Geometry, health and damage are choices. `rewards`, `ticked` and `place` are
histories. `RewardedOnce` says of a mob that it pays one client once for a death. Of a work
item, which stays alive until its next visit, it says that a client who can fire again has
got nothing for the item as it stands, unless the last tick was disturbed, that is an error
ended it or a new type got its list. Two clients who hit the item before that visit are both
paid, and a client twice after a disturbed tick: the code allows it, and so does the property.

### JobPool and ConnectionPool

A section under the lock is one step; semaphores and flags are atomic. In the job pool
`queue` is a history, the jobs that wait in the order of their `Add`, against which the
links `m_pFirstJob`, `m_pNext` and `m_pLastJob` are held. In the connection pool the
queries fail when they like, and `copies`, `local` and `remote` are the writes that the
backup table, the local and the real database hold. The engine adds jobs from several
threads; the MMO layer does not use the connection pool.

## 3. Properties and runs

| Run | Instance | Shows |
| --- | --- | --- |
| `pools` | queue: 2 names, 3 closures, 4 requests; jobs: 3 jobs, 2 workers, Destroy at any time; ring: 3 slots, 6 queries; ids: 3 ids, quarantine 5, int below 2, clock to 6 | `QueueIsFifo` (queue), `JobsKept`, `JobsDone`, `DestroyReturns` (jobs), `RingIsFifo`, `PointerIsLive`, `NothingLost`, `ShutdownEnds` (ring), `ListsComplete`, `ImplementsAllocator` (ids) |
| `sessions` | 2 users, 2 slots, 1 name, 2 ids, level 2 | `PointsConserved`, `ExpBelowThreshold`, `NamesUnique`, `InGameIsLoggedIn`, `RowsComplete` |
| `crash` | 1 user, 2 slots, 1 id, crashes anywhere, fair ticks | `PointsBounded`, `TablesExistWhenNeeded`, `SaveIsStored` |
| `conn` | turn of 6, buffer of 2: six chunks one way; both ways with endings; two chunks a packet with endings | `ImplementsChannel`, `Recoverable`, `OldWasTaken` |
| `conn_live` | 2 chunks, a connection that neither end leaves (`LiveSpec`) | `AllAcknowledged` under fairness |
| `world` | 1 mob, 1 work item, 2 clients who may die, 2 places, 4 ids; or rains of two ids and `lua_reload` | `NoSharedIds`, `ListsExact`, `RewardedOnce`, `MissedMovedUp` |
| `slots` | 2 slots, 2 addresses: 2 connects of two people, 3 of one person, or 2 and a reload; `/timeout` with a code or bare | `OneSlot`, `LayersAgree`, `PlayersPeers` |
| `client` | slots: 1 client, 2 slots, 3 connects; files: 2 files of up to 2 chunks and a rest, 2 edits, 2 reloads; maps: 2 worlds of 2 chunks, 2 changes, 1 rejoin; snapshots: takeover or rejoin, no delay | `Resolves`, `SlotsFreed`, `CopiesInOrder`, `StartedComplete`, `FilesEnd`, `MapsAreOwn`, `SeesItsWorld`, `KeepsUp` |
| `snapshots` | 2 contents, snapshots of 2 parts; or of one part with a rejoin; packets one tick late, storage of one tick | `ContentRight`, `ViewForward` |
| `banned`, `hook`, `conn_overflow` | | findings, section 5 |

Why the bounds are enough. The account queue starts with the five requests that create
the tables, so five places let a command, a save and a login wait behind each other once
the tables exist. Two slots are what replacing a closure and a slot that changes hands
need; two users are what a slot that another one holds by now needs. One level-up (two
gains of 125) exercises the threshold with equality. The proofs remove these bounds for
the properties of section 4. In `NetConn` the buffer may hold fewer than half the
sequence numbers (455 entries of at least 72 bytes in 32 KB against 1024 numbers); 2
against 6 keeps that relation, and six chunks go once round; two packets in flight
suffice to reorder, and any packet may be repeated. In `ServerSlots` a takeover needs
two slots and two connects, a third one makes a client come back into the slot that was
emptied. In `LuaWorld` a mob, its killer's projectile and the pickup are on the two
places at once, and four ids run out when a rain takes two; two ticks for a mob or an item
to come back, against one of the hammer, keep the order of 200 and 50, and death, which
shortens the one of the hammer, is any client's at any tick of the case with the work item;
the case with the rains has no item to pay and no deaths. A quarantine of five against an
`int` of two wraps more than once, as in the code, and a clock that goes past it has ids
that have served their time, in the int and in truth. The worlds, files and chunks are
two each: the first, the last and the step between them. Snapshots are kept for one tick
and travel for up to one, so that the server may have dropped what an acknowledgement
names. The ring has one slot more than queries wait, as a ring that does not ask whether
a slot is free needs (section 6 has the other case). The job pool has more jobs than
workers, and more workers than one.

Fairness. `crash` assumes weak fairness of `Tick`: the main loop of `CServer::Run`
calls `OnTick` for every tick, `OnMMOTick` takes a request whenever there is one.
`SaveIsStored` is about a save whose account has its rows: a crash between the
INSERTs of a registration leaves an account that can log in and whose saves find
no row in `u_upgrs`, for ever.
`conn_live` assumes that `Update` and `Recv` are called again and again: weak
fairness of `Flush` and `Fetch`, and strong fairness of `ResendFirst` and `KeepAlive`,
which wait for the unpacker to be empty; of the network, that a packet with a given
chunk or acknowledgement that is sent again and again arrives now and then.
`pools` assumes that threads run: weak fairness of each worker, of the one who adds
a job between the lock and the signal, of Destroy, and of the two threads of the
ring. In `client` the part of the slots assumes that a CONNECT that is repeated is
answered, that ends in step deliver their chunks, that ends out of step run into
their timeouts, and that `Update` runs; nobody has to connect, disconnect or be
kicked. The transfers assume that each end handles its messages and, for maps, that
snapshots arrive and that an HTTP request ends. The snapshots assume that ticks and
inputs go on and, strongly, that now and then a snapshot of the newest tick and an
input with the newest acknowledgement get through; they have one part there, since
a client that loses one part of every large snapshot gets none of them.

## 4. Proofs

TLAPS checks every theorem to the last leaf, for all values of the constants
that satisfy the named assumptions. Every safety property of a passing run, invariant
or action property or refinement, is stated by a theorem; where a theorem has a
hypothesis, the property fails or is open without it, as said below.

### MCPools_proofs, ConnectionPool_proofs

`MCPools` is a sum, and what is proved of a part holds of it: each
part's `Spec` follows from `PoolsSpec` by the steps alone, the fairness dropped.

Database queue. `LoopFindsClosure`: a request always finds a closure; the
invariant is the type of the globals with "pending names are not nil", and callers
need no discipline for it. `DisciplinedIsFifo` and `DisciplinedQueue`: the refinement; the
step for `Execute` uses that giving a pending name its own closure again leaves the
mapped queue as it was.

Snap ids. `Linked` says that the free ids and the ids in quarantine are
the members of two chains of links from `m_FirstFree` and `m_FirstTimed`; a chain has
a witness, the list of its ids, for which removing the head and appending at the
tail are lemmas. From it `ListsAlwaysComplete` and, with cardinalities of finite
sets, `CountersAlwaysRight`. `PoolIsAllocator` assumes nothing about the width of
`m_Timeout`. `InOrder` says that the timed list stands in the order in which the quarantines
end, `Clocked` that no stored time is later than the true one, since the cut to an `int`
makes no time later (`CutShort`). When `NewID` refuses, the free list is empty and the head
of the timed list is stored as not expired, so that neither it nor what follows it has
served its time.

Jobs. `JobsAlwaysKept`, for any number of jobs and threads. `JobInv` holds the links
against the history `queue` and says in which stage each job is (`JobStages`): not
added, waiting in exactly one place of the queue, held by exactly one worker, or done;
this is what keeps `m_pLastJob` from pointing at a job that was taken. `SignalInv` adds
the count: no more jobs wait than there are signals in the semaphore, jobs linked whose
signal is still to come, and workers that have taken a signal and not looked at the
queue. Every action moves at most one unit from one term to the next; the steps count
sets of workers and of jobs that gain or lose one member. A shutdown only adds signals.

Ring, for a ring that the main thread does not fill (`Fits`: fewer
queries wait than there are slots; `MaxWaiting < RingSize` in `MCPools`). `Ring(n, b)` says
that the `n` queries that wait lie from the worker's place to that of the main thread
and that the backup thread has handed on the first `b`; `Tokens(n, b)` says what the
semaphores count, the signals of the shutdown included. Both are needed at once: only
the semaphores keep the worker behind the backup thread. With `Working` and `Stored`,
which follow the query of the worker and the writes in the databases, they give
`PointerAlwaysLive`, `RingIsQueue` (the refinement of `FifoQueue`), `WritesAreKept`,
`DoneAlwaysOnce` and `ShutdownAfterAll`; the last two are not among the listed runs.
`MCPools_proofs` takes the first three over from an instance of `ConnectionPool_proofs`.

### AccountSessions_proofs

The module works for `Spec` and `CrashSpec` at once. `TypeCorrect`
rests on an assumption about the constants (the null values are none of the
values beside them). `NoLevelIsDue` needs a strengthening: closures that wait
and cannot be seen by `PendingSaves` any more do not matter, but waiting saves,
sessions and rows must all be below the threshold, and a gain must not exceed
the cost of a level (`GainAssumption`); arithmetic on the cost of a level is in
lemmas of its own. `InGameHasData` and `PointsStayBounded` follow the same
pattern.

`PointsAreConserved` and `RowsAreComplete` are proved
together, because each needs the other: an UPDATE without a row would break
conservation, and the row of an account exists because registration, uncut by a
crash, inserts both. `NamesAreUnique` also holds with crashes.

`TablesAreThere` (`TablesExistWhenNeeded`) needs to know where the requests that
create the tables are: each table is there, or its request is in the queue with no
request of an account before it (`Made`), and the global of that request still holds
the closure that creates it (`TablesFirst`), from the start and after every crash.

### LuaWorld_proofs

The inductive invariant is a conjunction. `GoodWorld` speaks of the entities, between
the visits of a tick as well as between ticks: types, `Listed` (what exists is in the
list of its type, once, and nothing else is), `Kinds` (who is a mob, what has an owner)
and `OwnIds` (the ids of an entity are used, and those of two are disjoint). It is shown
of worlds as values, for `Spawned` and for `Removed`, so that a visit that does several
of these composes their lemmas. With `TickType` it gives `WorldTypeCorrect`,
`IdsNeverShared` and `ListsAlwaysExact`. `OrderIn` places what the tick has still to
visit: it stands where it stood when the tick began or nearer to the front, and strictly
nearer once its turn has passed, which is `MissedAlwaysMoveUp`.

`MobsPay` says that a living mob has paid nobody and a dead one at most one client once:
`MobsAlwaysPayOnce`, without further hypothesis. A work item is less well off: it is
alive until its next visit, so that it would pay twice were it missed until the hammer
can fire again. Whoever broke it cannot before the next tick, be it that the timer runs or
that the character is new. Nothing removes a work item, so that it stands in its list where
it stood when that tick began (`Ahead`): the tick ends with the item visited, and gone, or is
disturbed (`ItemsPay`). `AlwaysRewardedOnce` has both halves and no hypothesis: any number of
mobs and items, any reload times, with rains and deaths or without.

### NetConn_proofs

No chunk is queued that the buffer cannot hold
(`~Overflows`). `NetInv` places the sequence numbers: the buffer of an online end
holds its last chunks without a gap, the one before them has been got, `sequence`
and `peerAck` are the residues of the two ends of that window, and each packet
carries the residue of what its sender had got once, less than a turn ago. A valid
acknowledgement then stands for exactly one place in the window, and `AckChunks`,
which compares residues by half a turn, cuts the buffer there: `ChunksRecoverable`.
`ChunkInv` follows the chunks through construct, network and unpacker: each is
stamped with the residue of its datum, and never so late that the residue could
stand for another chunk. Then the next number in sequence is the next chunk that was
queued (`EndsAreChannels`, the refinement of `ReliableChannel` in both directions),
and what is in the backroom has been taken (`SkippedWasTaken`). Resent chunks lie in
the construct before newer ones, so that these two need
`BufferSlots + PacketChunks <= MaxSequence`. In the code the sum is at most
455 + 348 (1394 bytes of payload, a header of three bytes and at least one of data
per chunk) against 1024.

### MCSlotCases_proofs

`SlotsInv` has `OneSlot`, `LayersAgree` and `CodeIsPeers` (of which `PlayersPeers` is
the instance) beside what they need, that a slot which is not offline has the address of a
client (`Known`). `CodeIsPeers` is inductive because a code is told to nobody: a
`/timeout` with a code finds only players of the person who asks, and a bare one only
players without a code or, when the asking player has one, of the same person (`CodesKept`).
Of a player without a code nothing is claimed: a slot in error, protected or before its next
`Update`, goes to whoever first says `/timeout` without a code (`ddracechat.cpp:328-338`).
`PlayersAlwaysPeers` carries the last one over to the cases of the run, for the case of
two people, the only one in which persons are told apart.

### MCClient_proofs

Scripts. The inductive invariant is the dialogue itself: at any time the
transfer is in one of the stages announced, opening, requested, answered, followed
by the next announcement, or over, and each stage says what is on its way in either
direction and how far the copies are. Within a stage `Got` gives the chunks of the
current file, which is what `CopiesInOrder` and `StartedComplete` read off;
`FilesOfTheClient` is both, for the composition. `EndsTakeTurns` (`OneOutstanding`, no
property of a run) reads off that one chunk is asked for at a time.

Maps. The composition has two instances of `MapTransfer` over the same variables,
without and with an HTTP server; all the second does beyond the first is to end an HTTP
download well (`OffersAreMaps`). `MapsTypeCorrect` and `DownloadAlwaysInOrder` hold for
both. `MapsAlwaysOwn` adds `LastMapIsOwn` for the first: among the messages on their
way, an announcement or a chunk that no later announcement follows is of the client's
present world (`Own`), and when no announcement is on its way the client has loaded that
world's map or is downloading it (`Sees`). A chunk that finishes a download of another
world is thus followed by an announcement. For the second instance it is false (section
6).

### Snapshots_proofs

`ContentAlwaysRight`, where no slot is taken over
(`~Takeovers`), from an invariant that whatever tells of a tick, a storage of either
end, a packet or the base it names, tells of the same content (`OneContent`), and
that a base named in a packet is no older than what the server keeps (`DeltaThere`).
`ViewAlwaysForward` and `ShownAlwaysHeld` need no such condition; the first assumes
that some rate is above one, since otherwise the model has a single tick to tell.

### Only model-checked

All liveness, which is beyond this prover: `SaveIsStored`, `AllAcknowledged`,
`JobsDone`, `DestroyReturns`, `ShutdownEnds`, `Resolves`, `SlotsFreed`, `FilesEnd`,
`SeesItsWorld`, `KeepsUp`, and `NoStarvation` of section 6. Their safety halves are
proved where there is one: for `JobsDone` that no wake-up is lost, for `SeesItsWorld`
that the last map is the right one, for `NoStarvation` that what is missed moves up. The
proofs take `QueueChunk` with `Overflows`, the takeovers of snapshots, a ring that is
full and maps over HTTP out by hypothesis, because there the properties do not hold
(sections 5 and 6); undisciplined callers of the queue (`AccountSessions` has them) are out
of one theorem.

## 5. Findings

* `banned`: `CommonLogin` reads column 11 of `SELECT *` for the ban, which in
  the schema is `name_latest`; `banned` is column 12. A banned account logs in,
  and a client whose stored nickname starts with a number other than zero is
  refused.
* `hook`: the closure of a login acts for the client id it was made with. When
  that client has left and another one holds the slot, the other one gets the
  session and the hook `OnPlayerLoggedIn`.
* `conn_overflow`: a vital chunk that finds the resend buffer full keeps its
  sequence number but is sent only once; when half a turn of numbers is
  outstanding, the receiver takes new chunks for old ones and skips them.

## 6. Further configurations

The configurations named after a component's module are not part of the listed
runs. All but the last have TLC show a behaviour that some text of the repository
rules out; each takes less than two minutes: `tlc -config X.cfg <module>`.

* `SnapIDPool_quarantine.cfg`, `QuarantineKept`: `FreeID` stores `time_get() + time_freq() * 5`,
  nanoseconds in 64 bit, in the int `m_Timeout` (`server.h:61`). `NewID` compares the
  truncated time with the clock and takes an id out of its timed state whenever the
  int happens to be smaller, mostly at once.
* `ConnectionPool_overrun.cfg`, `AllWorkedThrough`: `Execute` does not ask whether the slot
  of the ring is taken; with more than 512 waiting queries the one in it is lost. With
  exactly as many as there are slots, the slot that is to announce the shutdown is not
  empty, and the backup thread never ends.
* `ServerSlots_enters.cfg`, `EveryoneEnters`: after a rejoin the player of the slot is still
  ready, so `OnStartInfoNetMessage` (`gamecontext.cpp:2636`) returns before it asks the client
  to enter. Without other news the client stays in loading; snapshots, which take it online
  after two (`client.cpp:1870`), are not in this module.
* `ServerSlots_resend.cfg`, `ResentAsSent`: `CNetConnection::SetTimedOut` is to "copy resend
  buffer" (`network_conn.cpp:520`) but copies pointers into the ring of the slot that is
  emptied and given to the next client.
* `MapTransfer_online.cfg`, `OnlineIsLoaded`: two snapshots of the world a client has left
  take it online (`client.cpp:1870`) before `OnConnected` has set up the map it has loaded.
* `MapTransfer_offered.cfg`, `LastMapIsOwn`: a map that is on the client's disk is loaded at
  once (`client.cpp:1375-1466`) without ending an HTTP download that is under way, since
  `ResetMapDownload` is called in the other branch only (`:1445`). When the old download
  ends (`:2591-2594`), the client loads the map of a world it has left. `SeesItsWorld`
  (run `client`) is claimed for a server that offers no map over HTTP.
* `Snapshots_takenover.cfg`, `ContentRight`: after a takeover server and client hold other
  snapshots under the same tick, and an empty difference, which has no checksum, is
  applied to the wrong one. `KeepsUp` (run `client`) shows that the client recovers.
* `LuaWorld_live.cfg`, `NoStarvation`: every entity is visited again and again, whatever is
  removed while the lists are gone through. This one holds.

## 7. Not modelled

Statements are put together with `string.format`, which leaves quotes as they are
(`auth.lua:64, 76`, `sql_queries.lua:60-65`). `AccountSessions` has names without a quote;
the statement that another name gives is not the one the model runs. Nothing is claimed
about names in general, and no property speaks of the password test.

Of the modelled parts: money, inventory, equipment and works of an account;
failing statements; `set_team` from rcon; requests of the database queue that name
closures of a Lua state that `lua_reload` has replaced; the queue at shutdown, which
for the tables is a crash; non-vital chunks and the block layout of the ring
buffer; the handshakes of vanilla and 0.7 clients; passwords and `RedirectClient`, which
nothing calls; errors of the client's disk; the character that a rejoin leaves in
its world while `m_WorldID` goes back to 0; the flag `m_IsMMOClient`, which a rejoin clears
without new Lua files; the player that `SendLuaFiles` may delete under
`OnClientConnected`; the spells wall and slowdown, which name types that no file
registers; the encoding of differences between snapshots.

The inventory, as it stands, only grows: `RemoveItem` is called for usable items, of
which there are none, `inv_drop_item` has no handler, and the two items that can be
equipped count once each, so that `EquipItem` toggles them. What is hard about them is
the save that writes them, which `AccountSessions` has.

Bans, votes, econ and the authentication manager are lists that one thread
changes, with little interaction. Physics, rendering, tools and vendored code
(the larger part of the repository by lines) are data and arithmetic
without the kind of control that a model checker explores.

## 8. Plan

Proofs: the decline of `place` that `NoStarvation` rests on, as an action property of
`LuaWorld`.
