------------------------------ MODULE Snapshots ------------------------------
(***************************************************************************)
(* The snapshots of one client.  With every tick the server saves what the *)
(* client is to see, and sends the difference to the last snapshot that the*)
(* client acknowledged (CServer::DoSnapshot); the client applies it to its *)
(* own copy of that snapshot, acknowledges it with its next input, and     *)
(* shows a pair of snapshots that moves along its list (CClient).          *)
(*                                                                         *)
(* Snapshots and inputs are not vital: packets are lost, repeated and come *)
(* late or in another order.                                               *)
(*                                                                         *)
(* Abstractions.  A tick is one turn of DoSnapshot.  Ticks are given by    *)
(* their age, so that the model needs no last tick; what is older than the *)
(* server keeps and a packet travels has the age Gone.  A packet arrives   *)
(* within MaxDelay ticks or not at all.  What a snapshot holds is one of   *)
(* Contents; a difference taken to the wrong snapshot gives garbage, which *)
(* the checksum or the unpacker notices.  Demos and the second client of a *)
(* player are left out.                                                    *)
(***************************************************************************)
EXTENDS Naturals, FiniteSets, FiniteSetsExt

CONSTANTS
  Contents,     \* what a snapshot may hold
  MaxParts,     \* parts of a large snapshot
  Keep,         \* ticks the server keeps a snapshot: 3 seconds
  InitEvery,    \* a client without an input gets one snapshot in so many ticks
  RecoverEvery, \* and a client that has to recover in so many
  MaxErrors,    \* checksum errors before the client starts over: 10
  MaxDelay,     \* bound: ticks that a packet travels
  MaxResets,    \* bound: rejoins, maps loaded and takeovers
  Takeovers,    \* bound: is the slot of the client taken over
  None

ASSUME NumbersAssumption ==
  /\ {MaxParts, InitEvery, RecoverEvery} \subseteq Nat \ {0}
  /\ {Keep, MaxErrors, MaxDelay, MaxResets} \subseteq Nat
  /\ Takeovers \in BOOLEAN
ASSUME NoneAssumption == None \notin Contents \cup Nat /\ "garbage" \notin Contents

Gone == Keep + MaxDelay + 1
Ages == 0 .. Gone
Older(a) == IF a \in {None, Gone} THEN a ELSE a + 1

VARIABLES
  server,  \* m_Snapshots, m_LastAckedSnapshot and m_SnapRate of the client
  client,  \* the arrays m_a...[Conn] of CClient
  down,    \* snapshots on their way, one record for each part
  up,      \* inputs on their way: what they acknowledge, and their age
  tick,    \* the server's tick, as far as the rates ask for it
  resets   \* rejoins, maps and takeovers so far

vars == <<server, client, down, up, tick, resets>>

Saved == [age : Ages, content : Contents]
Held == [age : Ages, content : Contents, sent : Contents]

TypeOK ==
  /\ server \in [snaps : SUBSET Saved, acked : Ages \cup {None},
                 rate : {"INIT", "RECOVER", "FULL"}]
  /\ client \in [recvTick : Ages, ackTick : Ages \cup {None},
                 parts : SUBSET [part : 0 .. MaxParts - 1, age : Ages],
                 held : SUBSET Held, received : 0 .. 3,
                 prev : Ages \cup {None}, cur : Ages \cup {None}, errors : 0 .. MaxErrors]
  /\ down \subseteq [age : 0 .. MaxDelay, delta : Ages \cup {None},
                     base : Contents \cup {None}, content : Contents,
                     parts : 1 .. MaxParts, part : 0 .. MaxParts - 1]
  /\ up \subseteq [ack : Ages \cup {None}, age : 0 .. MaxDelay]
  /\ tick \in 0 .. InitEvery * RecoverEvery - 1
  /\ resets \in 0 .. MaxResets

\* CServer::CClient::Reset and CClient::OnEnterGame.
FreshServer == [snaps |-> {}, acked |-> None, rate |-> "INIT"]
FreshClient == [recvTick |-> Gone, ackTick |-> None, parts |-> {}, held |-> {},
                received |-> 0, prev |-> None, cur |-> None, errors |-> 0]

Init ==
  /\ server = FreshServer
  /\ client = FreshClient
  /\ down = {} /\ up = {}
  /\ tick = 0
  /\ resets = 0

-----------------------------------------------------------------------------
\* Every age when a tick has passed.  A packet that is too late is lost.
AgedAll(S) == {[h EXCEPT !.age = Older(@)] : h \in S}

AgedServer == [server EXCEPT !.snaps = AgedAll(@), !.acked = Older(@)]

AgedClient ==
  [client EXCEPT !.recvTick = Older(@), !.ackTick = Older(@), !.parts = AgedAll(@),
                 !.held = AgedAll(@), !.prev = Older(@), !.cur = Older(@)]

AgedDown == {[m EXCEPT !.age = @ + 1, !.delta = Older(@)] : m \in {n \in down : n.age < MaxDelay}}
AgedUp == {[i EXCEPT !.age = @ + 1, !.ack = Older(@)] : i \in {j \in up : j.age < MaxDelay}}

\* CSnapshotStorage::Get: the holder of a tick, if there is one.
Found(snaps, age) == {s \in snaps : s.age = age}

\* The parts of a snapshot; without differences it is one part, else up to MaxParts.
Parts(delta, base, content) ==
  {{[age |-> 0, delta |-> delta, base |-> base, content |-> content,
     parts |-> n, part |-> i] : i \in 0 .. n - 1}
   : n \in IF base = content THEN {1} ELSE 1 .. MaxParts}

\* DoSnapshot for this client: purge, save, find what was acknowledged, send.
Snapped(s, content) ==
  [s EXCEPT !.snaps = {h \in @ : h.age <= Keep} \cup {[age |-> 0, content |-> content]}]

\* Mutant: the snapshot of this tick is taken for the one acknowledged.
ShotsNewest(s) == {h \in s.snaps : h.age = 0 /\ s.acked # None}

\* The snapshot that was acknowledged, if it is still there.
Shots(s) == Found(s.snaps, s.acked)

SendSnapshot(s, content) ==
  LET now == Snapped(s, content)
      shots == Shots(now)
  IN IF shots = {}
     THEN /\ server' = [now EXCEPT !.rate = IF @ = "FULL" THEN "RECOVER" ELSE @]
          /\ \E P \in Parts(None, None, content) : down' = AgedDown \cup P
     ELSE /\ server' = now
          /\ \E shot \in shots : \E P \in Parts(now.acked, shot.content, content) :
               down' = AgedDown \cup P

\* The rates at which no snapshot is made with this tick.
Skips(now) ==
  \/ server.rate = "RECOVER" /\ now % RecoverEvery # 0
  \/ server.rate = "INIT" /\ now % InitEvery # 0

Tick ==
  /\ tick' = (tick + 1) % (InitEvery * RecoverEvery)
  /\ IF Skips(tick') THEN server' = AgedServer /\ down' = AgedDown
     ELSE \E content \in Contents : SendSnapshot(AgedServer, content)
  /\ client' = AgedClient
  /\ up' = AgedUp
  /\ UNCHANGED resets

\* An input arrives, whatever arrived before it (NETMSG_INPUT).
TakeInput(i) ==
  /\ server' = [server EXCEPT !.acked = i.ack, !.rate = IF i.ack # None THEN "FULL" ELSE @]
  /\ UNCHANGED <<client, down, up, tick, resets>>

-----------------------------------------------------------------------------
\* SendInput
InputOf(ack) == up \cup {[ack |-> ack, age |-> 0]}

SendInput ==
  /\ up' = InputOf(client.ackTick)
  /\ UNCHANGED <<server, client, down, tick, resets>>

\* The parts that are there with a part that arrives: those of one tick.
PartsWith(m) ==
  (IF m.age = client.recvTick THEN client.parts ELSE {}) \cup {[part |-> m.part, age |-> m.age]}

Complete(parts, m) == {p.part : p \in parts} = 0 .. m.parts - 1

\* The difference in m, applied to what the client holds of its base.
Applied(parts, m, base) ==
  IF \E p \in parts : p.age # m.age THEN "garbage"
  ELSE IF m.delta # None /\ m.base = m.content THEN base.content
  ELSE IF m.delta = None \/ base.content = m.base THEN m.content
  ELSE "garbage"

\* PurgeTick: the oldest of the delta shot and the two snapshots that are shown.
PurgeAge(m) == Max({m.delta, client.prev, client.cur} \ {None})

\* Mutant: the tick is acknowledged that could not be unpacked.
AckUnpacked(m) == m.age

\* A delta shot that is missing makes the server start over.
AckMissing(m) == None

\* Mutant: the second snapshot shows the first of the list twice.
CurrentOfFirst(held) == Max({h.age : h \in held})

\* The newest snapshot of the list.
CurrentOf(held) == Min({h.age : h \in held})

\* A snapshot that is right as far as the client can see: purge, add, show, acknowledge.
Take(m, c, content) ==
  LET kept == IF m.delta = None THEN c.held ELSE {h \in c.held : h.age <= PurgeAge(m)}
      held == kept \cup {[age |-> m.age, content |-> content, sent |-> m.content]}
      second == c.received = 1
  IN client' = [c EXCEPT !.held = held, !.ackTick = m.age,
                         !.errors = IF @ = 0 THEN 0 ELSE @ - 1,
                         !.received = IF @ = 3 THEN 3 ELSE @ + 1,
                         !.prev = IF second THEN Max({h.age : h \in held}) ELSE @,
                         !.cur = IF second THEN CurrentOf(held) ELSE @]

\* A checksum error counts, an error of the unpacker does not.
Reject(c) ==
  \/ /\ client' = c /\ UNCHANGED up
  \/ /\ c.errors < MaxErrors
     /\ client' = [c EXCEPT !.errors = @ + 1]
     /\ UNCHANGED up
  \/ /\ c.errors = MaxErrors
     /\ client' = [c EXCEPT !.errors = 0, !.ackTick = None]
     /\ up' = InputOf(None)

\* NETMSG_SNAP, NETMSG_SNAPSINGLE, NETMSG_SNAPEMPTY.
TakeSnapshot(m) ==
  /\ m.age <= client.recvTick
  /\ client.ackTick # None => m.age < client.ackTick
  /\ LET parts == PartsWith(m)
         c == [client EXCEPT !.recvTick = m.age, !.parts = {}]
         bases == Found(c.held, m.delta)
     IN \/ /\ ~Complete(parts, m)
           /\ client' = [c EXCEPT !.parts = parts]
           /\ UNCHANGED up
        \/ /\ Complete(parts, m)
           /\ m.delta # None /\ bases = {}
           /\ client' = [c EXCEPT !.ackTick = AckMissing(m)]
           /\ up' = InputOf(AckMissing(m))
        \/ /\ Complete(parts, m)
           /\ m.delta = None \/ bases # {}
           /\ \E base \in IF m.delta = None THEN {None} ELSE bases :
                LET content == Applied(parts, m, base)
                IN IF content = "garbage" THEN Reject(c)
                   ELSE Take(m, c, content) /\ UNCHANGED up
  /\ UNCHANGED <<server, down, tick, resets>>

\* CClient::Update: the time of the snapshot that is shown is over, and there is another.
Advance ==
  LET younger == {h.age : h \in {g \in client.held : g.age < client.cur}}
  IN /\ client.received = 3 /\ younger # {}
     /\ client' = [client EXCEPT !.prev = client.cur, !.cur = Max(younger)]
     /\ UNCHANGED <<server, down, up, tick, resets>>

-----------------------------------------------------------------------------
\* LoadMap: the client waits for two snapshots again, and keeps everything.
LoadMap ==
  /\ client' = [client EXCEPT !.received = 0]
  /\ UNCHANGED <<server, down, up, tick>>

\* The client disconnects and comes back into its slot; until it enters the game
\* it has the storage of its last session.
Rejoin ==
  /\ server' = FreshServer
  /\ client' = [client EXCEPT !.received = 0, !.prev = None, !.cur = None]
  /\ UNCHANGED <<down, up, tick>>

\* OnEnterGame, after a rejoin.
EnterGame ==
  /\ client.prev = None
  /\ client' = [FreshClient EXCEPT !.errors = client.errors]
  /\ UNCHANGED <<server, down, up, tick>>

\* CServer::SetTimedOut: the client gets the slot that lost its peer a moment or
\* long ago, with the storage, the acknowledged tick and the rate of that peer.  A
\* tick that is not stored is as good as Gone.
TakenOver ==
  /\ Takeovers
  /\ \E ages \in SUBSET (0 .. Keep) : \E f \in [ages -> Contents] :
     \E last \in {<<None, "INIT">>, <<Gone, "RECOVER">>} \cup (ages \cup {Gone}) \X {"FULL"} :
       server' = [snaps |-> {[age |-> a, content |-> f[a]] : a \in ages},
                  acked |-> last[1], rate |-> last[2]]
  /\ UNCHANGED <<client, down, up, tick>>

Reset ==
  /\ resets < MaxResets /\ resets' = resets + 1
  /\ LoadMap \/ Rejoin \/ EnterGame \/ TakenOver

Next ==
  \/ Tick \/ SendInput \/ Advance \/ Reset
  \/ \E m \in down : TakeSnapshot(m)
  \/ \E i \in up : TakeInput(i)

Spec == Init /\ [][Next]_vars

\* The server ticks; now and then an input and a snapshot arrive in time.
FairSpec ==
  /\ Spec
  /\ WF_vars(Tick) /\ WF_vars(SendInput)
  /\ SF_vars(\E m \in down : m.age = 0 /\ TakeSnapshot(m))
  /\ SF_vars(\E i \in up : i.ack = client.ackTick /\ TakeInput(i))

-----------------------------------------------------------------------------
(***************************************************************************)
(* The two snapshots that the client shows are holders of its list: no     *)
(* purge, whatever the server takes as the delta shot, frees one of them   *)
(* (client.cpp:1808-1813, the renderer reads them through pointers).       *)
(***************************************************************************)
ShownIsHeld ==
  /\ {client.prev, client.cur} \ {None} \subseteq {h.age : h \in client.held}
  /\ client.received >= 2 => client.prev # None /\ client.cur # None

(***************************************************************************)
(* What the client holds for a tick is what the server sent for that tick, *)
(* although the difference was taken to a snapshot that both of them had to*)
(* find again (server.cpp:1035, client.cpp:1731-1751): parts are never     *)
(* mixed and the two delta shots are the same.                             *)
(***************************************************************************)
ContentRight == \A h \in client.held : h.content = h.sent

(***************************************************************************)
(* What is shown never goes back to an older tick, in whatever order the   *)
(* snapshots arrive, and maps loaded in between (client.cpp:1704, 1860).   *)
(***************************************************************************)
ShownAge(c) == IF c.cur = None THEN Gone ELSE c.cur
ViewForward ==
  [][client'.cur # None =>
       ShownAge(client') <= (IF tick' = tick THEN ShownAge(client) ELSE Older(ShownAge(client)))]_vars

(***************************************************************************)
(* As long as packets arrive now and then, the client takes snapshots of   *)
(* the tick it is, again and again: a delta shot that is missing, an       *)
(* acknowledgement that comes late or a rejoin do not keep it from them.   *)
(***************************************************************************)
KeepsUp == []<>(\E h \in client.held : h.age = 0)

=============================================================================
