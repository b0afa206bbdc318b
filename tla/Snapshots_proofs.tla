--------------------------- MODULE Snapshots_proofs ---------------------------
(***************************************************************************)
(* Proofs about Snapshots: type correctness, that a client whose slot is   *)
(* not taken over holds for each tick what the server sent for that tick,  *)
(* and that what it shows never goes back.                                 *)
(***************************************************************************)
EXTENDS Snapshots, WellFoundedInduction, TLAPS

Server == [snaps : SUBSET Saved, acked : Ages \cup {None}, rate : {"INIT", "RECOVER", "FULL"}]

Client == [recvTick : Ages, ackTick : Ages \cup {None},
           parts : SUBSET [part : 0 .. MaxParts - 1, age : Ages],
           held : SUBSET Held, received : 0 .. 3,
           prev : Ages \cup {None}, cur : Ages \cup {None}, errors : 0 .. MaxErrors]

Message == [age : 0 .. MaxDelay, delta : Ages \cup {None}, base : Contents \cup {None},
            content : Contents, parts : 1 .. MaxParts, part : 0 .. MaxParts - 1]

Input == [ack : Ages \cup {None}, age : 0 .. MaxDelay]

Typed ==
  /\ server \in Server /\ client \in Client
  /\ down \subseteq Message /\ up \subseteq Input

-----------------------------------------------------------------------------
(***************************************************************************)
(* Ages, and the oldest and the youngest of them.                          *)
(***************************************************************************)
LEMMA AgeFacts ==
  /\ Gone \in Nat /\ Keep \in Nat /\ MaxDelay \in Nat /\ Gone = Keep + MaxDelay + 1
  /\ Ages \subseteq Nat /\ 0 \in Ages /\ Gone \in Ages /\ None \notin Ages
  /\ \A a \in Nat : a <= Keep + MaxDelay => a \in Ages /\ a # Gone
BY NumbersAssumption, NoneAssumption DEF Gone, Ages

LEMMA OlderAge ==
  ASSUME NEW a \in Ages \cup {None}
  PROVE  /\ Older(a) \in Ages \cup {None}
         /\ a \in Ages => Older(a) \in Ages
         /\ Older(a) = None <=> a = None
         /\ \A b \in Ages \ {Gone} : Older(a) = b => a \in Ages \ {Gone} /\ a = b - 1
BY AgeFacts DEF Older, Ages

LEMMA OlderKeepsOrder ==
  ASSUME NEW a \in Ages, NEW b \in Ages, a <= b
  PROVE  Older(a) <= Older(b)
BY AgeFacts DEF Older, Ages

LEMMA Youngest ==
  ASSUME NEW S \in SUBSET Ages, S # {}
  PROVE  Min(S) \in S /\ \A a \in S : Min(S) <= a
<1>1. S \subseteq Nat
  BY AgeFacts
<1>2. PICK x \in S : \A y \in S : ~(<<y, x>> \in OpToRel(<, Nat))
  BY <1>1, NatLessThanWellFounded, WFMin
<1>3. ASSUME NEW y \in S PROVE x <= y
  <2>1. x \in Nat /\ y \in Nat /\ ~(y < x)
    BY <1>1, <1>2 DEF OpToRel
  <2>2. QED
    BY <2>1
<1>4. QED
  BY <1>3 DEF Min

LEMMA Oldest ==
  ASSUME NEW S \in SUBSET Ages, S # {}
  PROVE  Max(S) \in S /\ \A a \in S : a <= Max(S)
<1> DEFINE T == {Gone - x : x \in S}
<1>1. T \subseteq Nat /\ T # {} /\ S \subseteq Nat
  <2>1. \A x \in S : x \in Nat /\ Gone - x \in Nat
    BY AgeFacts DEF Ages
  <2>2. QED
    BY <2>1
<1>2. PICK x \in T : \A y \in T : ~(<<y, x>> \in OpToRel(<, Nat))
  BY <1>1, NatLessThanWellFounded, WFMin, Zenon
<1>3. PICK s \in S : x = Gone - s
  OBVIOUS
<1>4. ASSUME NEW y \in S PROVE s >= y
  <2>1. ~(Gone - y < x)
    <3>1. Gone - y \in T /\ Gone - y \in Nat /\ x \in Nat
      BY <1>1
    <3>2. QED
      BY <1>2, <3>1 DEF OpToRel
  <2>2. QED
    BY <1>1, <1>3, <2>1, AgeFacts
<1>5. \E m \in S : \A y \in S : m >= y
  BY <1>4
<1>6. QED
  BY <1>1, <1>5 DEF Max

-----------------------------------------------------------------------------
(***************************************************************************)
(* What a tick does to the ages of what is held and of what travels.       *)
(***************************************************************************)
LEMMA AgedSaved ==
  ASSUME NEW S \in SUBSET Saved
  PROVE  /\ AgedAll(S) \in SUBSET Saved
         /\ \A h \in AgedAll(S) : \E g \in S : h.age = Older(g.age) /\ h.content = g.content
<1>1. ASSUME NEW g \in S
      PROVE  LET h == [g EXCEPT !.age = Older(g.age)]
             IN h \in Saved /\ h.age = Older(g.age) /\ h.content = g.content
  <2>1. g.age \in Ages /\ Older(g.age) \in Ages
    BY OlderAge DEF Saved
  <2>2. QED
    BY <2>1 DEF Saved
<1>2. QED
  BY <1>1 DEF AgedAll

LEMMA AgedHeld ==
  ASSUME NEW S \in SUBSET Held
  PROVE  /\ AgedAll(S) \in SUBSET Held
         /\ \A h \in AgedAll(S) : \E g \in S : /\ h.age = Older(g.age)
                                              /\ h.content = g.content /\ h.sent = g.sent
         /\ {h.age : h \in AgedAll(S)} = {Older(g.age) : g \in S}
<1>1. ASSUME NEW g \in S
      PROVE  LET h == [g EXCEPT !.age = Older(g.age)]
             IN /\ h \in Held /\ h.age = Older(g.age)
                /\ h.content = g.content /\ h.sent = g.sent
  <2>1. g.age \in Ages /\ Older(g.age) \in Ages
    BY OlderAge DEF Held
  <2>2. QED
    BY <2>1 DEF Held
<1>2. /\ AgedAll(S) \in SUBSET Held
      /\ \A h \in AgedAll(S) : \E g \in S : /\ h.age = Older(g.age)
                                           /\ h.content = g.content /\ h.sent = g.sent
  BY <1>1 DEF AgedAll
<1>3. \A g \in S : \E h \in AgedAll(S) : h.age = Older(g.age)
  BY <1>1 DEF AgedAll
<1>4. {h.age : h \in AgedAll(S)} = {Older(g.age) : g \in S}
  <2>1. \A a \in {h.age : h \in AgedAll(S)} : a \in {Older(g.age) : g \in S}
    BY <1>2
  <2>2. \A a \in {Older(g.age) : g \in S} : a \in {h.age : h \in AgedAll(S)}
    BY <1>3
  <2>3. QED
    BY <2>1, <2>2, Zenon
<1>5. QED
  BY <1>2, <1>4

LEMMA AgedParts ==
  ASSUME NEW S \in SUBSET [part : 0 .. MaxParts - 1, age : Ages]
  PROVE  AgedAll(S) \in SUBSET [part : 0 .. MaxParts - 1, age : Ages]
<1>1. ASSUME NEW g \in S
      PROVE  [g EXCEPT !.age = Older(g.age)] \in [part : 0 .. MaxParts - 1, age : Ages]
  <2>1. g.age \in Ages /\ Older(g.age) \in Ages
    BY OlderAge
  <2>2. QED
    BY <2>1
<1>2. QED
  BY <1>1 DEF AgedAll

LEMMA AgedDownType ==
  ASSUME Typed
  PROVE  /\ AgedDown \subseteq Message
         /\ \A n \in AgedDown : \E m \in down :
              /\ m.age < MaxDelay /\ n.age = m.age + 1 /\ n.delta = Older(m.delta)
              /\ n.base = m.base /\ n.content = m.content
<1>1. ASSUME NEW m \in down, m.age < MaxDelay
      PROVE  LET n == [m EXCEPT !.age = m.age + 1, !.delta = Older(m.delta)]
             IN /\ n \in Message
                /\ n.age = m.age + 1 /\ n.delta = Older(m.delta)
                /\ n.base = m.base /\ n.content = m.content
  <2>1. m \in Message
    BY DEF Typed
  <2>2. m.age \in 0 .. MaxDelay /\ m.delta \in Ages \cup {None}
    BY <2>1 DEF Message
  <2>3. m.age + 1 \in 0 .. MaxDelay
    BY <1>1, <2>2, AgeFacts
  <2>4. Older(m.delta) \in Ages \cup {None}
    BY <2>2, OlderAge
  <2> DEFINE age == m.age + 1
             delta == Older(m.delta)
  <2> HIDE DEF age, delta
  <2>5. LET n == [m EXCEPT !.age = age, !.delta = delta]
        IN /\ n \in Message /\ n.age = age /\ n.delta = delta
           /\ n.base = m.base /\ n.content = m.content
    BY <2>1, <2>3, <2>4 DEF Message, age, delta
  <2>6. QED
    BY <2>5 DEF age, delta
<1>2. ASSUME NEW n \in AgedDown
      PROVE  \E m \in down : /\ m.age < MaxDelay
                             /\ n = [m EXCEPT !.age = m.age + 1, !.delta = Older(m.delta)]
  BY Zenon DEF AgedDown
<1>3. ASSUME NEW n \in AgedDown
      PROVE  /\ n \in Message
             /\ \E m \in down : /\ m.age < MaxDelay /\ n.age = m.age + 1
                               /\ n.delta = Older(m.delta)
                               /\ n.base = m.base /\ n.content = m.content
  <2>1. PICK m \in down : /\ m.age < MaxDelay
                          /\ n = [m EXCEPT !.age = m.age + 1, !.delta = Older(m.delta)]
    BY <1>2
  <2>2. QED
    BY <1>1, <2>1, Zenon
<1>4. QED
  BY <1>3, Zenon

LEMMA AgedUpType ==
  ASSUME Typed
  PROVE  AgedUp \subseteq Input
<1>1. ASSUME NEW i \in up, i.age < MaxDelay
      PROVE  [i EXCEPT !.age = i.age + 1, !.ack = Older(i.ack)] \in Input
  <2>1. i \in Input
    BY DEF Typed
  <2>2. i.age \in 0 .. MaxDelay /\ i.ack \in Ages \cup {None}
    BY <2>1 DEF Input
  <2>3. i.age + 1 \in 0 .. MaxDelay
    BY <1>1, <2>2, AgeFacts
  <2>4. Older(i.ack) \in Ages \cup {None}
    BY <2>2, OlderAge
  <2>5. QED
    BY <2>1, <2>3, <2>4 DEF Input
<1>2. QED
  BY <1>1 DEF AgedUp

LEMMA AgedServerType ==
  ASSUME Typed
  PROVE  /\ AgedServer \in Server
         /\ AgedServer.snaps = AgedAll(server.snaps)
<1>1. server \in Server /\ AgedAll(server.snaps) \in SUBSET Saved
      /\ Older(server.acked) \in Ages \cup {None}
  BY AgedSaved, OlderAge DEF Typed, Server
<1> DEFINE snaps == AgedAll(server.snaps)
           acked == Older(server.acked)
<1>2. AgedServer = [server EXCEPT !.snaps = snaps, !.acked = acked]
  BY DEF AgedServer
<1> HIDE DEF snaps, acked
<1>3. snaps \in SUBSET Saved /\ acked \in Ages \cup {None}
  BY <1>1 DEF snaps, acked
<1>4. AgedServer \in Server /\ AgedServer.snaps = snaps
  BY <1>1, <1>2, <1>3 DEF Server
<1>5. QED
  BY <1>4 DEF snaps

LEMMA AgedClientType ==
  ASSUME Typed
  PROVE  /\ AgedClient \in Client
         /\ AgedClient.held = AgedAll(client.held)
         /\ AgedClient.cur = Older(client.cur) /\ AgedClient.prev = Older(client.prev)
         /\ AgedClient.received = client.received
<1> DEFINE recvTick == Older(client.recvTick)
           ackTick == Older(client.ackTick)
           parts == AgedAll(client.parts)
           held == AgedAll(client.held)
           prev == Older(client.prev)
           cur == Older(client.cur)
<1>1. client \in Client
  BY DEF Typed
<1>2. recvTick \in Ages /\ {ackTick, prev, cur} \subseteq Ages \cup {None}
  BY <1>1, OlderAge DEF Client
<1>3. parts \in SUBSET [part : 0 .. MaxParts - 1, age : Ages] /\ held \in SUBSET Held
  BY <1>1, AgedParts, AgedHeld DEF Client
<1>4. AgedClient = [client EXCEPT !.recvTick = recvTick, !.ackTick = ackTick, !.parts = parts,
                                  !.held = held, !.prev = prev, !.cur = cur]
  BY DEF AgedClient
<1> HIDE DEF recvTick, ackTick, parts, held, prev, cur
<1>5. /\ AgedClient \in Client
      /\ AgedClient.held = held /\ AgedClient.cur = cur /\ AgedClient.prev = prev
      /\ AgedClient.received = client.received
  BY <1>1, <1>2, <1>3, <1>4 DEF Client
<1>6. QED
  BY <1>5 DEF held, cur, prev

-----------------------------------------------------------------------------
(***************************************************************************)
(* A tick of the server: what it saves and what it sends.                  *)
(***************************************************************************)
LEMMA SnappedType ==
  ASSUME NEW s \in Server, NEW content \in Contents
  PROVE  /\ Snapped(s, content) \in Server
         /\ Snapped(s, content).acked = s.acked
         /\ Snapped(s, content).snaps =
              {h \in s.snaps : h.age <= Keep} \cup {[age |-> 0, content |-> content]}
<1> DEFINE snaps == {h \in s.snaps : h.age <= Keep} \cup {[age |-> 0, content |-> content]}
<1>1. snaps \in SUBSET Saved
  BY AgeFacts DEF Saved, Server
<1>2. Snapped(s, content) = [s EXCEPT !.snaps = snaps]
  BY DEF Snapped
<1> HIDE DEF snaps
<1>3. /\ Snapped(s, content) \in Server /\ Snapped(s, content).acked = s.acked
      /\ Snapped(s, content).snaps = snaps
  BY <1>1, <1>2 DEF Server
<1>4. QED
  BY <1>3 DEF snaps

LEMMA PartsType ==
  ASSUME NEW delta \in Ages \cup {None}, NEW base \in Contents \cup {None},
         NEW content \in Contents, NEW P \in Parts(delta, base, content)
  PROVE  /\ P \subseteq Message
         /\ \A m \in P : /\ m.age = 0 /\ m.delta = delta
                         /\ m.base = base /\ m.content = content
<1> DEFINE Part(n, i) == [age |-> 0, delta |-> delta, base |-> base, content |-> content,
                          parts |-> n, part |-> i]
<1>1. PICK n \in 1 .. MaxParts : P = {Part(n, i) : i \in 0 .. n - 1}
  <2>1. PICK n \in IF base = content THEN {1} ELSE 1 .. MaxParts :
          P = {Part(n, i) : i \in 0 .. n - 1}
    BY Zenon DEF Parts
  <2>2. n \in 1 .. MaxParts
    BY <2>1, NumbersAssumption
  <2>3. QED
    BY <2>1, <2>2
<1>2. ASSUME NEW i \in 0 .. n - 1 PROVE Part(n, i) \in Message
  <2>1. i \in 0 .. MaxParts - 1 /\ 0 \in 0 .. MaxDelay
    BY <1>1, NumbersAssumption
  <2>2. QED
    BY <2>1, <1>1 DEF Message
<1>3. QED
  BY <1>1, <1>2

\* A tick makes the snapshot new, if any.
Ticked(new) ==
  /\ \A h \in server'.snaps :
       \/ \E g \in server.snaps : h.age = Older(g.age) /\ h.content = g.content
       \/ h.age = 0 /\ h.content = new
  /\ \A n \in down' :
       \/ \E m \in down : /\ m.age < MaxDelay /\ n.age = m.age + 1
                          /\ n.delta = Older(m.delta)
                          /\ n.base = m.base /\ n.content = m.content
       \/ /\ n.age = 0 /\ n.content = new
          /\ n.delta # None => /\ n.delta <= Keep
                               /\ \E h \in server'.snaps : /\ h.age = n.delta
                                                           /\ h.content = n.base

LEMMA SendSnapshotType ==
  ASSUME Typed, NEW content \in Contents, SendSnapshot(AgedServer, content)
  PROVE  server' \in Server /\ down' \subseteq Message /\ Ticked(content)
<1> DEFINE now == Snapped(AgedServer, content)
<1>1. /\ now \in Server /\ now.acked \in Ages \cup {None}
      /\ now.snaps = {h \in AgedAll(server.snaps) : h.age <= Keep}
                       \cup {[age |-> 0, content |-> content]}
  BY AgedServerType, SnappedType DEF Server
<1>2. ASSUME NEW h \in now.snaps
      PROVE  /\ h \in Saved /\ h.age <= Keep
             /\ \/ \E g \in server.snaps : h.age = Older(g.age) /\ h.content = g.content
                \/ h.age = 0 /\ h.content = content
  <2>1. server.snaps \in SUBSET Saved
    BY DEF Typed, Server
  <2>2. h \in Saved
    BY <1>1 DEF Server
  <2>3. CASE h \in AgedAll(server.snaps) /\ h.age <= Keep
    BY <2>1, <2>2, <2>3, AgedSaved
  <2>4. CASE h = [age |-> 0, content |-> content]
    BY <2>2, <2>4, AgeFacts
  <2>5. QED
    BY <1>1, <2>3, <2>4
<1> HIDE DEF now
<1>3. server' \in Server /\ server'.snaps = now.snaps
  <2>1. now.rate \in {"INIT", "RECOVER", "FULL"}
    BY <1>1 DEF Server
  <2> DEFINE rate == IF now.rate = "FULL" THEN "RECOVER" ELSE now.rate
  <2>2. rate \in {"INIT", "RECOVER", "FULL"}
    BY <2>1
  <2>3. server' = now \/ server' = [now EXCEPT !.rate = rate]
    BY DEF SendSnapshot, now
  <2> HIDE DEF rate
  <2>4. QED
    BY <1>1, <2>2, <2>3 DEF Server
<1>4. PICK delta \in Ages \cup {None}, base \in Contents \cup {None} :
        /\ \E P \in Parts(delta, base, content) : down' = AgedDown \cup P
        /\ delta # None => \E h \in now.snaps : h.age = delta /\ h.content = base
  <2>1. CASE \E P \in Parts(None, None, content) : down' = AgedDown \cup P
    BY <2>1
  <2>2. CASE \E shot \in Shots(now) : \E P \in Parts(now.acked, shot.content, content) :
               down' = AgedDown \cup P
    <3>1. PICK shot \in Shots(now) : \E P \in Parts(now.acked, shot.content, content) :
                                       down' = AgedDown \cup P
      BY <2>2
    <3>2. shot \in now.snaps /\ shot.age = now.acked
      BY <3>1 DEF Shots, Found
    <3>3. shot.content \in Contents
      BY <1>2, <3>2 DEF Saved
    <3>4. QED
      BY <1>1, <3>1, <3>2, <3>3
  <2>3. QED
    BY <2>1, <2>2 DEF SendSnapshot, now
<1>5. PICK P \in Parts(delta, base, content) : down' = AgedDown \cup P
  BY <1>4
<1>6. /\ P \subseteq Message
      /\ \A m \in P : /\ m.age = 0 /\ m.delta = delta
                      /\ m.base = base /\ m.content = content
  BY <1>4, <1>5, PartsType
<1>7. down' \subseteq Message
  BY <1>5, <1>6, AgedDownType
<1>8. Ticked(content)
  <2>1. \A h \in server'.snaps :
          \/ \E g \in server.snaps : h.age = Older(g.age) /\ h.content = g.content
          \/ h.age = 0 /\ h.content = content
    BY <1>2, <1>3
  <2>2. ASSUME NEW n \in P
        PROVE  /\ n.age = 0 /\ n.content = content
               /\ n.delta # None => /\ n.delta <= Keep
                                    /\ \E h \in server'.snaps : /\ h.age = n.delta
                                                                /\ h.content = n.base
    BY <1>2, <1>3, <1>4, <1>6
  <2>3. \A n \in AgedDown : \E m \in down :
          /\ m.age < MaxDelay /\ n.age = m.age + 1 /\ n.delta = Older(m.delta)
          /\ n.base = m.base /\ n.content = m.content
    BY AgedDownType
  <2>4. QED
    BY <1>5, <2>1, <2>2, <2>3 DEF Ticked
<1>9. QED
  BY <1>3, <1>7, <1>8

LEMMA TickType ==
  ASSUME Typed, Tick
  PROVE  Typed' /\ client' = AgedClient /\ \E new : Ticked(new)
<1>1. server' \in Server /\ down' \subseteq Message /\ \E new : Ticked(new)
  <2>1. CASE \E content \in Contents : SendSnapshot(AgedServer, content)
    BY <2>1, SendSnapshotType
  <2>2. CASE server' = AgedServer /\ down' = AgedDown
    <3>1. server.snaps \in SUBSET Saved
      BY DEF Typed, Server
    <3>2. Ticked(None)
      BY <2>2, <3>1, AgedServerType, AgedSaved, AgedDownType DEF Ticked
    <3>3. QED
      BY <2>2, <3>2, AgedServerType, AgedDownType
  <2>3. QED
    BY <2>1, <2>2 DEF Tick
<1>2. client' = AgedClient /\ up' = AgedUp
  BY DEF Tick
<1>3. QED
  BY <1>1, <1>2, AgedClientType, AgedUpType DEF Typed

-----------------------------------------------------------------------------
(***************************************************************************)
(* A snapshot that arrives.                                                *)
(***************************************************************************)
\* The client shows what it showed, and has the holders it had.
SameView ==
  /\ client'.held = client.held /\ client'.received = client.received
  /\ client'.prev = client.prev /\ client'.cur = client.cur

\* The client has taken content for what was sent in m, and still has the
\* snapshots that it shows.
Holder(m, content) == [age |-> m.age, content |-> content, sent |-> m.content]

Takes(m, content) ==
  /\ client'.held \subseteq client.held \cup {Holder(m, content)}
  /\ Holder(m, content) \in client'.held
  /\ \A h \in client.held : h.age \in {client.prev, client.cur} => h \in client'.held
  /\ client'.received = IF client.received = 3 THEN 3 ELSE client.received + 1
  /\ IF client.received = 1
     THEN /\ client'.prev = Max({h.age : h \in client'.held})
          /\ client'.cur = Min({h.age : h \in client'.held})
     ELSE client'.prev = client.prev /\ client'.cur = client.cur

\* The content is what was sent, or what the client holds of its base.
Right(m, content) ==
  \/ content = m.content
  \/ /\ m.delta # None /\ m.base = m.content
     /\ \E h \in client.held : h.age = m.delta /\ h.content = content

LEMMA FreshParts ==
  ASSUME Typed, NEW m \in down
  PROVE  LET c == [client EXCEPT !.recvTick = m.age, !.parts = {}]
         IN /\ c \in Client /\ c.held = client.held /\ c.received = client.received
            /\ c.prev = client.prev /\ c.cur = client.cur
<1>1. m.age \in Ages /\ client \in Client
  BY AgeFacts DEF Typed, Message
<1>2. QED
  BY <1>1 DEF Client

LEMMA PartsTyped ==
  ASSUME Typed, NEW m \in down
  PROVE  PartsWith(m) \in SUBSET [part : 0 .. MaxParts - 1, age : Ages]
<1>1. m \in Message /\ client.parts \in SUBSET [part : 0 .. MaxParts - 1, age : Ages]
  BY DEF Typed, Client
<1>2. m.age \in Ages /\ m.part \in 0 .. MaxParts - 1
  BY <1>1, AgeFacts DEF Message
<1>3. QED
  BY <1>1, <1>2 DEF PartsWith

LEMMA InputType ==
  ASSUME Typed, NEW ack \in Ages \cup {None}
  PROVE  InputOf(ack) \subseteq Input
<1>1. 0 \in 0 .. MaxDelay
  BY AgeFacts
<1>2. [ack |-> ack, age |-> 0] \in Input
  BY <1>1 DEF Input
<1>3. QED
  BY <1>2 DEF Typed, InputOf

LEMMA RejectType ==
  ASSUME Typed, NEW c \in Client, Reject(c)
  PROVE  /\ client' \in Client /\ up' \subseteq Input
         /\ client'.held = c.held /\ client'.received = c.received
         /\ client'.prev = c.prev /\ client'.cur = c.cur
<1>1. CASE client' = c /\ UNCHANGED up
  BY <1>1 DEF Typed
<1>2. CASE c.errors < MaxErrors /\ client' = [c EXCEPT !.errors = @ + 1] /\ UNCHANGED up
  <2>1. c.errors + 1 \in 0 .. MaxErrors
    BY <1>2, NumbersAssumption DEF Client
  <2> DEFINE errors == c.errors + 1
  <2>2. client' = [c EXCEPT !.errors = errors] /\ errors \in 0 .. MaxErrors
    BY <1>2, <2>1
  <2> HIDE DEF errors
  <2>3. QED
    BY <1>2, <2>2 DEF Client, Typed
<1>3. CASE client' = [c EXCEPT !.errors = 0, !.ackTick = None] /\ up' = InputOf(None)
  <2>1. up' \subseteq Input
    BY <1>3, InputType
  <2>2. 0 \in 0 .. MaxErrors
    BY NumbersAssumption
  <2>3. QED
    BY <1>3, <2>1, <2>2 DEF Client
<1>4. QED
  BY <1>1, <1>2, <1>3 DEF Reject

LEMMA PurgeKeepsView ==
  ASSUME Typed, NEW m \in down, NEW a \in {client.prev, client.cur}, a # None
  PROVE  a <= PurgeAge(m)
<1> DEFINE S == {m.delta, client.prev, client.cur} \ {None}
<1>1. m \in Message /\ client \in Client
  BY DEF Typed
<1>2. S \in SUBSET Ages /\ a \in S
  BY <1>1 DEF Message, Client
<1>3. S # {}
  BY <1>2
<1>4. \A b \in S : b <= Max(S)
  BY <1>2, <1>3, Oldest
<1>5. QED
  BY <1>2, <1>4 DEF PurgeAge

LEMMA TakeType ==
  ASSUME Typed, NEW m \in down, NEW content \in Contents, NEW c \in Client,
         c.held = client.held, c.received = client.received,
         c.prev = client.prev, c.cur = client.cur, Take(m, c, content)
  PROVE  client' \in Client /\ Takes(m, content)
<1> DEFINE kept == IF m.delta = None THEN c.held ELSE {h \in c.held : h.age <= PurgeAge(m)}
           held == kept \cup {Holder(m, content)}
           ages == {h.age : h \in held}
           second == c.received = 1
           errors == IF c.errors = 0 THEN 0 ELSE c.errors - 1
           received == IF c.received = 3 THEN 3 ELSE c.received + 1
           prev == IF second THEN Max(ages) ELSE c.prev
           cur == IF second THEN Min(ages) ELSE c.cur
<1>1. m \in Message /\ client \in Client
  BY DEF Typed
<1>2. m.age \in Ages /\ m.content \in Contents
  BY <1>1, AgeFacts DEF Message
<1>3. Holder(m, content) \in Held /\ c.held \in SUBSET Held
  BY <1>1, <1>2 DEF Holder, Held, Client
<1>4. held \in SUBSET Held
  BY <1>3
<1>5. ages \in SUBSET Ages /\ ages # {}
  <2>1. \A h \in held : h.age \in Ages
    BY <1>4 DEF Held
  <2>2. QED
    BY <2>1
<1>6. Max(ages) \in Ages /\ Min(ages) \in Ages
  BY <1>5, Oldest, Youngest
<1>7. /\ errors \in 0 .. MaxErrors /\ received \in 0 .. 3
      /\ prev \in Ages \cup {None} /\ cur \in Ages \cup {None}
  BY <1>6, NumbersAssumption DEF Client
<1>8. client' = [c EXCEPT !.held = held, !.ackTick = m.age, !.errors = errors,
                          !.received = received, !.prev = prev, !.cur = cur]
  BY DEF Take, CurrentOf, Holder
<1>9. \A h \in client.held : h.age \in {client.prev, client.cur} => h \in held
  <2>1. ASSUME NEW h \in client.held, h.age \in {client.prev, client.cur} PROVE h \in kept
    <3>1. h.age # None
      BY <1>1, AgeFacts DEF Client, Held
    <3>2. h.age <= PurgeAge(m)
      BY <2>1, <3>1, PurgeKeepsView
    <3>3. QED
      BY <3>2
  <2>2. QED
    BY <2>1
<1>10. held \subseteq client.held \cup {Holder(m, content)} /\ Holder(m, content) \in held
  OBVIOUS
<1>11. ages = {h.age : h \in held}
  OBVIOUS
<1> DEFINE first == [ackTick |-> m.age]
<1> HIDE DEF kept, held, ages, errors, received, prev, cur
<1>12. /\ client' \in Client /\ client'.held = held /\ client'.received = received
       /\ client'.prev = prev /\ client'.cur = cur
  BY <1>2, <1>4, <1>7, <1>8 DEF Client
<1>13. IF client.received = 1
       THEN /\ client'.prev = Max({h.age : h \in client'.held})
            /\ client'.cur = Min({h.age : h \in client'.held})
       ELSE client'.prev = client.prev /\ client'.cur = client.cur
  BY <1>11, <1>12 DEF prev, cur
<1>14. QED
  BY <1>9, <1>10, <1>12, <1>13 DEF Takes, received

LEMMA AppliedRight ==
  ASSUME Typed, NEW m \in down, NEW base,
         m.delta # None => base \in Found(client.held, m.delta),
         Applied(PartsWith(m), m, base) # "garbage"
  PROVE  /\ Applied(PartsWith(m), m, base) \in Contents
         /\ Right(m, Applied(PartsWith(m), m, base))
<1> DEFINE content == Applied(PartsWith(m), m, base)
<1>1. m.content \in Contents
  BY DEF Typed, Message
<1>2. content = m.content \/ (m.delta # None /\ m.base = m.content /\ content = base.content)
  BY DEF Applied
<1>3. m.delta # None => /\ base \in client.held /\ base.age = m.delta
                        /\ base.content \in Contents
  BY DEF Found, Typed, Client, Held
<1>4. QED
  BY <1>1, <1>2, <1>3 DEF Right

LEMMA TakeSnapshotType ==
  ASSUME Typed, NEW m \in down, TakeSnapshot(m)
  PROVE  /\ Typed'
         /\ SameView \/ \E content \in Contents : Right(m, content) /\ Takes(m, content)
<1> DEFINE parts == PartsWith(m)
           c == [client EXCEPT !.recvTick = m.age, !.parts = {}]
           bases == Found(c.held, m.delta)
<1>1. /\ c \in Client /\ c.held = client.held /\ c.received = client.received
      /\ c.prev = client.prev /\ c.cur = client.cur
  BY FreshParts
<1>2. UNCHANGED <<server, down>>
  BY DEF TakeSnapshot
<1>3. SUFFICES /\ client' \in Client /\ up' \subseteq Input
               /\ SameView \/ \E content \in Contents : Right(m, content) /\ Takes(m, content)
  BY <1>2 DEF Typed
<1>4. parts \in SUBSET [part : 0 .. MaxParts - 1, age : Ages]
  BY PartsTyped
<1>5. CASE client' = [c EXCEPT !.parts = parts] /\ UNCHANGED up
  <2> HIDE DEF parts, c
  <2>1. QED
    BY <1>1, <1>4, <1>5 DEF Client, SameView, Typed
<1>6. CASE client' = [c EXCEPT !.ackTick = None] /\ up' = InputOf(None)
  <2> HIDE DEF parts, c
  <2>1. QED
    BY <1>1, <1>6, InputType DEF Client, SameView
<1>7. CASE /\ m.delta = None \/ bases # {}
           /\ \E base \in IF m.delta = None THEN {None} ELSE bases :
                LET content == Applied(parts, m, base)
                IN IF content = "garbage" THEN Reject(c)
                   ELSE Take(m, c, content) /\ UNCHANGED up
  <2> HIDE DEF c
  <2>1. PICK base \in IF m.delta = None THEN {None} ELSE Found(client.held, m.delta) :
          IF Applied(PartsWith(m), m, base) = "garbage" THEN Reject(c)
          ELSE Take(m, c, Applied(PartsWith(m), m, base)) /\ UNCHANGED up
    BY <1>1, <1>7
  <2>2. CASE Reject(c)
    BY <1>1, <2>2, RejectType DEF SameView
  <2>3. CASE /\ Applied(PartsWith(m), m, base) # "garbage"
             /\ Take(m, c, Applied(PartsWith(m), m, base)) /\ UNCHANGED up
    <3>1. /\ Applied(PartsWith(m), m, base) \in Contents
          /\ Right(m, Applied(PartsWith(m), m, base))
      BY <2>1, <2>3, AppliedRight
    <3>2. client' \in Client /\ Takes(m, Applied(PartsWith(m), m, base))
      BY <1>1, <2>3, <3>1, TakeType
    <3>3. QED
      BY <2>3, <3>1, <3>2 DEF Typed
  <2>4. QED
    BY <2>1, <2>2, <2>3
<1>8. QED
  BY <1>5, <1>6, <1>7 DEF TakeSnapshot, AckMissing

-----------------------------------------------------------------------------
(***************************************************************************)
(* The inductive invariant.  Whatever names a tick, the storage of the     *)
(* server, a snapshot on its way or the list of the client, agrees about   *)
(* what was sent with it, and no difference on its way is taken to a tick  *)
(* that is gone.                                                           *)
(***************************************************************************)
Told(a, x) ==
  \/ \E h \in server.snaps : h.age = a /\ h.content = x
  \/ \E m \in down : \/ m.age = a /\ m.content = x
                     \/ m.delta = a /\ m.base = x
  \/ \E h \in client.held : h.age = a /\ h.sent = x

OneContent == \A a \in Ages \ {Gone} : \A x, y : Told(a, x) /\ Told(a, y) => x = y

DeltaThere == \A m \in down : m.delta # None => m.delta <= Keep + m.age

Agreed == Typed /\ OneContent /\ DeltaThere /\ ContentRight

LEMMA DeltaAge ==
  ASSUME Typed, DeltaThere, NEW m \in down, m.delta # None
  PROVE  m.delta \in Ages \ {Gone}
<1>1. m \in Message
  BY DEF Typed
<1>2. m.delta \in Nat /\ m.age \in 0 .. MaxDelay /\ m.delta <= Keep + m.age
  BY <1>1, AgeFacts DEF Message, DeltaThere
<1>3. m.delta <= Keep + MaxDelay
  BY <1>2, AgeFacts
<1>4. QED
  BY <1>2, <1>3, AgeFacts

(* With a tick everything that is told moves on by one, and one is told new.*)
LEMMA ToldByTick ==
  ASSUME Agreed, NEW new, Ticked(new), client' = AgedClient,
         NEW a \in Ages \ {Gone}, NEW x, Told(a, x)'
  PROVE  (a # 0 /\ a - 1 \in Ages \ {Gone} /\ Told(a - 1, x)) \/ (a = 0 /\ x = new)
<1> USE DEF Agreed
<1>1. ASSUME NEW b \in Ages \cup {None}, Older(b) = a
      PROVE  b = a - 1 /\ a # 0 /\ a - 1 \in Ages \ {Gone}
  <2>1. b \in Ages \ {Gone} /\ a = b + 1
    BY <1>1, OlderAge, AgeFacts DEF Older
  <2>2. b \in Nat /\ a \in Nat
    BY <2>1, AgeFacts
  <2>3. b = a - 1 /\ a # 0
    BY <2>1, <2>2
  <2>4. QED
    BY <2>1, <2>3
<1>2. ASSUME NEW h \in server'.snaps, h.age = a, h.content = x
      PROVE  (a # 0 /\ a - 1 \in Ages \ {Gone} /\ Told(a - 1, x)) \/ (a = 0 /\ x = new)
  <2>1. CASE \E g \in server.snaps : h.age = Older(g.age) /\ h.content = g.content
    <3>1. PICK g \in server.snaps : h.age = Older(g.age) /\ h.content = g.content
      BY <2>1
    <3>2. g.age \in Ages
      BY DEF Typed, Server, Saved
    <3>3. g.age = a - 1 /\ a # 0 /\ a - 1 \in Ages \ {Gone}
      BY <1>1, <1>2, <3>1, <3>2
    <3>4. Told(a - 1, x)
      BY <1>2, <3>1, <3>3 DEF Told
    <3>5. QED
      BY <3>3, <3>4
  <2>2. CASE h.age = 0 /\ h.content = new
    BY <1>2, <2>2
  <2>3. QED
    BY <2>1, <2>2 DEF Ticked
<1>3. ASSUME NEW n \in down', n.age = a, n.content = x
      PROVE  (a # 0 /\ a - 1 \in Ages \ {Gone} /\ Told(a - 1, x)) \/ (a = 0 /\ x = new)
  <2>1. CASE \E m \in down : n.age = m.age + 1 /\ n.content = m.content
    <3>1. PICK m \in down : n.age = m.age + 1 /\ n.content = m.content
      BY <2>1
    <3>2. m.age \in Nat /\ m.age <= Keep + MaxDelay
      BY AgeFacts DEF Typed, Message
    <3>3. a = m.age + 1
      BY <1>3, <3>1
    <3>4. a - 1 = m.age /\ a # 0 /\ m.age \in Ages \ {Gone}
      BY <3>2, <3>3, AgeFacts
    <3>5. Told(m.age, x)
      BY <1>3, <3>1 DEF Told
    <3>6. QED
      BY <3>4, <3>5
  <2>2. CASE n.age = 0 /\ n.content = new
    BY <1>3, <2>2
  <2>3. QED
    BY <2>1, <2>2 DEF Ticked
<1>4. ASSUME NEW n \in down', n.delta = a, n.base = x
      PROVE  (a # 0 /\ a - 1 \in Ages \ {Gone} /\ Told(a - 1, x)) \/ (a = 0 /\ x = new)
  <2>1. CASE \E m \in down : n.delta = Older(m.delta) /\ n.base = m.base
    <3>1. PICK m \in down : n.delta = Older(m.delta) /\ n.base = m.base
      BY <2>1
    <3>2. m.delta \in Ages \cup {None}
      BY DEF Typed, Message
    <3>3. m.delta = a - 1 /\ a # 0 /\ a - 1 \in Ages \ {Gone}
      BY <1>1, <1>4, <3>1, <3>2
    <3>4. Told(a - 1, x)
      BY <1>4, <3>1, <3>3 DEF Told
    <3>5. QED
      BY <3>3, <3>4
  <2>2. CASE \E h \in server'.snaps : h.age = n.delta /\ h.content = n.base
    BY <1>2, <1>4, <2>2
  <2>3. n.delta # None
    BY <1>4, AgeFacts
  <2>4. QED
    BY <2>1, <2>2, <2>3 DEF Ticked
<1>5. ASSUME NEW h \in client'.held, h.age = a, h.sent = x
      PROVE  a # 0 /\ a - 1 \in Ages \ {Gone} /\ Told(a - 1, x)
  <2>1. client.held \in SUBSET Held /\ h \in AgedAll(client.held)
    BY <1>5, AgedClientType DEF Typed, Client
  <2>2. PICK g \in client.held : h.age = Older(g.age) /\ h.sent = g.sent
    BY <2>1, AgedHeld
  <2>3. g.age \in Ages
    BY <2>1 DEF Held
  <2>4. g.age = a - 1 /\ a # 0 /\ a - 1 \in Ages \ {Gone}
    BY <1>1, <1>5, <2>2, <2>3
  <2>5. Told(a - 1, x)
    BY <1>5, <2>2, <2>4 DEF Told
  <2>6. QED
    BY <2>4, <2>5
<1>6. \/ \E h \in server'.snaps : h.age = a /\ h.content = x
      \/ \E m \in down' : \/ m.age = a /\ m.content = x
                          \/ m.delta = a /\ m.base = x
      \/ \E h \in client'.held : h.age = a /\ h.sent = x
  BY DEF Told
<1>7. QED
  BY <1>2, <1>3, <1>4, <1>5, <1>6

LEMMA TickAgreed == ASSUME Agreed, Tick PROVE Agreed'
<1> USE DEF Agreed
<1>1. Typed' /\ client' = AgedClient
  BY TickType
<1>2. PICK new : Ticked(new)
  BY TickType
<1>3. OneContent'
  <2>1. ASSUME NEW a \in Ages \ {Gone}, NEW x, NEW y, Told(a, x)', Told(a, y)'
        PROVE  x = y
    <3>1. (a # 0 /\ a - 1 \in Ages \ {Gone} /\ Told(a - 1, x)) \/ (a = 0 /\ x = new)
      BY <1>1, <1>2, <2>1, ToldByTick
    <3>2. (a # 0 /\ a - 1 \in Ages \ {Gone} /\ Told(a - 1, y)) \/ (a = 0 /\ y = new)
      BY <1>1, <1>2, <2>1, ToldByTick
    <3>3. QED
      BY <3>1, <3>2 DEF OneContent
  <2>2. QED
    BY <2>1 DEF OneContent
<1>4. DeltaThere'
  <2>1. ASSUME NEW n \in down', n.delta # None PROVE n.delta <= Keep + n.age
    <3>1. CASE \E m \in down : n.age = m.age + 1 /\ n.delta = Older(m.delta)
      <4>1. PICK m \in down : n.age = m.age + 1 /\ n.delta = Older(m.delta)
        BY <3>1
      <4>2. m.delta # None
        <5>1. m.delta \in Ages \cup {None}
          BY DEF Typed, Message
        <5>2. QED
          BY <2>1, <4>1, <5>1, OlderAge
      <4>3. m.delta \in Ages \ {Gone} /\ m.delta <= Keep + m.age /\ m.age \in Nat
        BY <4>2, DeltaAge, AgeFacts DEF DeltaThere, Typed, Message
      <4>4. n.delta = m.delta + 1
        BY <4>1, <4>2, <4>3 DEF Older
      <4>5. m.delta \in Nat /\ m.age \in Nat /\ Keep \in Nat /\ m.delta <= Keep + m.age
        BY <4>3, AgeFacts
      <4>6. m.delta + 1 <= Keep + (m.age + 1)
        BY <4>5
      <4>7. QED
        BY <4>1, <4>4, <4>6
    <3>2. CASE n.age = 0 /\ n.delta <= Keep
      BY <3>2, AgeFacts
    <3>3. QED
      BY <1>2, <2>1, <3>1, <3>2 DEF Ticked
  <2>2. QED
    BY <2>1 DEF DeltaThere
<1>5. ContentRight'
  <2>1. client.held \in SUBSET Held /\ client'.held = AgedAll(client.held)
    BY <1>1, AgedClientType DEF Typed, Client
  <2>2. QED
    BY <2>1, AgedHeld DEF ContentRight
<1>6. QED
  BY <1>1, <1>3, <1>4, <1>5

(* A step that tells nothing new, and no message more, keeps the agreement.*)
LEMMA NothingNew ==
  ASSUME Agreed, Typed', ContentRight', UNCHANGED down,
         \A a \in Ages \ {Gone} : \A x : Told(a, x)' => Told(a, x)
  PROVE  Agreed'
<1>1. OneContent'
  BY DEF Agreed, OneContent
<1>2. DeltaThere'
  BY DEF Agreed, DeltaThere
<1>3. QED
  BY <1>1, <1>2 DEF Agreed

LEMMA RightContent ==
  ASSUME Agreed, NEW m \in down, NEW content, Right(m, content)
  PROVE  content = m.content
<1>1. CASE m.delta # None /\ m.base = m.content /\
           \E h \in client.held : h.age = m.delta /\ h.content = content
  <2>1. m.delta \in Ages \ {Gone}
    BY <1>1, DeltaAge DEF Agreed
  <2>2. PICK h \in client.held : h.age = m.delta /\ h.content = content
    BY <1>1
  <2>3. h.sent = content
    BY <2>2 DEF Agreed, ContentRight
  <2>4. Told(m.delta, content) /\ Told(m.delta, m.base)
    BY <2>2, <2>3 DEF Told
  <2>5. QED
    BY <1>1, <2>1, <2>4 DEF Agreed, OneContent
<1>2. QED
  BY <1>1 DEF Right

LEMMA TakeSnapshotAgreed == ASSUME Agreed, NEW m \in down, TakeSnapshot(m) PROVE Agreed'
<1>1. Typed /\ ContentRight
  BY DEF Agreed
<1>2. Typed' /\ (SameView \/ \E content \in Contents : Right(m, content) /\ Takes(m, content))
  BY <1>1, TakeSnapshotType
<1>3. UNCHANGED <<server, down>>
  BY DEF TakeSnapshot
<1>4. CASE SameView
  <2>1. ContentRight'
    BY <1>1, <1>4 DEF ContentRight, SameView
  <2>2. \A a \in Ages \ {Gone} : \A x : Told(a, x)' => Told(a, x)
    BY <1>3, <1>4 DEF Told, SameView
  <2>3. QED
    BY <1>2, <1>3, <2>1, <2>2, NothingNew
<1>5. CASE \E content \in Contents : Right(m, content) /\ Takes(m, content)
  <2>1. PICK content \in Contents : Right(m, content) /\ Takes(m, content)
    BY <1>5
  <2>2. content = m.content
    BY <2>1, RightContent
  <2>3. client'.held \subseteq client.held \cup {Holder(m, content)}
    BY <2>1 DEF Takes
  <2>4. ContentRight'
    BY <1>1, <2>2, <2>3 DEF ContentRight, Holder
  <2>5. \A a \in Ages \ {Gone} : \A x : Told(a, x)' => Told(a, x)
    BY <1>3, <2>2, <2>3 DEF Told, Holder
  <2>6. QED
    BY <1>2, <1>3, <2>4, <2>5, NothingNew
<1>6. QED
  BY <1>2, <1>4, <1>5

-----------------------------------------------------------------------------
(***************************************************************************)
(* The other steps.                                                        *)
(***************************************************************************)
LEMMA TakeInputType ==
  ASSUME Typed, NEW i \in up, TakeInput(i)
  PROVE  Typed' /\ server'.snaps = server.snaps
<1> DEFINE rate == IF i.ack # None THEN "FULL" ELSE server.rate
           ack == i.ack
<1>1. server \in Server /\ ack \in Ages \cup {None}
  BY DEF Typed, Input
<1>2. rate \in {"INIT", "RECOVER", "FULL"}
  BY <1>1 DEF Server
<1>3. server' = [server EXCEPT !.acked = ack, !.rate = rate]
  BY DEF TakeInput
<1> HIDE DEF rate, ack
<1>4. server' \in Server /\ server'.snaps = server.snaps
  BY <1>1, <1>2, <1>3 DEF Server
<1>5. QED
  BY <1>4 DEF TakeInput, Typed

LEMMA FreshType == FreshServer \in Server /\ FreshClient \in Client
<1>1. 0 \in 0 .. MaxErrors /\ Gone \in Ages
  BY AgeFacts, NumbersAssumption
<1>2. QED
  BY <1>1 DEF FreshServer, FreshClient, Server, Client

LEMMA ClientTurnType ==
  ASSUME Typed, LoadMap \/ Rejoin \/ EnterGame \/ SendInput \/ Advance
  PROVE  /\ Typed'
         /\ client'.held = client.held \/ client'.held = {}
         /\ server'.snaps = server.snaps \/ server'.snaps = {}
         /\ UNCHANGED down
<1>1. client \in Client /\ server \in Server
  BY DEF Typed
<1>2. CASE LoadMap
  BY <1>1, <1>2 DEF LoadMap, Client, Typed
<1>3. CASE Rejoin
  <2>1. FreshServer \in Server /\ FreshServer.snaps = {}
    BY FreshType DEF FreshServer
  <2>2. client' \in Client /\ client'.held = client.held
    <3> DEFINE received == 0
               shown == None
    <3>1. client' = [client EXCEPT !.received = received, !.prev = shown, !.cur = shown]
      BY <1>3 DEF Rejoin
    <3>2. received \in 0 .. 3 /\ shown \in Ages \cup {None}
      OBVIOUS
    <3> HIDE DEF received, shown
    <3>3. QED
      BY <1>1, <3>1, <3>2 DEF Client
  <2>3. QED
    BY <1>3, <2>1, <2>2 DEF Rejoin, Typed
<1>4. CASE EnterGame
  <2>1. client' = [FreshClient EXCEPT !.errors = client.errors]
        /\ client.errors \in 0 .. MaxErrors
    BY <1>1, <1>4 DEF EnterGame, Client
  <2>2. client' \in Client /\ client'.held = {}
    <3>1. FreshClient \in Client /\ FreshClient.held = {}
      BY FreshType DEF FreshClient
    <3>2. QED
      BY <2>1, <3>1 DEF Client
  <2>3. QED
    BY <1>4, <2>2 DEF EnterGame, Typed
<1>5. CASE SendInput
  BY <1>1, <1>5, InputType DEF SendInput, Client, Typed
<1>6. CASE Advance
  <2> DEFINE younger == {h.age : h \in {g \in client.held : g.age < client.cur}}
             cur == Max(younger)
             prev == client.cur
  <2>1. younger \in SUBSET Ages /\ younger # {}
    <3>1. \A h \in client.held : h.age \in Ages
      BY <1>1 DEF Client, Held
    <3>2. QED
      BY <1>6, <3>1 DEF Advance
  <2>2. cur \in Ages /\ prev \in Ages \cup {None}
    BY <1>1, <2>1, Oldest DEF Client
  <2>3. client' = [client EXCEPT !.prev = prev, !.cur = cur]
    BY <1>6 DEF Advance
  <2> HIDE DEF cur, prev
  <2>4. client' \in Client /\ client'.held = client.held
    BY <1>1, <2>2, <2>3 DEF Client
  <2>5. QED
    BY <1>6, <2>4 DEF Advance, Typed
<1>7. QED
  BY <1>2, <1>3, <1>4, <1>5, <1>6

LEMMA TakenOverType == ASSUME Typed, TakenOver PROVE Typed'
<1>1. PICK ages \in SUBSET (0 .. Keep) : \E f \in [ages -> Contents] :
        \E last \in {<<None, "INIT">>, <<Gone, "RECOVER">>} \cup (ages \cup {Gone}) \X {"FULL"} :
          server' = [snaps |-> {[age |-> a, content |-> f[a]] : a \in ages},
                     acked |-> last[1], rate |-> last[2]]
  BY DEF TakenOver
<1>2. PICK f \in [ages -> Contents],
           last \in {<<None, "INIT">>, <<Gone, "RECOVER">>} \cup (ages \cup {Gone}) \X {"FULL"} :
        server' = [snaps |-> {[age |-> a, content |-> f[a]] : a \in ages},
                   acked |-> last[1], rate |-> last[2]]
  BY <1>1
<1> DEFINE snaps == {[age |-> a, content |-> f[a]] : a \in ages}
<1>3. ASSUME NEW a \in ages PROVE a \in Ages /\ [age |-> a, content |-> f[a]] \in Saved
  <2>1. a \in Nat /\ a <= Keep + MaxDelay
    BY <1>1, <1>3, AgeFacts
  <2>2. a \in Ages /\ f[a] \in Contents
    BY <1>2, <1>3, <2>1, AgeFacts
  <2>3. QED
    BY <2>2 DEF Saved
<1>4. snaps \in SUBSET Saved
  BY <1>3
<1>5. last[1] \in Ages \cup {None} /\ last[2] \in {"INIT", "RECOVER", "FULL"}
  <2>1. CASE last \in (ages \cup {Gone}) \X {"FULL"}
    BY <1>3, <2>1, AgeFacts
  <2>2. CASE last \in {<<None, "INIT">>, <<Gone, "RECOVER">>}
    BY <2>2, AgeFacts
  <2>3. QED
    BY <1>2, <2>1, <2>2
<1>6. server' = [snaps |-> snaps, acked |-> last[1], rate |-> last[2]]
  BY <1>2
<1> HIDE DEF snaps
<1>7. server' \in Server
  BY <1>4, <1>5, <1>6 DEF Server
<1>8. QED
  BY <1>7 DEF TakenOver, Typed

LEMMA NextTyped == Typed /\ [Next]_vars => Typed'
<1> SUFFICES ASSUME Typed, [Next]_vars PROVE Typed'
  OBVIOUS
<1>1. CASE UNCHANGED vars
  BY <1>1 DEF vars, Typed
<1>2. CASE Next
  BY <1>2, TickType, TakeSnapshotType, TakeInputType, ClientTurnType, TakenOverType
    DEF Next, Reset
<1>3. QED
  BY <1>1, <1>2

LEMMA NextAgreed == ~Takeovers /\ Agreed /\ [Next]_vars => Agreed'
<1> SUFFICES ASSUME ~Takeovers, Agreed, [Next]_vars PROVE Agreed'
  OBVIOUS
<1>1. Typed /\ ContentRight
  BY DEF Agreed
<1>2. ASSUME Typed', UNCHANGED down,
             client'.held = client.held \/ client'.held = {},
             server'.snaps = server.snaps \/ server'.snaps = {}
      PROVE  Agreed'
  <2>1. ContentRight'
    BY <1>1, <1>2 DEF ContentRight
  <2>2. \A a \in Ages \ {Gone} : \A x : Told(a, x)' => Told(a, x)
    BY <1>2 DEF Told
  <2>3. QED
    BY <1>2, <2>1, <2>2, NothingNew
<1>3. CASE UNCHANGED vars
  <2>1. Typed'
    BY <1>1, <1>3, NextTyped
  <2>2. QED
    BY <1>2, <1>3, <2>1 DEF vars
<1>4. CASE Tick
  BY <1>4, TickAgreed
<1>5. CASE \E m \in down : TakeSnapshot(m)
  BY <1>5, TakeSnapshotAgreed
<1>6. CASE \E i \in up : TakeInput(i)
  BY <1>1, <1>2, <1>6, TakeInputType DEF TakeInput
<1>7. CASE LoadMap \/ Rejoin \/ EnterGame \/ SendInput \/ Advance
  BY <1>1, <1>2, <1>7, ClientTurnType
<1>8. ~TakenOver
  BY DEF TakenOver
<1>9. QED
  BY <1>3, <1>4, <1>5, <1>6, <1>7, <1>8 DEF Next, Reset

LEMMA InitAgreed == Init => Agreed
<1> SUFFICES ASSUME Init PROVE Agreed
  OBVIOUS
<1>1. Typed
  BY FreshType DEF Init, Typed
<1>2. OneContent /\ DeltaThere /\ ContentRight
  BY DEF Init, FreshServer, FreshClient, OneContent, DeltaThere, ContentRight, Told
<1>3. QED
  BY <1>1, <1>2 DEF Agreed

THEOREM WellTyped == Spec => []Typed
<1>1. Init => Typed
  BY InitAgreed DEF Agreed
<1>2. QED
  BY <1>1, NextTyped, PTL DEF Spec

(***************************************************************************)
(* For any content, number of parts, delays and losses: what the client    *)
(* holds for a tick is what was sent for it, as long as nobody else's      *)
(* snapshots are found in its slot.                                        *)
(***************************************************************************)
THEOREM ContentAlwaysRight == ASSUME ~Takeovers PROVE Spec => []ContentRight
<1>1. Agreed => ContentRight
  BY DEF Agreed
<1>2. Agreed /\ [Next]_vars => Agreed'
  BY NextAgreed
<1>3. QED
  BY <1>1, <1>2, InitAgreed, PTL DEF Spec

-----------------------------------------------------------------------------
(***************************************************************************)
(* What is shown.  The invariant is that the snapshots shown are held: from*)
(* there every step shows the snapshot it showed or a younger one.         *)
(***************************************************************************)
Ticks == InitEvery * RecoverEvery

TickTyped == tick \in 0 .. Ticks - 1

Bound == IF tick' = tick THEN ShownAge(client) ELSE Older(ShownAge(client))

ViewStep == client'.cur # None => ShownAge(client') <= Bound

LEMMA ShownAgeType ==
  ASSUME Typed
  PROVE  ShownAge(client) \in Ages /\ (client.cur # None => client.cur \in Ages)
BY AgeFacts DEF Typed, Client, ShownAge

LEMMA TickMoves ==
  ASSUME TickTyped, Ticks > 1, tick' = (tick + 1) % Ticks
  PROVE  TickTyped' /\ tick' # tick
<1> DEFINE n == Ticks
<1>1. n \in Nat
  BY NumbersAssumption DEF Ticks
<1> HIDE DEF n
<1>2. tick \in 0 .. n - 1 /\ n > 1 /\ tick' = (tick + 1) % n
  BY DEF n, TickTyped
<1>3. CASE tick + 1 < n
  <2>1. (tick + 1) % n = tick + 1
    BY <1>1, <1>2, <1>3
  <2>2. tick' \in 0 .. n - 1 /\ tick' # tick
    BY <1>1, <1>2, <1>3, <2>1
  <2>3. QED
    BY <2>2 DEF TickTyped, n
<1>4. CASE tick + 1 = n
  <2>1. n % n = 0
    BY <1>1, <1>2
  <2>2. tick' \in 0 .. n - 1 /\ tick' # tick
    BY <1>1, <1>2, <1>4, <2>1
  <2>3. QED
    BY <2>2 DEF TickTyped, n
<1>5. QED
  BY <1>1, <1>2, <1>3, <1>4

LEMMA TickView ==
  ASSUME Typed, ShownIsHeld, Tick
  PROVE  ShownIsHeld' /\ (TickTyped /\ Ticks > 1 => TickTyped' /\ ViewStep)
<1>1. TickTyped /\ Ticks > 1 => tick' # tick /\ TickTyped'
  BY TickMoves DEF Tick, Ticks
<1>2. client \in Client
  BY DEF Typed
<1>3. /\ client'.held = AgedAll(client.held) /\ client'.received = client.received
      /\ client'.cur = Older(client.cur) /\ client'.prev = Older(client.prev)
  BY AgedClientType DEF Tick
<1>4. ShownIsHeld'
  <2>1. {h.age : h \in client'.held} = {Older(g.age) : g \in client.held}
    BY <1>2, <1>3, AgedHeld DEF Client
  <2>2. ASSUME NEW a \in {client.prev, client.cur}, Older(a) # None
        PROVE  Older(a) \in {Older(g.age) : g \in client.held}
    <3>1. a \in Ages \cup {None}
      BY <1>2 DEF Client
    <3>2. a # None
      BY <2>2, <3>1, OlderAge
    <3>3. QED
      BY <3>2 DEF ShownIsHeld
  <2>3. client.received >= 2 => client'.prev # None /\ client'.cur # None
    BY <1>2, <1>3, OlderAge DEF ShownIsHeld, Client
  <2>4. QED
    BY <1>3, <2>1, <2>2, <2>3 DEF ShownIsHeld
<1>5. TickTyped /\ Ticks > 1 => ViewStep
  <2>1. SUFFICES ASSUME TickTyped, Ticks > 1, client'.cur # None
                 PROVE  ShownAge(client') <= Bound
    BY DEF ViewStep
  <2>2. client.cur # None /\ client.cur \in Ages
    BY <1>2, <1>3, <2>1, OlderAge DEF Client
  <2>3. ShownAge(client') = Older(client.cur) /\ Bound = Older(client.cur)
    BY <1>1, <1>3, <2>1, <2>2 DEF ShownAge, Bound
  <2>4. Older(client.cur) \in Nat
    BY <2>2, OlderAge, AgeFacts
  <2>5. QED
    BY <2>3, <2>4
<1>6. QED
  BY <1>1, <1>4, <1>5

\* A step of the client that shows nothing else than before.
LEMMA SameShown ==
  ASSUME Typed, tick' = tick, client'.cur \in {client.cur, None}
  PROVE  ViewStep
<1>1. ShownAge(client) \in Nat
  BY ShownAgeType, AgeFacts
<1>2. QED
  BY <1>1 DEF ViewStep, ShownAge, Bound

LEMMA TakesView ==
  ASSUME Typed, Typed', ShownIsHeld, NEW m \in down, NEW content, Takes(m, content),
         tick' = tick
  PROVE  ShownIsHeld' /\ ViewStep
<1> DEFINE ages == {h.age : h \in client'.held}
<1>1. client \in Client /\ client' \in Client
  BY DEF Typed
<1>2. ages \in SUBSET Ages /\ ages # {}
  <2>1. \A h \in client'.held : h.age \in Ages
    BY <1>1 DEF Client, Held
  <2>2. QED
    BY <2>1 DEF Takes
<1>3. {client.prev, client.cur} \ {None} \subseteq ages
  BY DEF ShownIsHeld, Takes
<1>4. CASE client.received = 1
  <2>1. client'.prev = Max(ages) /\ client'.cur = Min(ages)
    BY <1>4 DEF Takes
  <2>2. client'.prev \in ages /\ client'.cur \in ages /\ \A a \in ages : client'.cur <= a
    BY <1>2, <2>1, Youngest, Oldest
  <2>3. None \notin ages
    BY <1>2, AgeFacts
  <2>4. ShownIsHeld'
    BY <2>2, <2>3 DEF ShownIsHeld
  <2>5. client'.cur <= ShownAge(client)
    <3>1. CASE client.cur = None
      BY <1>2, <2>2, <3>1, AgeFacts DEF ShownAge, Ages
    <3>2. CASE client.cur # None
      BY <1>3, <2>2, <3>2 DEF ShownAge
    <3>3. QED
      BY <3>1, <3>2
  <2>6. QED
    BY <2>4, <2>5 DEF ViewStep, ShownAge, Bound
<1>5. CASE client.received # 1
  <2>1. client'.prev = client.prev /\ client'.cur = client.cur
    BY <1>5 DEF Takes
  <2>2. client'.received >= 2 => client.received >= 2
    BY <1>1, <1>5 DEF Takes, Client
  <2>3. QED
    BY <1>3, <2>1, <2>2, SameShown DEF ShownIsHeld
<1>6. QED
  BY <1>4, <1>5

LEMMA AdvanceView ==
  ASSUME Typed, ShownIsHeld, Advance
  PROVE  ShownIsHeld' /\ ViewStep
<1> DEFINE younger == {h.age : h \in {g \in client.held : g.age < client.cur}}
           ages == {h.age : h \in client.held}
           cur == Max(younger)
           prev == client.cur
<1>1. client \in Client
  BY DEF Typed
<1>2. ages \in SUBSET Ages
  <2>1. \A h \in client.held : h.age \in Ages
    BY <1>1 DEF Client, Held
  <2>2. QED
    BY <2>1
<1>3. younger \subseteq ages /\ younger # {} /\ \A a \in younger : a < client.cur
  BY DEF Advance
<1>4. cur \in younger
  BY <1>2, <1>3, Oldest
<1>5. client.received = 3 /\ client' = [client EXCEPT !.prev = prev, !.cur = cur]
      /\ tick' = tick
  BY DEF Advance
<1>6. client.cur \in ages /\ client.cur # None
  BY <1>5 DEF ShownIsHeld
<1> HIDE DEF cur, prev
<1>7. /\ client'.held = client.held /\ client'.received = 3
      /\ client'.cur = cur /\ client'.prev = prev
  BY <1>1, <1>5 DEF Client
<1>8. cur \in ages /\ cur < client.cur /\ prev = client.cur
  BY <1>3, <1>4 DEF prev
<1>9. cur # None /\ cur \in Nat /\ client.cur \in Nat
  BY <1>2, <1>6, <1>8, AgeFacts
<1>10. ShownIsHeld'
  BY <1>6, <1>7, <1>8, <1>9 DEF ShownIsHeld
<1>11. ViewStep
  BY <1>5, <1>6, <1>7, <1>8, <1>9 DEF ViewStep, ShownAge, Bound
<1>12. QED
  BY <1>10, <1>11

\* The second session and the second map: nothing is shown, or what was shown.
LEMMA ResetView ==
  ASSUME Typed, ShownIsHeld, LoadMap \/ Rejoin \/ EnterGame
  PROVE  ShownIsHeld' /\ ViewStep
<1>1. client \in Client /\ tick' = tick
  BY DEF Typed, LoadMap, Rejoin, EnterGame
<1>2. CASE LoadMap
  <2>1. /\ client'.held = client.held /\ client'.prev = client.prev
        /\ client'.cur = client.cur /\ client'.received = 0
    BY <1>1, <1>2 DEF LoadMap, Client
  <2>2. QED
    BY <1>1, <2>1, SameShown DEF ShownIsHeld
<1>3. CASE Rejoin
  <2> DEFINE received == 0
             shown == None
  <2>1. client' = [client EXCEPT !.received = received, !.prev = shown, !.cur = shown]
    BY <1>3 DEF Rejoin
  <2> HIDE DEF received, shown
  <2>2. client'.prev = shown /\ client'.cur = shown /\ client'.received = received
    BY <1>1, <2>1 DEF Client
  <2>3. client'.prev = None /\ client'.cur = None /\ client'.received = 0
    BY <2>2 DEF received, shown
  <2>4. QED
    BY <1>1, <2>3, SameShown DEF ShownIsHeld
<1>4. CASE EnterGame
  <2>1. client'.prev = None /\ client'.cur = None /\ client'.received = 0
    BY <1>4 DEF EnterGame, FreshClient
  <2>2. QED
    BY <1>1, <2>1, SameShown DEF ShownIsHeld
<1>5. QED
  BY <1>2, <1>3, <1>4

\* The client is as it was.
LEMMA SameClientView ==
  ASSUME Typed, ShownIsHeld, UNCHANGED <<client, tick>>
  PROVE  ShownIsHeld' /\ ViewStep
BY SameShown DEF ShownIsHeld

Viewed == Typed /\ ShownIsHeld

LEMMA NextViewed ==
  ASSUME Viewed, [Next]_vars
  PROVE  Viewed' /\ (TickTyped /\ Ticks > 1 => TickTyped' /\ ViewStep)
<1>1. Typed /\ Typed' /\ ShownIsHeld
  BY NextTyped DEF Viewed
<1>2. ShownIsHeld' /\ (TickTyped /\ Ticks > 1 => TickTyped' /\ ViewStep)
  <2>1. CASE Tick
    BY <1>1, <2>1, TickView
  <2>2. CASE \E m \in down : TakeSnapshot(m)
    <3>1. PICK m \in down : TakeSnapshot(m)
      BY <2>2
    <3>2. tick' = tick
      BY <3>1 DEF TakeSnapshot
    <3>3. CASE SameView
      BY <1>1, <3>2, <3>3, SameShown DEF SameView, ShownIsHeld, TickTyped
    <3>4. CASE \E content \in Contents : Takes(m, content)
      BY <1>1, <3>2, <3>4, TakesView DEF TickTyped
    <3>5. QED
      BY <1>1, <3>1, <3>2, <3>3, <3>4, TakeSnapshotType
  <2>3. CASE (\E i \in up : TakeInput(i)) \/ SendInput \/ TakenOver \/ UNCHANGED vars
    <3>1. UNCHANGED <<client, tick>>
      BY <2>3 DEF TakeInput, SendInput, TakenOver, vars
    <3>2. QED
      BY <1>1, <3>1, SameClientView DEF TickTyped
  <2>4. CASE Advance
    BY <1>1, <2>4, AdvanceView DEF Advance, TickTyped
  <2>5. CASE LoadMap \/ Rejoin \/ EnterGame
    <3>1. tick' = tick
      BY <2>5 DEF LoadMap, Rejoin, EnterGame
    <3>2. QED
      BY <1>1, <2>5, <3>1, ResetView DEF TickTyped
  <2>6. QED
    BY <2>1, <2>2, <2>3, <2>4, <2>5 DEF Next, Reset
<1>3. QED
  BY <1>1, <1>2 DEF Viewed

LEMMA InitViewed == Init => Viewed /\ TickTyped
<1> SUFFICES ASSUME Init PROVE Viewed /\ TickTyped
  OBVIOUS
<1>1. Typed
  BY InitAgreed DEF Agreed
<1>2. Ticks \in Nat /\ Ticks > 0
  BY NumbersAssumption DEF Ticks
<1>3. TickTyped
  BY <1>2 DEF Init, TickTyped
<1>4. ShownIsHeld
  BY DEF Init, FreshClient, ShownIsHeld
<1>5. QED
  BY <1>1, <1>3, <1>4 DEF Viewed

(***************************************************************************)
(* Whatever is purged, lost, repeated or late, and also over rejoins, maps *)
(* and takeovers: both snapshots that the renderer reads are holders of the*)
(* list (client.cpp:1808-1813).                                            *)
(***************************************************************************)
THEOREM ShownAlwaysHeld == Spec => []ShownIsHeld
<1>1. Viewed => ShownIsHeld
  BY DEF Viewed
<1>2. Viewed /\ [Next]_vars => Viewed'
  BY NextViewed
<1>3. QED
  BY <1>1, <1>2, InitViewed, PTL DEF Spec

(***************************************************************************)
(* What is shown never goes back to an older tick, however late the packets*)
(* come.  At least one of the two rates leaves a tick out, so that the     *)
(* model can tell one tick from the next.                                  *)
(***************************************************************************)
THEOREM ViewAlwaysForward == ASSUME Ticks > 1 PROVE Spec => ViewForward
<1>1. Viewed /\ TickTyped /\ [Next]_vars => Viewed' /\ TickTyped'
  BY NextViewed
<1>2. Viewed /\ TickTyped /\ [Next]_vars =>
        [client'.cur # None =>
           ShownAge(client') <= (IF tick' = tick THEN ShownAge(client)
                                 ELSE Older(ShownAge(client)))]_vars
  BY NextViewed DEF ViewStep, Bound
<1>3. QED
  BY <1>1, <1>2, InitViewed, PTL DEF Spec, ViewForward

=============================================================================
