-------------------------- MODULE MCSlotCases_proofs --------------------------
(***************************************************************************)
(* Proofs about ServerSlots: type correctness, that an address has one live*)
(* slot, that the three layers agree about each slot, and that a player    *)
(* with a timeout code stays with the person whose code it is; and that the*)
(* latter holds in MCSlotCases, where the addresses may be those of two    *)
(* people.                                                                 *)
(***************************************************************************)
EXTENDS MCSlotCases, SequenceTheorems, WellFoundedInduction, TLAPS

Chunk == [msg : Messages, home : Slots]

Slot == [state : {"offline", "online", "error"},
         addr : Clients \cup {Nil}, bound : BOOLEAN,
         down : Seq(Chunk), protected : BOOLEAN, timedOut : BOOLEAN,
         remoteClosed : BOOLEAN]

Client == [state : {"offline", "connect", "online"}, bound : BOOLEAN,
           up : Seq({"INFO", "READY", "STARTINFO", "ENTERGAME"})]

-----------------------------------------------------------------------------
(***************************************************************************)
(* The first and the last of some slots.                                   *)
(***************************************************************************)
LEMMA FirstSlot ==
  ASSUME NEW S \in SUBSET Slots, S # {}
  PROVE  Min(S) \in S
<1>1. S \subseteq Nat
  BY NumSlotsAssumption DEF Slots
<1>2. PICK x \in S : \A y \in S : ~(<<y, x>> \in OpToRel(<, Nat))
  BY <1>1, NatLessThanWellFounded, WFMin
<1>3. \A y \in S : x <= y
  <2>1. ASSUME NEW y \in S PROVE x <= y
    <3>1. x \in Nat /\ y \in Nat /\ ~(y < x)
      BY <1>1, <1>2 DEF OpToRel
    <3>2. QED
      BY <3>1
  <2>2. QED
    BY <2>1
<1>4. QED
  BY <1>3 DEF Min

LEMMA LastSlot ==
  ASSUME NEW S \in SUBSET Slots, S # {}
  PROVE  Max(S) \in S
<1> DEFINE T == {NumSlots - x : x \in S}
<1>1. T \subseteq Nat /\ T # {}
  <2>1. \A x \in S : NumSlots - x \in Nat
    BY NumSlotsAssumption DEF Slots
  <2>2. QED
    BY <2>1
<1>2. PICK x \in T : \A y \in T : ~(<<y, x>> \in OpToRel(<, Nat))
  BY <1>1, NatLessThanWellFounded, WFMin, Zenon
<1>3. PICK s \in S : x = NumSlots - s
  OBVIOUS
<1>4. ASSUME NEW y \in S PROVE s >= y
  <2>1. ~(NumSlots - y < x)
    <3>1. NumSlots - y \in T /\ NumSlots - y \in Nat /\ x \in Nat
      BY <1>1
    <3>2. QED
      BY <1>2, <3>1 DEF OpToRel
  <2>2. QED
    BY <1>3, <2>1, NumSlotsAssumption DEF Slots
<1>5. QED
  BY <1>4 DEF Max

-----------------------------------------------------------------------------
(***************************************************************************)
(* What queuing messages does to the connections.                          *)
(***************************************************************************)
LEMMA ChunksMapped ==
  ASSUME NEW m, NEW T, m \in Seq(T), NEW f, DOMAIN f = DOMAIN m,
         \A i \in DOMAIN m : f[i] \in Chunk, f = [i \in DOMAIN f |-> f[i]]
  PROVE  f \in Seq(Chunk)
<1>1. DOMAIN m = 1 .. Len(m) /\ Len(m) \in Nat
  OBVIOUS
<1>2. f \in [1 .. Len(m) -> Chunk]
  BY <1>1
<1>3. QED
  BY <1>1, <1>2, SeqDef

LEMMA QueuedType ==
  ASSUME TypeOK, NEW s \in Slots, NEW m \in Seq(Messages)
  PROVE  \A t \in Slots : Queued(s, m)[t] \in Seq(Chunk)
<1> DEFINE own == [i \in DOMAIN m |-> [msg |-> m[i], home |-> s]]
           Overwritten(t) == [i \in DOMAIN slot[t].down |->
             IF slot[t].down[i].home = s /\ t # s
             THEN [slot[t].down[i] EXCEPT !.msg = "overwritten"] ELSE slot[t].down[i]]
<1>1. own \in Seq(Chunk)
  <2>1. \A i \in DOMAIN m : own[i] \in Chunk
    <3>1. \A i \in DOMAIN m : m[i] \in Messages
      OBVIOUS
    <3>2. QED
      BY <3>1 DEF Chunk
  <2>2. DOMAIN own = DOMAIN m /\ own = [i \in DOMAIN own |-> own[i]]
    OBVIOUS
  <2> HIDE DEF own
  <2>3. QED
    BY <2>1, <2>2, ChunksMapped
<1>2. ASSUME NEW t \in Slots
      PROVE  slot[t].down \in Seq(Chunk) /\ Overwritten(t) \in Seq(Chunk)
  <2> DEFINE d == slot[t].down
             f == Overwritten(t)
  <2>1. d \in Seq(Chunk)
    BY DEF TypeOK, Chunk
  <2>2. \A i \in DOMAIN d : d[i] \in Chunk
    BY <2>1
  <2>3. \A i \in DOMAIN d : f[i] \in Chunk
    BY <2>2 DEF Chunk, Messages
  <2>4. DOMAIN f = DOMAIN d /\ f = [i \in DOMAIN f |-> f[i]]
    OBVIOUS
  <2> HIDE DEF f
  <2>5. f \in Seq(Chunk)
    BY <2>1, <2>3, <2>4, ChunksMapped
  <2>6. QED
    BY <2>1, <2>5 DEF f
<1>3. Queued(s, m) = [t \in Slots |-> IF t = s THEN slot[s].down \o own ELSE Overwritten(t)]
  BY DEF Queued
<1> HIDE DEF own, Overwritten
<1>4. QED
  BY <1>1, <1>2, <1>3

\* The slots next are those of now, but for the data of their connections, and
\* some of them may have gone from online to error.
Calm(next) ==
  /\ next \in [Slots -> Slot]
  /\ \A t \in Slots : /\ next[t].addr = slot[t].addr
                      /\ next[t].state = "offline" <=> slot[t].state = "offline"
                      /\ next[t].state = "online" => slot[t].state = "online"

LEMMA AnsweredCalm ==
  ASSUME TypeOK, NEW s \in Slots, NEW m \in Seq(Messages)
  PROVE  Calm(Answered(s, m))
<1> DEFINE q == Queued(s, m)
<1>1. \A t \in Slots : q[t] \in Seq(Chunk)
  BY QueuedType
<1> HIDE DEF q
<1>2. Answered(s, m) = [t \in Slots |-> [slot[t] EXCEPT !.down = q[t], !.bound = @ \/ t = s]]
  BY DEF Answered, q
<1>3. slot \in [Slots -> Slot]
  BY DEF TypeOK, Slot, Chunk
<1>4. ASSUME NEW t \in Slots
      PROVE  /\ Answered(s, m)[t] \in Slot
             /\ Answered(s, m)[t].state = slot[t].state
             /\ Answered(s, m)[t].addr = slot[t].addr
  <2> DEFINE b == slot[t].bound \/ t = s
  <2>1. b \in BOOLEAN
    OBVIOUS
  <2>2. Answered(s, m)[t] = [slot[t] EXCEPT !.down = q[t], !.bound = b]
    BY <1>2, Zenon
  <2> HIDE DEF b
  <2>3. q[t] \in Seq(Chunk) /\ slot[t] \in Slot
    BY <1>1, <1>3
  <2>4. QED
    BY <2>1, <2>2, <2>3 DEF Slot
<1>5. QED
  BY <1>2, <1>4, Zenon DEF Calm

-----------------------------------------------------------------------------
(***************************************************************************)
(* The inductive invariant.  A slot that is not offline has an address.    *)
(***************************************************************************)
SlotsTyped ==
  /\ slot \in [Slots -> Slot]
  /\ server \in [Slots -> {"EMPTY", "PREAUTH", "CONNECTING", "READY", "INGAME"}]
  /\ player \in [Slots -> Player \cup {Nil}]

RestTyped ==
  /\ client \in [Clients -> Client]
  /\ network \subseteq [type : {"ACCEPT", "CLOSE", "CLOSED"}, peer : Clients]
  /\ reloads \in 0 .. MaxReloads /\ connects \in 0 .. MaxConnects

Known == \A s \in Slots : slot[s].state # "offline" => slot[s].addr \in Clients

SlotsInv == SlotsTyped /\ OneSlot /\ LayersAgree /\ Known /\ CodeIsPeers

IInv == SlotsInv /\ RestTyped

LEMMA TypeSplit == TypeOK <=> SlotsTyped /\ RestTyped
BY DEF TypeOK, SlotsTyped, RestTyped, Slot, Chunk, Client

(* The person at an address is one of the persons.                         *)
LEMMA PersonKnown == ASSUME NEW c \in Clients PROVE PersonOf(c) \in Persons
BY DEF PersonOf, Clients

(***************************************************************************)
(* The invariant of the slots through each operation on them.              *)
(***************************************************************************)
LEMMA CalmKeeps ==
  ASSUME SlotsInv, Calm(slot'),
         server' \in [Slots -> {"EMPTY", "PREAUTH", "CONNECTING", "READY", "INGAME"}],
         player' \in [Slots -> Player \cup {Nil}],
         \A t \in Slots :
           /\ server'[t] = "EMPTY" <=> server[t] = "EMPTY"
           /\ player'[t] # Nil <=> server'[t] \in {"READY", "INGAME"}
           /\ server'[t] = "INGAME" => player'[t].ready
           /\ player'[t] # Nil => player'[t].code \in {Nil, PersonOf(slot[t].addr)}
  PROVE  SlotsInv'
<1> USE DEF SlotsInv, Calm
<1>1. SlotsTyped'
  BY DEF SlotsTyped
<1>2. OneSlot'
  BY DEF OneSlot
<1>3. LayersAgree' /\ Known'
  BY DEF LayersAgree, Known
<1>4. CodeIsPeers'
  <2>1. \A t \in Slots : PersonOf(slot'[t].addr) = PersonOf(slot[t].addr)
    BY Zenon
  <2>2. \A t \in Slots : PersonOf(slot[t].addr)' = PersonOf(slot'[t].addr)
    BY DEF PersonOf
  <2>3. QED
    BY <2>1, <2>2 DEF CodeIsPeers
<1>5. QED
  BY <1>1, <1>2, <1>3, <1>4

(* A step that leaves the clients and the players of the slots alone.      *)
LEMMA SameKeeps ==
  ASSUME SlotsInv, Calm(slot'), UNCHANGED <<server, player>>
  PROVE  SlotsInv'
<1>1. /\ server' \in [Slots -> {"EMPTY", "PREAUTH", "CONNECTING", "READY", "INGAME"}]
      /\ player' \in [Slots -> Player \cup {Nil}]
  BY DEF SlotsInv, SlotsTyped
<1>2. ASSUME NEW t \in Slots
      PROVE  /\ server'[t] = "EMPTY" <=> server[t] = "EMPTY"
             /\ player'[t] # Nil <=> server'[t] \in {"READY", "INGAME"}
             /\ server'[t] = "INGAME" => player'[t].ready
             /\ player'[t] # Nil => player'[t].code \in {Nil, PersonOf(slot[t].addr)}
  BY DEF SlotsInv, LayersAgree, CodeIsPeers
<1>3. QED
  BY <1>1, <1>2, CalmKeeps

LEMMA EmptyChunks == << >> \in Seq(Chunk)
OBVIOUS

LEMMA AcceptKeeps ==
  ASSUME SlotsInv, NEW c \in Clients, SlotsOf(c) = {}, AcceptClient(c), UNCHANGED player
  PROVE  SlotsInv' /\ network' \subseteq network \cup {Packet("CLOSED", c)}
<1> DEFINE free == {s \in Slots : slot[s].state = "offline"}
<1>1. CASE /\ free # {}
           /\ slot' = [slot EXCEPT ![Min(free)] =
                        [OfflineSlot EXCEPT !.state = "online", !.addr = c]]
           /\ server' = [server EXCEPT ![Min(free)] = "PREAUTH"]
           /\ UNCHANGED network
  <2>1. Min(free) \in Slots /\ slot[Min(free)].state = "offline"
    <3>1. Min(free) \in free
      BY <1>1, FirstSlot
    <3>2. QED
      BY <3>1
  <2>2. PICK s \in Slots : s = Min(free)
    BY <2>1
  <2> DEFINE new == [OfflineSlot EXCEPT !.state = "online", !.addr = c]
  <2>3. new \in Slot /\ new.state = "online" /\ new.addr = c
    BY EmptyChunks DEF OfflineSlot, Slot, Chunk
  <2> HIDE DEF new
  <2>4. slot' = [slot EXCEPT ![s] = new] /\ server' = [server EXCEPT ![s] = "PREAUTH"]
    BY <1>1, <2>2 DEF new
  <2>5. SlotsTyped'
    BY <2>3, <2>4 DEF SlotsInv, SlotsTyped
  <2>6. player[s] = Nil
    BY <2>1, <2>2 DEF SlotsInv, LayersAgree
  <2>7. OneSlot'
    BY <2>3, <2>4 DEF SlotsInv, SlotsTyped, OneSlot, SlotsOf
  <2>8. LayersAgree' /\ Known'
    BY <2>3, <2>4, <2>6 DEF SlotsInv, SlotsTyped, LayersAgree, Known
  <2>9. CodeIsPeers'
    BY <2>3, <2>4, <2>6 DEF SlotsInv, SlotsTyped, CodeIsPeers
  <2>10. QED
    BY <1>1, <2>5, <2>7, <2>8, <2>9 DEF SlotsInv
<1>2. CASE network' = network \cup {Packet("CLOSED", c)} /\ UNCHANGED <<slot, server>>
  <2>1. Calm(slot')
    BY <1>2 DEF Calm, SlotsInv, SlotsTyped
  <2>2. QED
    BY <1>2, <2>1, SameKeeps
<1>3. QED
  BY <1>1, <1>2 DEF AcceptClient

LEMMA DropKeeps ==
  ASSUME SlotsInv, NEW s \in Slots, NEW silent, Drop(s, silent), slot[s].state # "offline"
  PROVE  SlotsInv' /\ network' \subseteq network \cup {Packet("CLOSED", slot[s].addr)}
<1>1. player' = [player EXCEPT ![s] = Nil]
  BY DEF SlotsInv, SlotsTyped, LayersAgree, Drop, PlayersWithout
<1>2. slot' = [slot EXCEPT ![s] = OfflineSlot] /\ server' = [server EXCEPT ![s] = "EMPTY"]
  BY DEF Drop
<1>3. OfflineSlot \in Slot /\ OfflineSlot.state = "offline"
  BY EmptyChunks DEF OfflineSlot, Slot, Chunk
<1>4. SlotsTyped'
  BY <1>1, <1>2, <1>3 DEF SlotsInv, SlotsTyped
<1>5. OneSlot' /\ LayersAgree' /\ Known'
  BY <1>1, <1>2, <1>3 DEF SlotsInv, SlotsTyped, OneSlot, LayersAgree, Known
<1>6. CodeIsPeers'
  BY <1>1, <1>2 DEF SlotsInv, SlotsTyped, CodeIsPeers
<1>7. network' \subseteq network \cup {Packet("CLOSED", slot[s].addr)}
  BY DEF Drop
<1>8. QED
  BY <1>4, <1>5, <1>6, <1>7 DEF SlotsInv

LEMMA RejoinKeeps ==
  ASSUME SlotsInv, TypeOK, NEW s \in Slots, slot[s].state = "online", Rejoin(s),
         UNCHANGED player
  PROVE  SlotsInv'
<1> DEFINE q == Queued(s, <<"MAP">>)
           own == [slot[s] EXCEPT !.bound = FALSE, !.remoteClosed = FALSE,
                                  !.down = <<[msg |-> "MAP", home |-> s]>>]
<1>1. \A t \in Slots : q[t] \in Seq(Chunk)
  <2>1. <<"MAP">> \in Seq(Messages)
    BY DEF Messages
  <2>2. QED
    BY <2>1, QueuedType
<1>2. slot \in [Slots -> Slot]
  BY DEF SlotsInv, SlotsTyped
<1>3. own \in Slot /\ own.state = slot[s].state /\ own.addr = slot[s].addr
  <2>1. <<[msg |-> "MAP", home |-> s]>> \in Seq(Chunk)
    <3>1. [msg |-> "MAP", home |-> s] \in Chunk
      BY DEF Chunk, Messages
    <3>2. QED
      BY <3>1
  <2> DEFINE d == <<[msg |-> "MAP", home |-> s]>>
  <2>2. own = [slot[s] EXCEPT !.bound = FALSE, !.remoteClosed = FALSE, !.down = d]
    OBVIOUS
  <2> HIDE DEF d, own
  <2>3. d \in Seq(Chunk)
    BY <2>1 DEF d
  <2>4. QED
    BY <1>2, <2>2, <2>3 DEF Slot
<1>4. slot' = [t \in Slots |-> IF t = s THEN own ELSE [slot[t] EXCEPT !.down = q[t]]]
  BY DEF Rejoin
<1> HIDE DEF q, own
<1>5. ASSUME NEW t \in Slots, t # s
      PROVE  LET o == [slot[t] EXCEPT !.down = q[t]]
             IN o \in Slot /\ o.state = slot[t].state /\ o.addr = slot[t].addr
  BY <1>1, <1>2 DEF Slot
<1>6. Calm(slot')
  BY <1>3, <1>4, <1>5 DEF Calm
<1>7. QED
  BY <1>6, SameKeeps DEF Rejoin

\* The connection of slot s becomes the connection of slot t.
LEMMA SetTimedOutKeeps ==
  ASSUME SlotsInv, NEW s \in Slots, NEW t \in Slots, s # t,
         slot[s].state = "online", slot[t].state = "error", player[t] # Nil,
         player[t].code \in {Nil, PersonOf(slot[s].addr)}, SetTimedOut(t, s)
  PROVE  SlotsInv'
<1> DEFINE new == [slot[t] EXCEPT !.state = "online", !.addr = slot[s].addr,
                                  !.bound = slot[s].bound, !.down = slot[s].down,
                                  !.remoteClosed = FALSE]
<1>1. slot \in [Slots -> Slot]
  BY DEF SlotsInv, SlotsTyped
<1>2. new \in Slot /\ new.state = "online" /\ new.addr = slot[s].addr
  BY <1>1 DEF Slot
<1>3. slot' = [slot EXCEPT ![t] = new, ![s] = OfflineSlot]
  BY DEF SetTimedOut
<1> HIDE DEF new
<1>4. OfflineSlot \in Slot /\ OfflineSlot.state = "offline"
  BY EmptyChunks DEF OfflineSlot, Slot, Chunk
<1>5. /\ slot' \in [Slots -> Slot]
      /\ slot'[s] = OfflineSlot /\ slot'[t] = new
      /\ \A u \in Slots \ {s, t} : slot'[u] = slot[u]
  BY <1>1, <1>2, <1>3, <1>4
<1>6. player' = [player EXCEPT ![s] = Nil] /\ server' = [server EXCEPT ![s] = "EMPTY"]
  BY DEF SetTimedOut, SlotsInv, SlotsTyped, LayersAgree, PlayersWithout
<1>7. SlotsTyped'
  BY <1>5, <1>6 DEF SlotsInv, SlotsTyped
<1>8. OneSlot'
  BY <1>2, <1>4, <1>5 DEF SlotsInv, OneSlot
<1>9. LayersAgree' /\ Known'
  <2>1. slot[s].addr \in Clients /\ server[t] # "EMPTY"
    BY DEF SlotsInv, Known, LayersAgree
  <2>2. QED
    BY <1>2, <1>4, <1>5, <1>6, <2>1 DEF SlotsInv, SlotsTyped, LayersAgree, Known
<1>10. CodeIsPeers'
  BY <1>2, <1>5, <1>6 DEF SlotsInv, SlotsTyped, CodeIsPeers, PersonOf
<1>11. QED
  BY <1>7, <1>8, <1>9, <1>10 DEF SlotsInv

(* The players a player can become.                                        *)
LEMMA PlayerWithCode ==
  ASSUME NEW x \in Player, NEW p \in Persons \cup {Nil}
  PROVE  LET new == [x EXCEPT !.code = p]
         IN new \in Player /\ new.ready = x.ready /\ new.code = p
BY DEF Player

LEMMA PlayerMadeReady ==
  ASSUME NEW x \in Player
  PROVE  LET new == [x EXCEPT !.ready = TRUE]
         IN new \in Player /\ new.ready /\ new.code = x.code
BY DEF Player

LEMMA PlayerJoined ==
  LET new == [ready |-> FALSE, code |-> Nil] IN new \in Player /\ new.code = Nil
BY DEF Player

LEMMA ConTimeoutKeeps ==
  ASSUME SlotsInv, NEW c \in Clients, NEW s \in Slots, ConTimeout(c, s)
  PROVE  SlotsInv'
<1>1. slot[s].state = "online" /\ slot[s].addr = c /\ server[s] = "INGAME"
  BY DEF ConTimeout, InStep, SlotsOf
<1>2. PersonOf(c) \in Persons
  BY PersonKnown
<1>3. /\ player[s] \in Player /\ player[s] # Nil
      /\ player[s].code \in {Nil, PersonOf(c)} /\ player[s].ready
  BY <1>1 DEF SlotsInv, SlotsTyped, LayersAgree, CodeIsPeers
<1>4. ASSUME NEW asked \in {PersonOf(c), Nil, player[s].code},
             Reclaimable(s, asked) # {}, SetTimedOut(Min(Reclaimable(s, asked)), s)
      PROVE  SlotsInv'
  <2> DEFINE slots == Reclaimable(s, asked)
  <2>1. PICK t \in slots : t = Min(slots)
    <3>1. slots \in SUBSET Slots
      BY DEF Reclaimable
    <3>2. QED
      BY <1>4, <3>1, FirstSlot
  <2>2. /\ t \in Slots /\ t # s /\ player[t] # Nil /\ player[t].code = asked
        /\ slot[t].state = "error"
    BY <2>1 DEF Reclaimable
  <2>3. player[t].code \in {Nil, PersonOf(slot[s].addr)}
    BY <1>1, <1>3, <2>2
  <2>4. SetTimedOut(t, s)
    BY <1>4, <2>1
  <2>5. QED
    BY <1>1, <2>2, <2>3, <2>4, SetTimedOutKeeps
<1>5. ASSUME NEW kept \in {PersonOf(c), Nil},
             slot' = [slot EXCEPT ![s].protected = TRUE],
             player' = [player EXCEPT ![s].code = kept],
             UNCHANGED server
      PROVE  SlotsInv'
  <2>1. kept \in Persons \cup {Nil} /\ kept \in {Nil, PersonOf(slot[s].addr)}
    BY <1>1, <1>2
  <2>2. PICK new \in Player : /\ new = [player[s] EXCEPT !.code = kept]
                              /\ new.ready = player[s].ready /\ new.code = kept
    BY <1>3, <2>1, PlayerWithCode
  <2>3. player' = [player EXCEPT ![s] = new]
    BY <1>5, <2>2
  <2>4. new # Nil
    BY <2>2, NilAssumption
  <2>5. slot[s] \in Slot
    BY DEF SlotsInv, SlotsTyped
  <2>6. Calm(slot')
    BY <1>5, <2>5 DEF Calm, SlotsInv, SlotsTyped, Slot
  <2>7. /\ server' \in [Slots -> {"EMPTY", "PREAUTH", "CONNECTING", "READY", "INGAME"}]
        /\ player' \in [Slots -> Player \cup {Nil}]
    BY <1>5, <2>2, <2>3 DEF SlotsInv, SlotsTyped
  <2>8. ASSUME NEW t \in Slots
        PROVE  /\ server'[t] = "EMPTY" <=> server[t] = "EMPTY"
               /\ player'[t] # Nil <=> server'[t] \in {"READY", "INGAME"}
               /\ server'[t] = "INGAME" => player'[t].ready
               /\ player'[t] # Nil => player'[t].code \in {Nil, PersonOf(slot[t].addr)}
    <3>1. CASE t = s
      BY <1>1, <1>3, <1>5, <2>1, <2>2, <2>3, <2>4, <3>1 DEF SlotsInv, SlotsTyped, LayersAgree
    <3>2. CASE t # s
      BY <1>5, <2>3, <3>2 DEF SlotsInv, SlotsTyped, LayersAgree, CodeIsPeers
    <3>3. QED
      BY <3>1, <3>2
  <2>9. QED
    BY <2>6, <2>7, <2>8, CalmKeeps
<1>6. QED
  BY <1>4, <1>5 DEF ConTimeout

-----------------------------------------------------------------------------
(***************************************************************************)
(* The messages of a client: each of them answers, and changes the client  *)
(* and the player of its slot at most.                                     *)
(***************************************************************************)
LEMMA OneSlotChanges ==
  ASSUME SlotsInv, NEW s \in Slots, Calm(slot'),
         NEW state \in {"PREAUTH", "CONNECTING", "READY", "INGAME"},
         NEW new \in Player \cup {Nil},
         server' = [server EXCEPT ![s] = state], player' = [player EXCEPT ![s] = new],
         server[s] # "EMPTY", new # Nil <=> state \in {"READY", "INGAME"},
         state = "INGAME" => new.ready,
         new # Nil => new.code \in {Nil, PersonOf(slot[s].addr)}
  PROVE  SlotsInv'
<1>1. /\ server' \in [Slots -> {"EMPTY", "PREAUTH", "CONNECTING", "READY", "INGAME"}]
      /\ player' \in [Slots -> Player \cup {Nil}]
  BY DEF SlotsInv, SlotsTyped
<1>2. ASSUME NEW t \in Slots
      PROVE  /\ server'[t] = "EMPTY" <=> server[t] = "EMPTY"
             /\ player'[t] # Nil <=> server'[t] \in {"READY", "INGAME"}
             /\ server'[t] = "INGAME" => player'[t].ready
             /\ player'[t] # Nil => player'[t].code \in {Nil, PersonOf(slot[t].addr)}
  <2>1. CASE t = s
    BY <2>1 DEF SlotsInv, SlotsTyped
  <2>2. CASE t # s
    BY <2>2 DEF SlotsInv, SlotsTyped, LayersAgree, CodeIsPeers
  <2>3. QED
    BY <2>1, <2>2
<1>3. QED
  BY <1>1, <1>2, CalmKeeps

LEMMA OnInfoKeeps ==
  ASSUME SlotsInv, TypeOK, NEW s \in Slots, slot[s].state = "online", OnInfo(s)
  PROVE  SlotsInv'
<1>1. <<"MAP">> \in Seq(Messages) /\ << >> \in Seq(Messages)
  BY DEF Messages
<1>2. Calm(slot')
  BY <1>1, AnsweredCalm DEF OnInfo
<1>3. CASE server[s] = "PREAUTH"
  <2>1. player[s] = Nil /\ Nil \in Player \cup {Nil}
    BY <1>3 DEF SlotsInv, LayersAgree
  <2>2. /\ server' = [server EXCEPT ![s] = "CONNECTING"]
        /\ player' = [player EXCEPT ![s] = Nil]
    BY <1>3, <2>1 DEF OnInfo, SlotsInv, SlotsTyped
  <2>3. QED
    BY <1>2, <1>3, <2>1, <2>2, OneSlotChanges
<1>4. CASE server[s] # "PREAUTH"
  <2>1. UNCHANGED <<server, player>>
    BY <1>4 DEF OnInfo, SlotsInv, SlotsTyped
  <2>2. QED
    BY <1>2, <2>1, SameKeeps
<1>5. QED
  BY <1>3, <1>4

LEMMA OnReadyKeeps ==
  ASSUME SlotsInv, TypeOK, NEW s \in Slots, slot[s].state = "online", OnReady(s)
  PROVE  SlotsInv'
<1>1. <<"MAP", "CON_READY">> \in Seq(Messages) /\ <<"CON_READY">> \in Seq(Messages)
  BY DEF Messages
<1>2. Calm(slot')
  BY <1>1, AnsweredCalm DEF OnReady
<1>3. CASE server[s] = "CONNECTING" /\ server' # server
  <2> DEFINE new == [ready |-> FALSE, code |-> Nil]
  <2>1. new \in Player /\ new # Nil
    BY PlayerJoined, NilAssumption
  <2>2. server' = [server EXCEPT ![s] = "READY"] /\ player' = [player EXCEPT ![s] = new]
    BY <1>3 DEF OnReady
  <2>3. new \in Player \cup {Nil} /\ new.code = Nil
    BY <2>1
  <2> HIDE DEF new
  <2>4. QED
    BY <1>2, <1>3, <2>1, <2>2, <2>3, OneSlotChanges
<1>4. CASE UNCHANGED <<server, player>>
  BY <1>2, <1>4, SameKeeps
<1>5. server' = server => UNCHANGED <<server, player>>
  BY DEF OnReady, SlotsInv, SlotsTyped
<1>6. QED
  BY <1>3, <1>4, <1>5 DEF OnReady

LEMMA OnStartInfoKeeps ==
  ASSUME SlotsInv, TypeOK, NEW s \in Slots, slot[s].state = "online", OnStartInfo(s)
  PROVE  SlotsInv'
<1> DEFINE first == server[s] \in {"READY", "INGAME"} /\ ~player[s].ready
<1>1. <<"READYTOENTER">> \in Seq(Messages) /\ << >> \in Seq(Messages)
  BY DEF Messages
<1>2. Calm(slot')
  BY <1>1, AnsweredCalm DEF OnStartInfo
<1>3. CASE first
  <2>1. player[s] \in Player /\ player[s] # Nil
    BY <1>3 DEF SlotsInv, SlotsTyped, LayersAgree
  <2>2. PICK new \in Player : /\ new = [player[s] EXCEPT !.ready = TRUE]
                              /\ new.ready /\ new.code = player[s].code
    BY <2>1, PlayerMadeReady
  <2>3. new \in Player \cup {Nil} /\ new # Nil
    BY <2>2, NilAssumption
  <2>4. server' = [server EXCEPT ![s] = server[s]] /\ player' = [player EXCEPT ![s] = new]
    BY <1>3, <2>2 DEF OnStartInfo, SlotsInv, SlotsTyped
  <2>5. new.code \in {Nil, PersonOf(slot[s].addr)}
    BY <2>1, <2>2 DEF SlotsInv, CodeIsPeers
  <2>6. QED
    BY <1>2, <1>3, <2>2, <2>3, <2>4, <2>5, OneSlotChanges
<1>4. CASE ~first
  BY <1>2, <1>4, SameKeeps DEF OnStartInfo
<1>5. QED
  BY <1>3, <1>4

LEMMA OnEnterGameKeeps ==
  ASSUME SlotsInv, TypeOK, NEW s \in Slots, slot[s].state = "online", OnEnterGame(s)
  PROVE  SlotsInv'
<1>1. << >> \in Seq(Messages)
  OBVIOUS
<1>2. Calm(slot')
  BY <1>1, AnsweredCalm DEF OnEnterGame
<1>3. CASE server[s] = "READY" /\ player[s].ready
  <2>1. player[s] \in Player \cup {Nil} /\ player[s] # Nil
    BY <1>3 DEF SlotsInv, SlotsTyped, LayersAgree
  <2>2. /\ server' = [server EXCEPT ![s] = "INGAME"]
        /\ player' = [player EXCEPT ![s] = player[s]]
    BY <1>3 DEF OnEnterGame, SlotsInv, SlotsTyped
  <2>3. player[s].code \in {Nil, PersonOf(slot[s].addr)}
    BY <2>1 DEF SlotsInv, CodeIsPeers
  <2>4. QED
    BY <1>2, <1>3, <2>1, <2>2, <2>3, OneSlotChanges
<1>4. CASE ~(server[s] = "READY" /\ player[s].ready)
  <2>1. UNCHANGED <<server, player>>
    BY <1>4 DEF OnEnterGame, SlotsInv, SlotsTyped
  <2>2. QED
    BY <1>2, <2>1, SameKeeps
<1>5. QED
  BY <1>3, <1>4

LEMMA TakeUpKeeps ==
  ASSUME SlotsInv, TypeOK, NEW c \in Clients, NEW s \in Slots, TakeUp(c, s)
  PROVE  SlotsInv'
<1>1. slot[s].state = "online"
  BY DEF TakeUp, InStep, SlotsOf
<1>2. Head(client[c].up) \in {"INFO", "READY", "STARTINFO", "ENTERGAME"}
  <2>1. /\ client[c].up \in Seq({"INFO", "READY", "STARTINFO", "ENTERGAME"})
        /\ client[c].up # << >>
    BY DEF TypeOK, TakeUp
  <2>2. QED
    BY <2>1
<1>3. OnInfo(s) \/ OnReady(s) \/ OnStartInfo(s) \/ OnEnterGame(s)
  BY <1>2 DEF TakeUp
<1>4. QED
  BY <1>1, <1>3, OnInfoKeeps, OnReadyKeeps, OnStartInfoKeeps, OnEnterGameKeeps

LEMMA TakeDownKeeps ==
  ASSUME SlotsInv, NEW c \in Clients, NEW s \in Slots, TakeDown(c, s)
  PROVE  SlotsInv'
<1> DEFINE rest == Tail(slot[s].down)
           new == [slot[s] EXCEPT !.down = rest, !.bound = TRUE]
<1>1. slot[s] \in Slot /\ slot \in [Slots -> Slot]
  BY DEF SlotsInv, SlotsTyped
<1>2. rest \in Seq(Chunk)
  <2>1. slot[s].down \in Seq(Chunk) /\ slot[s].down # << >>
    BY <1>1 DEF TakeDown, Slot
  <2>2. QED
    BY <2>1
<1>3. slot' = [slot EXCEPT ![s] = new]
  BY <1>1 DEF TakeDown
<1> HIDE DEF rest
<1>4. new \in Slot /\ new.state = slot[s].state /\ new.addr = slot[s].addr
  BY <1>1, <1>2 DEF Slot
<1> HIDE DEF new
<1>5. Calm(slot')
  BY <1>1, <1>3, <1>4 DEF Calm
<1>6. UNCHANGED <<server, player>>
  BY DEF TakeDown
<1>7. QED
  BY <1>5, <1>6, SameKeeps

-----------------------------------------------------------------------------
(***************************************************************************)
(* A connection that ends, times out, or hears its peer again.             *)
(***************************************************************************)
LEMMA SlotSetCalm ==
  ASSUME SlotsInv, NEW s \in Slots, NEW new \in Slot, new.addr = slot[s].addr,
         slot[s].state = "online", new.state \in {"online", "error"},
         slot' = [slot EXCEPT ![s] = new]
  PROVE  Calm(slot')
BY DEF Calm, SlotsInv, SlotsTyped

LEMMA RecvCloseKeeps ==
  ASSUME SlotsInv, NEW c \in Clients, RecvClose(c)
  PROVE  SlotsInv'
<1>1. PICK s \in SlotsOf(c) : s = Max(SlotsOf(c))
  <2>1. SlotsOf(c) \in SUBSET Slots /\ SlotsOf(c) # {}
    BY DEF SlotsOf, RecvClose
  <2>2. QED
    BY <2>1, LastSlot
<1>2. s \in Slots /\ slot[s].state = "online" /\ slot[s] \in Slot
  BY <1>1 DEF SlotsOf, SlotsInv, SlotsTyped
<1> DEFINE new == [slot[s] EXCEPT !.state = "error", !.remoteClosed = TRUE, !.down = << >>]
<1>3. slot' = [slot EXCEPT ![s] = new]
  BY <1>1 DEF RecvClose
<1>4. new \in Slot /\ new.state = "error" /\ new.addr = slot[s].addr
  BY <1>2, EmptyChunks DEF Slot
<1> HIDE DEF new
<1>5. Calm(slot')
  BY <1>2, <1>3, <1>4, SlotSetCalm
<1>6. QED
  BY <1>5, SameKeeps DEF RecvClose

LEMMA SlotTimeoutKeeps ==
  ASSUME SlotsInv, NEW s \in Slots, SlotTimeout(s)
  PROVE  SlotsInv' /\ network' \subseteq network \cup {Packet("CLOSED", slot[s].addr)}
<1> DEFINE new == [slot[s] EXCEPT !.state = "error", !.timedOut = TRUE, !.down = << >>]
<1>1. slot[s].state = "online" /\ slot[s] \in Slot
  BY DEF SlotTimeout, SlotsInv, SlotsTyped
<1>2. CASE slot' = [slot EXCEPT ![s] = new] /\ UNCHANGED <<server, player, network>>
  <2>1. new \in Slot /\ new.state = "error" /\ new.addr = slot[s].addr
    BY <1>1, EmptyChunks DEF Slot
  <2> HIDE DEF new
  <2>2. Calm(slot')
    BY <1>1, <1>2, <2>1, SlotSetCalm
  <2>3. QED
    BY <1>2, <2>2, SameKeeps
<1>3. CASE Drop(s, TRUE)
  BY <1>1, <1>3, DropKeeps
<1>4. QED
  BY <1>2, <1>3 DEF SlotTimeout

LEMMA UpdateOnlineKeeps ==
  ASSUME SlotsInv, NEW s \in Slots, UpdateOnline(s)
  PROVE  SlotsInv'
<1> DEFINE new == [slot[s] EXCEPT !.timedOut = FALSE]
<1>1. slot[s].state = "online" /\ slot[s] \in Slot
  BY DEF UpdateOnline, SlotsInv, SlotsTyped
<1>2. slot' = [slot EXCEPT ![s] = new]
  BY DEF UpdateOnline
<1>3. new \in Slot /\ new.state = "online" /\ new.addr = slot[s].addr
  BY <1>1 DEF Slot
<1> HIDE DEF new
<1>4. Calm(slot')
  BY <1>1, <1>2, <1>3, SlotSetCalm
<1>5. QED
  BY <1>4, SameKeeps DEF UpdateOnline

LEMMA ReloadKeeps ==
  ASSUME SlotsInv, TypeOK, Reload
  PROVE  SlotsInv'
<1> DEFINE again == {s \in Slots : server[s] \in {"CONNECTING", "READY", "INGAME"}}
           chunks(s) == Queued(s, <<"MAP">>)[s]
           new(s) == [slot[s] EXCEPT !.down = chunks(s)]
<1>1. slot \in [Slots -> Slot]
  BY DEF SlotsInv, SlotsTyped
<1>2. ASSUME NEW s \in Slots PROVE chunks(s) \in Seq(Chunk)
  <2>1. <<"MAP">> \in Seq(Messages)
    BY DEF Messages
  <2>2. QED
    BY <2>1, QueuedType
<1> HIDE DEF chunks
<1>3. ASSUME NEW s \in Slots
      PROVE  new(s) \in Slot /\ new(s).state = slot[s].state /\ new(s).addr = slot[s].addr
  BY <1>1, <1>2 DEF Slot
<1>4. slot' = [s \in Slots |-> IF s \in again /\ slot[s].state = "online"
                               THEN new(s) ELSE slot[s]]
  BY DEF Reload, chunks
<1> HIDE DEF new
<1>5. Calm(slot')
  BY <1>1, <1>3, <1>4 DEF Calm
<1>6. /\ server' = [s \in Slots |-> IF s \in again THEN "CONNECTING" ELSE server[s]]
      /\ player' = [s \in Slots |-> Nil]
  BY DEF Reload
<1>7. /\ server' \in [Slots -> {"EMPTY", "PREAUTH", "CONNECTING", "READY", "INGAME"}]
      /\ player' \in [Slots -> Player \cup {Nil}]
  BY <1>6 DEF SlotsInv, SlotsTyped
<1>8. ASSUME NEW t \in Slots
      PROVE  /\ server'[t] = "EMPTY" <=> server[t] = "EMPTY"
             /\ player'[t] # Nil <=> server'[t] \in {"READY", "INGAME"}
             /\ server'[t] = "INGAME" => player'[t].ready
             /\ player'[t] # Nil => player'[t].code \in {Nil, PersonOf(slot[t].addr)}
  BY <1>6 DEF SlotsInv, SlotsTyped
<1>9. QED
  BY <1>5, <1>7, <1>8, CalmKeeps

-----------------------------------------------------------------------------
(***************************************************************************)
(* The steps of the clients, and the packets on the network.               *)
(***************************************************************************)
LEMMA ClientSet ==
  ASSUME client \in [Clients -> Client], NEW c \in Clients, NEW new \in Client,
         client' = [client EXCEPT ![c] = new]
  PROVE  client' \in [Clients -> Client]
OBVIOUS

LEMMA OfflineClient ==
  ASSUME NEW state \in {"offline", "connect"}
  PROVE  [state |-> state, bound |-> FALSE, up |-> << >>] \in Client
<1>1. << >> \in Seq({"INFO", "READY", "STARTINFO", "ENTERGAME"})
  OBVIOUS
<1>2. QED
  BY <1>1 DEF Client

Packets == [type : {"ACCEPT", "CLOSE", "CLOSED"}, peer : Clients]

LEMMA PacketType ==
  ASSUME NEW c \in Clients, NEW type \in {"ACCEPT", "CLOSE", "CLOSED"}
  PROVE  Packet(type, c) \in Packets
BY DEF Packet, Packets

LEMMA SlotsUntouched ==
  ASSUME SlotsInv, UNCHANGED <<slot, server, player>>
  PROVE  SlotsInv'
<1>1. Calm(slot')
  BY DEF Calm, SlotsInv, SlotsTyped
<1>2. QED
  BY <1>1, SameKeeps

LEMMA ClientStep ==
  ASSUME IInv, NEW c \in Clients,
         \/ Connect(c) \/ FeedConnectAccept(c) \/ Disconnect(c)
         \/ ClientClosed(c) \/ ClientTimeout(c)
  PROVE  IInv'
<1> USE DEF IInv, RestTyped
<1>1. SlotsInv'
  <2>1. UNCHANGED <<slot, server, player>>
    BY DEF Connect, FeedConnectAccept, Disconnect, ClientClosed, ClientTimeout, ClientEnds
  <2>2. QED
    BY <2>1, SlotsUntouched
<1>2. client[c] \in Client
  OBVIOUS
<1>3. CASE Connect(c)
  <2> DEFINE new == [state |-> "connect", bound |-> FALSE, up |-> << >>]
  <2>1. new \in Client /\ client' = [client EXCEPT ![c] = new]
    BY <1>3, OfflineClient DEF Connect
  <2> HIDE DEF new
  <2>2. client' \in [Clients -> Client]
    BY <2>1, ClientSet
  <2>3. connects' \in 0 .. MaxConnects /\ UNCHANGED <<network, reloads>>
    BY <1>3, NumSlotsAssumption DEF Connect
  <2>4. QED
    BY <1>1, <2>2, <2>3
<1>4. CASE FeedConnectAccept(c)
  <2> DEFINE new == [client[c] EXCEPT !.state = "online", !.up = <<"INFO">>]
  <2>1. <<"INFO">> \in Seq({"INFO", "READY", "STARTINFO", "ENTERGAME"})
    OBVIOUS
  <2>2. new \in Client
    BY <1>2, <2>1 DEF Client
  <2>3. client' = [client EXCEPT ![c] = new]
    BY <1>4 DEF FeedConnectAccept
  <2> HIDE DEF new
  <2>4. client' \in [Clients -> Client]
    BY <2>2, <2>3, ClientSet
  <2>5. network' \subseteq Packets /\ UNCHANGED <<reloads, connects>>
    BY <1>4, PacketType DEF FeedConnectAccept, Packets
  <2>6. QED
    BY <1>1, <2>4, <2>5 DEF Packets
<1>5. CASE Disconnect(c) \/ ClientClosed(c) \/ ClientTimeout(c)
  <2> DEFINE new == [state |-> "offline", bound |-> FALSE, up |-> << >>]
  <2>1. new \in Client /\ client' = [client EXCEPT ![c] = new]
    BY <1>5, OfflineClient DEF Disconnect, ClientClosed, ClientTimeout, ClientEnds
  <2> HIDE DEF new
  <2>2. client' \in [Clients -> Client]
    BY <2>1, ClientSet
  <2>3. network' \subseteq network \cup {Packet("CLOSE", c)} /\ UNCHANGED <<reloads, connects>>
    BY <1>5 DEF Disconnect, ClientClosed, ClientTimeout, ClientEnds
  <2>4. network' \subseteq Packets
    BY <2>3, PacketType DEF Packets
  <2>5. QED
    BY <1>1, <2>2, <2>3, <2>4 DEF Packets
<1>6. QED
  BY <1>3, <1>4, <1>5

LEMMA PeerStep ==
  ASSUME IInv, NEW c \in Clients, RecvAccept(c) \/ RecvClose(c)
  PROVE  IInv'
<1> USE DEF IInv
<1>1. TypeOK
  BY TypeSplit DEF SlotsInv
<1>2. CASE RecvAccept(c)
  <2>1. CASE SlotsOf(c) # {} /\ Rejoin(Max(SlotsOf(c)))
    <3>1. PICK s \in SlotsOf(c) : s = Max(SlotsOf(c))
      <4>1. SlotsOf(c) \in SUBSET Slots
        BY DEF SlotsOf
      <4>2. QED
        BY <2>1, <4>1, LastSlot
    <3>2. s \in Slots /\ slot[s].state = "online" /\ Rejoin(s)
      BY <2>1, <3>1 DEF SlotsOf
    <3>3. SlotsInv'
      BY <1>1, <1>2, <3>2, RejoinKeeps DEF RecvAccept
    <3>4. RestTyped'
      BY <1>2, <2>1 DEF RecvAccept, Rejoin, RestTyped
    <3>5. QED
      BY <3>3, <3>4
  <2>2. CASE SlotsOf(c) = {} /\ AcceptClient(c)
    <3>1. SlotsInv' /\ network' \subseteq network \cup {Packet("CLOSED", c)}
      BY <1>2, <2>2, AcceptKeeps DEF RecvAccept
    <3>2. network' \subseteq Packets
      BY <3>1, PacketType DEF RestTyped, Packets
    <3>3. RestTyped'
      BY <1>2, <3>2 DEF RecvAccept, RestTyped, Packets
    <3>4. QED
      BY <3>1, <3>3
  <2>3. QED
    BY <1>2, <2>1, <2>2 DEF RecvAccept
<1>3. CASE RecvClose(c)
  <2>1. SlotsInv'
    BY <1>3, RecvCloseKeeps
  <2>2. RestTyped'
    BY <1>3 DEF RecvClose, RestTyped
  <2>3. QED
    BY <2>1, <2>2
<1>4. QED
  BY <1>2, <1>3

(* What a client sends when it has taken a message.                        *)
LEMMA AnswerType ==
  ASSUME NEW msg
  PROVE  AnswerTo(msg) \in Seq({"INFO", "READY", "STARTINFO", "ENTERGAME"})
<1>1. AnswerTo(msg) \in {<<"READY">>, <<"STARTINFO">>, <<"ENTERGAME">>, << >>}
  BY DEF AnswerTo
<1> DEFINE Chunks == Seq({"INFO", "READY", "STARTINFO", "ENTERGAME"})
<1>2. <<"READY">> \in Chunks /\ <<"STARTINFO">> \in Chunks
  OBVIOUS
<1>3. <<"ENTERGAME">> \in Chunks /\ << >> \in Chunks
  OBVIOUS
<1> HIDE DEF Chunks
<1>4. AnswerTo(msg) \in Chunks
  BY <1>1, <1>2, <1>3, Zenon
<1>5. QED
  BY <1>4 DEF Chunks

LEMMA SessionStep ==
  ASSUME IInv, NEW c \in Clients, NEW s \in Slots,
         TakeUp(c, s) \/ TakeDown(c, s) \/ ConTimeout(c, s)
  PROVE  IInv'
<1> USE DEF IInv
<1> DEFINE Chunks == Seq({"INFO", "READY", "STARTINFO", "ENTERGAME"})
<1>1. TypeOK
  BY TypeSplit DEF SlotsInv
<1>2. client[c] \in Client /\ client[c].up \in Chunks /\ client \in [Clients -> Client]
  BY DEF RestTyped, Client
<1>3. CASE TakeUp(c, s)
  <2> DEFINE rest == Tail(client[c].up)
             new == [client[c] EXCEPT !.up = rest, !.bound = TRUE]
  <2>1. rest \in Chunks
    BY <1>2, <1>3 DEF TakeUp
  <2>2. client' = [client EXCEPT ![c] = new]
    BY <1>3 DEF TakeUp
  <2> HIDE DEF rest
  <2>3. new \in Client
    BY <1>2, <2>1 DEF Client
  <2> HIDE DEF new
  <2>4. client' \in [Clients -> Client]
    BY <1>2, <2>2, <2>3, ClientSet
  <2>5. SlotsInv'
    BY <1>1, <1>3, TakeUpKeeps
  <2>6. QED
    BY <1>3, <2>4, <2>5 DEF TakeUp, RestTyped
<1>4. CASE TakeDown(c, s)
  <2> DEFINE all == client[c].up \o AnswerTo(Head(slot[s].down).msg)
             new == [client[c] EXCEPT !.bound = TRUE, !.up = all]
  <2>1. all \in Chunks
    BY <1>2, AnswerType
  <2>2. client' = [client EXCEPT ![c] = new]
    BY <1>4 DEF TakeDown
  <2> HIDE DEF all
  <2>3. new \in Client
    BY <1>2, <2>1 DEF Client
  <2> HIDE DEF new
  <2>4. client' \in [Clients -> Client]
    BY <1>2, <2>2, <2>3, ClientSet
  <2>5. SlotsInv'
    BY <1>4, TakeDownKeeps
  <2>6. QED
    BY <1>4, <2>4, <2>5 DEF TakeDown, RestTyped
<1>5. CASE ConTimeout(c, s)
  <2>1. SlotsInv'
    BY <1>5, ConTimeoutKeeps
  <2>2. QED
    BY <1>5, <2>1 DEF ConTimeout, RestTyped
<1>6. QED
  BY <1>3, <1>4, <1>5

LEMMA SlotStep ==
  ASSUME IInv, NEW s \in Slots,
         \/ UpdateError(s) \/ SlotTimeout(s) \/ UpdateOnline(s)
         \/ ProtectionOver(s) \/ Kick(s)
  PROVE  IInv'
<1> USE DEF IInv
<1>1. SlotsInv' /\ network' \subseteq network \cup {Packet("CLOSED", slot[s].addr)}
  <2>1. CASE UpdateError(s)
    BY <2>1, DropKeeps DEF UpdateError
  <2>2. CASE SlotTimeout(s)
    BY <2>2, SlotTimeoutKeeps
  <2>3. CASE UpdateOnline(s)
    BY <2>3, UpdateOnlineKeeps DEF UpdateOnline
  <2>4. CASE ProtectionOver(s)
    BY <2>4, DropKeeps DEF ProtectionOver
  <2>5. CASE Kick(s)
    <3>1. slot[s].state # "offline"
      BY <2>5 DEF Kick, SlotsInv, LayersAgree
    <3>2. QED
      BY <2>5, <3>1, DropKeeps DEF Kick
  <2>6. QED
    BY <2>1, <2>2, <2>3, <2>4, <2>5
<1>2. slot[s].addr \in Clients
  <2>1. slot[s].state # "offline"
    BY DEF UpdateError, SlotTimeout, UpdateOnline, ProtectionOver, Kick, SlotsInv, LayersAgree
  <2>2. QED
    BY <2>1 DEF SlotsInv, Known
<1>3. network' \subseteq Packets
  BY <1>1, <1>2, PacketType DEF RestTyped, Packets
<1>4. UNCHANGED <<client, reloads, connects>>
  BY DEF UpdateError, SlotTimeout, UpdateOnline, ProtectionOver, Kick, Drop
<1>5. QED
  BY <1>1, <1>3, <1>4 DEF RestTyped, Packets

LEMMA ReloadStep == ASSUME IInv, Reload PROVE IInv'
<1> USE DEF IInv
<1>1. TypeOK
  BY TypeSplit DEF SlotsInv
<1>2. SlotsInv'
  BY <1>1, ReloadKeeps
<1>3. QED
  BY <1>2, NumSlotsAssumption DEF Reload, RestTyped

-----------------------------------------------------------------------------
LEMMA InitInv == Init => IInv
<1> SUFFICES ASSUME Init PROVE IInv
  OBVIOUS
<1> USE DEF Init
<1>1. RestTyped
  BY OfflineClient, NumSlotsAssumption DEF RestTyped
<1>2. SlotsTyped
  BY EmptyChunks DEF SlotsTyped, OfflineSlot, Slot, Chunk
<1>3. OneSlot /\ LayersAgree /\ Known
  BY DEF OneSlot, LayersAgree, Known, OfflineSlot
<1>4. CodeIsPeers
  BY DEF CodeIsPeers
<1>5. QED
  BY <1>1, <1>2, <1>3, <1>4 DEF IInv, SlotsInv

LEMMA NextInv == IInv /\ [Next]_vars => IInv'
<1> SUFFICES ASSUME IInv, [Next]_vars PROVE IInv'
  OBVIOUS
<1>1. CASE UNCHANGED vars
  <2>1. SlotsInv'
    BY <1>1, SlotsUntouched DEF IInv, vars
  <2>2. QED
    BY <1>1, <2>1 DEF IInv, RestTyped, vars
<1>2. CASE Next
  BY <1>2, ClientStep, PeerStep, SessionStep, SlotStep, ReloadStep DEF Next
<1>3. QED
  BY <1>1, <1>2

THEOREM SlotsInvariant == Spec => []IInv
BY InitInv, NextInv, PTL DEF Spec

(***************************************************************************)
(* The variables have their types, however many slots and persons there    *)
(* are.                                                                    *)
(***************************************************************************)
THEOREM TypeCorrect == Spec => []TypeOK
<1>1. IInv => TypeOK
  BY TypeSplit DEF IInv, SlotsInv
<1>2. QED
  BY <1>1, SlotsInvariant, PTL

(***************************************************************************)
(* GetClientSlot has at most one slot to find: neither an ACCEPT delivered *)
(* again nor a takeover gives an address a second live slot.               *)
(***************************************************************************)
THEOREM OneSlotEach == Spec => []OneSlot
<1>1. IInv => OneSlot
  BY DEF IInv, SlotsInv
<1>2. QED
  BY <1>1, SlotsInvariant, PTL

(***************************************************************************)
(* Network, server and game always agree about who is there: the handlers  *)
(* of the game find the player they dereference.                           *)
(***************************************************************************)
THEOREM LayersAlwaysAgree == Spec => []LayersAgree
<1>1. IInv => LayersAgree
  BY DEF IInv, SlotsInv
<1>2. QED
  BY <1>1, SlotsInvariant, PTL

(***************************************************************************)
(* Nobody gets a player whose timeout code is that of another, by a rejoin,*)
(* a takeover or a slot that is used again (ddracechat.cpp:328-355).       *)
(***************************************************************************)
THEOREM CodesKept == Spec => []CodeIsPeers
<1>1. IInv => CodeIsPeers
  BY DEF IInv, SlotsInv
<1>2. QED
  BY <1>1, SlotsInvariant, PTL

-----------------------------------------------------------------------------
(***************************************************************************)
(* In the cases of two people, where it is known whose a code is, nobody   *)
(* gets the player with the code of another (ddracechat.cpp:338).  A case  *)
(* is a word or, to name one of its addresses, a client.                   *)
(***************************************************************************)
THEOREM PlayersAlwaysPeers ==
  ASSUME "two people" \notin Clients
  PROVE  CasesSpec => []PlayersPeers
<1> DEFINE CaseInv == case = "two people" => IInv
<1>1. CasesInit => CaseInv
  BY InitInv DEF CasesInit
<1>2. CaseInv /\ [CasesNext]_<<case, vars>> => CaseInv'
  <2> SUFFICES ASSUME CaseInv, [CasesNext]_<<case, vars>>, case' = "two people"
               PROVE  IInv'
    OBVIOUS
  <2>1. case = "two people" /\ [Next]_vars
    BY DEF CasesNext
  <2>2. QED
    BY <2>1, NextInv
<1>3. CaseInv => PlayersPeers
  BY DEF PlayersPeers, IInv, SlotsInv
<1>4. QED
  BY <1>1, <1>2, <1>3, PTL DEF CasesSpec

=============================================================================
