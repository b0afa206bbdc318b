---------------------------- MODULE NetConn_proofs ----------------------------
(***************************************************************************)
(* Proofs about NetConn: type correctness, that no acknowledgement,        *)
(* whenever it arrives, takes a chunk out of the resend buffer that the    *)
(* peer has not got, that no chunk is skipped that was not taken, and that *)
(* each direction implements the reliable channel.                         *)
(***************************************************************************)
EXTENDS NetConn, TLAPS

(***************************************************************************)
(* Numbers modulo MaxSequence.                                             *)
(***************************************************************************)
LEMMA Sizes ==
  /\ MaxSequence \in Nat \ {0} /\ BufferSlots \in Nat /\ 2 * BufferSlots < MaxSequence
  /\ PacketChunks \in Nat \ {0}
BY SlotsAssumption, BoundsAssumption

LEMMA Residue ==
  ASSUME NEW q \in Nat, NEW r \in 0 .. MaxSequence - 1
  PROVE  (q * MaxSequence + r) % MaxSequence = r
BY Sizes

LEMMA Quotient ==
  ASSUME NEW n \in Nat
  PROVE  /\ n % MaxSequence \in 0 .. MaxSequence - 1
         /\ \E q \in Nat : n = q * MaxSequence + (n % MaxSequence)
<1>1. n % MaxSequence \in 0 .. MaxSequence - 1
  BY Sizes
<1>2. n \div MaxSequence \in Nat
  BY Sizes
<1>3. n = (n \div MaxSequence) * MaxSequence + (n % MaxSequence)
  BY Sizes
<1>4. QED
  BY <1>1, <1>2, <1>3

(* Less than a whole turn later.                                           *)
LEMMA Turn ==
  ASSUME NEW a \in Nat, NEW n \in Nat, a <= n, n < a + MaxSequence
  PROVE  \/ n % MaxSequence = (a % MaxSequence) + (n - a)
         \/ n % MaxSequence = (a % MaxSequence) + (n - a) - MaxSequence
<1> DEFINE r == a % MaxSequence
<1>1. r \in 0 .. MaxSequence - 1
  BY Quotient
<1>2. PICK q \in Nat : a = q * MaxSequence + r
  BY Quotient
<1>3. q * MaxSequence \in Nat /\ (q + 1) * MaxSequence = q * MaxSequence + MaxSequence
  BY Sizes
<1> HIDE DEF r
<1>4. CASE r + (n - a) < MaxSequence
  <2>1. n = q * MaxSequence + (r + (n - a)) /\ r + (n - a) \in 0 .. MaxSequence - 1
    BY <1>1, <1>2, <1>3, <1>4, Sizes
  <2>2. n % MaxSequence = r + (n - a)
    BY <2>1, Residue
  <2>3. QED
    BY <2>2 DEF r
<1>5. CASE r + (n - a) >= MaxSequence
  <2>1. /\ n = (q + 1) * MaxSequence + (r + (n - a) - MaxSequence)
        /\ r + (n - a) - MaxSequence \in 0 .. MaxSequence - 1
    BY <1>1, <1>2, <1>3, <1>5, Sizes
  <2>2. n % MaxSequence = r + (n - a) - MaxSequence
    BY <2>1, Residue
  <2>3. QED
    BY <2>2 DEF r
<1>6. QED
  BY <1>1, <1>4, <1>5, Sizes

LEMMA SameResidue ==
  ASSUME NEW a \in Nat, NEW n \in Nat, a < n + MaxSequence, n < a + MaxSequence,
         a % MaxSequence = n % MaxSequence
  PROVE  a = n
<1> DEFINE r == a % MaxSequence
<1>1. r \in Nat /\ MaxSequence \in Nat
  BY Quotient, Sizes
<1>2. CASE a <= n
  <2>1. \/ r = r + (n - a)
        \/ r = r + (n - a) - MaxSequence
    BY <1>2, Turn
  <2>2. QED
    <3> HIDE DEF r
    <3>1. QED
      BY <1>1, <1>2, <2>1
<1>3. CASE n <= a
  <2>1. \/ r = r + (a - n)
        \/ r = r + (a - n) - MaxSequence
    BY <1>3, Turn
  <2>2. QED
    <3> HIDE DEF r
    <3>1. QED
      BY <1>1, <1>3, <2>1
<1>4. QED
  BY <1>2, <1>3

LEMMA NextResidue ==
  ASSUME NEW n \in Nat
  PROVE  ((n % MaxSequence) + 1) % MaxSequence = (n + 1) % MaxSequence
<1> DEFINE r == n % MaxSequence
<1>1. r \in 0 .. MaxSequence - 1
  BY Quotient
<1>2. PICK q \in Nat : n = q * MaxSequence + r
  BY Quotient
<1>3. q * MaxSequence \in Nat /\ (q + 1) * MaxSequence = q * MaxSequence + MaxSequence
  BY Sizes
<1> HIDE DEF r
<1>4. CASE r + 1 < MaxSequence
  <2>1. n + 1 = q * MaxSequence + (r + 1) /\ r + 1 = 0 * MaxSequence + (r + 1)
        /\ r + 1 \in 0 .. MaxSequence - 1
    BY <1>1, <1>2, <1>3, <1>4, Sizes
  <2>2. (n + 1) % MaxSequence = r + 1 /\ (r + 1) % MaxSequence = r + 1
    BY <2>1, Residue
  <2>3. QED
    BY <2>2 DEF r
<1>5. CASE r + 1 = MaxSequence
  <2>1. n + 1 = (q + 1) * MaxSequence + 0 /\ r + 1 = 1 * MaxSequence + 0
        /\ 0 \in 0 .. MaxSequence - 1
    BY <1>1, <1>2, <1>3, <1>5, Sizes
  <2>2. (n + 1) % MaxSequence = 0 /\ (r + 1) % MaxSequence = 0
    BY <2>1, Residue
  <2>3. QED
    BY <2>2 DEF r
<1>6. QED
  BY <1>1, <1>4, <1>5, Sizes

-----------------------------------------------------------------------------
(***************************************************************************)
(* The two comparisons of sequence numbers (network.cpp, network_conn.cpp).*)
(***************************************************************************)
(* Within half a turn, what is in the backroom of a number is not after it.*)
LEMMA Backroom ==
  ASSUME NEW d \in Nat, NEW k \in Nat,
         2 * (d - k) < MaxSequence, 2 * (k - d) < MaxSequence
  PROVE  InBackroom(d % MaxSequence, k % MaxSequence) <=> d <= k
<1> DEFINE x == d % MaxSequence
           y == k % MaxSequence
           half == MaxSequence \div 2
<1>1. /\ x \in 0 .. MaxSequence - 1 /\ y \in 0 .. MaxSequence - 1
      /\ MaxSequence \in Nat /\ MaxSequence > 0
  <2>1. x \in 0 .. MaxSequence - 1 /\ y \in 0 .. MaxSequence - 1
    BY Quotient
  <2> HIDE DEF x, y
  <2>2. QED
    BY <2>1, Sizes
<1>2. half \in Nat /\ 2 * half <= MaxSequence /\ MaxSequence <= 2 * half + 1
  BY <1>1
<1>3. InBackroom(x, y) <=> IF y < half THEN x <= y \/ x >= y + MaxSequence - half
                           ELSE x <= y /\ x >= y - half
  BY DEF InBackroom
<1>4. CASE d <= k
  <2>1. k < d + MaxSequence
    BY <1>1, <1>4
  <2>2. y = x + (k - d) \/ y = x + (k - d) - MaxSequence
    BY <1>4, <2>1, Turn
  <2> HIDE DEF x, y, half
  <2>3. InBackroom(x, y)
    BY <1>1, <1>2, <1>3, <1>4, <2>2
  <2>4. QED
    BY <1>4, <2>3 DEF x, y
<1>5. CASE k < d
  <2>1. d < k + MaxSequence /\ k <= d
    BY <1>1, <1>5
  <2>2. x = y + (d - k) \/ x = y + (d - k) - MaxSequence
    BY <2>1, Turn
  <2> HIDE DEF x, y, half
  <2>3. ~InBackroom(x, y)
    BY <1>1, <1>2, <1>3, <1>5, <2>2
  <2>4. QED
    BY <1>5, <2>3 DEF x, y
<1>6. QED
  BY <1>4, <1>5

(* An acknowledgement that is valid stands for a chunk between the last one*)
(* acknowledged and the last one queued.                                   *)
LEMMA ValidAck ==
  ASSUME NEW e \in Ends, NEW a \in Nat, NEW n \in Nat, a <= n, n < a + MaxSequence,
         NEW x \in 0 .. MaxSequence - 1,
         sequence[e] = n % MaxSequence, peerAck[e] = a % MaxSequence, AckValid(e, x)
  PROVE  \E k \in a .. n : x = k % MaxSequence
<1> DEFINE r == a % MaxSequence
           t == n % MaxSequence
<1>1. /\ r \in 0 .. MaxSequence - 1 /\ t \in 0 .. MaxSequence - 1
      /\ MaxSequence \in Nat /\ MaxSequence > 0
  <2>1. r \in 0 .. MaxSequence - 1 /\ t \in 0 .. MaxSequence - 1
    BY Quotient
  <2> HIDE DEF r, t
  <2>2. QED
    BY <2>1, Sizes
<1>2. t = r + (n - a) \/ t = r + (n - a) - MaxSequence
  BY Turn
<1>3. IF t >= r THEN x >= r /\ x <= t ELSE x >= r \/ x <= t
  BY DEF AckValid
<1> HIDE DEF r, t
<1>4. CASE x >= r
  <2> DEFINE k == a + (x - r)
  <2>1. k \in a .. n /\ k \in Nat /\ a <= k /\ k < a + MaxSequence
    BY <1>1, <1>2, <1>3, <1>4
  <2>2. k % MaxSequence = r + (k - a) \/ k % MaxSequence = r + (k - a) - MaxSequence
    BY <2>1, Turn DEF r
  <2>3. k % MaxSequence \in 0 .. MaxSequence - 1
    BY <2>1, Quotient
  <2>4. k - a = x - r
    BY <1>1
  <2>5. x = k % MaxSequence
    BY <1>1, <1>4, <2>2, <2>3, <2>4
  <2>6. QED
    BY <2>1, <2>5
<1>5. CASE x < r
  <2> DEFINE k == a + (x - r) + MaxSequence
  <2>1. k \in a .. n /\ k \in Nat /\ a <= k /\ k < a + MaxSequence
    BY <1>1, <1>2, <1>3, <1>5
  <2>2. k % MaxSequence = r + (k - a) \/ k % MaxSequence = r + (k - a) - MaxSequence
    BY <2>1, Turn DEF r
  <2>3. k % MaxSequence \in 0 .. MaxSequence - 1
    BY <2>1, Quotient
  <2>4. k - a = x - r + MaxSequence
    BY <1>1
  <2>5. x = k % MaxSequence
    BY <1>1, <1>5, <2>2, <2>3, <2>4
  <2>6. QED
    BY <2>1, <2>5
<1>6. QED
  BY <1>1, <1>4, <1>5

(* AckChunks leaves the chunks after k, if k is in the buffer or before it.*)
LEMMA AckChunks ==
  ASSUME NEW b \in Seq(Chunk), NEW a \in Nat, Len(b) <= BufferSlots,
         \A i \in 1 .. Len(b) : b[i].seq = (a + i) % MaxSequence,
         NEW k \in a .. a + Len(b)
  PROVE  LET c == Unacknowledged(b, k % MaxSequence)
         IN /\ c \in Seq(Chunk) /\ Len(c) = a + Len(b) - k
            /\ \A i \in 1 .. Len(c) : c[i] = b[i + (k - a)]
<1> DEFINE kept == {i \in DOMAIN b : ~InBackroom(b[i].seq, k % MaxSequence)}
           first == k - a + 1
           c == Unacknowledged(b, k % MaxSequence)
<1>1. Len(b) \in Nat /\ DOMAIN b = 1 .. Len(b) /\ k \in Nat /\ first \in Nat
  OBVIOUS
<1>2. ASSUME NEW i \in 1 .. Len(b)
      PROVE  InBackroom(b[i].seq, k % MaxSequence) <=> i < first
  <2> DEFINE d == a + i
  <2>1. d \in Nat /\ 2 * (d - k) < MaxSequence /\ 2 * (k - d) < MaxSequence
    BY <1>1, Sizes
  <2>2. b[i].seq = d % MaxSequence /\ (d <= k <=> i < first)
    BY <1>1
  <2> HIDE DEF d
  <2>3. InBackroom(d % MaxSequence, k % MaxSequence) <=> d <= k
    BY <1>1, <2>1, Backroom
  <2>4. QED
    BY <2>2, <2>3
<1>3. kept = first .. Len(b)
  BY <1>1, <1>2
<1>4. CASE first > Len(b)
  <2>1. kept = {} /\ k = a + Len(b)
    <3>1. k = a + Len(b)
      BY <1>1, <1>4
    <3>2. first .. Len(b) = {}
      <4> HIDE DEF first
      <4>1. QED
        BY <1>1, <1>4
    <3>3. QED
      BY <1>3, <3>1, <3>2
  <2>2. c = << >>
    BY <2>1 DEF Unacknowledged
  <2> HIDE DEF c
  <2>3. c \in Seq(Chunk) /\ Len(c) = 0 /\ Len(c) = a + Len(b) - k
    BY <1>1, <2>1, <2>2
  <2>4. QED
    BY <2>3 DEF c
<1>5. CASE first <= Len(b)
  <2>1. first \in kept /\ \A j \in kept : first <= j
    BY <1>1, <1>3, <1>5
  <2>2. \A i \in kept : (\A j \in kept : i <= j) => i = first
    BY <1>1, <1>3, <2>1
  <2>3. (CHOOSE i \in kept : \A j \in kept : i <= j) = first
    BY <2>1, <2>2
  <2>4. c = SubSeq(b, first, Len(b))
    BY <2>1, <2>3 DEF Unacknowledged
  <2> HIDE DEF c
  <2>5. /\ c \in Seq(Chunk) /\ Len(c) = Len(b) - first + 1
        /\ \A i \in 1 .. Len(c) : c[i] = b[first + i - 1]
    BY <1>1, <1>5, <2>4
  <2>6. QED
    BY <1>1, <2>5 DEF c
<1>6. QED
  BY <1>1, <1>4, <1>5

-----------------------------------------------------------------------------
(***************************************************************************)
(* The two ends, and the packets that one of them sends.                   *)
(***************************************************************************)
LEMMA PeerFacts ==
  ASSUME NEW e \in Ends
  PROVE  /\ Peer(e) \in Ends /\ Peer(e) # e /\ Peer(Peer(e)) = e
         /\ \A f \in Ends : f = e \/ f = Peer(e)
<1>1. Peer("client") = "server" /\ Peer("server") = "client"
  BY DEF Peer, Ends
<1>2. QED
  BY <1>1 DEF Ends

\* What goes into the construct of e: chunks it queues or resends.
Constructs == [resend : BOOLEAN, chunks : Seq(Chunk)]

LEMMA Part ==
  ASSUME NEW s \in Seq(Chunk), NEW m \in Nat \ {0}, NEW n \in Nat, n <= Len(s)
  PROVE  SubSeq(s, m, n) \in Seq(Chunk)
<1>1. \A i \in m .. n : i \in 1 .. Len(s) /\ s[i] \in Chunk
  OBVIOUS
<1>2. QED
  BY <1>1

LEMMA Products ==
  ASSUME NEW i \in Nat \ {0}, NEW f \in Nat, i <= f, NEW n \in Nat, f = n \div PacketChunks
  PROVE  /\ i * PacketChunks \in Nat /\ (i - 1) * PacketChunks \in Nat
         /\ i * PacketChunks <= n
<1>1. PacketChunks \in Nat /\ PacketChunks > 0
  BY Sizes
<1>2. f * PacketChunks <= n /\ f * PacketChunks \in Nat
  BY <1>1
<1>3. i * PacketChunks <= f * PacketChunks
  BY <1>1
<1>4. i * PacketChunks \in Nat /\ (i - 1) * PacketChunks \in Nat
  BY <1>1
<1>5. QED
  BY <1>2, <1>3, <1>4

\* A packet that e sends now.
Sent(e, p) == p \in Packet /\ p.ack = ack[e] /\ p.acked = Len(got[e])

LEMMA PacketSent ==
  ASSUME TypeOK, NEW e \in Ends, NEW c \in Constructs
  PROVE  Sent(e, PacketOf(e, c))
<1>1. ack[e] \in 0 .. MaxSequence - 1 /\ Len(got[e]) \in Nat
  BY DEF TypeOK
<1>2. c.resend \in BOOLEAN /\ c.chunks \in Seq(Chunk)
  BY DEF Constructs
<1>3. QED
  BY <1>1, <1>2 DEF Sent, PacketOf, Packet

LEMMA CloseSent ==
  ASSUME TypeOK, NEW e \in Ends
  PROVE  Sent(e, ClosePacket(e))
<1>1. EmptyConstruct \in Constructs
  BY DEF EmptyConstruct, Constructs
<1>2. Sent(e, PacketOf(e, EmptyConstruct))
  BY <1>1, PacketSent
<1>3. QED
  BY <1>2 DEF Sent, ClosePacket, Packet

LEMMA Queued ==
  ASSUME TypeOK, NEW e \in Ends, NEW more \in Seq(Chunk)
  PROVE  /\ Remaining(e, more) \in Constructs
         /\ \A p \in Flushed(e, more) : Sent(e, p)
<1> DEFINE all == All(e, more)
           n == Flushes(e, more)
<1>1. all \in Seq(Chunk) /\ construct[e].resend \in BOOLEAN
  BY DEF TypeOK, All, Constructs
<1>2. n \in Nat /\ Len(all) \in Nat /\ (n # 0 => n = (Len(all) - 1) \div PacketChunks /\ all # << >>)
  <2>1. CASE all = << >>
    BY <1>1, <2>1 DEF Flushes
  <2>2. CASE all # << >>
    <3>1. Len(all) - 1 \in Nat
      BY <1>1, <2>2
    <3>2. n = (Len(all) - 1) \div PacketChunks
      BY <2>2 DEF Flushes
    <3>3. QED
      BY <1>1, <2>2, <3>1, <3>2, Sizes
  <2>3. QED
    BY <2>1, <2>2
<1>3. ASSUME NEW i \in 1 .. n
      PROVE  /\ i * PacketChunks \in Nat /\ (i - 1) * PacketChunks \in Nat
             /\ i * PacketChunks <= Len(all)
  <2>1. Len(all) - 1 \in Nat /\ n = (Len(all) - 1) \div PacketChunks
    BY <1>1, <1>2, <1>3
  <2>2. i \in Nat \ {0} /\ i <= n
    BY <1>2, <1>3
  <2>3. /\ i * PacketChunks \in Nat /\ (i - 1) * PacketChunks \in Nat
        /\ i * PacketChunks <= Len(all) - 1
    BY <1>2, <2>1, <2>2, Products
  <2>4. QED
    BY <1>2, <2>3
<1>4. Remaining(e, more) \in Constructs
  <2>1. n * PacketChunks \in Nat
    BY <1>2, Sizes
  <2>2. SubSeq(all, n * PacketChunks + 1, Len(all)) \in Seq(Chunk)
    BY <1>1, <1>2, <2>1, Part
  <2>3. QED
    BY <1>1, <2>2 DEF Remaining, Constructs
<1>5. ASSUME NEW i \in 1 .. n
      PROVE  Sent(e, PacketOf(e, [resend |-> construct[e].resend /\ i = 1,
                                  chunks |-> SubSeq(all, (i - 1) * PacketChunks + 1,
                                                    i * PacketChunks)]))
  <2>1. (i - 1) * PacketChunks + 1 \in Nat \ {0}
    BY <1>3
  <2>2. SubSeq(all, (i - 1) * PacketChunks + 1, i * PacketChunks) \in Seq(Chunk)
    BY <1>1, <1>3, <2>1, Part
  <2>3. [resend |-> construct[e].resend /\ i = 1,
         chunks |-> SubSeq(all, (i - 1) * PacketChunks + 1, i * PacketChunks)] \in Constructs
    BY <1>1, <2>2 DEF Constructs
  <2>4. QED
    BY <2>3, PacketSent
<1>6. QED
  BY <1>4, <1>5 DEF Flushed

(* Whatever the bound on packets loses of those that are sent.             *)
LEMMA Afterwards ==
  ASSUME NEW net \in [Ends -> SUBSET Packet], NEW e \in Ends, NEW P,
         \A p \in P : Sent(e, p), NEW after \in After(net, e, P)
  PROVE  /\ after \in [Ends -> SUBSET Packet]
         /\ after[e] = net[e]
         /\ \A p \in after[Peer(e)] : p \in net[Peer(e)] \/ Sent(e, p)
<1>1. PICK S \in SUBSET P : after = [net EXCEPT ![Peer(e)] = net[Peer(e)] \cup S]
  BY DEF After
<1>2. P \subseteq Packet
  BY DEF Sent
<1>3. QED
  BY <1>1, <1>2, PeerFacts

-----------------------------------------------------------------------------
(***************************************************************************)
(* The inductive invariant.  While an end is online its buffer holds the   *)
(* last chunks it queued, without a gap, after the one last acknowledged,  *)
(* and that one has been got.  Every packet on its way tells what its      *)
(* sender had got once, and is not a whole turn old.                       *)
(***************************************************************************)
\* How many chunks of e are acknowledged.
Base(e) == sent[e] - Len(buffer[e])

Window(e) ==
  /\ Base(e) \in Nat
  /\ sequence[e] = sent[e] % MaxSequence
  /\ peerAck[e] = Base(e) % MaxSequence
  /\ \A i \in 1 .. Len(buffer[e]) :
       /\ buffer[e][i].data = Base(e) + i
       /\ buffer[e][i].seq = (Base(e) + i) % MaxSequence

Kept(e) == Window(e) /\ Base(e) <= Len(got[Peer(e)])

Counted(e) == ack[e] = Len(got[e]) % MaxSequence

Truth(e, p) == p.ack = p.acked % MaxSequence /\ p.acked <= Len(got[Peer(e)])

InTime(e, p) == Online(e) => sent[e] < p.acked + MaxSequence

Truthful(e) == \A p \in network[e] : Truth(e, p) /\ InTime(e, p)

NetInv ==
  /\ TypeOK
  /\ \A e \in Ends : Truthful(e) /\ (Online(e) => Kept(e) /\ Counted(e))

LEMMA Numbers ==
  ASSUME TypeOK, NEW e \in Ends
  PROVE  /\ Len(got[e]) \in Nat /\ sent[e] \in Nat
         /\ Len(buffer[e]) \in Nat /\ Len(buffer[e]) <= BufferSlots
         /\ buffer[e] \in Seq(Chunk) /\ got[e] \in Seq(Nat \ {0})
         /\ network[e] \subseteq Packet
BY DEF TypeOK

(* A packet that an online end sends is true and in time.                  *)
LEMMA SentIsTrue ==
  ASSUME NetInv, NEW e \in Ends, Online(e), NEW p, Sent(e, p)
  PROVE  Truth(Peer(e), p) /\ InTime(Peer(e), p)
<1> DEFINE f == Peer(e)
<1>1. f \in Ends /\ Peer(f) = e
  BY PeerFacts
<1>2. Truth(f, p)
  <2>1. Len(got[e]) \in Nat /\ ack[e] = Len(got[e]) % MaxSequence
    BY Numbers DEF NetInv, Counted
  <2>2. QED
    BY <1>1, <2>1 DEF Truth, Sent
<1>3. ASSUME Online(f) PROVE sent[f] < p.acked + MaxSequence
  <2>1. Base(f) \in Nat /\ Base(f) <= Len(got[e])
    BY <1>1, <1>3 DEF NetInv, Kept, Window
  <2>2. /\ sent[f] \in Nat /\ Len(buffer[f]) \in Nat /\ Len(buffer[f]) <= BufferSlots
        /\ Len(got[e]) \in Nat
    BY <1>1, Numbers DEF NetInv
  <2>3. sent[f] <= Len(got[e]) + BufferSlots
    BY <2>1, <2>2, Sizes DEF Base
  <2>4. p.acked = Len(got[e])
    BY DEF Sent
  <2>5. QED
    BY <2>2, <2>3, <2>4, Sizes
<1>4. QED
  BY <1>2, <1>3 DEF InTime

(* What a step must do to the network to keep the packets true.            *)
LEMMA TruthStays ==
  ASSUME NetInv, NEW e \in Ends,
         \A f \in Ends : Len(got'[f]) \in Nat /\ Len(got[f]) <= Len(got'[f]),
         \A f \in Ends : \A p \in network'[f] :
           p \in network[f] \/ (f = Peer(e) /\ Online(e) /\ Sent(e, p)),
         \A f \in Ends : Online(f)' =>
           /\ Online(f)
           /\ sent'[f] = sent[f] \/ \A p \in network'[f] : sent'[f] < p.acked + MaxSequence
  PROVE  \A f \in Ends : Truthful(f)'
<1>1. ASSUME NEW f \in Ends, NEW p \in network'[f]
      PROVE  /\ Truth(f, p) /\ InTime(f, p) /\ p \in Packet
  <2>1. CASE p \in network[f]
    BY <2>1, Numbers DEF NetInv, Truthful
  <2>2. CASE f = Peer(e) /\ Online(e) /\ Sent(e, p)
    BY <2>2, SentIsTrue DEF Sent
  <2>3. QED
    BY <2>1, <2>2
<1>2. ASSUME NEW f \in Ends, NEW p \in network'[f]
      PROVE  p.acked <= Len(got'[Peer(f)])
  <2>1. Peer(f) \in Ends /\ p.acked <= Len(got[Peer(f)]) /\ p.acked \in Nat
    BY <1>1, PeerFacts DEF Truth, Packet
  <2>2. Len(got[Peer(f)]) \in Nat /\ Len(got'[Peer(f)]) \in Nat
        /\ Len(got[Peer(f)]) <= Len(got'[Peer(f)])
    BY <2>1, Numbers DEF NetInv
  <2>3. QED
    BY <2>1, <2>2
<1>3. ASSUME NEW f \in Ends, NEW p \in network'[f], Online(f)'
      PROVE  sent'[f] < p.acked + MaxSequence
  BY <1>1, <1>3 DEF InTime
<1>4. QED
  BY <1>1, <1>2, <1>3 DEF Truthful, Truth, InTime

(* The state of an end that a step leaves alone.                           *)
LEMMA KeptStays ==
  ASSUME NetInv, NEW f \in Ends, Online(f),
         sequence'[f] = sequence[f], sent'[f] = sent[f], buffer'[f] = buffer[f],
         peerAck'[f] = peerAck[f],
         Len(got'[Peer(f)]) \in Nat, Len(got[Peer(f)]) <= Len(got'[Peer(f)])
  PROVE  Kept(f)'
<1>1. Base(f)' = Base(f) /\ Base(f) \in Nat /\ Base(f) <= Len(got[Peer(f)])
      /\ Len(got[Peer(f)]) \in Nat /\ Window(f)
  BY PeerFacts, Numbers DEF NetInv, Kept, Window, Base
<1>2. Window(f)'
  BY <1>1 DEF Window
<1>3. QED
  BY <1>1, <1>2 DEF Kept

(* A step that only sends packets of e, or loses some.                     *)
LEMMA SendsOnly ==
  ASSUME NetInv, NEW e \in Ends,
         UNCHANGED <<state, sequence, ack, peerAck, buffer, unpack, sent, got>>,
         construct' \in [Ends -> Constructs], network' \in [Ends -> SUBSET Packet],
         \A f \in Ends : \A p \in network'[f] :
           p \in network[f] \/ (f = Peer(e) /\ Online(e) /\ Sent(e, p))
  PROVE  NetInv'
<1>1. TypeOK'
  BY DEF NetInv, TypeOK, Constructs
<1>2. \A f \in Ends : Len(got'[f]) \in Nat /\ Len(got[f]) <= Len(got'[f])
  BY Numbers DEF NetInv
<1>3. \A f \in Ends : Online(f)' => Online(f) /\ sent'[f] = sent[f]
  BY DEF Online
<1>4. \A f \in Ends : Truthful(f)'
  BY <1>2, <1>3, TruthStays
<1>5. ASSUME NEW f \in Ends, Online(f)' PROVE Kept(f)' /\ Counted(f)'
  <2>1. Online(f) /\ Counted(f) /\ Peer(f) \in Ends
    BY <1>3, <1>5, PeerFacts DEF NetInv
  <2>2. Kept(f)'
    BY <1>2, <2>1, KeptStays
  <2>3. QED
    BY <2>1, <2>2 DEF Counted
<1>6. QED
  BY <1>1, <1>4, <1>5 DEF NetInv

-----------------------------------------------------------------------------
(***************************************************************************)
(* Sending.                                                                *)
(***************************************************************************)
LEMMA ConstructTyped ==
  ASSUME TypeOK, NEW e \in Ends
  PROVE  construct \in [Ends -> Constructs] /\ construct[e] \in Constructs
         /\ network \in [Ends -> SUBSET Packet] /\ EmptyConstruct \in Constructs
BY DEF TypeOK, Constructs, EmptyConstruct

LEMMA SendStep ==
  ASSUME NetInv, NEW e \in Ends, Flush(e) \/ ResendFirst(e) \/ KeepAlive(e)
  PROVE  NetInv'
<1>1. TypeOK /\ Online(e)
  BY DEF NetInv, Flush, ResendFirst, KeepAlive
<1>2. PICK P : /\ \A p \in P : Sent(e, p)
               /\ network' \in After(network, e, P)
               /\ construct' \in [Ends -> Constructs]
  <2>1. CASE Flush(e)
    <3>1. Sent(e, PacketOf(e, construct[e]))
      BY <1>1, ConstructTyped, PacketSent
    <3>2. construct' \in [Ends -> Constructs]
      BY <1>1, <2>1, ConstructTyped DEF Flush
    <3>3. QED
      BY <2>1, <3>1, <3>2 DEF Flush
  <2>2. CASE ResendFirst(e)
    <3>1. buffer[e] \in Seq(Chunk) /\ buffer[e] # << >>
      BY <1>1, <2>2, Numbers DEF ResendFirst
    <3>2. <<Head(buffer[e])>> \in Seq(Chunk)
      BY <3>1
    <3>3. /\ Remaining(e, <<Head(buffer[e])>>) \in Constructs
          /\ \A p \in Flushed(e, <<Head(buffer[e])>>) : Sent(e, p)
      BY <1>1, <3>2, Queued
    <3>4. construct' \in [Ends -> Constructs]
      BY <1>1, <2>2, <3>3, ConstructTyped DEF ResendFirst
    <3>5. QED
      BY <2>2, <3>3, <3>4 DEF ResendFirst
  <2>3. CASE KeepAlive(e)
    <3>1. Sent(e, PacketOf(e, EmptyConstruct))
      BY <1>1, ConstructTyped, PacketSent
    <3>2. construct' \in [Ends -> Constructs]
      BY <1>1, <2>3, ConstructTyped DEF KeepAlive
    <3>3. QED
      BY <2>3, <3>1, <3>2 DEF KeepAlive
  <2>4. QED
    BY <2>1, <2>2, <2>3
<1>3. /\ network' \in [Ends -> SUBSET Packet] /\ network'[e] = network[e]
      /\ \A p \in network'[Peer(e)] : p \in network[Peer(e)] \/ Sent(e, p)
  BY <1>1, <1>2, ConstructTyped, Afterwards
<1>4. \A f \in Ends : \A p \in network'[f] :
        p \in network[f] \/ (f = Peer(e) /\ Online(e) /\ Sent(e, p))
  BY <1>1, <1>3, PeerFacts
<1>5. UNCHANGED <<state, sequence, ack, peerAck, buffer, unpack, sent, got>>
  BY DEF Flush, ResendFirst, KeepAlive
<1>6. QED
  BY <1>2, <1>3, <1>4, <1>5, SendsOnly

LEMMA LoseStep ==
  ASSUME NetInv, NEW e \in Ends, NEW p \in network[e],
         Lose(e, p) \/ \E last \in BOOLEAN : FeedInvalid(e, p, last)
  PROVE  NetInv'
<1>1. network \in [Ends -> SUBSET Packet] /\ construct \in [Ends -> Constructs]
  BY ConstructTyped DEF NetInv
<1>2. network' = network \/ network' = [network EXCEPT ![e] = @ \ {p}]
  BY DEF Lose, FeedInvalid, Arrival
<1>3. network' \in [Ends -> SUBSET Packet] /\ \A f \in Ends : network'[f] \subseteq network[f]
  BY <1>1, <1>2
<1>4. UNCHANGED <<state, sequence, ack, peerAck, buffer, unpack, sent, got>>
      /\ construct' = construct
  BY DEF Lose, FeedInvalid
<1>5. \A f \in Ends : \A q \in network'[f] :
        q \in network[f] \/ (f = Peer(e) /\ Online(e) /\ Sent(e, q))
  BY <1>3
<1>6. QED
  BY <1>1, <1>3, <1>4, <1>5, SendsOnly

(* The chunk that is queued goes to the end of the window.                 *)
LEMMA QueueStep ==
  ASSUME NetInv, ~Overflows, NEW e \in Ends, QueueChunk(e)
  PROVE  NetInv'
<1> DEFINE next == (sequence[e] + 1) % MaxSequence
           n == sent[e] + 1
           chunk == [seq |-> next, data |-> n]
           aged == [sent EXCEPT ![e] = @ + 1]
<1>1. /\ TypeOK /\ Online(e) /\ HasRoom(e) /\ Kept(e)
      /\ sequence' = [sequence EXCEPT ![e] = next]
      /\ sent' = aged
      /\ buffer' = [buffer EXCEPT ![e] = Append(@, chunk)]
      /\ construct' = [construct EXCEPT ![e] = Remaining(e, <<chunk>>)]
      /\ UNCHANGED <<state, ack, peerAck, unpack, got>>
  BY DEF QueueChunk, NetInv
<1>2. PICK net \in After(network, e, Flushed(e, <<chunk>>)) :
        network' = [f \in Ends |-> {p \in net[f] : Fresh(f, p, aged)}]
  BY DEF QueueChunk
<1>3. /\ sent[e] \in Nat /\ n \in Nat \ {0} /\ next = n % MaxSequence
      /\ next \in 0 .. MaxSequence - 1
  <2>1. sent[e] \in Nat /\ sequence[e] = sent[e] % MaxSequence
    BY <1>1, Numbers DEF Kept, Window
  <2>2. next = (sent[e] + 1) % MaxSequence
    BY <2>1, NextResidue
  <2>3. n \in Nat \ {0}
    BY <2>1
  <2>4. QED
    BY <2>1, <2>2, <2>3, Quotient
<1>4. chunk \in Chunk /\ <<chunk>> \in Seq(Chunk)
  BY <1>3 DEF Chunk
<1>5. /\ Remaining(e, <<chunk>>) \in Constructs
      /\ \A p \in Flushed(e, <<chunk>>) : Sent(e, p)
  BY <1>1, <1>4, Queued
<1>6. /\ net \in [Ends -> SUBSET Packet] /\ net[e] = network[e]
      /\ \A p \in net[Peer(e)] : p \in network[Peer(e)] \/ Sent(e, p)
  BY <1>1, <1>2, <1>5, ConstructTyped, Afterwards
<1> DEFINE b == buffer[e]
<1>7. /\ b \in Seq(Chunk) /\ Len(b) \in Nat /\ Len(b) < BufferSlots
      /\ BufferSlots \in Nat
  BY <1>1, Numbers, Sizes DEF HasRoom
<1>8. /\ Append(b, chunk) \in Seq(Chunk) /\ Len(Append(b, chunk)) = Len(b) + 1
      /\ Append(b, chunk)[Len(b) + 1] = chunk
      /\ \A i \in 1 .. Len(b) : Append(b, chunk)[i] = b[i]
  BY <1>4, <1>7
<1>9. /\ sequence'[e] = next /\ sent'[e] = n /\ buffer'[e] = Append(b, chunk)
      /\ \A f \in Ends \ {e} : /\ sequence'[f] = sequence[f] /\ sent'[f] = sent[f]
                               /\ buffer'[f] = buffer[f]
  BY <1>1 DEF TypeOK
<1> HIDE DEF next, n, chunk, aged, b
<1>10. TypeOK'
  <2>1. network' \in [Ends -> SUBSET Packet]
    BY <1>2, <1>6
  <2>2. buffer' \in [Ends -> Seq(Chunk)] /\ \A f \in Ends : Len(buffer'[f]) <= BufferSlots
    BY <1>1, <1>7, <1>8, <1>9 DEF TypeOK, b
  <2>3. sequence' \in [Ends -> 0 .. MaxSequence - 1]
    BY <1>1, <1>3 DEF TypeOK
  <2>4. sent' \in [Ends -> Nat]
    BY <1>1, <1>3 DEF TypeOK, aged, n
  <2>5. construct' \in [Ends -> Constructs]
    BY <1>1, <1>5, ConstructTyped
  <2>6. QED
    BY <1>1, <2>1, <2>2, <2>3, <2>4, <2>5 DEF TypeOK, Constructs
<1>11. \A f \in Ends : Len(got'[f]) \in Nat /\ Len(got[f]) <= Len(got'[f])
  BY <1>1, Numbers
<1>12. \A f \in Ends : Truthful(f)'
  <2>1. \A f \in Ends : \A p \in network'[f] :
          p \in network[f] \/ (f = Peer(e) /\ Online(e) /\ Sent(e, p))
    BY <1>1, <1>2, <1>6, PeerFacts
  <2>2. \A f \in Ends : Online(f)' =>
          /\ Online(f)
          /\ sent'[f] = sent[f] \/ \A p \in network'[f] : sent'[f] < p.acked + MaxSequence
    <3>1. \A p \in network'[e] : aged[e] < p.acked + MaxSequence
      BY <1>2 DEF Fresh
    <3>2. QED
      BY <1>1, <1>9, <3>1 DEF Online
  <2>3. QED
    BY <1>11, <2>1, <2>2, TruthStays
<1>13. Kept(e)'
  <2>1. /\ Base(e) \in Nat /\ Base(e) = sent[e] - Len(b) /\ Base(e) <= Len(got[Peer(e)])
        /\ peerAck[e] = Base(e) % MaxSequence
        /\ \A i \in 1 .. Len(b) : /\ b[i].data = Base(e) + i
                                  /\ b[i].seq = (Base(e) + i) % MaxSequence
    BY <1>1 DEF Kept, Window, Base, b
  <2>2. Base(e)' = Base(e)
    <3>1. Base(e)' = (sent[e] + 1) - Len(Append(b, chunk))
      BY <1>9 DEF Base, n
    <3>2. (sent[e] + 1) - Len(Append(b, chunk)) = sent[e] - Len(b)
      BY <1>3, <1>7, <1>8
    <3>3. QED
      BY <2>1, <3>1, <3>2
  <2>3. chunk.data = Base(e) + (Len(b) + 1)
        /\ chunk.seq = (Base(e) + (Len(b) + 1)) % MaxSequence
    <3>1. n = Base(e) + (Len(b) + 1)
      BY <1>3, <1>7, <2>1 DEF n
    <3>2. QED
      BY <1>3, <3>1 DEF chunk
  <2>4. ASSUME NEW i \in 1 .. Len(buffer'[e])
        PROVE  /\ buffer'[e][i].data = Base(e) + i
               /\ buffer'[e][i].seq = (Base(e) + i) % MaxSequence
    <3>1. CASE i = Len(b) + 1
      BY <1>8, <1>9, <2>3, <3>1
    <3>2. CASE i # Len(b) + 1
      <4>1. i \in 1 .. Len(b)
        BY <1>7, <1>8, <1>9, <3>2
      <4>2. QED
        BY <1>8, <1>9, <2>1, <4>1
    <3>3. QED
      BY <3>1, <3>2
  <2>5. sequence'[e] = sent'[e] % MaxSequence /\ peerAck' = peerAck /\ got' = got
    BY <1>1, <1>3, <1>9
  <2>6. QED
    BY <2>1, <2>2, <2>4, <2>5 DEF Kept, Window
<1>14. ASSUME NEW f \in Ends, Online(f)' PROVE Kept(f)' /\ Counted(f)'
  <2>1. Online(f) /\ Counted(f) /\ Peer(f) \in Ends
    BY <1>1, <1>14, PeerFacts DEF NetInv, Online
  <2>2. f # e => Kept(f)'
    BY <1>1, <1>9, <1>11, <2>1, KeptStays
  <2>3. QED
    BY <1>1, <1>13, <2>1, <2>2 DEF Counted
<1>15. QED
  BY <1>10, <1>12, <1>14 DEF NetInv

-----------------------------------------------------------------------------
(***************************************************************************)
(* Receiving.  An acknowledgement that is valid moves the window, and never*)
(* past what the peer has got.                                             *)
(***************************************************************************)
LEMMA AckedIsGot ==
  ASSUME NetInv, NEW e \in Ends, Online(e), NEW p \in network[e], AckValid(e, p.ack)
  PROVE  \E k \in Base(e) .. sent[e] :
           p.ack = k % MaxSequence /\ k <= Len(got[Peer(e)])
<1> DEFINE a == Base(e)
           n == sent[e]
           g == Len(got[Peer(e)])
           x == p.acked
<1>1. /\ a \in Nat /\ n \in Nat /\ g \in Nat /\ a <= g
      /\ a <= n /\ n <= a + BufferSlots
  <2>1. /\ a \in Nat /\ a <= g /\ n \in Nat /\ g \in Nat
        /\ Len(buffer[e]) \in Nat /\ Len(buffer[e]) <= BufferSlots
    BY Numbers, PeerFacts DEF NetInv, Kept, Window
  <2>2. QED
    BY <2>1, Sizes DEF Base
<1>2. /\ x \in Nat /\ x <= g /\ n < x + MaxSequence
      /\ p.ack = x % MaxSequence /\ p.ack \in 0 .. MaxSequence - 1
  BY Numbers DEF NetInv, Truthful, Truth, InTime, Packet
<1>3. sequence[e] = n % MaxSequence /\ peerAck[e] = a % MaxSequence
  BY DEF NetInv, Kept, Window
<1> HIDE DEF a, n, g, x
<1>4. n < a + MaxSequence
  BY <1>1, Sizes
<1>5. PICK k \in a .. n : p.ack = k % MaxSequence
  BY <1>1, <1>2, <1>3, <1>4, ValidAck
<1>6. k <= g
  <2>1. CASE g >= n
    BY <1>1, <2>1
  <2>2. CASE g < n
    <3>1. k \in Nat /\ k < x + MaxSequence /\ x < k + MaxSequence
      BY <1>1, <1>2, <1>4, <2>2, Sizes
    <3>2. k = x
      BY <1>2, <1>5, <3>1, SameResidue
    <3>3. QED
      BY <1>2, <3>2
  <2>3. QED
    BY <1>1, <2>1, <2>2
<1>7. QED
  BY <1>5, <1>6 DEF a, n, g

LEMMA FeedChunksStep ==
  ASSUME NetInv, NEW e \in Ends, Online(e), NEW p \in network[e], NEW last \in BOOLEAN,
         FeedChunks(e, p, last)
  PROVE  NetInv'
<1> DEFINE resends == IF p.resend THEN buffer[e] ELSE << >>
           c == Unacknowledged(buffer[e], p.ack)
           b == buffer[e]
<1>1. /\ TypeOK /\ AckValid(e, p.ack) /\ p \in Packet
      /\ peerAck' = [peerAck EXCEPT ![e] = p.ack]
      /\ construct' = [construct EXCEPT ![e] = Remaining(e, resends)]
      /\ network' \in After(Arrival(e, p, last), e, Flushed(e, resends))
      /\ buffer' = [buffer EXCEPT ![e] = c]
      /\ unpack' = [unpack EXCEPT ![e] = p.chunks]
      /\ UNCHANGED <<state, sequence, ack, sent, got>>
  BY Numbers DEF FeedChunks, NetInv
<1>2. PICK k \in Base(e) .. sent[e] : p.ack = k % MaxSequence /\ k <= Len(got[Peer(e)])
  BY <1>1, AckedIsGot
<1>3. /\ Kept(e) /\ b \in Seq(Chunk) /\ Len(b) \in Nat /\ Len(b) <= BufferSlots
      /\ sent[e] \in Nat /\ Base(e) = sent[e] - Len(b) /\ Base(e) \in Nat /\ k \in Nat
      /\ \A i \in 1 .. Len(b) : /\ b[i].data = Base(e) + i
                                /\ b[i].seq = (Base(e) + i) % MaxSequence
  BY <1>1, <1>2, Numbers DEF NetInv, Kept, Window, Base
<1>4. /\ c \in Seq(Chunk) /\ Len(c) = Base(e) + Len(b) - k
      /\ \A i \in 1 .. Len(c) : c[i] = b[i + (k - Base(e))]
  <2>1. k \in Base(e) .. Base(e) + Len(b)
    BY <1>2, <1>3
  <2>2. c = Unacknowledged(b, k % MaxSequence)
    BY <1>2
  <2> HIDE DEF b, c
  <2>3. QED
    BY <1>3, <2>1, <2>2, AckChunks
<1>5. /\ Remaining(e, resends) \in Constructs
      /\ \A q \in Flushed(e, resends) : Sent(e, q)
  <2>1. resends \in Seq(Chunk)
    BY <1>3
  <2> HIDE DEF resends
  <2>2. QED
    BY <1>1, <2>1, Queued
<1> DEFINE net == Arrival(e, p, last)
<1>6. net \in [Ends -> SUBSET Packet] /\ \A f \in Ends : net[f] \subseteq network[f]
  BY <1>1, ConstructTyped DEF Arrival
<1> HIDE DEF resends, c, net
<1>7. /\ network' \in [Ends -> SUBSET Packet] /\ network'[e] = net[e]
      /\ \A q \in network'[Peer(e)] : q \in net[Peer(e)] \/ Sent(e, q)
  BY <1>1, <1>5, <1>6, Afterwards DEF net
<1>8. Len(c) \in Nat /\ Len(c) <= Len(b)
  BY <1>2, <1>3, <1>4
<1>9. /\ buffer'[e] = c /\ peerAck'[e] = p.ack
      /\ \A f \in Ends \ {e} : buffer'[f] = buffer[f] /\ peerAck'[f] = peerAck[f]
  BY <1>1 DEF TypeOK
<1>10. TypeOK'
  <2>1. buffer' \in [Ends -> Seq(Chunk)] /\ \A f \in Ends : Len(buffer'[f]) <= BufferSlots
    <3>1. Len(c) <= BufferSlots
      BY <1>3, <1>8, Sizes
    <3>2. QED
      BY <1>1, <1>4, <1>9, <3>1 DEF TypeOK
  <2>2. construct' \in [Ends -> Constructs]
    BY <1>1, <1>5, ConstructTyped
  <2>3. peerAck' \in [Ends -> 0 .. MaxSequence - 1] /\ unpack' \in [Ends -> Seq(Chunk)]
    BY <1>1 DEF TypeOK, Packet
  <2>4. QED
    BY <1>1, <1>7, <2>1, <2>2, <2>3 DEF TypeOK, Constructs
<1>11. \A f \in Ends : Len(got'[f]) \in Nat /\ Len(got[f]) <= Len(got'[f])
  BY <1>1, Numbers
<1>12. \A f \in Ends : Truthful(f)'
  <2>1. \A f \in Ends : \A q \in network'[f] :
          q \in network[f] \/ (f = Peer(e) /\ Online(e) /\ Sent(e, q))
    BY <1>6, <1>7, PeerFacts
  <2>2. \A f \in Ends : Online(f)' => Online(f) /\ sent'[f] = sent[f]
    BY <1>1 DEF Online
  <2>3. QED
    BY <1>11, <2>1, <2>2, TruthStays
<1>13. Kept(e)'
  <2>1. Base(e)' = k
    <3>1. Base(e)' = sent[e] - Len(c)
      BY <1>1, <1>9 DEF Base
    <3>2. sent[e] - Len(c) = k
      <4>1. /\ sent[e] \in Nat /\ Len(b) \in Nat /\ k \in Nat /\ Base(e) \in Nat
            /\ Base(e) = sent[e] - Len(b) /\ Len(c) = Base(e) + Len(b) - k
        BY <1>3, <1>4
      <4>2. QED
        BY <4>1
    <3>3. QED
      BY <3>1, <3>2
  <2>2. ASSUME NEW i \in 1 .. Len(c)
        PROVE  c[i].data = k + i /\ c[i].seq = (k + i) % MaxSequence
    <3>1. i + (k - Base(e)) \in 1 .. Len(b) /\ Base(e) + (i + (k - Base(e))) = k + i
      <4>1. /\ Base(e) \in Nat /\ k \in Nat /\ Len(b) \in Nat /\ Base(e) <= k
            /\ i \in Nat /\ 1 <= i /\ i <= Base(e) + Len(b) - k
        <5>1. k \in Base(e) .. sent[e] /\ i \in 1 .. Len(c)
          OBVIOUS
        <5>2. QED
          BY <1>3, <1>4, <1>8, <5>1
      <4>2. QED
        BY <4>1
    <3>2. c[i] = b[i + (k - Base(e))]
      BY <1>4
    <3>3. QED
      BY <1>3, <3>1, <3>2
  <2>3. sequence'[e] = sent'[e] % MaxSequence /\ peerAck'[e] = k % MaxSequence
    BY <1>1, <1>2, <1>3, <1>9 DEF Kept, Window
  <2>4. QED
    BY <1>1, <1>2, <1>3, <1>9, <2>1, <2>2, <2>3 DEF Kept, Window
<1>14. ASSUME NEW f \in Ends, Online(f)' PROVE Kept(f)' /\ Counted(f)'
  <2>1. Online(f) /\ Counted(f) /\ Peer(f) \in Ends
    BY <1>1, <1>14, PeerFacts DEF NetInv, Online
  <2>2. f # e => Kept(f)'
    BY <1>1, <1>9, <1>11, <2>1, KeptStays
  <2>3. QED
    BY <1>1, <1>13, <2>1, <2>2 DEF Counted
<1>15. QED
  BY <1>10, <1>12, <1>14 DEF NetInv

LEMMA FeedCloseStep ==
  ASSUME NetInv, NEW e \in Ends, NEW p \in network[e], NEW last \in BOOLEAN,
         FeedClose(e, p, last)
  PROVE  NetInv'
<1>1. /\ TypeOK /\ p \in Packet
      /\ peerAck' = [peerAck EXCEPT ![e] = p.ack]
      /\ state' = [state EXCEPT ![e] = "error"]
      /\ network' = network \/ network' = [network EXCEPT ![e] = @ \ {p}]
      /\ UNCHANGED <<sequence, ack, buffer, construct, unpack, sent, got>>
  BY Numbers DEF FeedClose, Arrival, NetInv
<1>2. network' \in [Ends -> SUBSET Packet] /\ \A f \in Ends : network'[f] \subseteq network[f]
  BY <1>1 DEF TypeOK
<1>3. \A f \in Ends : Online(f)' => Online(f) /\ f # e
  BY <1>1 DEF Online, TypeOK
<1>4. TypeOK'
  <2>1. /\ peerAck' \in [Ends -> 0 .. MaxSequence - 1]
        /\ state' \in [Ends -> {"online", "error", "offline"}]
    BY <1>1 DEF TypeOK, Packet
  <2>2. QED
    BY <1>1, <1>2, <2>1 DEF TypeOK
<1>5. \A f \in Ends : Len(got'[f]) \in Nat /\ Len(got[f]) <= Len(got'[f])
  BY <1>1, Numbers
<1>6. \A f \in Ends : Truthful(f)'
  BY <1>1, <1>2, <1>3, <1>5, TruthStays
<1>7. ASSUME NEW f \in Ends, Online(f)' PROVE Kept(f)' /\ Counted(f)'
  <2>1. Online(f) /\ f # e /\ Counted(f) /\ Peer(f) \in Ends
    BY <1>3, <1>7, PeerFacts DEF NetInv
  <2>2. peerAck'[f] = peerAck[f]
    BY <1>1, <2>1 DEF TypeOK
  <2>3. Kept(f)'
    BY <1>1, <1>5, <2>1, <2>2, KeptStays
  <2>4. QED
    BY <1>1, <2>1, <2>3 DEF Counted
<1>8. QED
  BY <1>4, <1>6, <1>7 DEF NetInv

(* A chunk is counted when the application gets it.                        *)
LEMMA FetchStep ==
  ASSUME NetInv, NEW e \in Ends, Fetch(e)
  PROVE  NetInv'
<1> DEFINE c == Head(unpack[e])
<1>1. /\ TypeOK /\ unpack[e] \in Seq(Chunk) /\ unpack[e] # << >>
      /\ unpack' = [unpack EXCEPT ![e] = Tail(@)]
      /\ Take(e, c) \/ SkipOld(e, c) \/ AskResend(e, c)
      /\ UNCHANGED <<state, sequence, peerAck, buffer, network, sent>>
  BY DEF Fetch, NetInv, TypeOK
<1>2. c \in Chunk /\ Tail(unpack[e]) \in Seq(Chunk)
  BY <1>1
<1>3. c.seq \in 0 .. MaxSequence - 1 /\ c.data \in Nat \ {0}
  BY <1>2 DEF Chunk
<1> HIDE DEF c
<1>4. /\ ack' \in [Ends -> 0 .. MaxSequence - 1]
      /\ got' \in [Ends -> Seq(Nat \ {0})]
      /\ construct' \in [Ends -> Constructs]
      /\ \A f \in Ends \ {e} : ack'[f] = ack[f] /\ got'[f] = got[f]
  <2>1. CASE Take(e, c)
    <3>1. ack' = [ack EXCEPT ![e] = c.seq] /\ construct' = construct
          /\ got' = [got EXCEPT ![e] = IF Online(e) THEN Append(@, c.data) ELSE @]
      BY <2>1 DEF Take
    <3>2. got[e] \in Seq(Nat \ {0}) /\ Append(got[e], c.data) \in Seq(Nat \ {0})
      BY <1>1, <1>3, Numbers
    <3>3. QED
      BY <1>1, <1>3, <3>1, <3>2, ConstructTyped DEF TypeOK
  <2>2. CASE SkipOld(e, c)
    BY <1>1, <2>2, ConstructTyped DEF SkipOld, TypeOK
  <2>3. CASE AskResend(e, c)
    <3>1. ack' = ack /\ got' = got
          /\ construct' = [construct EXCEPT ![e].resend = TRUE]
      BY <2>3 DEF AskResend
    <3>2. construct' \in [Ends -> Constructs]
      BY <1>1, <3>1, ConstructTyped DEF Constructs
    <3>3. QED
      BY <1>1, <3>1, <3>2 DEF TypeOK
  <2>4. QED
    BY <1>1, <2>1, <2>2, <2>3
<1>5. Online(e) =>
        \/ ack'[e] = ack[e] /\ got'[e] = got[e]
        \/ /\ ack'[e] = (ack[e] + 1) % MaxSequence
           /\ Len(got'[e]) = Len(got[e]) + 1
  <2>1. CASE Take(e, c)
    <3>1. ack'[e] = c.seq /\ c.seq = (ack[e] + 1) % MaxSequence
          /\ got'[e] = (IF Online(e) THEN Append(got[e], c.data) ELSE got[e])
      BY <1>1, <2>1 DEF Take, InSequence, TypeOK
    <3>2. got[e] \in Seq(Nat \ {0})
      BY <1>1, Numbers
    <3>3. QED
      BY <1>3, <3>1, <3>2
  <2>2. CASE SkipOld(e, c) \/ AskResend(e, c)
    BY <2>2 DEF SkipOld, AskResend
  <2>3. QED
    BY <1>1, <2>1, <2>2
<1>6. \A f \in Ends : Len(got'[f]) \in Nat /\ Len(got[f]) <= Len(got'[f])
  <2>1. Len(got'[e]) \in Nat /\ Len(got[e]) <= Len(got'[e])
    <3>1. CASE Online(e)
      BY <1>1, <1>5, <3>1, Numbers
    <3>2. CASE ~Online(e)
      <4>1. got'[e] = got[e]
        BY <1>1, <3>2 DEF Take, SkipOld, AskResend, TypeOK
      <4>2. QED
        BY <1>1, <4>1, Numbers
    <3>3. QED
      BY <3>1, <3>2
  <2>2. ASSUME NEW f \in Ends, f # e PROVE Len(got'[f]) \in Nat /\ Len(got[f]) <= Len(got'[f])
    <3>1. Len(got[f]) \in Nat /\ got'[f] = got[f]
      BY <1>1, <1>4, <2>2, Numbers
    <3>2. QED
      BY <3>1
  <2>3. QED
    BY <2>1, <2>2
<1>7. TypeOK'
  <2>1. unpack' \in [Ends -> Seq(Chunk)]
    BY <1>1, <1>2 DEF TypeOK
  <2>2. QED
    BY <1>1, <1>4, <2>1 DEF TypeOK, Constructs
<1>8. \A f \in Ends : Online(f)' <=> Online(f)
  BY <1>1 DEF Online
<1>9. \A f \in Ends : Truthful(f)'
  BY <1>1, <1>6, <1>8, TruthStays
<1>10. Online(e) => Counted(e)'
  <2>1. ASSUME Online(e) PROVE Counted(e)'
    <3>1. Len(got[e]) \in Nat /\ ack[e] = Len(got[e]) % MaxSequence
      BY <1>1, <2>1, Numbers DEF NetInv, Counted
    <3>2. (ack[e] + 1) % MaxSequence = (Len(got[e]) + 1) % MaxSequence
      BY <3>1, NextResidue
    <3>3. QED
      BY <1>5, <2>1, <3>1, <3>2 DEF Counted
  <2>2. QED
    BY <2>1
<1>11. ASSUME NEW f \in Ends, Online(f)' PROVE Kept(f)' /\ Counted(f)'
  <2>1. Online(f) /\ Counted(f) /\ Peer(f) \in Ends
    BY <1>8, <1>11, PeerFacts DEF NetInv
  <2>2. Kept(f)'
    BY <1>1, <1>6, <2>1, KeptStays
  <2>3. f # e => Counted(f)'
    BY <1>4, <2>1 DEF Counted
  <2>4. QED
    BY <1>10, <2>1, <2>2, <2>3
<1>12. QED
  BY <1>7, <1>9, <1>11 DEF NetInv

-----------------------------------------------------------------------------
(***************************************************************************)
(* The end of a connection.                                                *)
(***************************************************************************)
LEMMA ResetStep ==
  ASSUME NetInv, NEW e \in Ends, Disconnect(e) \/ Timeout(e) \/ Closed(e)
  PROVE  NetInv'
<1>1. TypeOK /\ Reset(e) /\ UNCHANGED <<unpack, sent, got>>
  BY DEF NetInv, Disconnect, Timeout, Closed, Reset
<1>2. /\ network' \in [Ends -> SUBSET Packet]
      /\ \A f \in Ends : \A p \in network'[f] :
           p \in network[f] \/ (f = Peer(e) /\ Online(e) /\ Sent(e, p))
  <2>1. CASE Disconnect(e)
    <3>1. /\ Online(e) /\ network' \in After(network, e, {ClosePacket(e)})
          /\ \A p \in {ClosePacket(e)} : Sent(e, p)
      BY <1>1, <2>1, CloseSent DEF Disconnect
    <3>2. /\ network' \in [Ends -> SUBSET Packet] /\ network'[e] = network[e]
          /\ \A p \in network'[Peer(e)] : p \in network[Peer(e)] \/ Sent(e, p)
      BY <1>1, <3>1, ConstructTyped, Afterwards
    <3>3. QED
      BY <3>1, <3>2, PeerFacts
  <2>2. CASE Timeout(e) \/ Closed(e)
    BY <1>1, <2>2 DEF Timeout, Closed, TypeOK
  <2>3. QED
    BY <2>1, <2>2
<1>3. TypeOK'
  <2>1. /\ 0 \in 0 .. MaxSequence - 1 /\ << >> \in Seq(Chunk) /\ Len(<< >>) <= BufferSlots
        /\ EmptyConstruct \in Constructs /\ construct \in [Ends -> Constructs]
    BY <1>1, Sizes, ConstructTyped
  <2>2. /\ state' \in [Ends -> {"online", "error", "offline"}]
        /\ sequence' \in [Ends -> 0 .. MaxSequence - 1]
        /\ ack' \in [Ends -> 0 .. MaxSequence - 1]
        /\ peerAck' \in [Ends -> 0 .. MaxSequence - 1]
    BY <1>1, <2>1 DEF TypeOK, Reset
  <2>3. construct' \in [Ends -> Constructs]
    BY <1>1, <2>1 DEF Reset
  <2>4. buffer' \in [Ends -> Seq(Chunk)] /\ \A f \in Ends : Len(buffer'[f]) <= BufferSlots
    BY <1>1, <2>1 DEF TypeOK, Reset
  <2>5. QED
    BY <1>1, <1>2, <2>2, <2>3, <2>4 DEF TypeOK, Constructs
<1>4. \A f \in Ends : Online(f)' => Online(f) /\ f # e
  BY <1>1 DEF Reset, Online, TypeOK
<1>5. \A f \in Ends : Len(got'[f]) \in Nat /\ Len(got[f]) <= Len(got'[f])
  BY <1>1, Numbers
<1>6. \A f \in Ends : Truthful(f)'
  BY <1>1, <1>2, <1>4, <1>5, TruthStays
<1>7. ASSUME NEW f \in Ends, Online(f)' PROVE Kept(f)' /\ Counted(f)'
  <2>1. Online(f) /\ f # e /\ Counted(f) /\ Peer(f) \in Ends
    BY <1>4, <1>7, PeerFacts DEF NetInv
  <2>2. /\ sequence'[f] = sequence[f] /\ peerAck'[f] = peerAck[f] /\ ack'[f] = ack[f]
        /\ buffer'[f] = buffer[f]
    BY <1>1, <2>1 DEF TypeOK, Reset
  <2>3. Kept(f)'
    BY <1>1, <1>5, <2>1, <2>2, KeptStays
  <2>4. QED
    BY <1>1, <2>1, <2>2, <2>3 DEF Counted
<1>8. QED
  BY <1>3, <1>6, <1>7 DEF NetInv

-----------------------------------------------------------------------------
(***************************************************************************)
(* The invariant holds, and what follows from it.                          *)
(***************************************************************************)
LEMMA InitNet == Init => NetInv
<1> SUFFICES ASSUME Init PROVE NetInv
  OBVIOUS
<1>1. 0 \in 0 .. MaxSequence - 1 /\ 0 % MaxSequence = 0
  BY Sizes
<1>2. TypeOK
  BY <1>1, Sizes DEF Init, TypeOK, EmptyConstruct
<1>3. ASSUME NEW e \in Ends PROVE Truthful(e) /\ Kept(e) /\ Counted(e)
  <2>1. /\ sent[e] = 0 /\ sequence[e] = 0 /\ ack[e] = 0 /\ peerAck[e] = 0
        /\ buffer[e] = << >> /\ got[e] = << >> /\ network[e] = {} /\ got[Peer(e)] = << >>
    BY PeerFacts DEF Init
  <2>2. Base(e) = 0
    <3>1. Len(buffer[e]) = 0
      BY <2>1
    <3>2. Base(e) = 0 - 0
      BY <2>1, <3>1 DEF Base
    <3>3. QED
      BY <3>2
  <2>3. QED
    BY <1>1, <2>1, <2>2 DEF Truthful, Kept, Window, Counted
<1>4. QED
  BY <1>2, <1>3 DEF NetInv

LEMMA StepNet ==
  ASSUME NetInv, ~Overflows, [Next]_vars
  PROVE  NetInv'
<1>1. CASE UNCHANGED vars
  BY <1>1 DEF vars, NetInv, TypeOK, Truthful, Truth, InTime, Kept, Window, Base, Counted,
              Online, Packet, Chunk
<1>2. ASSUME NEW e \in Ends, QueueChunk(e) PROVE NetInv'
  BY <1>2, QueueStep
<1>3. ASSUME NEW e \in Ends, Flush(e) \/ ResendFirst(e) \/ KeepAlive(e) PROVE NetInv'
  BY <1>3, SendStep
<1>4. ASSUME NEW e \in Ends, NEW p \in network[e], NEW last \in BOOLEAN, Feed(e, p, last)
      PROVE  NetInv'
  <2>1. CASE FeedInvalid(e, p, last)
    BY <2>1, LoseStep
  <2>2. CASE FeedClose(e, p, last)
    BY <2>2, FeedCloseStep
  <2>3. CASE FeedChunks(e, p, last)
    BY <1>4, <2>3, FeedChunksStep DEF Feed
  <2>4. QED
    BY <1>4, <2>1, <2>2, <2>3 DEF Feed
<1>5. ASSUME NEW e \in Ends, Fetch(e) PROVE NetInv'
  BY <1>5, FetchStep
<1>6. ASSUME NEW e \in Ends, Disconnect(e) \/ Timeout(e) \/ Closed(e) PROVE NetInv'
  BY <1>6, ResetStep
<1>7. ASSUME NEW e \in Ends, NEW p \in network[e], Lose(e, p) PROVE NetInv'
  BY <1>7, LoseStep
<1>8. QED
  BY <1>1, <1>2, <1>3, <1>4, <1>5, <1>6, <1>7 DEF Next

LEMMA NetHolds == ASSUME ~Overflows PROVE Spec => []NetInv
<1>1. NetInv /\ [Next]_vars => NetInv'
  BY StepNet
<1>2. QED
  BY InitNet, <1>1, PTL DEF Spec

(***************************************************************************)
(* The ring of sequence numbers, the acknowledgements and the resend buffer*)
(* keep their types; the buffer stays within its slots.                    *)
(***************************************************************************)
THEOREM WellTyped == ASSUME ~Overflows PROVE Spec => []TypeOK
<1>1. NetInv => TypeOK
  BY DEF NetInv
<1>2. QED
  BY <1>1, NetHolds, PTL

(***************************************************************************)
(* A chunk that the peer has not taken can still be resent, for any size   *)
(* of the ring and of the buffer: AckChunks never gives up a chunk for the *)
(* acknowledgement of another, a late one included.                        *)
(***************************************************************************)
THEOREM ChunksRecoverable == ASSUME ~Overflows PROVE Spec => []Recoverable
<1>1. ASSUME NetInv PROVE Recoverable
  <2>1. ASSUME NEW e \in Ends, Online(e), NEW d \in Len(got[Peer(e)]) + 1 .. sent[e]
        PROVE  \E i \in DOMAIN buffer[e] : buffer[e][i].data = d
    <3>1. /\ Base(e) \in Nat /\ Base(e) <= Len(got[Peer(e)])
          /\ \A i \in 1 .. Len(buffer[e]) : buffer[e][i].data = Base(e) + i
      BY <1>1, <2>1 DEF NetInv, Kept, Window
    <3>2. /\ Len(got[Peer(e)]) \in Nat /\ sent[e] \in Nat /\ Len(buffer[e]) \in Nat
          /\ DOMAIN buffer[e] = 1 .. Len(buffer[e])
      BY <1>1, PeerFacts, Numbers DEF NetInv
    <3>3. Base(e) = sent[e] - Len(buffer[e])
      BY DEF Base
    <3>4. d - Base(e) \in 1 .. Len(buffer[e]) /\ Base(e) + (d - Base(e)) = d
      <4>1. d \in Nat /\ Len(got[Peer(e)]) < d /\ d <= sent[e]
        BY <3>2
      <4>2. /\ Base(e) \in Nat /\ Len(buffer[e]) \in Nat /\ sent[e] \in Nat
            /\ Base(e) < d /\ d <= Base(e) + Len(buffer[e])
        BY <3>1, <3>2, <3>3, <4>1
      <4>3. QED
        BY <4>1, <4>2
    <3>5. QED
      BY <3>1, <3>2, <3>4
  <2>2. QED
    BY <2>1 DEF Recoverable
<1>2. NetInv => Recoverable
  BY <1>1
<1>3. QED
  BY <1>2, NetHolds, PTL

-----------------------------------------------------------------------------
(***************************************************************************)
(* What is in the packets.  The second invariant follows a chunk from the  *)
(* construct over the network and the unpacker to the application: its     *)
(* sequence number stands for its place among the chunks queued, and it is *)
(* never so late that the number could stand for another one.  A construct *)
(* may hold a resent chunk while new ones are queued behind it, so that the*)
(* buffer and a packet together must hold no more chunks than there are    *)
(* numbers.                                                                *)
(***************************************************************************)
Stamped(c, n) == c.data \in 1 .. n /\ c.seq = c.data % MaxSequence

Gathered(e) ==
  LET g == construct[e].chunks
  IN /\ Len(g) <= PacketChunks
     /\ \A i \in 1 .. Len(g) : /\ Stamped(g[i], sent[e])
                               /\ sent[e] < g[i].data + BufferSlots + (Len(g) - i)

Timely(c, n) == Stamped(c, n) /\ n < c.data + MaxSequence - 1

Travelling(e) ==
  \A p \in network[e] : \A i \in 1 .. Len(p.chunks) : Timely(p.chunks[i], sent[Peer(e)])

Unpacked(e) ==
  \A i \in 1 .. Len(unpack[e]) :
    /\ Stamped(unpack[e][i], sent[Peer(e)])
    /\ Len(got[e]) < unpack[e][i].data + MaxSequence - 1
    /\ \A j \in 1 .. Len(unpack[e]) :
         unpack[e][j].data < unpack[e][i].data + MaxSequence - 1

Received(e) ==
  /\ \A i \in 1 .. Len(got[e]) : got[e][i] = i
  /\ Len(got[e]) <= sent[Peer(e)]
  /\ sent[Peer(e)] <= Len(got[e]) + BufferSlots

ChunkInv ==
  \A e \in Ends : Gathered(e) /\ Travelling(e) /\ Unpacked(e) /\ Received(e)

(* The chunks of the construct and `more` go into packets and the construct*)
(* in their order; the construct never holds more than a packet.           *)
LEMMA Packing ==
  ASSUME TypeOK, NEW e \in Ends, NEW more \in Seq(Chunk)
  PROVE  LET g == construct[e].chunks
             all == All(e, more)
             r == Remaining(e, more).chunks
         IN /\ g \in Seq(Chunk) /\ all \in Seq(Chunk) /\ r \in Seq(Chunk)
            /\ Len(all) = Len(g) + Len(more)
            /\ \A j \in 1 .. Len(g) : all[j] = g[j]
            /\ \A j \in 1 .. Len(more) : all[Len(g) + j] = more[j]
            /\ Len(r) <= PacketChunks /\ Len(r) <= Len(all)
            /\ \A i \in 1 .. Len(r) : r[i] = all[i + (Len(all) - Len(r))]
            /\ \A p \in Flushed(e, more) : \A i \in 1 .. Len(p.chunks) :
                 \E j \in 1 .. Len(all) : p.chunks[i] = all[j]
<1> DEFINE g == construct[e].chunks
           all == All(e, more)
           r == Remaining(e, more).chunks
           n == Flushes(e, more)
<1>1. g \in Seq(Chunk) /\ all = g \o more
  BY DEF TypeOK, All
<1> HIDE DEF g
<1>2. /\ all \in Seq(Chunk) /\ Len(all) = Len(g) + Len(more)
      /\ \A j \in 1 .. Len(g) : all[j] = g[j]
      /\ \A j \in 1 .. Len(more) : all[Len(g) + j] = more[j]
  BY <1>1
<1> HIDE DEF all
<1>3. /\ n \in Nat /\ n * PacketChunks \in Nat /\ Len(all) \in Nat
      /\ n * PacketChunks <= Len(all) /\ Len(all) - n * PacketChunks <= PacketChunks
  <2>1. CASE all = << >>
    <3>1. n = 0 /\ Len(all) = 0
      BY <2>1 DEF Flushes, all
    <3>2. n * PacketChunks = 0 /\ PacketChunks \in Nat
      BY <3>1, Sizes
    <3> HIDE DEF n
    <3>3. QED
      BY <3>1, <3>2
  <2>2. CASE all # << >>
    <3> DEFINE m == Len(all) - 1
    <3>1. m \in Nat /\ n = m \div PacketChunks
      BY <1>2, <2>2 DEF Flushes, all
    <3>2. PacketChunks \in Nat /\ PacketChunks > 0
      BY Sizes
    <3>3. /\ m \div PacketChunks \in Nat /\ (m \div PacketChunks) * PacketChunks \in Nat
          /\ (m \div PacketChunks) * PacketChunks <= m
          /\ m < (m \div PacketChunks) * PacketChunks + PacketChunks
      <4> HIDE DEF m
      <4>1. QED
        BY <3>1, <3>2
    <3>4. Len(all) \in Nat
      BY <1>2
    <3>5. n \in Nat /\ n * PacketChunks \in Nat /\ n * PacketChunks <= m
          /\ m < n * PacketChunks + PacketChunks
      BY <3>1, <3>3
    <3>6. QED
      BY <3>2, <3>4, <3>5
  <2>3. QED
    BY <2>1, <2>2
<1>4. r = SubSeq(all, n * PacketChunks + 1, Len(all))
  BY DEF Remaining, all
<1> HIDE DEF r
<1>5. /\ r \in Seq(Chunk) /\ Len(r) = Len(all) - n * PacketChunks
      /\ \A i \in 1 .. Len(r) : r[i] = all[i + n * PacketChunks]
  <2> DEFINE k == n * PacketChunks
  <2>1. k \in Nat /\ k <= Len(all) /\ r = SubSeq(all, k + 1, Len(all))
    BY <1>3, <1>4
  <2> HIDE DEF k, n
  <2>2. \A i \in k + 1 .. Len(all) : i \in 1 .. Len(all)
    BY <1>2, <2>1
  <2>3. r \in Seq(Chunk) /\ Len(r) = Len(all) - k
    BY <1>2, <2>1, <2>2
  <2>4. \A i \in 1 .. Len(r) : r[i] = all[i + k]
    BY <1>2, <2>1, <2>3
  <2>5. QED
    BY <2>3, <2>4 DEF k
<1>6. /\ Len(r) <= PacketChunks /\ Len(r) <= Len(all)
      /\ \A i \in 1 .. Len(r) : r[i] = all[i + (Len(all) - Len(r))]
  <2> DEFINE k == n * PacketChunks
  <2>1. k \in Nat /\ Len(all) \in Nat /\ k <= Len(all) /\ Len(all) - k <= PacketChunks
        /\ Len(r) = Len(all) - k /\ \A i \in 1 .. Len(r) : r[i] = all[i + k]
    BY <1>3, <1>5
  <2> HIDE DEF k, n
  <2>2. Len(all) - Len(r) = k
    BY <2>1
  <2>3. QED
    BY <2>1, <2>2
<1>7. ASSUME NEW p \in Flushed(e, more), NEW i \in 1 .. Len(p.chunks)
      PROVE  \E j \in 1 .. Len(all) : p.chunks[i] = all[j]
  <2>1. PICK q \in 1 .. n : p.chunks = SubSeq(all, (q - 1) * PacketChunks + 1,
                                              q * PacketChunks)
    BY <1>7 DEF Flushed, PacketOf, all
  <2>2. Len(all) - 1 \in Nat /\ n = (Len(all) - 1) \div PacketChunks
    <3>1. all # << >>
      BY <2>1 DEF Flushes, all
    <3>2. QED
      BY <1>2, <3>1 DEF Flushes, all
  <2>3. q \in Nat \ {0} /\ q <= n
    BY <1>3, <2>1
  <2>4. /\ q * PacketChunks \in Nat /\ (q - 1) * PacketChunks \in Nat
        /\ q * PacketChunks <= Len(all) - 1
    BY <1>3, <2>2, <2>3, Products
  <2> DEFINE a == (q - 1) * PacketChunks
             b == q * PacketChunks
  <2>5. a \in Nat /\ b \in Nat /\ b <= Len(all) /\ p.chunks = SubSeq(all, a + 1, b)
    BY <1>2, <2>1, <2>4
  <2> HIDE DEF a, b
  <2>6. Len(p.chunks) = IF a + 1 <= b THEN b - a ELSE 0
    BY <2>5
  <2>7. i \in Nat /\ 1 <= i /\ i <= b - a
    BY <1>7, <2>5, <2>6
  <2>8. i + a \in 1 .. Len(all) /\ (a + 1) + i - 1 = i + a /\ i \in 1 .. b - (a + 1) + 1
    BY <1>2, <2>5, <2>7
  <2>9. SubSeq(all, a + 1, b)[i] = all[(a + 1) + i - 1]
    BY <1>2, <2>5, <2>8
  <2>10. QED
    BY <2>5, <2>8, <2>9
<1>8. QED
  BY <1>1, <1>2, <1>5, <1>6, <1>7 DEF g, all, r

(* How much later than a chunk the last chunk queued may be, from the place*)
(* of the chunk in the construct.                                          *)
LEMMA PackedRight ==
  ASSUME TypeOK, NEW e \in Ends, NEW more \in Seq(Chunk), NEW n \in Nat,
         \A i \in 1 .. Len(construct[e].chunks) :
           LET c == construct[e].chunks[i]
           IN /\ Stamped(c, n)
              /\ n < c.data + BufferSlots
                       + ((Len(construct[e].chunks) + Len(more)) - i),
         \A i \in 1 .. Len(more) :
           Stamped(more[i], n) /\ n < more[i].data + BufferSlots + (Len(more) - i)
  PROVE  LET r == Remaining(e, more).chunks
         IN /\ Len(r) <= PacketChunks
            /\ \A i \in 1 .. Len(r) :
                 Stamped(r[i], n) /\ n < r[i].data + BufferSlots + (Len(r) - i)
            /\ \A p \in Flushed(e, more) : \A i \in 1 .. Len(p.chunks) :
                 /\ Stamped(p.chunks[i], n)
                 /\ \/ \E j \in 1 .. Len(construct[e].chunks) :
                         p.chunks[i] = construct[e].chunks[j]
                    \/ \E j \in 1 .. Len(more) : p.chunks[i] = more[j]
<1> DEFINE g == construct[e].chunks
           all == All(e, more)
           r == Remaining(e, more).chunks
<1>1. /\ g \in Seq(Chunk) /\ all \in Seq(Chunk) /\ r \in Seq(Chunk)
      /\ Len(all) = Len(g) + Len(more)
      /\ \A j \in 1 .. Len(g) : all[j] = g[j]
      /\ \A j \in 1 .. Len(more) : all[Len(g) + j] = more[j]
      /\ Len(r) <= PacketChunks /\ Len(r) <= Len(all)
      /\ \A i \in 1 .. Len(r) : r[i] = all[i + (Len(all) - Len(r))]
      /\ \A p \in Flushed(e, more) : \A i \in 1 .. Len(p.chunks) :
           \E j \in 1 .. Len(all) : p.chunks[i] = all[j]
  BY Packing
<1>2. Len(g) \in Nat /\ Len(more) \in Nat /\ Len(all) \in Nat /\ Len(r) \in Nat
  BY <1>1
<1> HIDE DEF g, all, r
<1>3. ASSUME NEW j \in 1 .. Len(all)
      PROVE  /\ Stamped(all[j], n) /\ all[j].data \in Nat
             /\ n < all[j].data + BufferSlots + (Len(all) - j)
             /\ \/ \E k \in 1 .. Len(g) : all[j] = g[k]
                \/ \E k \in 1 .. Len(more) : all[j] = more[k]
  <2>1. CASE j <= Len(g)
    <3>1. j \in 1 .. Len(g) /\ all[j] = g[j]
      BY <1>1, <1>2, <2>1
    <3>2. /\ Stamped(g[j], n)
          /\ n < g[j].data + BufferSlots + ((Len(g) + Len(more)) - j)
      BY <3>1 DEF g
    <3>3. g[j].data \in Nat
      BY <3>2 DEF Stamped
    <3>4. QED
      BY <1>1, <3>1, <3>2, <3>3
  <2>2. CASE j > Len(g)
    <3> DEFINE k == j - Len(g)
    <3>1. k \in 1 .. Len(more) /\ Len(g) + k = j /\ Len(more) - k = Len(all) - j
      BY <1>1, <1>2, <2>2
    <3>2. all[j] = more[k]
      BY <1>1, <3>1
    <3>3. Stamped(more[k], n) /\ n < more[k].data + BufferSlots + (Len(more) - k)
      BY <3>1
    <3>4. more[k].data \in Nat
      BY <3>3 DEF Stamped
    <3> HIDE DEF k
    <3>5. QED
      BY <3>1, <3>2, <3>3, <3>4
  <2>3. QED
    BY <1>2, <2>1, <2>2
<1>4. ASSUME NEW i \in 1 .. Len(r)
      PROVE  Stamped(r[i], n) /\ n < r[i].data + BufferSlots + (Len(r) - i)
  <2> DEFINE j == i + (Len(all) - Len(r))
  <2>1. j \in 1 .. Len(all) /\ Len(all) - j = Len(r) - i /\ r[i] = all[j]
    BY <1>1, <1>2
  <2> HIDE DEF j
  <2>2. QED
    BY <1>3, <2>1
<1>5. ASSUME NEW p \in Flushed(e, more), NEW i \in 1 .. Len(p.chunks)
      PROVE  /\ Stamped(p.chunks[i], n)
             /\ \/ \E j \in 1 .. Len(g) : p.chunks[i] = g[j]
                \/ \E j \in 1 .. Len(more) : p.chunks[i] = more[j]
  <2>1. PICK j \in 1 .. Len(all) : p.chunks[i] = all[j]
    BY <1>1
  <2>2. QED
    BY <1>3, <2>1
<1>6. QED
  BY <1>1, <1>4, <1>5 DEF g, r

(* What a step must do to the network to keep the chunks timely.           *)
LEMMA TravelStays ==
  ASSUME TypeOK, ChunkInv,
         \A f \in Ends : sent'[f] \in Nat /\ sent[f] <= sent'[f],
         \A f \in Ends : \A p \in network'[f] :
           \/ /\ p \in network[f]
              /\ sent'[Peer(f)] = sent[Peer(f)]
           \/ /\ p \in network[f]
              /\ \A i \in 1 .. Len(p.chunks) :
                   sent'[Peer(f)] < p.chunks[i].data + MaxSequence - 1
           \/ \A i \in 1 .. Len(p.chunks) : Timely(p.chunks[i], sent'[Peer(f)])
  PROVE  \A f \in Ends : Travelling(f)'
<1>1. ASSUME NEW f \in Ends, NEW p \in network'[f], NEW i \in 1 .. Len(p.chunks)
      PROVE  Timely(p.chunks[i], sent'[Peer(f)])
  <2>1. CASE p \in network[f]
    <3>1. Timely(p.chunks[i], sent[Peer(f)])
      BY <2>1 DEF ChunkInv, Travelling
    <3>2. /\ sent[Peer(f)] \in Nat /\ sent'[Peer(f)] \in Nat /\ sent[Peer(f)] <= sent'[Peer(f)]
      BY PeerFacts, Numbers
    <3>3. Stamped(p.chunks[i], sent'[Peer(f)])
      BY <3>1, <3>2 DEF Timely, Stamped
    <3>4. QED
      BY <2>1, <3>1, <3>3 DEF Timely
  <2>2. CASE p \notin network[f]
    BY <2>2
  <2>3. QED
    BY <2>1, <2>2
<1>2. QED
  BY <1>1 DEF Travelling

LEMMA AfterIn ==
  ASSUME NEW net \in [Ends -> SUBSET Packet], NEW e \in Ends, NEW P, P \subseteq Packet,
         NEW after \in After(net, e, P)
  PROVE  /\ after[e] = net[e]
         /\ \A p \in after[Peer(e)] : p \in net[Peer(e)] \/ p \in P
<1>1. PICK S \in SUBSET P : after = [net EXCEPT ![Peer(e)] = net[Peer(e)] \cup S]
  BY DEF After
<1>2. QED
  BY <1>1, PeerFacts

(* A step of one end that queues nothing and that its application does not *)
(* see.                                                                    *)
LEMMA ChunksKept ==
  ASSUME TypeOK, ChunkInv, NEW e \in Ends, UNCHANGED <<sent, got>>,
         \A f \in Ends \ {e} : construct'[f] = construct[f],
         Gathered(e)',
         \A f \in Ends : Unpacked(f)',
         \A f \in Ends : \A p \in network'[f] :
           \/ p \in network[f]
           \/ \A i \in 1 .. Len(p.chunks) : Timely(p.chunks[i], sent[Peer(f)])
  PROVE  ChunkInv'
<1>1. \A f \in Ends : Travelling(f)'
  <2>1. \A f \in Ends : sent'[f] \in Nat /\ sent[f] <= sent'[f]
    BY Numbers
  <2>2. QED
    BY <2>1, TravelStays
<1>2. \A f \in Ends : Gathered(f)'
  <2>1. ASSUME NEW f \in Ends, f # e PROVE Gathered(f)'
    BY <2>1 DEF ChunkInv, Gathered, Stamped
  <2>2. QED
    BY <2>1
<1>3. \A f \in Ends : Received(f)'
  BY DEF ChunkInv, Received
<1>4. QED
  BY <1>1, <1>2, <1>3 DEF ChunkInv

(* The chunks of the buffer, which are resent, are not late.               *)
LEMMA BufferTimely ==
  ASSUME NetInv, NEW e \in Ends, Online(e), NEW k \in 1 .. Len(buffer[e])
  PROVE  Stamped(buffer[e][k], sent[e]) /\ sent[e] < buffer[e][k].data + BufferSlots
<1> DEFINE b == buffer[e]
<1>1. /\ Base(e) \in Nat /\ Base(e) = sent[e] - Len(b)
      /\ b[k].data = Base(e) + k /\ b[k].seq = (Base(e) + k) % MaxSequence
  BY DEF NetInv, Kept, Window, Base
<1>2. /\ sent[e] \in Nat /\ Len(b) \in Nat /\ Len(b) <= BufferSlots /\ BufferSlots \in Nat
      /\ k \in Nat /\ 1 <= k /\ k <= Len(b)
  BY Numbers, Sizes DEF NetInv
<1> DEFINE d == b[k].data
           a == Base(e)
<1>3. a \in Nat /\ a = sent[e] - Len(b) /\ d = a + k
  BY <1>1
<1> HIDE DEF a, d, b
<1>4. d \in 1 .. sent[e] /\ sent[e] < d + BufferSlots
  BY <1>2, <1>3
<1>5. QED
  BY <1>1, <1>4 DEF Stamped, d, b

LEMMA ConstructLength ==
  ASSUME TypeOK, NEW e \in Ends
  PROVE  construct[e].chunks \in Seq(Chunk) /\ Len(construct[e].chunks) \in Nat
BY DEF TypeOK

LEMMA ConstructTimely ==
  ASSUME TypeOK, ChunkInv, BufferSlots + PacketChunks <= MaxSequence, NEW e \in Ends,
         NEW i \in 1 .. Len(construct[e].chunks)
  PROVE  Timely(construct[e].chunks[i], sent[e])
<1> DEFINE g == construct[e].chunks
           d == g[i].data
<1>1. /\ Len(g) <= PacketChunks /\ Stamped(g[i], sent[e])
      /\ sent[e] < d + BufferSlots + (Len(g) - i)
  BY DEF ChunkInv, Gathered
<1>2. /\ Len(g) \in Nat /\ i \in Nat /\ 1 <= i /\ d \in Nat /\ sent[e] \in Nat
      /\ BufferSlots \in Nat /\ PacketChunks \in Nat /\ MaxSequence \in Nat
  <2>1. Len(g) \in Nat
    BY ConstructLength
  <2>2. i \in Nat /\ 1 <= i
    BY <2>1
  <2>3. d \in Nat
    BY <1>1 DEF Stamped
  <2>4. QED
    BY <2>1, <2>2, <2>3, Sizes, Numbers
<1>3. sent[e] < d + MaxSequence - 1
  <2> HIDE DEF d, g
  <2>1. QED
    BY <1>1, <1>2
<1>4. QED
  BY <1>1, <1>3 DEF Timely

(* Chunks of the buffer are queued a second time.                          *)
LEMMA ResendPart ==
  ASSUME NetInv, ChunkInv, BufferSlots + PacketChunks <= MaxSequence,
         NEW e \in Ends, Online(e), NEW more \in Seq(Chunk),
         \A i \in 1 .. Len(more) : \E k \in 1 .. Len(buffer[e]) : more[i] = buffer[e][k],
         sent'[e] = sent[e], construct'[e] = Remaining(e, more)
  PROVE  /\ Gathered(e)'
         /\ \A p \in Flushed(e, more) : \A i \in 1 .. Len(p.chunks) :
              Timely(p.chunks[i], sent[e])
<1> DEFINE g == construct[e].chunks
           n == sent[e]
<1>1. /\ TypeOK /\ n \in Nat /\ Len(more) \in Nat /\ g \in Seq(Chunk) /\ Len(g) \in Nat
      /\ BufferSlots \in Nat /\ PacketChunks \in Nat /\ MaxSequence \in Nat
      /\ PacketChunks >= 1
  <2>1. TypeOK
    BY DEF NetInv
  <2>2. PacketChunks \in Nat /\ PacketChunks >= 1 /\ Len(more) \in Nat
    BY Sizes
  <2>3. QED
    BY <2>1, <2>2, ConstructLength, Numbers, Sizes
<1>2. ASSUME NEW i \in 1 .. Len(more)
      PROVE  /\ Stamped(more[i], n) /\ n < more[i].data + BufferSlots + (Len(more) - i)
             /\ Timely(more[i], n)
  <2>1. PICK k \in 1 .. Len(buffer[e]) : more[i] = buffer[e][k]
    OBVIOUS
  <2>2. Stamped(more[i], n) /\ n < more[i].data + BufferSlots
    BY <2>1, BufferTimely
  <2> DEFINE d == more[i].data
  <2>3. d \in Nat /\ n < d + BufferSlots /\ i \in Nat /\ i <= Len(more)
    BY <1>1, <2>2 DEF Stamped
  <2> HIDE DEF d, n
  <2>4. n < d + BufferSlots + (Len(more) - i) /\ n < d + MaxSequence - 1
    BY <1>1, <2>3
  <2>5. QED
    BY <2>2, <2>4 DEF d, n, Timely
<1>3. ASSUME NEW i \in 1 .. Len(g)
      PROVE  Stamped(g[i], n) /\ n < g[i].data + BufferSlots + ((Len(g) + Len(more)) - i)
  <2>1. Stamped(g[i], n) /\ n < g[i].data + BufferSlots + (Len(g) - i)
    BY DEF ChunkInv, Gathered
  <2> DEFINE d == g[i].data
  <2>2. d \in Nat /\ n < d + BufferSlots + (Len(g) - i) /\ i \in Nat
    BY <2>1 DEF Stamped
  <2> HIDE DEF d, n, g
  <2>3. n < d + BufferSlots + ((Len(g) + Len(more)) - i)
    BY <1>1, <2>2
  <2>4. QED
    BY <2>1, <2>3 DEF d, n, g
<1> DEFINE r == Remaining(e, more).chunks
<1>4. /\ Len(r) <= PacketChunks
      /\ \A i \in 1 .. Len(r) :
           Stamped(r[i], n) /\ n < r[i].data + BufferSlots + (Len(r) - i)
      /\ \A p \in Flushed(e, more) : \A i \in 1 .. Len(p.chunks) :
           \/ \E j \in 1 .. Len(g) : p.chunks[i] = g[j]
           \/ \E j \in 1 .. Len(more) : p.chunks[i] = more[j]
  BY <1>1, <1>2, <1>3, PackedRight
<1>5. \A j \in 1 .. Len(g) : Timely(g[j], n)
  BY <1>1, ConstructTimely
<1>6. \A p \in Flushed(e, more) : \A i \in 1 .. Len(p.chunks) : Timely(p.chunks[i], n)
  BY <1>2, <1>4, <1>5
<1>7. Gathered(e)'
  BY <1>4 DEF Gathered, Stamped
<1>8. QED
  BY <1>6, <1>7

LEMMA UnpackedStays ==
  ASSUME ChunkInv, UNCHANGED <<unpack, sent, got>>
  PROVE  \A f \in Ends : Unpacked(f)'
BY DEF ChunkInv, Unpacked, Stamped

LEMMA EmptyGathered ==
  ASSUME NEW e \in Ends, construct'[e] = EmptyConstruct
  PROVE  Gathered(e)'
<1>1. construct'[e].chunks = << >> /\ Len(<< >>) = 0 /\ 0 <= PacketChunks
  BY Sizes DEF EmptyConstruct
<1>2. QED
  BY <1>1 DEF Gathered

LEMMA SendChunks ==
  ASSUME NetInv, ChunkInv, BufferSlots + PacketChunks <= MaxSequence,
         NEW e \in Ends, Flush(e) \/ ResendFirst(e) \/ KeepAlive(e)
  PROVE  ChunkInv'
<1>1. /\ TypeOK /\ Online(e) /\ UNCHANGED <<unpack, sent, got>>
      /\ construct \in [Ends -> Constructs] /\ network \in [Ends -> SUBSET Packet]
  BY ConstructTyped DEF NetInv, Flush, ResendFirst, KeepAlive
<1>2. PICK P : /\ \A p \in P : Sent(e, p)
               /\ \A p \in P : \A i \in 1 .. Len(p.chunks) : Timely(p.chunks[i], sent[e])
               /\ network' \in After(network, e, P)
               /\ \A f \in Ends \ {e} : construct'[f] = construct[f]
               /\ Gathered(e)'
  <2>1. CASE Flush(e)
    <3>1. /\ network' \in After(network, e, {PacketOf(e, construct[e])})
          /\ construct' = [construct EXCEPT ![e] = EmptyConstruct]
      BY <2>1 DEF Flush
    <3>2. Sent(e, PacketOf(e, construct[e]))
      BY <1>1, PacketSent
    <3>3. PacketOf(e, construct[e]).chunks = construct[e].chunks
      BY DEF PacketOf
    <3>4. Gathered(e)'
      BY <1>1, <3>1, EmptyGathered
    <3>5. \A p \in {PacketOf(e, construct[e])} : \A i \in 1 .. Len(p.chunks) :
            Timely(p.chunks[i], sent[e])
      BY <1>1, <3>3, ConstructTimely
    <3>6. \A f \in Ends \ {e} : construct'[f] = construct[f]
      BY <1>1, <3>1
    <3>7. QED
      BY <3>1, <3>2, <3>4, <3>5, <3>6
  <2>2. CASE ResendFirst(e)
    <3> DEFINE more == <<Head(buffer[e])>>
    <3>1. /\ network' \in After(network, e, Flushed(e, more))
          /\ construct' = [construct EXCEPT ![e] = Remaining(e, more)]
          /\ buffer[e] \in Seq(Chunk) /\ buffer[e] # << >>
      BY <1>1, <2>2, Numbers DEF ResendFirst
    <3>2. more \in Seq(Chunk) /\ 1 \in 1 .. Len(buffer[e])
          /\ \A i \in 1 .. Len(more) : more[i] = buffer[e][1]
      BY <3>1
    <3>3. \A i \in 1 .. Len(more) : \E k \in 1 .. Len(buffer[e]) : more[i] = buffer[e][k]
      BY <3>2
    <3> HIDE DEF more
    <3>4. construct'[e] = Remaining(e, more)
          /\ \A f \in Ends \ {e} : construct'[f] = construct[f]
      BY <1>1, <3>1
    <3>5. /\ Gathered(e)'
          /\ \A p \in Flushed(e, more) : \A i \in 1 .. Len(p.chunks) :
               Timely(p.chunks[i], sent[e])
      BY <1>1, <3>2, <3>3, <3>4, ResendPart
    <3>6. \A p \in Flushed(e, more) : Sent(e, p)
      BY <1>1, <3>2, Queued
    <3>7. QED
      BY <3>1, <3>4, <3>5, <3>6
  <2>3. CASE KeepAlive(e)
    <3>1. /\ network' \in After(network, e, {PacketOf(e, EmptyConstruct)})
          /\ construct[e] = EmptyConstruct /\ construct' = construct
      BY <2>3 DEF KeepAlive
    <3>2. Sent(e, PacketOf(e, EmptyConstruct))
      BY <1>1, <3>1, PacketSent
    <3>3. PacketOf(e, EmptyConstruct).chunks = << >>
      BY DEF PacketOf, EmptyConstruct
    <3>4. Gathered(e)'
      BY <3>1, EmptyGathered
    <3>5. \A p \in {PacketOf(e, EmptyConstruct)} : \A i \in 1 .. Len(p.chunks) :
            Timely(p.chunks[i], sent[e])
      BY <3>3
    <3>6. QED
      BY <3>1, <3>2, <3>4, <3>5
  <2>4. QED
    BY <2>1, <2>2, <2>3
<1>3. P \subseteq Packet
  BY <1>2 DEF Sent
<1>4. network'[e] = network[e] /\ \A p \in network'[Peer(e)] : p \in network[Peer(e)] \/ p \in P
  BY <1>1, <1>2, <1>3, AfterIn
<1>5. \A f \in Ends : \A p \in network'[f] :
        \/ p \in network[f]
        \/ \A i \in 1 .. Len(p.chunks) : Timely(p.chunks[i], sent[Peer(f)])
  BY <1>2, <1>4, PeerFacts
<1>6. QED
  BY <1>1, <1>2, <1>5, UnpackedStays, ChunksKept

LEMMA QueueChunks ==
  ASSUME NetInv, NetInv', ChunkInv, ~Overflows, NEW e \in Ends, QueueChunk(e)
  PROVE  ChunkInv'
<1> DEFINE next == (sequence[e] + 1) % MaxSequence
           n == sent[e] + 1
           chunk == [seq |-> next, data |-> n]
           aged == [sent EXCEPT ![e] = @ + 1]
           g == construct[e].chunks
<1>1. /\ TypeOK /\ Online(e) /\ Kept(e) /\ sent' = aged
      /\ construct' = [construct EXCEPT ![e] = Remaining(e, <<chunk>>)]
      /\ UNCHANGED <<state, unpack, got>>
  BY DEF QueueChunk, NetInv
<1>2. PICK net \in After(network, e, Flushed(e, <<chunk>>)) :
        network' = [f \in Ends |-> {p \in net[f] : Fresh(f, p, aged)}]
  BY DEF QueueChunk
<1>3. /\ sent[e] \in Nat /\ n \in Nat \ {0} /\ next = n % MaxSequence
      /\ next \in 0 .. MaxSequence - 1
  <2>1. sent[e] \in Nat /\ sequence[e] = sent[e] % MaxSequence
    BY <1>1, Numbers DEF Kept, Window
  <2>2. next = (sent[e] + 1) % MaxSequence
    BY <2>1, NextResidue
  <2>3. n \in Nat \ {0}
    BY <2>1
  <2>4. QED
    BY <2>1, <2>2, <2>3, Quotient
<1>4. chunk \in Chunk /\ <<chunk>> \in Seq(Chunk)
  BY <1>3 DEF Chunk
<1>5. /\ sent'[e] = n /\ \A f \in Ends \ {e} : sent'[f] = sent[f]
      /\ construct'[e] = Remaining(e, <<chunk>>)
      /\ \A f \in Ends \ {e} : construct'[f] = construct[f]
  BY <1>1, ConstructTyped DEF TypeOK
<1>6. Stamped(chunk, n)
  BY <1>3 DEF Stamped
<1> HIDE DEF next, n, chunk, aged
<1>7. \A f \in Ends : sent'[f] \in Nat /\ sent[f] \in Nat /\ sent[f] <= sent'[f]
  <2>1. sent'[e] \in Nat /\ sent[e] \in Nat /\ sent[e] <= sent'[e]
    BY <1>3, <1>5 DEF n
  <2>2. ASSUME NEW f \in Ends, f # e
        PROVE  sent'[f] \in Nat /\ sent[f] \in Nat /\ sent[f] <= sent'[f]
    <3>1. sent[f] \in Nat /\ sent'[f] = sent[f]
      BY <1>1, <1>5, <2>2, Numbers
    <3>2. QED
      BY <3>1
  <2>3. QED
    BY <2>1, <2>2
<1> DEFINE more == <<chunk>>
           r == Remaining(e, more).chunks
<1>8. more \in Seq(Chunk) /\ Len(more) = 1 /\ more[1] = chunk
  BY <1>4
<1> HIDE DEF more
<1>9. /\ Len(r) <= PacketChunks
      /\ \A i \in 1 .. Len(r) :
           Stamped(r[i], n) /\ n < r[i].data + BufferSlots + (Len(r) - i)
      /\ \A p \in Flushed(e, more) : \A i \in 1 .. Len(p.chunks) : Stamped(p.chunks[i], n)
  <2>1. ASSUME NEW i \in 1 .. Len(g)
        PROVE  Stamped(g[i], n) /\ n < g[i].data + BufferSlots + ((Len(g) + Len(more)) - i)
    <3>1. Stamped(g[i], sent[e]) /\ sent[e] < g[i].data + BufferSlots + (Len(g) - i)
      BY DEF ChunkInv, Gathered
    <3>2. Len(g) \in Nat /\ BufferSlots \in Nat
      BY <1>1, ConstructLength, Sizes
    <3> DEFINE d == g[i].data
    <3>3. d \in Nat /\ 1 <= d /\ d <= sent[e] /\ g[i].seq = d % MaxSequence /\ i \in Nat
          /\ sent[e] < d + BufferSlots + (Len(g) - i)
      BY <1>3, <3>1, <3>2 DEF Stamped
    <3> HIDE DEF d, g
    <3>4. d \in 1 .. n /\ n < d + BufferSlots + ((Len(g) + Len(more)) - i)
      BY <1>3, <1>8, <3>2, <3>3 DEF n
    <3>5. QED
      BY <3>3, <3>4 DEF d, Stamped
  <2>2. ASSUME NEW i \in 1 .. Len(more)
        PROVE  Stamped(more[i], n) /\ n < more[i].data + BufferSlots + (Len(more) - i)
    <3>1. i = 1 /\ more[i] = chunk
      BY <1>8
    <3>2. chunk.data = n
      BY DEF chunk
    <3>3. BufferSlots \in Nat /\ BufferSlots > 0
      BY SlotsAssumption
    <3>4. n < n + BufferSlots + (1 - 1)
      BY <1>3, <3>3
    <3>5. QED
      BY <1>6, <1>8, <3>1, <3>2, <3>4
  <2>3. n \in Nat
    BY <1>3
  <2>4. QED
    BY <1>1, <1>8, <2>1, <2>2, <2>3, PackedRight
<1>10. \A f \in Ends : Gathered(f)'
  <2>1. Gathered(e)'
    BY <1>5, <1>9 DEF Gathered, Stamped, more
  <2>2. ASSUME NEW f \in Ends, f # e PROVE Gathered(f)'
    BY <1>5, <2>2 DEF ChunkInv, Gathered, Stamped
  <2>3. QED
    BY <2>1, <2>2
<1>11. \A f \in Ends : Travelling(f)'
  <2>1. Flushed(e, more) \subseteq Packet
    BY <1>1, <1>8, Queued DEF Sent
  <2>2. /\ net[e] = network[e]
        /\ \A p \in net[Peer(e)] : p \in network[Peer(e)] \/ p \in Flushed(e, more)
    BY <1>1, <1>2, <2>1, ConstructTyped, AfterIn DEF more
  <2>3. ASSUME NEW f \in Ends, NEW p \in network'[f]
        PROVE  \/ /\ p \in network[f]
                  /\ \A i \in 1 .. Len(p.chunks) :
                       sent'[Peer(f)] < p.chunks[i].data + MaxSequence - 1
               \/ \A i \in 1 .. Len(p.chunks) : Timely(p.chunks[i], sent'[Peer(f)])
    <3>1. p \in net[f] /\ Fresh(f, p, aged)
      BY <1>2
    <3>2. p \in Packet
      BY <2>1, <2>2, <3>1, <1>1, PeerFacts, ConstructTyped
    <3>3. \A i \in 1 .. Len(p.chunks) : sent'[Peer(f)] < p.chunks[i].data + MaxSequence - 1
      BY <1>1, <3>1, <3>2 DEF Fresh, Packet
    <3>4. CASE p \in network[f]
      BY <3>3, <3>4
    <3>5. CASE p \notin network[f]
      <4>1. f = Peer(e) /\ Peer(f) = e /\ p \in Flushed(e, more)
        BY <2>2, <3>1, <3>5, PeerFacts
      <4>2. QED
        BY <1>5, <1>9, <3>3, <4>1 DEF Timely
    <3>6. QED
      BY <3>4, <3>5
  <2>4. QED
    BY <1>1, <1>7, <2>3, TravelStays
<1>12. \A f \in Ends : Unpacked(f)'
  <2>1. ASSUME NEW f \in Ends, NEW c, Stamped(c, sent[Peer(f)])
        PROVE  Stamped(c, sent'[Peer(f)])
    <3>1. sent'[Peer(f)] \in Nat /\ sent[Peer(f)] \in Nat /\ sent[Peer(f)] <= sent'[Peer(f)]
      BY <1>7, PeerFacts
    <3>2. QED
      BY <2>1, <3>1 DEF Stamped
  <2>2. QED
    BY <1>1, <2>1 DEF ChunkInv, Unpacked
<1>13. \A f \in Ends : Received(f)'
  <2>1. ASSUME NEW f \in Ends PROVE Received(f)'
    <3>1. /\ \A i \in 1 .. Len(got[f]) : got[f][i] = i
          /\ Len(got[f]) <= sent[Peer(f)] /\ sent[Peer(f)] <= Len(got[f]) + BufferSlots
          /\ Len(got[f]) \in Nat /\ got' = got /\ BufferSlots \in Nat
      BY <1>1, Numbers, Sizes DEF ChunkInv, Received
    <3>2. /\ sent'[Peer(f)] \in Nat /\ sent[Peer(f)] \in Nat
          /\ sent[Peer(f)] <= sent'[Peer(f)]
      BY <1>7, PeerFacts
    <3>3. sent'[Peer(f)] <= Len(got[f]) + BufferSlots
      <4>1. CASE f = e
        <5>1. sent'[Peer(f)] = sent[Peer(f)]
          BY <1>5, <4>1, PeerFacts
        <5>2. QED
          BY <3>1, <5>1
      <4>2. CASE f # e
        <5>1. f = Peer(e) /\ Peer(f) = e
          BY <4>2, PeerFacts
        <5>2. Online(e)'
          BY <1>1 DEF Online
        <5>3. Base(e)' \in Nat /\ Base(e)' <= Len(got[f])
          BY <1>1, <5>1, <5>2 DEF NetInv, Kept, Window
        <5>4. Base(e)' = sent'[e] - Len(buffer'[e])
          BY DEF Base
        <5>5. Len(buffer'[e]) \in Nat /\ Len(buffer'[e]) <= BufferSlots
          BY DEF NetInv, TypeOK
        <5>6. sent'[e] <= Len(got[f]) + BufferSlots
          BY <3>1, <3>2, <5>1, <5>3, <5>4, <5>5
        <5>7. QED
          BY <5>1, <5>6
      <4>3. QED
        BY <4>1, <4>2
    <3>4. Len(got[f]) <= sent'[Peer(f)]
      BY <3>1, <3>2
    <3>5. QED
      BY <3>1, <3>3, <3>4 DEF Received
  <2>2. QED
    BY <2>1
<1>14. QED
  BY <1>10, <1>11, <1>12, <1>13 DEF ChunkInv

(* Packets leave the network or stay on it.                                *)
LEMMA FewerPackets ==
  ASSUME NetInv, ChunkInv, NEW e \in Ends, UNCHANGED <<unpack, sent, got>>,
         \A f \in Ends \ {e} : construct'[f] = construct[f],
         construct'[e] = construct[e] \/ construct'[e] = EmptyConstruct,
         \A f \in Ends : \A p \in network'[f] : p \in network[f] \/ p.chunks = << >>
  PROVE  ChunkInv'
<1>1. Gathered(e)'
  <2>1. CASE construct'[e] = construct[e]
    BY <2>1 DEF ChunkInv, Gathered, Stamped
  <2>2. CASE construct'[e] = EmptyConstruct
    BY <2>2, EmptyGathered
  <2>3. QED
    BY <2>1, <2>2
<1>2. \A f \in Ends : \A p \in network'[f] :
        \/ p \in network[f]
        \/ \A i \in 1 .. Len(p.chunks) : Timely(p.chunks[i], sent[Peer(f)])
  <2>1. 1 .. Len(<< >>) = {}
    OBVIOUS
  <2>2. QED
    BY <2>1
<1>3. TypeOK
  BY DEF NetInv
<1>4. QED
  BY <1>1, <1>2, <1>3, UnpackedStays, ChunksKept

LEMMA EndChunks ==
  ASSUME NetInv, ChunkInv, NEW e \in Ends, Disconnect(e) \/ Timeout(e) \/ Closed(e)
  PROVE  ChunkInv'
<1>1. TypeOK /\ Reset(e) /\ UNCHANGED <<unpack, sent, got>>
  BY DEF NetInv, Disconnect, Timeout, Closed, Reset
<1>2. /\ construct'[e] = EmptyConstruct
      /\ \A f \in Ends \ {e} : construct'[f] = construct[f]
  BY <1>1, ConstructTyped DEF Reset
<1>3. \A f \in Ends : \A p \in network'[f] : p \in network[f] \/ p.chunks = << >>
  <2>1. CASE Disconnect(e)
    <3> DEFINE close == ClosePacket(e)
    <3>1. Sent(e, close) /\ network' \in After(network, e, {close})
      BY <1>1, <2>1, CloseSent DEF Disconnect
    <3>2. close.chunks = << >>
      BY DEF ClosePacket, PacketOf, EmptyConstruct
    <3>3. {close} \subseteq Packet /\ network \in [Ends -> SUBSET Packet]
      BY <1>1, <3>1, ConstructTyped DEF Sent
    <3> HIDE DEF close
    <3>4. /\ network'[e] = network[e]
          /\ \A p \in network'[Peer(e)] : p \in network[Peer(e)] \/ p \in {close}
      BY <3>1, <3>3, AfterIn
    <3>5. QED
      BY <3>2, <3>4, PeerFacts
  <2>2. CASE Timeout(e) \/ Closed(e)
    BY <2>2 DEF Timeout, Closed
  <2>3. QED
    BY <2>1, <2>2
<1>4. QED
  BY <1>1, <1>2, <1>3, FewerPackets

LEMMA LoseChunks ==
  ASSUME NetInv, ChunkInv, NEW e \in Ends, NEW p \in network[e], NEW last \in BOOLEAN,
         Lose(e, p) \/ FeedInvalid(e, p, last) \/ FeedClose(e, p, last)
  PROVE  ChunkInv'
<1>1. network \in [Ends -> SUBSET Packet]
  BY ConstructTyped DEF NetInv
<1>2. network' = network \/ network' = [network EXCEPT ![e] = @ \ {p}]
  BY DEF Lose, FeedInvalid, FeedClose, Arrival
<1>3. \A f \in Ends : network'[f] \subseteq network[f]
  BY <1>1, <1>2
<1>4. UNCHANGED <<unpack, sent, got, construct>>
  BY DEF Lose, FeedInvalid, FeedClose
<1>5. QED
  BY <1>3, <1>4, FewerPackets

LEMMA FeedChunksPart ==
  ASSUME NetInv, ChunkInv, BufferSlots + PacketChunks <= MaxSequence,
         NEW e \in Ends, Online(e), NEW p \in network[e], NEW last \in BOOLEAN,
         FeedChunks(e, p, last)
  PROVE  ChunkInv'
<1> DEFINE resends == IF p.resend THEN buffer[e] ELSE << >>
           net == Arrival(e, p, last)
<1>1. /\ TypeOK /\ p \in Packet /\ network \in [Ends -> SUBSET Packet]
      /\ construct \in [Ends -> Constructs]
      /\ construct' = [construct EXCEPT ![e] = Remaining(e, resends)]
      /\ network' \in After(net, e, Flushed(e, resends))
      /\ unpack' = [unpack EXCEPT ![e] = p.chunks]
      /\ UNCHANGED <<state, sequence, ack, sent, got>>
  BY Numbers, ConstructTyped DEF FeedChunks, NetInv
<1>2. /\ resends \in Seq(Chunk)
      /\ \A i \in 1 .. Len(resends) : \E k \in 1 .. Len(buffer[e]) : resends[i] = buffer[e][k]
  <2>1. CASE p.resend
    BY <1>1, <2>1, Numbers
  <2>2. CASE ~p.resend
    <3>1. resends = << >> /\ << >> \in Seq(Chunk) /\ 1 .. Len(<< >>) = {}
      BY <2>2
    <3>2. QED
      BY <3>1
  <2>3. QED
    BY <2>1, <2>2
<1>3. net \in [Ends -> SUBSET Packet] /\ \A f \in Ends : net[f] \subseteq network[f]
  BY <1>1 DEF Arrival
<1> HIDE DEF resends, net
<1>4. construct'[e] = Remaining(e, resends) /\ sent'[e] = sent[e]
      /\ \A f \in Ends \ {e} : construct'[f] = construct[f]
  BY <1>1
<1>5. /\ Gathered(e)'
      /\ \A q \in Flushed(e, resends) : \A i \in 1 .. Len(q.chunks) :
           Timely(q.chunks[i], sent[e])
  BY <1>2, <1>4, ResendPart
<1>6. Flushed(e, resends) \subseteq Packet
  BY <1>1, <1>2, Queued DEF Sent
<1>7. /\ network'[e] = net[e]
      /\ \A q \in network'[Peer(e)] : q \in net[Peer(e)] \/ q \in Flushed(e, resends)
  BY <1>1, <1>3, <1>6, AfterIn
<1>8. \A f \in Ends : \A q \in network'[f] :
        \/ q \in network[f]
        \/ \A i \in 1 .. Len(q.chunks) : Timely(q.chunks[i], sent[Peer(f)])
  BY <1>3, <1>5, <1>7, PeerFacts
<1>9. ASSUME NEW f \in Ends PROVE Unpacked(f)'
  <2>1. CASE f = e
    <3> DEFINE s == sent[Peer(e)]
               g == Len(got[e])
               c == p.chunks
    <3>1. unpack'[e] = c /\ got' = got /\ sent' = sent
      BY <1>1 DEF TypeOK
    <3>2. \A i \in 1 .. Len(c) : Timely(c[i], s)
      BY DEF ChunkInv, Travelling
    <3>3. g \in Nat /\ s \in Nat /\ g <= s /\ MaxSequence \in Nat
      BY <1>1, PeerFacts, Numbers, Sizes DEF ChunkInv, Received
    <3> HIDE DEF s, g, c
    <3>4. ASSUME NEW i \in 1 .. Len(c)
          PROVE  /\ Stamped(c[i], s) /\ g < c[i].data + MaxSequence - 1
                 /\ \A j \in 1 .. Len(c) : c[j].data < c[i].data + MaxSequence - 1
      <4>1. c[i].data \in Nat /\ s < c[i].data + MaxSequence - 1 /\ Stamped(c[i], s)
        BY <3>2, <3>3 DEF Timely, Stamped
      <4>2. g < c[i].data + MaxSequence - 1
        BY <3>3, <4>1
      <4>3. ASSUME NEW j \in 1 .. Len(c) PROVE c[j].data < c[i].data + MaxSequence - 1
        <5>1. c[j].data \in Nat /\ c[j].data <= s
          BY <3>2, <3>3 DEF Timely, Stamped
        <5>2. QED
          BY <3>3, <4>1, <5>1
      <4>4. QED
        BY <4>1, <4>2, <4>3
    <3>5. QED
      BY <2>1, <3>1, <3>4 DEF Unpacked, Stamped, s, g, c
  <2>2. CASE f # e
    <3>1. unpack'[f] = unpack[f] /\ got' = got /\ sent' = sent
      BY <1>1, <2>2 DEF TypeOK
    <3>2. QED
      BY <3>1 DEF ChunkInv, Unpacked, Stamped
  <2>3. QED
    BY <2>1, <2>2
<1>10. QED
  BY <1>1, <1>4, <1>5, <1>8, <1>9, ChunksKept

(* The next chunk in sequence is the next one that was queued.             *)
LEMMA TakesNext ==
  ASSUME NetInv, ChunkInv, NEW e \in Ends, Online(e), unpack[e] # << >>,
         InSequence(e, Head(unpack[e]))
  PROVE  Head(unpack[e]).data = Len(got[e]) + 1
<1> DEFINE c == Head(unpack[e])
           d == c.data
           s == sent[Peer(e)]
           g == Len(got[e])
<1>1. unpack[e] \in Seq(Chunk) /\ Len(unpack[e]) \in Nat \ {0} /\ c = unpack[e][1]
  BY DEF NetInv, TypeOK
<1>2. Stamped(c, s) /\ g < d + MaxSequence - 1
  BY <1>1 DEF ChunkInv, Unpacked
<1>3. /\ g \in Nat /\ s \in Nat /\ s <= g + BufferSlots
      /\ MaxSequence \in Nat /\ BufferSlots \in Nat /\ BufferSlots < MaxSequence
  <2>1. g \in Nat /\ s \in Nat /\ s <= g + BufferSlots
    BY PeerFacts, Numbers DEF NetInv, ChunkInv, Received
  <2>2. QED
    BY <2>1, Sizes
<1>4. d \in Nat /\ d <= s /\ c.seq = d % MaxSequence
  BY <1>2, <1>3 DEF Stamped
<1>5. c.seq = (g + 1) % MaxSequence
  BY <1>3, NextResidue DEF NetInv, Counted, InSequence
<1>6. g + 1 \in Nat /\ d < (g + 1) + MaxSequence /\ g + 1 < d + MaxSequence
  <2> HIDE DEF d, s, g
  <2>1. QED
    BY <1>2, <1>3, <1>4
<1> HIDE DEF c, d, s, g
<1>7. d = g + 1
  BY <1>4, <1>5, <1>6, SameResidue
<1>8. QED
  BY <1>7 DEF c, d, g

(* What the application of an end has when a chunk is fetched.             *)
LEMMA GotAfter ==
  ASSUME NetInv, ChunkInv, NEW e \in Ends, Fetch(e)
  PROVE  /\ \A f \in Ends \ {e} : got'[f] = got[f]
         /\ \/ got' = got
            \/ /\ Online(e) /\ got' = [got EXCEPT ![e] = Append(got[e], Len(got[e]) + 1)]
               /\ Head(unpack[e]).data = Len(got[e]) + 1
               /\ Len(got[e]) < sent[Peer(e)]
<1> DEFINE c == Head(unpack[e])
<1>1. /\ TypeOK /\ unpack[e] \in Seq(Chunk) /\ unpack[e] # << >>
      /\ Take(e, c) \/ SkipOld(e, c) \/ AskResend(e, c)
  BY DEF Fetch, NetInv, TypeOK
<1>2. CASE SkipOld(e, c) \/ AskResend(e, c)
  BY <1>2 DEF SkipOld, AskResend
<1>3. CASE Take(e, c) /\ ~Online(e)
  <2>1. got' = [got EXCEPT ![e] = got[e]]
    BY <1>3 DEF Take
  <2>2. got' = got
    BY <1>1, <2>1 DEF TypeOK
  <2>3. QED
    BY <2>2
<1>4. CASE Take(e, c) /\ Online(e)
  <2>1. c.data = Len(got[e]) + 1
    BY <1>1, <1>4, TakesNext DEF Take
  <2>2. got' = [got EXCEPT ![e] = Append(got[e], c.data)]
    BY <1>4 DEF Take
  <2>3. c.data <= sent[Peer(e)]
    <3>1. c = unpack[e][1] /\ 1 \in 1 .. Len(unpack[e])
      BY <1>1
    <3>2. QED
      BY <3>1, PeerFacts, Numbers DEF ChunkInv, Unpacked, Stamped, NetInv
  <2>4. Len(got[e]) < sent[Peer(e)]
    BY <1>1, <2>1, <2>3, PeerFacts, Numbers
  <2>5. \A f \in Ends \ {e} : got'[f] = got[f]
    BY <1>1, <2>2 DEF TypeOK
  <2>6. QED
    BY <1>4, <2>1, <2>2, <2>4, <2>5
<1>5. QED
  BY <1>1, <1>2, <1>3, <1>4

LEMMA FetchChunks ==
  ASSUME NetInv, ChunkInv, NEW e \in Ends, Fetch(e)
  PROVE  ChunkInv'
<1> DEFINE c == Head(unpack[e])
           u == unpack[e]
           s == sent[Peer(e)]
           g == Len(got[e])
<1>1. /\ TypeOK /\ u \in Seq(Chunk) /\ u # << >>
      /\ unpack' = [unpack EXCEPT ![e] = Tail(u)]
      /\ Take(e, c) \/ SkipOld(e, c) \/ AskResend(e, c)
      /\ UNCHANGED <<network, sent>>
  BY DEF Fetch, NetInv, TypeOK
<1>2. /\ Len(u) \in Nat \ {0} /\ c = u[1] /\ Tail(u) \in Seq(Chunk)
      /\ Len(Tail(u)) = Len(u) - 1 /\ \A i \in 1 .. Len(Tail(u)) : Tail(u)[i] = u[i + 1]
  <2> HIDE DEF u
  <2>1. QED
    BY <1>1 DEF u
<1>3. /\ \A f \in Ends \ {e} : got'[f] = got[f]
      /\ \/ got' = got
         \/ /\ got' = [got EXCEPT ![e] = Append(got[e], g + 1)]
            /\ c.data = g + 1
            /\ g < s
  BY GotAfter
<1>4. \A f \in Ends : construct'[f].chunks = construct[f].chunks
  <2>1. CASE construct' = construct
    BY <2>1
  <2>2. CASE construct' = [construct EXCEPT ![e].resend = TRUE]
    BY <1>1, <2>2, ConstructTyped DEF Constructs
  <2>3. QED
    BY <1>1, <2>1, <2>2 DEF Take, SkipOld, AskResend
<1>5. \A f \in Ends : Gathered(f)'
  BY <1>1, <1>4 DEF ChunkInv, Gathered, Stamped
<1>6. \A f \in Ends : Travelling(f)'
  <2>1. \A f \in Ends : sent'[f] \in Nat /\ sent[f] <= sent'[f]
    BY <1>1, Numbers
  <2>2. QED
    BY <1>1, <2>1, PeerFacts, TravelStays
<1>7. /\ g \in Nat /\ s \in Nat /\ BufferSlots \in Nat /\ got[e] \in Seq(Nat \ {0})
      /\ \A i \in 1 .. g : got[e][i] = i
      /\ g <= s /\ s <= g + BufferSlots /\ got \in [Ends -> Seq(Nat \ {0})]
  BY <1>1, PeerFacts, Numbers, Sizes DEF ChunkInv, Received, TypeOK
<1>8. /\ Len(got'[e]) = g \/ Len(got'[e]) = c.data
      /\ Len(got'[e]) \in Nat /\ g <= Len(got'[e]) /\ Len(got'[e]) <= s
      /\ \A i \in 1 .. Len(got'[e]) : got'[e][i] = i
  <2>1. CASE got' = got
    BY <1>7, <2>1
  <2>2. CASE /\ got' = [got EXCEPT ![e] = Append(got[e], g + 1)]
             /\ c.data = g + 1 /\ g < s
    <3> DEFINE h == Append(got[e], g + 1)
    <3>1. got'[e] = h
      BY <1>7, <2>2
    <3>2. Len(h) = g + 1 /\ \A i \in 1 .. Len(h) : h[i] = i
      BY <1>7
    <3> HIDE DEF h
    <3>3. Len(got'[e]) = g + 1 /\ g + 1 \in Nat /\ g <= g + 1 /\ g + 1 <= s
      BY <1>7, <2>2, <3>1, <3>2
    <3>4. QED
      BY <2>2, <3>1, <3>2, <3>3
  <2>3. QED
    BY <1>3, <2>1, <2>2
<1>9. \A f \in Ends : Received(f)'
  <2>1. Received(e)'
    <3> DEFINE h == Len(got'[e])
    <3>1. h \in Nat /\ g <= h /\ h <= s
      BY <1>8
    <3> HIDE DEF h, g, s
    <3>2. h <= s /\ s <= h + BufferSlots
      BY <1>7, <3>1
    <3>3. QED
      BY <1>1, <1>8, <3>2 DEF Received, h, s
  <2>2. ASSUME NEW f \in Ends, f # e PROVE Received(f)'
    BY <1>1, <1>3, <2>2 DEF ChunkInv, Received
  <2>3. QED
    BY <2>1, <2>2
<1>10. ASSUME NEW f \in Ends PROVE Unpacked(f)'
  <2>1. CASE f = e
    <3> DEFINE t == Tail(u)
               h == Len(got'[e])
    <3>1. /\ unpack'[e] = t /\ sent' = sent
          /\ Len(t) = Len(u) - 1 /\ \A i \in 1 .. Len(t) : t[i] = u[i + 1]
      BY <1>1, <1>2 DEF TypeOK
    <3>2. \A i \in 1 .. Len(u) : /\ Stamped(u[i], s) /\ g < u[i].data + MaxSequence - 1
                                 /\ \A j \in 1 .. Len(u) :
                                      u[j].data < u[i].data + MaxSequence - 1
      BY DEF ChunkInv, Unpacked
    <3>3. (h = g \/ h = u[1].data) /\ Len(u) \in Nat /\ 1 \in 1 .. Len(u)
      BY <1>2, <1>8
    <3> HIDE DEF t, u, s, g, h, c
    <3>4. \A i \in 1 .. Len(t) : i + 1 \in 1 .. Len(u)
      BY <3>1, <3>3
    <3>5. \A i \in 1 .. Len(t) : /\ Stamped(t[i], s) /\ h < t[i].data + MaxSequence - 1
                                 /\ \A j \in 1 .. Len(t) :
                                      t[j].data < t[i].data + MaxSequence - 1
      BY <3>1, <3>2, <3>3, <3>4
    <3>6. QED
      BY <2>1, <3>1, <3>5 DEF Unpacked, Stamped, s, h
  <2>2. CASE f # e
    <3>1. unpack'[f] = unpack[f] /\ got'[f] = got[f] /\ sent' = sent
      BY <1>1, <1>3, <2>2 DEF TypeOK
    <3>2. QED
      BY <3>1 DEF ChunkInv, Unpacked, Stamped
  <2>3. QED
    BY <2>1, <2>2
<1>11. QED
  BY <1>5, <1>6, <1>9, <1>10 DEF ChunkInv

LEMMA InitChunks == Init => ChunkInv
<1> SUFFICES ASSUME Init PROVE ChunkInv
  OBVIOUS
<1>1. ASSUME NEW e \in Ends PROVE Gathered(e) /\ Travelling(e) /\ Unpacked(e) /\ Received(e)
  <2>1. /\ construct[e].chunks = << >> /\ network[e] = {} /\ unpack[e] = << >>
        /\ got[e] = << >> /\ sent[Peer(e)] = 0
    BY PeerFacts DEF Init, EmptyConstruct
  <2>2. Len(<< >>) = 0 /\ 1 .. 0 = {} /\ 0 <= PacketChunks /\ 0 <= 0 + BufferSlots
    BY Sizes
  <2>3. QED
    BY <2>1, <2>2 DEF Gathered, Travelling, Unpacked, Received
<1>2. QED
  BY <1>1 DEF ChunkInv

LEMMA StepChunks ==
  ASSUME NetInv, NetInv', ChunkInv, ~Overflows, BufferSlots + PacketChunks <= MaxSequence,
         [Next]_vars
  PROVE  ChunkInv'
<1>1. CASE UNCHANGED vars
  BY <1>1 DEF vars, ChunkInv, Gathered, Travelling, Unpacked, Received, Timely, Stamped
<1>2. ASSUME NEW e \in Ends, QueueChunk(e) PROVE ChunkInv'
  BY <1>2, QueueChunks
<1>3. ASSUME NEW e \in Ends, Flush(e) \/ ResendFirst(e) \/ KeepAlive(e) PROVE ChunkInv'
  BY <1>3, SendChunks
<1>4. ASSUME NEW e \in Ends, NEW p \in network[e], NEW last \in BOOLEAN, Feed(e, p, last)
      PROVE  ChunkInv'
  <2>1. CASE FeedInvalid(e, p, last) \/ FeedClose(e, p, last)
    BY <2>1, LoseChunks
  <2>2. CASE FeedChunks(e, p, last)
    BY <1>4, <2>2, FeedChunksPart DEF Feed
  <2>3. QED
    BY <1>4, <2>1, <2>2 DEF Feed
<1>5. ASSUME NEW e \in Ends, Fetch(e) PROVE ChunkInv'
  BY <1>5, FetchChunks
<1>6. ASSUME NEW e \in Ends, Disconnect(e) \/ Timeout(e) \/ Closed(e) PROVE ChunkInv'
  BY <1>6, EndChunks
<1>7. ASSUME NEW e \in Ends, NEW p \in network[e], Lose(e, p) PROVE ChunkInv'
  BY <1>7, LoseChunks
<1>8. QED
  BY <1>1, <1>2, <1>3, <1>4, <1>5, <1>6, <1>7 DEF Next

LEMMA ChunksHold ==
  ASSUME ~Overflows, BufferSlots + PacketChunks <= MaxSequence
  PROVE  Spec => [](NetInv /\ ChunkInv)
<1>1. Init => NetInv /\ ChunkInv
  BY InitNet, InitChunks
<1>2. NetInv /\ ChunkInv /\ [Next]_vars => NetInv' /\ ChunkInv'
  BY StepNet, StepChunks
<1>3. QED
  BY <1>1, <1>2, PTL DEF Spec

(***************************************************************************)
(* A chunk that is skipped as old has been taken, for any size of the ring,*)
(* the buffer and the packets: the backroom of half a turn (network.cpp:72)*)
(* never holds a chunk that is still to come.                              *)
(***************************************************************************)
THEOREM SkippedWasTaken ==
  ASSUME ~Overflows, BufferSlots + PacketChunks <= MaxSequence
  PROVE  Spec => OldWasTaken
<1> DEFINE Taken == \A e \in Ends : Online(e) /\ Skips(e) =>
                      \E i \in DOMAIN got[e] : got[e][i] = Head(unpack[e]).data
<1>1. ASSUME NetInv, ChunkInv PROVE Taken
  <2>1. ASSUME NEW e \in Ends, Online(e), Skips(e)
        PROVE  \E i \in DOMAIN got[e] : got[e][i] = Head(unpack[e]).data
    <3> DEFINE c == Head(unpack[e])
               d == c.data
               s == sent[Peer(e)]
               g == Len(got[e])
    <3>1. unpack[e] \in Seq(Chunk) /\ unpack[e] # << >> /\ InBackroom(c.seq, ack[e])
      BY <1>1, <2>1 DEF NetInv, TypeOK, Skips, SkipOld
    <3>2. c = unpack[e][1] /\ 1 \in 1 .. Len(unpack[e])
      BY <3>1
    <3>3. Stamped(c, s)
      BY <1>1, <3>2 DEF ChunkInv, Unpacked
    <3>4. /\ g \in Nat /\ s \in Nat /\ s <= g + BufferSlots
          /\ \A i \in 1 .. g : got[e][i] = i
          /\ ack[e] = g % MaxSequence /\ DOMAIN got[e] = 1 .. g
      BY <1>1, <2>1, PeerFacts, Numbers DEF NetInv, ChunkInv, Received, Counted
    <3>5. d \in Nat /\ 1 <= d /\ d <= s /\ c.seq = d % MaxSequence
      BY <3>3, <3>4 DEF Stamped
    <3>6. MaxSequence \in Nat /\ BufferSlots \in Nat /\ 2 * BufferSlots < MaxSequence
      BY Sizes
    <3>7. CASE d <= g
      BY <3>4, <3>5, <3>7
    <3>8. CASE d > g
      <4>1. 2 * (d - g) < MaxSequence /\ 2 * (g - d) < MaxSequence
        <5> HIDE DEF d, s, g
        <5>1. QED
          BY <3>4, <3>5, <3>6, <3>8
      <4> HIDE DEF c, d, g
      <4>2. InBackroom(d % MaxSequence, g % MaxSequence) <=> d <= g
        BY <3>4, <3>5, <4>1, Backroom
      <4>3. QED
        BY <3>1, <3>4, <3>5, <3>8, <4>2
    <3>9. QED
      BY <3>4, <3>5, <3>7, <3>8
  <2>2. QED
    BY <2>1
<1>2. NetInv /\ ChunkInv => [Taken]_vars
  BY <1>1
<1>3. QED
  BY <1>2, ChunksHold, PTL DEF OldWasTaken

(* The log of what an end queued.                                          *)
LEMMA LogGrows ==
  ASSUME NEW n \in Nat, NEW l, l = [i \in 1 .. n |-> i], NEW m, m = [i \in 1 .. n + 1 |-> i]
  PROVE  /\ l \in Seq(Nat) /\ Len(l) = n /\ \A i \in 1 .. n : l[i] = i
         /\ m = Append(l, n + 1)
<1>1. l \in Seq(Nat) /\ Len(l) = n /\ \A i \in 1 .. n : l[i] = i
  OBVIOUS
<1>2. m \in Seq(Nat) /\ Len(m) = n + 1 /\ \A i \in 1 .. n + 1 : m[i] = i
  OBVIOUS
<1>3. /\ Append(l, n + 1) \in Seq(Nat) /\ Len(Append(l, n + 1)) = n + 1
      /\ \A i \in 1 .. n + 1 : Append(l, n + 1)[i] = i
  BY <1>1
<1>4. QED
  BY <1>1, <1>2, <1>3

(* What one step does to the direction from e to its peer.                 *)
LEMMA DirectionStep ==
  ASSUME NetInv, ChunkInv, [Next]_vars, NEW e \in Ends
  PROVE  \/ UNCHANGED <<Log(e), got[Peer(e)]>>
         \/ \E m \in 1 .. MaxSent[e] :
              Log(e)' = Append(Log(e), m) /\ UNCHANGED got[Peer(e)]
         \/ /\ Len(got[Peer(e)]) < Len(Log(e))
            /\ got[Peer(e)]' = Append(got[Peer(e)], Log(e)[Len(got[Peer(e)]) + 1])
            /\ UNCHANGED Log(e)
<1>1. TypeOK /\ sent[e] \in Nat
  BY Numbers DEF NetInv
<1>2. CASE UNCHANGED <<sent, got>>
  BY <1>2 DEF Log
<1>3. ASSUME NEW f \in Ends, QueueChunk(f)
      PROVE  \/ UNCHANGED <<Log(e), got[Peer(e)]>>
             \/ \E m \in 1 .. MaxSent[e] :
                  Log(e)' = Append(Log(e), m) /\ UNCHANGED got[Peer(e)]
  <2>1. sent' = [sent EXCEPT ![f] = @ + 1] /\ got' = got /\ sent[f] < MaxSent[f]
    BY <1>3 DEF QueueChunk
  <2>2. CASE f # e
    <3>1. sent'[e] = sent[e]
      BY <1>1, <2>1, <2>2 DEF TypeOK
    <3>2. QED
      BY <2>1, <3>1 DEF Log
  <2>3. CASE f = e
    <3>1. sent'[e] = sent[e] + 1
      BY <1>1, <2>1, <2>3 DEF TypeOK
    <3>2. Log(e) = [i \in 1 .. sent[e] |-> i] /\ Log(e)' = [i \in 1 .. sent[e] + 1 |-> i]
      BY <3>1 DEF Log
    <3>3. Log(e)' = Append(Log(e), sent[e] + 1)
      BY <1>1, <3>2, LogGrows
    <3>4. sent[e] + 1 \in 1 .. MaxSent[e]
      BY <1>1, <2>1, <2>3, BoundsAssumption
    <3>5. QED
      BY <2>1, <3>3, <3>4
  <2>4. QED
    BY <2>2, <2>3
<1>4. ASSUME NEW f \in Ends, Fetch(f)
      PROVE  \/ UNCHANGED <<Log(e), got[Peer(e)]>>
             \/ /\ Len(got[Peer(e)]) < Len(Log(e))
                /\ got[Peer(e)]' = Append(got[Peer(e)], Log(e)[Len(got[Peer(e)]) + 1])
                /\ UNCHANGED Log(e)
  <2>1. UNCHANGED Log(e)
    BY <1>4 DEF Fetch, Log
  <2>2. CASE f # Peer(e) \/ got' = got
    BY <1>4, <2>1, <2>2, PeerFacts, GotAfter
  <2>3. CASE f = Peer(e) /\ got' # got
    <3> DEFINE g == Len(got[f])
    <3>1. /\ got' = [got EXCEPT ![f] = Append(got[f], g + 1)]
          /\ g < sent[e] /\ g \in Nat
      BY <1>1, <1>4, <2>3, PeerFacts, Numbers, GotAfter
    <3>2. got'[f] = Append(got[f], g + 1)
      BY <1>1, <3>1 DEF TypeOK
    <3> HIDE DEF g
    <3>3. Log(e) = [i \in 1 .. sent[e] |-> i] /\ g + 1 \in 1 .. sent[e]
      BY <1>1, <3>1 DEF Log
    <3>4. Len(Log(e)) = sent[e] /\ Log(e)[g + 1] = g + 1
      <4>1. Len(Log(e)) = sent[e] /\ \A i \in 1 .. sent[e] : Log(e)[i] = i
        BY <1>1, <3>3, LogGrows
      <4>2. QED
        BY <3>3, <4>1
    <3>5. QED
      BY <2>1, <2>3, <3>1, <3>2, <3>4 DEF g
  <2>4. QED
    BY <2>2, <2>3
<1>5. ASSUME NEW f \in Ends, \/ Flush(f) \/ ResendFirst(f) \/ KeepAlive(f)
                             \/ Disconnect(f) \/ Timeout(f) \/ Closed(f)
      PROVE  UNCHANGED <<sent, got>>
  BY <1>5 DEF Flush, ResendFirst, KeepAlive, Disconnect, Timeout, Closed, Reset
<1>6. ASSUME NEW f \in Ends, NEW p \in network[f],
             Lose(f, p) \/ \E last \in BOOLEAN : Feed(f, p, last)
      PROVE  UNCHANGED <<sent, got>>
  BY <1>6 DEF Lose, Feed, FeedInvalid, FeedClose, FeedChunks
<1>7. CASE UNCHANGED vars
  BY <1>2, <1>7 DEF vars
<1>8. QED
  BY <1>2, <1>3, <1>4, <1>5, <1>6, <1>7 DEF Next

(***************************************************************************)
(* Each direction is a reliable channel, for any size of the ring, the     *)
(* buffer and the packets, any number of packets under way, and ends that  *)
(* come to an end: the chunks that CNetConnection hands to the application *)
(* are the ones the peer queued, in their order, each once.                *)
(***************************************************************************)
THEOREM EndsAreChannels ==
  ASSUME ~Overflows, BufferSlots + PacketChunks <= MaxSequence
  PROVE  Spec => ImplementsChannel
<1>1. /\ "client" \in Ends /\ "server" \in Ends
      /\ Peer("client") = "server" /\ Peer("server") = "client"
  BY DEF Peer, Ends
<1>2. Init => ToServer!Init /\ ToClient!Init
  <2>1. ASSUME Init, NEW e \in Ends PROVE Log(e) = << >> /\ got[e] = << >>
    <3>1. sent[e] = 0 /\ got[e] = << >>
      BY <2>1 DEF Init
    <3>2. [i \in 1 .. 0 |-> i] = << >>
      OBVIOUS
    <3>3. QED
      BY <3>1, <3>2 DEF Log
  <2>2. QED
    BY <1>1, <2>1 DEF ToServer!Init, ToClient!Init
<1>3. NetInv /\ ChunkInv /\ [Next]_vars => [ToServer!Next]_(ToServer!vars)
  BY <1>1, DirectionStep DEF ToServer!Next, ToServer!Queue, ToServer!Deliver, ToServer!vars
<1>4. NetInv /\ ChunkInv /\ [Next]_vars => [ToClient!Next]_(ToClient!vars)
  BY <1>1, DirectionStep DEF ToClient!Next, ToClient!Queue, ToClient!Deliver, ToClient!vars
<1>5. QED
  BY <1>2, <1>3, <1>4, ChunksHold, PTL DEF Spec, ImplementsChannel, ToServer!Spec, ToClient!Spec

=============================================================================
