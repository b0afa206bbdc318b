------------------------------- MODULE NetConn -------------------------------
(***************************************************************************)
(* The reliable part of a connection between a client and the server       *)
(* (CNetConnection of src/engine/shared/network_conn.cpp and               *)
(* CNetRecvUnpacker of src/engine/shared/network.cpp), over a network that *)
(* loses, duplicates, delays and reorders packets.                         *)
(*                                                                         *)
(* A vital chunk gets the next sequence number, modulo MaxSequence, and a  *)
(* place in the resend buffer, where it stays until the peer acknowledges  *)
(* it.  Every packet carries the number of the last chunk its sender took  *)
(* in sequence.  A receiver takes a chunk only if it is the next one, skips*)
(* the ones it thinks are old, and asks for a resend of everything         *)
(* otherwise.                                                              *)
(*                                                                         *)
(* Abstractions.  Both ends start online, as after the handshake.  Only    *)
(* vital chunks are modelled, all of one size: PacketChunks fit a packet,  *)
(* BufferSlots fit the resend buffer.  The n-th chunk of an end carries the*)
(* datum n.  Time is a choice: a timer may have expired whenever it is     *)
(* looked at; a call of Update with several expired timers is several      *)
(* calls.  Tokens, addresses and the protection against timeouts of        *)
(* CNetServer are left out.                                                *)
(***************************************************************************)
EXTENDS Naturals, Sequences, FiniteSets

CONSTANTS
  MaxSequence,   \* NET_MAX_SEQUENCE, 1024 in the code
  BufferSlots,   \* chunks that fit m_Buffer, at most 455 in the code
  PacketChunks,  \* chunks that fit a packet
  MaxSent,       \* bound, for each end: vital chunks it queues
  MaxFlight,     \* bound: packets on their way to one end
  Overflows,     \* do senders queue chunks that the resend buffer cannot hold
  Endings        \* bound: do connections end

Ends == {"client", "server"}
Peer(e) == CHOOSE f \in Ends : f # e

\* 32 KB of buffer at 72 bytes or more a chunk: fewer than half the numbers.
ASSUME SlotsAssumption ==
  /\ MaxSequence \in Nat /\ BufferSlots \in Nat \ {0}
  /\ 2 * BufferSlots < MaxSequence
ASSUME BoundsAssumption ==
  /\ PacketChunks \in Nat \ {0} /\ MaxFlight \in Nat
  /\ MaxSent \in [Ends -> Nat]
  /\ Overflows \in BOOLEAN /\ Endings \in BOOLEAN

VARIABLES
  state,       \* m_State
  sequence,    \* m_Sequence: number of the last vital chunk queued
  ack,         \* m_Ack: number of the last vital chunk taken
  peerAck,     \* m_PeerAck: last number the peer acknowledged
  buffer,      \* m_Buffer: vital chunks that are not acknowledged
  construct,   \* m_Construct: the packet under construction
  unpack,      \* m_RecvUnpacker: chunks of the last packet still to fetch
  network,     \* packets on their way to each end
  sent,        \* history: how many vital chunks the end queued
  got          \* history: what the application of the end received

vars == <<state, sequence, ack, peerAck, buffer, construct, unpack, network, sent, got>>

Chunk == [seq : 0 .. MaxSequence - 1, data : Nat \ {0}]

\* acked, the number of chunks that ack stands for, is not in the packet: it
\* only serves to say how old the packet is.
Packet == [ack : 0 .. MaxSequence - 1, acked : Nat, resend : BOOLEAN,
           close : BOOLEAN, chunks : Seq(Chunk)]

TypeOK ==
  /\ state \in [Ends -> {"online", "error", "offline"}]
  /\ sequence \in [Ends -> 0 .. MaxSequence - 1]
  /\ ack \in [Ends -> 0 .. MaxSequence - 1]
  /\ peerAck \in [Ends -> 0 .. MaxSequence - 1]
  /\ buffer \in [Ends -> Seq(Chunk)]
  /\ construct \in [Ends -> [resend : BOOLEAN, chunks : Seq(Chunk)]]
  /\ unpack \in [Ends -> Seq(Chunk)]
  /\ network \in [Ends -> SUBSET Packet]
  /\ sent \in [Ends -> Nat]
  /\ got \in [Ends -> Seq(Nat \ {0})]
  /\ \A e \in Ends : Len(buffer[e]) <= BufferSlots

EmptyConstruct == [resend |-> FALSE, chunks |-> << >>]

Init ==
  /\ state = [e \in Ends |-> "online"]
  /\ sequence = [e \in Ends |-> 0]
  /\ ack = [e \in Ends |-> 0]
  /\ peerAck = [e \in Ends |-> 0]
  /\ buffer = [e \in Ends |-> << >>]
  /\ construct = [e \in Ends |-> EmptyConstruct]
  /\ unpack = [e \in Ends |-> << >>]
  /\ network = [e \in Ends |-> {}]
  /\ sent = [e \in Ends |-> 0]
  /\ got = [e \in Ends |-> << >>]

Online(e) == state[e] = "online"

-----------------------------------------------------------------------------
(***************************************************************************)
(* The network                                                             *)
(***************************************************************************)
PacketOf(e, c) ==
  [ack |-> ack[e], acked |-> Len(got[e]), resend |-> c.resend, close |-> FALSE,
   chunks |-> c.chunks]

ClosePacket(e) == [PacketOf(e, EmptyConstruct) EXCEPT !.close = TRUE]

\* The network once e has sent the packets P; those beyond the bound are lost.
After(net, e, P) ==
  {[net EXCEPT ![Peer(e)] = @ \cup S] :
     S \in {T \in SUBSET P :
              /\ Cardinality(net[Peer(e)] \cup T) <= MaxFlight \/ T = {}
              /\ T = P \/ Cardinality(net[Peer(e)] \cup P) > MaxFlight}}

\* Assumption on the network: no packet is overtaken by a whole turn of the
\* sequence numbers.
Fresh(e, p, n) ==
  /\ n[e] < p.acked + MaxSequence
  /\ \A i \in DOMAIN p.chunks : n[Peer(e)] < p.chunks[i].data + MaxSequence - 1

-----------------------------------------------------------------------------
(***************************************************************************)
(* Sending                                                                 *)
(***************************************************************************)
\* QueueChunkEx for each chunk of `more`: a packet that is full is flushed
\* before the next chunk is put into the construct.  A request for a resend
\* leaves with the first packet.
All(e, more) == construct[e].chunks \o more
Flushes(e, more) == IF All(e, more) = << >> THEN 0
                    ELSE (Len(All(e, more)) - 1) \div PacketChunks
Flushed(e, more) ==
  {PacketOf(e, [resend |-> construct[e].resend /\ i = 1,
                chunks |-> SubSeq(All(e, more), (i - 1) * PacketChunks + 1,
                                  i * PacketChunks)]) : i \in 1 .. Flushes(e, more)}
Remaining(e, more) ==
  [resend |-> construct[e].resend /\ Flushes(e, more) = 0,
   chunks |-> SubSeq(All(e, more), Flushes(e, more) * PacketChunks + 1,
                     Len(All(e, more)))]

HasRoom(e) == Len(buffer[e]) < BufferSlots

\* CNetServer::Send, CNetClient::Send with MSGFLAG_VITAL.
QueueChunk(e) ==
  LET next == (sequence[e] + 1) % MaxSequence
      chunk == [seq |-> next, data |-> sent[e] + 1]
      aged == [sent EXCEPT ![e] = @ + 1]
  IN /\ Online(e)
     /\ sent[e] < MaxSent[e]
     /\ HasRoom(e) \/ Overflows
     /\ sequence' = [sequence EXCEPT ![e] = next]
     /\ sent' = aged
     /\ buffer' = [buffer EXCEPT ![e] = IF HasRoom(e) THEN Append(@, chunk) ELSE @]
     /\ construct' = [construct EXCEPT ![e] = Remaining(e, <<chunk>>)]
     /\ \E net \in After(network, e, Flushed(e, <<chunk>>)) :
          network' = [f \in Ends |-> {p \in net[f] : Fresh(f, p, aged)}]
     /\ UNCHANGED <<state, ack, peerAck, unpack, got>>

\* Flush: MSGFLAG_FLUSH, or Update after 500 ms.
Flush(e) ==
  /\ Online(e)
  /\ construct[e] # EmptyConstruct
  /\ network' \in After(network, e, {PacketOf(e, construct[e])})
  /\ construct' = [construct EXCEPT ![e] = EmptyConstruct]
  /\ UNCHANGED <<state, sequence, ack, peerAck, buffer, unpack, sent, got>>

-----------------------------------------------------------------------------
(***************************************************************************)
(* Receiving                                                               *)
(***************************************************************************)
\* Mutant: a whole turn counts as old.
InBackroomWholeTurn(seq, a) == TRUE

InBackroom(seq, a) ==
  IF a < MaxSequence \div 2
  THEN seq <= a \/ seq >= a + MaxSequence - MaxSequence \div 2
  ELSE seq <= a /\ seq >= a - MaxSequence \div 2

\* Mutant: an acknowledgement that repeats the last one is refused.
AckValidStrict(e, a) ==
  IF sequence[e] >= peerAck[e]
  THEN a > peerAck[e] /\ a <= sequence[e]
  ELSE a > peerAck[e] \/ a <= sequence[e]

\* Mutant: every acknowledgement is believed.
AckBelieved(e, a) == TRUE

\* The acknowledgement lies between the last one and the last chunk queued.
AckValid(e, a) ==
  IF sequence[e] >= peerAck[e]
  THEN a >= peerAck[e] /\ a <= sequence[e]
  ELSE a >= peerAck[e] \/ a <= sequence[e]

\* AckChunks pops acknowledged chunks from the front.
Unacknowledged(b, a) ==
  LET kept == {i \in DOMAIN b : ~InBackroom(b[i].seq, a)}
  IN IF kept = {} THEN << >>
     ELSE SubSeq(b, CHOOSE i \in kept : \A j \in kept : i <= j, Len(b))

\* The packet p leaves the network, or a copy of it stays.
Arrival(e, p, last) ==
  IF last THEN [network EXCEPT ![e] = @ \ {p}] ELSE network

\* Feed of a packet with an acknowledgement that cannot be right.
FeedInvalid(e, p, last) ==
  /\ ~AckValid(e, p.ack)
  /\ network' = Arrival(e, p, last)
  /\ UNCHANGED <<state, sequence, ack, peerAck, buffer, construct, unpack, sent, got>>

FeedClose(e, p, last) ==
  /\ AckValid(e, p.ack)
  /\ p.close
  /\ peerAck' = [peerAck EXCEPT ![e] = p.ack]
  /\ state' = [state EXCEPT ![e] = "error"]
  /\ network' = Arrival(e, p, last)
  /\ UNCHANGED <<sequence, ack, buffer, construct, unpack, sent, got>>

\* Everything in the buffer is resent, if the peer asks for it, before the
\* acknowledged chunks leave the buffer.
FeedChunks(e, p, last) ==
  LET resends == IF p.resend THEN buffer[e] ELSE << >>
  IN /\ AckValid(e, p.ack)
     /\ ~p.close
     /\ peerAck' = [peerAck EXCEPT ![e] = p.ack]
     /\ construct' = [construct EXCEPT ![e] = Remaining(e, resends)]
     /\ network' \in After(Arrival(e, p, last), e, Flushed(e, resends))
     /\ buffer' = [buffer EXCEPT ![e] = Unacknowledged(@, p.ack)]
     /\ unpack' = [unpack EXCEPT ![e] = p.chunks]
     /\ UNCHANGED <<state, sequence, ack, sent, got>>

\* Recv: the next packet is fed when the chunks of the last one are fetched.
Feed(e, p, last) ==
  /\ Online(e)
  /\ unpack[e] = << >>
  /\ \/ FeedInvalid(e, p, last)
     \/ FeedClose(e, p, last)
     \/ FeedChunks(e, p, last)

\* Mutant: any chunk that is not old is taken.
InSequenceOrAhead(e, c) == ~InBackroom(c.seq, ack[e])

InSequence(e, c) == c.seq = (ack[e] + 1) % MaxSequence

\* FetchChunk and the application that takes the chunk.  The unpacker goes on
\* with its packet when the connection has been reset meanwhile; the chunks
\* then belong to no client.
Take(e, c) ==
  /\ InSequence(e, c)
  /\ ack' = [ack EXCEPT ![e] = c.seq]
  /\ got' = [got EXCEPT ![e] = IF Online(e) THEN Append(@, c.data) ELSE @]
  /\ UNCHANGED construct

SkipOld(e, c) ==
  /\ ~InSequence(e, c)
  /\ InBackroom(c.seq, ack[e])
  /\ UNCHANGED <<ack, got, construct>>

AskResend(e, c) ==
  /\ ~InSequence(e, c)
  /\ ~InBackroom(c.seq, ack[e])
  /\ construct' = [construct EXCEPT ![e].resend = TRUE]
  /\ UNCHANGED <<ack, got>>

Fetch(e) ==
  /\ unpack[e] # << >>
  /\ unpack' = [unpack EXCEPT ![e] = Tail(@)]
  /\ \/ Take(e, Head(unpack[e]))
     \/ SkipOld(e, Head(unpack[e]))
     \/ AskResend(e, Head(unpack[e]))
  /\ UNCHANGED <<state, sequence, peerAck, buffer, network, sent>>

-----------------------------------------------------------------------------
(***************************************************************************)
(* Timers and the end of a connection                                      *)
(***************************************************************************)
\* Update: the oldest chunk was not acknowledged within a second.
ResendFirst(e) ==
  /\ Online(e)
  /\ unpack[e] = << >>
  /\ buffer[e] # << >>
  /\ construct' = [construct EXCEPT ![e] = Remaining(e, <<Head(buffer[e])>>)]
  /\ network' \in After(network, e, Flushed(e, <<Head(buffer[e])>>))
  /\ UNCHANGED <<state, sequence, ack, peerAck, buffer, unpack, sent, got>>

\* Update: nothing was sent for a second.
KeepAlive(e) ==
  /\ Online(e)
  /\ unpack[e] = << >>
  /\ construct[e] = EmptyConstruct
  /\ network' \in After(network, e, {PacketOf(e, EmptyConstruct)})
  /\ UNCHANGED <<state, sequence, ack, peerAck, buffer, construct, unpack, sent, got>>

\* Disconnect ends with Reset.
Reset(e) ==
  /\ state' = [state EXCEPT ![e] = "offline"]
  /\ sequence' = [sequence EXCEPT ![e] = 0]
  /\ ack' = [ack EXCEPT ![e] = 0]
  /\ peerAck' = [peerAck EXCEPT ![e] = 0]
  /\ buffer' = [buffer EXCEPT ![e] = << >>]
  /\ construct' = [construct EXCEPT ![e] = EmptyConstruct]
  /\ UNCHANGED <<unpack, sent, got>>

\* A kick, a client that leaves: the peer is told.
Disconnect(e) ==
  /\ Endings
  /\ Online(e)
  /\ network' \in After(network, e, {ClosePacket(e)})
  /\ Reset(e)

\* Update after a timeout, or after the peer closed the connection: it is not
\* told.
Timeout(e) ==
  /\ Endings
  /\ Online(e)
  /\ unpack[e] = << >>
  /\ UNCHANGED network
  /\ Reset(e)

Closed(e) ==
  /\ state[e] = "error"
  /\ UNCHANGED network
  /\ Reset(e)

\* A packet is lost before the receiver looks for the next one.
Lose(e, p) ==
  /\ unpack[e] = << >>
  /\ network' = [network EXCEPT ![e] = @ \ {p}]
  /\ UNCHANGED <<state, sequence, ack, peerAck, buffer, construct, unpack, sent, got>>

Next ==
  \E e \in Ends :
    \/ QueueChunk(e)
    \/ Flush(e)
    \/ \E p \in network[e], last \in BOOLEAN : Feed(e, p, last)
    \/ Fetch(e)
    \/ ResendFirst(e)
    \/ KeepAlive(e)
    \/ Disconnect(e)
    \/ Timeout(e)
    \/ Closed(e)
    \/ \E p \in network[e] : Lose(e, p)

Spec == Init /\ [][Next]_vars

(***************************************************************************)
(* Fairness.  PumpNetwork calls Update and Recv on every tick, so timers   *)
(* expire and packets are fetched.  Of the network: a packet that carries a*)
(* given chunk, or a given acknowledgement, and is sent again and again,   *)
(* arrives now and then.                                                   *)
(***************************************************************************)
ChunkArrives(e, d) ==
  \E p \in network[e] :
    /\ AckValid(e, p.ack)
    /\ \E i \in DOMAIN p.chunks : p.chunks[i].data = d
    /\ Feed(e, p, TRUE)

AckArrives(e, n) ==
  \E p \in network[e] :
    /\ AckValid(e, p.ack)
    /\ p.acked = n
    /\ Feed(e, p, TRUE)

Fairness ==
  \A e \in Ends :
    /\ WF_vars(Flush(e)) /\ WF_vars(Fetch(e))
    /\ SF_vars(ResendFirst(e)) /\ SF_vars(KeepAlive(e))
    /\ \A d \in 1 .. MaxSent[e] :
         SF_vars(ChunkArrives(Peer(e), d)) /\ SF_vars(AckArrives(e, d))

FairSpec == Spec /\ Fairness

-----------------------------------------------------------------------------
(***************************************************************************)
(* Safety                                                                  *)
(***************************************************************************)
(***************************************************************************)
(* Each direction of the connection is a reliable channel: in order, each  *)
(* chunk at most once, whatever the network does with the packets, across  *)
(* the wrap-around of the sequence numbers, and when an end is reset while *)
(* a packet is being unpacked.                                             *)
(***************************************************************************)
Log(e) == [i \in 1 .. sent[e] |-> i]

ToServer == INSTANCE ReliableChannel
              WITH Messages <- 1 .. MaxSent["client"],
                   log <- Log("client"), got <- got["server"]

ToClient == INSTANCE ReliableChannel
              WITH Messages <- 1 .. MaxSent["server"],
                   log <- Log("server"), got <- got["client"]

ImplementsChannel == ToServer!Spec /\ ToClient!Spec

(***************************************************************************)
(* A chunk that the peer has not taken can still be resent: AckChunks      *)
(* (network_conn.cpp:71-84) never gives up a chunk for the acknowledgement *)
(* of another, a late one included.                                        *)
(***************************************************************************)
Recoverable ==
  \A e \in Ends : Online(e) /\ Online(Peer(e)) =>
    \A d \in Len(got[Peer(e)]) + 1 .. sent[e] :
      \E i \in DOMAIN buffer[e] : buffer[e][i].data = d

(***************************************************************************)
(* network.cpp:72, "old packet that we already got": a chunk that is       *)
(* skipped as old has been taken.  It holds as long as no chunk is queued  *)
(* that the resend buffer cannot hold (network_conn.cpp:151-155).          *)
(***************************************************************************)
Skips(e) == unpack[e] # << >> /\ unpack'[e] = Tail(unpack[e]) /\ SkipOld(e, Head(unpack[e]))

OldWasTaken ==
  [][ \A e \in Ends : Online(e) /\ Skips(e) =>
        \E i \in DOMAIN got[e] : got[e][i] = Head(unpack[e]).data ]_vars

-----------------------------------------------------------------------------
(***************************************************************************)
(* Liveness: every vital chunk is acknowledged in the end, unless the      *)
(* connection ends.  A full construct, a lost request for a resend, a lost *)
(* acknowledgement or a stale one never leave both ends waiting.           *)
(***************************************************************************)
AllAcknowledged ==
  \A e \in Ends :
    buffer[e] # << >> ~> (buffer[e] = << >> \/ \E f \in Ends : ~Online(f))

=============================================================================
