--------------------------- MODULE ReliableChannel ---------------------------
(***************************************************************************)
(* What CNetConnection promises for one direction of a connection: the     *)
(* vital chunks that one end queues reach the application of the other end *)
(* in the order they were queued, each of them at most once.               *)
(***************************************************************************)
EXTENDS Naturals, Sequences

CONSTANT Messages   \* what a chunk can carry

VARIABLES
  log,              \* chunks queued by the sender, in order
  got               \* chunks handed to the receiving application, in order

vars == <<log, got>>

Init == log = << >> /\ got = << >>

Queue(m) ==
  /\ log' = Append(log, m)
  /\ UNCHANGED got

Deliver ==
  /\ Len(got) < Len(log)
  /\ got' = Append(got, log[Len(got) + 1])
  /\ UNCHANGED log

Next == (\E m \in Messages : Queue(m)) \/ Deliver

Spec == Init /\ [][Next]_vars

=============================================================================
