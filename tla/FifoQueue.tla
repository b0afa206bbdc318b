------------------------------ MODULE FifoQueue ------------------------------
(***************************************************************************)
(* What a database queue promises: every submitted closure is run once, in *)
(* the order of submission, and nobody can replace a closure that waits.   *)
(***************************************************************************)
EXTENDS Sequences

CONSTANT Closures   \* the Lua functions that may be submitted

VARIABLE queue      \* the closures that wait, oldest first

Init == queue = << >>

\* A closure joins the end of the queue.
Submit == \E c \in Closures : queue' = Append(queue, c)

\* The oldest closure is run and leaves the queue.
Serve ==
  /\ queue # << >>
  /\ queue' = Tail(queue)

Next == Submit \/ Serve

Spec == Init /\ [][Next]_queue

=============================================================================
