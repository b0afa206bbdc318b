------------------------------- MODULE DBQueue -------------------------------
(***************************************************************************)
(* The asynchronous database queue: DB.Execute / DB.SimpleExecute of       *)
(* lua/sv/base/database.lua on top of CSQLite of                           *)
(* src/engine/shared/sqlite/sqlite.cpp.                                    *)
(*                                                                         *)
(* A request does not carry its Lua closure.  The closure is stored in a   *)
(* global variable of the Lua state and the request carries the NAME of    *)
(* that variable, which CSQLite::Loop looks up when the turn of the        *)
(* request comes, one request a server tick.  A second request under the   *)
(* same name therefore replaces the closure of the first.                  *)
(*                                                                         *)
(* Disciplined states the calling convention under which this cannot       *)
(* happen: no name is given a new closure while a request under it waits.  *)
(* DB.SimpleExecute keeps to it (the name is a hash of the query, so equal *)
(* names have equal closures); DB.Execute, whose name is a constant, does  *)
(* not.                                                                    *)
(***************************************************************************)
EXTENDS Naturals, Sequences

CONSTANTS
  Names,        \* global variables a request may name
  Closures,     \* Lua functions that may be stored in them
  NoClosure,    \* nil: nothing has been stored yet
  MaxRequests,  \* bound on the length of the queue
  Disciplined   \* do the callers keep to the convention above

\* What the constants are assumed to be.
Assumptions ==
  /\ NoClosure \notin Closures
  /\ MaxRequests \in Nat
  /\ Disciplined \in BOOLEAN

VARIABLES
  globals,      \* _G of the Lua state, restricted to Names
  requests      \* CSQLite::m_Requests: the names, oldest first

vars == <<globals, requests>>

TypeOK ==
  /\ globals \in [Names -> Closures \cup {NoClosure}]
  /\ requests \in Seq(Names)

Init ==
  /\ globals = [n \in Names |-> NoClosure]
  /\ requests = << >>

(***************************************************************************)
(* _G[Name] = Callback; Engine.Database:Execute(Name)                      *)
(***************************************************************************)
Pending == {requests[i] : i \in DOMAIN requests}

Enqueue(n, c) ==
  /\ globals' = [globals EXCEPT ![n] = c]
  /\ requests' = Append(requests, n)

\* A caller hands over a closure.
Execute(n, c) ==
  /\ Len(requests) < MaxRequests
  /\ Disciplined /\ n \in Pending => globals[n] = c
  /\ Enqueue(n, c)

\* CSQLite::Loop: the closure that runs is the one stored under the name now.
NextClosure == globals[Head(requests)]

\* Mutant: the newest request is taken, as from a stack.
DequeueNewest ==
  /\ requests # << >>
  /\ requests' = SubSeq(requests, 1, Len(requests) - 1)

Dequeue ==
  /\ requests # << >>
  /\ requests' = Tail(requests)

Loop == Dequeue /\ UNCHANGED globals

Next ==
  \/ \E n \in Names, c \in Closures : Execute(n, c)
  \/ Loop

Spec == Init /\ [][Next]_vars

-----------------------------------------------------------------------------
(***************************************************************************)
(* A request that waits always has a closure to run: Loop never finds nil  *)
(* under its name (sqlite.cpp:97 would then drop the request silently).    *)
(***************************************************************************)
NoEmptyRequest == \A n \in Pending : globals[n] # NoClosure

(***************************************************************************)
(* The queue as the callers see it: what each waiting request will run.    *)
(* With disciplined callers it is a FIFO queue of closures: a closure that *)
(* waits is never replaced (database.lua:11-20 against :4-8).              *)
(***************************************************************************)
Fifo == INSTANCE FifoQueue
          WITH queue <- [i \in DOMAIN requests |-> globals[requests[i]]]

ImplementsFifo == Fifo!Spec

=============================================================================
