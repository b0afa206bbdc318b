------------------------------- MODULE JobPool -------------------------------
(***************************************************************************)
(* The job pool of the engine (CJobPool, src/engine/shared/jobs.cpp): a    *)
(* queue of jobs, linked by m_pNext and guarded by a lock, and worker      *)
(* threads that a semaphore wakes, one signal for each job.                *)
(*                                                                         *)
(* A section under m_Lock is one step; m_Shutdown, the semaphore and       *)
(* m_Status are atomic.  A job may be added by any thread, each by one, and*)
(* is added once; Destroy is called by one thread, after the last Add has  *)
(* begun.                                                                  *)
(***************************************************************************)
EXTENDS Naturals, Sequences, FiniteSets

CONSTANTS
  Jobs,
  Workers,      \* m_vpThreads
  Nil

\* What the constants are assumed to be.
Assumptions == Nil \notin Jobs /\ IsFiniteSet(Jobs) /\ IsFiniteSet(Workers)

VARIABLES
  next,       \* m_pNext of each job
  first,      \* m_pFirstJob
  last,       \* m_pLastJob
  status,     \* m_Status of each job, "new" before Add
  added,      \* where Add(job) is: "no", "linked" under the lock, "done"
  semaphore,  \* m_Semaphore
  shutdown,   \* m_Shutdown
  pc,         \* where each worker is
  job,        \* pJob of each worker
  signals,    \* signals that Destroy still has to give
  runs,       \* history: how often each job was run
  queue       \* history: the jobs that wait, in the order of their Add

queueVars == <<next, first, last, queue>>
vars == <<queueVars, status, added, semaphore, shutdown, pc, job, signals, runs>>

TypeOK ==
  /\ next \in [Jobs -> Jobs \cup {Nil}]
  /\ first \in Jobs \cup {Nil}
  /\ last \in Jobs \cup {Nil}
  /\ status \in [Jobs -> {"pending", "running", "done"}]
  /\ added \in [Jobs -> {"no", "linked", "done"}]
  /\ semaphore \in Nat
  /\ shutdown \in BOOLEAN
  /\ pc \in [Workers -> {"check", "wait", "fetch", "run", "exit"}]
  /\ job \in [Workers -> Jobs \cup {Nil}]
  /\ signals \in 0 .. Cardinality(Workers)
  /\ runs \in [Jobs -> Nat]
  /\ queue \in Seq(Jobs)

\* The constructor and Init: the threads run.
Init ==
  /\ next = [j \in Jobs |-> Nil]
  /\ first = Nil
  /\ last = Nil
  /\ status = [j \in Jobs |-> "pending"]
  /\ added = [j \in Jobs |-> "no"]
  /\ semaphore = 0
  /\ shutdown = FALSE
  /\ pc = [w \in Workers |-> "check"]
  /\ job = [w \in Workers |-> Nil]
  /\ signals = 0
  /\ runs = [j \in Jobs |-> 0]
  /\ queue = << >>

-----------------------------------------------------------------------------
\* The queue with job j at its end.
Linked(j) ==
  /\ next' = IF last = Nil THEN next ELSE [next EXCEPT ![last] = j]
  /\ last' = j
  /\ first' = IF first = Nil THEN j ELSE first

\* The section of Add under the lock.
Add(j) ==
  /\ added[j] = "no" /\ ~shutdown
  /\ Linked(j)
  /\ queue' = Append(queue, j)
  /\ added' = [added EXCEPT ![j] = "linked"]
  /\ UNCHANGED <<status, semaphore, shutdown, pc, job, signals, runs>>

\* Mutant: only the job that finds the queue empty gives a signal.
AddSignalsIfAlone(j) ==
  /\ added[j] = "linked"
  /\ semaphore' = IF first = j THEN semaphore + 1 ELSE semaphore
  /\ added' = [added EXCEPT ![j] = "done"]
  /\ UNCHANGED <<queueVars, status, shutdown, pc, job, signals, runs>>

AddSignals(j) ==
  /\ added[j] = "linked"
  /\ semaphore' = semaphore + 1
  /\ added' = [added EXCEPT ![j] = "done"]
  /\ UNCHANGED <<queueVars, status, shutdown, pc, job, signals, runs>>

-----------------------------------------------------------------------------
\* The condition of the loop of WorkerThread.
Check(w) ==
  /\ pc[w] = "check"
  /\ pc' = [pc EXCEPT ![w] = IF shutdown THEN "exit" ELSE "wait"]
  /\ UNCHANGED <<queueVars, status, added, semaphore, shutdown, job, signals, runs>>

Wait(w) ==
  /\ pc[w] = "wait"
  /\ semaphore > 0
  /\ semaphore' = semaphore - 1
  /\ pc' = [pc EXCEPT ![w] = "fetch"]
  /\ UNCHANGED <<queueVars, status, added, shutdown, job, signals, runs>>

\* Mutant: m_pLastJob still points at the last job when it is taken.
UnlinkedFirst ==
  /\ first' = next[first]
  /\ next' = [next EXCEPT ![first] = Nil]
  /\ UNCHANGED last

\* The queue without its first job.
Unlinked ==
  /\ first' = next[first]
  /\ next' = [next EXCEPT ![first] = Nil]
  /\ last' = IF next[first] = Nil THEN Nil ELSE last

\* The section of WorkerThread under the lock.
Fetch(w) ==
  /\ pc[w] = "fetch"
  /\ \/ /\ first # Nil
        /\ job' = [job EXCEPT ![w] = first]
        /\ Unlinked
        /\ queue' = Tail(queue)
        /\ pc' = [pc EXCEPT ![w] = "run"]
     \/ /\ first = Nil
        /\ pc' = [pc EXCEPT ![w] = "check"]
        /\ UNCHANGED <<queueVars, job>>
  /\ UNCHANGED <<status, added, semaphore, shutdown, signals, runs>>

\* RunBlocking, its first line and Run.
Run(w) ==
  /\ pc[w] = "run" /\ status[job[w]] # "running"
  /\ status' = [status EXCEPT ![job[w]] = "running"]
  /\ runs' = [runs EXCEPT ![job[w]] = @ + 1]
  /\ UNCHANGED <<queueVars, added, semaphore, shutdown, pc, job, signals>>

\* Run returns.
RunReturns(w) ==
  /\ pc[w] = "run" /\ status[job[w]] = "running"
  /\ status' = [status EXCEPT ![job[w]] = "done"]
  /\ pc' = [pc EXCEPT ![w] = "check"]
  /\ job' = [job EXCEPT ![w] = Nil]
  /\ UNCHANGED <<queueVars, added, semaphore, shutdown, signals, runs>>

-----------------------------------------------------------------------------
\* Mutant: one signal for all threads.
SignalsOnce == 1

SignalsOfDestroy == Cardinality(Workers)

Destroy ==
  /\ ~shutdown
  /\ shutdown' = TRUE
  /\ signals' = SignalsOfDestroy
  /\ UNCHANGED <<queueVars, status, added, semaphore, pc, job, runs>>

DestroySignals ==
  /\ signals > 0
  /\ signals' = signals - 1
  /\ semaphore' = semaphore + 1
  /\ UNCHANGED <<queueVars, status, added, shutdown, pc, job, runs>>

\* thread_wait on every worker is over, and every Add has returned: Destroy
\* returns.
Joined ==
  /\ shutdown /\ signals = 0
  /\ \A w \in Workers : pc[w] = "exit"
  /\ \A j \in Jobs : added[j] # "linked"

\* Every thread sleeps on the semaphore or is gone, and nobody gives a signal.
Rest ==
  /\ signals = 0
  /\ \A w \in Workers : pc[w] = "exit" \/ (pc[w] = "wait" /\ semaphore = 0)
  /\ UNCHANGED vars

Work(w) == Check(w) \/ Wait(w) \/ Fetch(w) \/ Run(w) \/ RunReturns(w)

Next ==
  \/ \E j \in Jobs : Add(j) \/ AddSignals(j)
  \/ \E w \in Workers : Work(w)
  \/ Destroy \/ DestroySignals
  \/ Rest

Spec == Init /\ [][Next]_vars

\* A thread that can go on does, a semaphore is taken by some thread that
\* waits, and a job ends.
FairSpec ==
  /\ Spec
  /\ \A j \in Jobs : WF_vars(AddSignals(j))
  /\ \A w \in Workers : WF_vars(Work(w))
  /\ WF_vars(DestroySignals)

-----------------------------------------------------------------------------
(***************************************************************************)
(* m_pFirstJob, m_pNext and m_pLastJob link the jobs that wait in the order*)
(* in which they were added: none is lost between the two ends, none       *)
(* overtakes another, and none is left behind when the queue runs empty    *)
(* (jobs.cpp:44-53, 92-98).                                                *)
(***************************************************************************)
LinksAreQueue ==
  LET n == Len(queue)
  IN /\ first = IF n = 0 THEN Nil ELSE queue[1]
     /\ last = IF n = 0 THEN Nil ELSE queue[n]
     /\ \A i \in 1 .. n : next[queue[i]] = IF i = n THEN Nil ELSE queue[i + 1]

(***************************************************************************)
(* A job is run once, by one worker, and not while it waits in the queue   *)
(* (jobs.cpp:39-60).                                                       *)
(***************************************************************************)
RunOnce ==
  /\ \A j \in Jobs : runs[j] <= 1
  /\ \A v, w \in Workers : job[v] = job[w] /\ job[v] # Nil => v = w
  /\ \A i \in 1 .. Len(queue) : /\ status[queue[i]] = "pending"
                              /\ \A w \in Workers : job[w] # queue[i]

(***************************************************************************)
(* No wake-up is lost: while a job waits there is a signal that is not used*)
(* up, given or about to be given, or a worker that has taken one and not  *)
(* looked at the queue yet.  More jobs than that would wait for nobody     *)
(* (Add signals after the lock is released, jobs.cpp:88-101).              *)
(***************************************************************************)
Fetching == {w \in Workers : pc[w] = "fetch"}
Unsignalled == {j \in Jobs : added[j] = "linked"}

NoLostWakeUp ==
  Len(queue) <= semaphore + Cardinality(Fetching) + Cardinality(Unsignalled)

(***************************************************************************)
(* A job that was added is run in the end, unless the pool is destroyed:   *)
(* the jobs that wait when m_Shutdown is set stay pending.                 *)
(***************************************************************************)
JobsDone == \A j \in Jobs : (added[j] # "no") ~> (status[j] = "done" \/ shutdown)

(***************************************************************************)
(* Destroy returns: each worker finds one of its signals, whatever jobs and*)
(* signals of Add come in between (jobs.cpp:77-86).                        *)
(***************************************************************************)
DestroyReturns == shutdown ~> Joined

=============================================================================
