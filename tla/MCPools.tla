------------------------------- MODULE MCPools -------------------------------
(***************************************************************************)
(* The queues and pools of the server on small instances: the database     *)
(* queue of the Lua scripts, the job pool, the database connection pool of *)
(* DDNet and the pool of snap ids.  They share no state, so that their     *)
(* interleavings show nothing: in each behaviour one of them moves, and the*)
(* others stay as they were set up.                                        *)
(***************************************************************************)
EXTENDS SnapIDPool

CONSTANTS
  Names, Closures, NoClosure, MaxRequests, Disciplined,
  Jobs, Workers,
  Reads, Writes, Modes, RingSize, MaxWaiting,
  Nil

VARIABLES
  component,   \* the one that moves
  globals, requests,
  nextJob, firstJob, lastJob, jobQueue, status, added, semaphore, shutdown, pc, job,
  signals, runs,
  slots, insertIdx, numBackup, numWorker, poolShutdown, onShutdown, backup,
  backupOpen, worker, connections, result, copies, local, remote

DQ == INSTANCE DBQueue
JP == INSTANCE JobPool
        WITH next <- nextJob, first <- firstJob, last <- lastJob, queue <- jobQueue
CP == INSTANCE ConnectionPool WITH shutdown <- poolShutdown

ASSUME PoolsAssumption ==
  Assumptions /\ DQ!Assumptions /\ JP!Assumptions /\ CP!Assumptions

queueVars == <<globals, requests>>
jobVars == <<nextJob, firstJob, lastJob, jobQueue, status, added, semaphore, shutdown,
             pc, job, signals, runs>>
ringVars == <<slots, insertIdx, numBackup, numWorker, poolShutdown, onShutdown, backup,
              backupOpen, worker, connections, result, copies, local, remote>>
idVars == vars
allVars == <<component, queueVars, jobVars, ringVars, idVars>>

PoolsInit ==
  /\ component \in {"queue", "jobs", "ring", "ids"}
  /\ Init /\ DQ!Init /\ JP!Init /\ CP!Init

QueueNext == component = "queue" /\ DQ!Next
JobsNext == component = "jobs" /\ JP!Next
RingNext == component = "ring" /\ CP!Next
IdsNext == component = "ids" /\ Next

PoolsNext ==
  /\ \/ QueueNext /\ UNCHANGED <<jobVars, ringVars, idVars>>
     \/ JobsNext /\ UNCHANGED <<queueVars, ringVars, idVars>>
     \/ RingNext /\ UNCHANGED <<queueVars, jobVars, idVars>>
     \/ IdsNext /\ UNCHANGED <<queueVars, jobVars, ringVars>>
  /\ UNCHANGED component

\* The fairness of JobPool and of ConnectionPool.
PoolsSpec ==
  /\ PoolsInit /\ [][PoolsNext]_allVars
  /\ \A j \in Jobs : WF_jobVars(component = "jobs" /\ JP!AddSignals(j))
  /\ \A w \in Workers : WF_jobVars(component = "jobs" /\ JP!Work(w))
  /\ WF_jobVars(component = "jobs" /\ JP!DestroySignals)
  /\ WF_ringVars(component = "ring" /\ CP!Backup)
  /\ WF_ringVars(component = "ring" /\ CP!Worker)

-----------------------------------------------------------------------------
(***************************************************************************)
(* With disciplined callers the database queue is a FIFO queue of closures *)
(* (database.lua:11-20 against :4-8).                                      *)
(***************************************************************************)
QueueIsFifo == DQ!ImplementsFifo

(***************************************************************************)
(* The jobs that wait are linked in the order they were added, each is run *)
(* once, by one worker, and none waits without a signal or a worker on its *)
(* way (jobs.cpp:39-60, 88-101).                                           *)
(***************************************************************************)
JobsKept == JP!LinksAreQueue /\ JP!RunOnce /\ JP!NoLostWakeUp

(***************************************************************************)
(* A job that was added is run in the end, unless the pool is destroyed    *)
(* (jobs.cpp:88-101).                                                      *)
(***************************************************************************)
JobsDone == JP!JobsDone

(***************************************************************************)
(* CJobPool::Destroy returns (jobs.cpp:77-86).                             *)
(***************************************************************************)
DestroyReturns == JP!DestroyReturns

(***************************************************************************)
(* The query that the backup thread looks at stays in its slot             *)
(* (connection_pool.cpp:214).                                              *)
(***************************************************************************)
PointerIsLive == CP!PointerIsLive

(***************************************************************************)
(* A write that a database has is never lost again                         *)
(* (connection_pool.cpp:181-185).                                          *)
(***************************************************************************)
NothingLost == CP!NothingLost

(***************************************************************************)
(* The ring, its semaphores and its indices are a FIFO queue of queries    *)
(* (connection_pool.cpp:146-330).                                          *)
(***************************************************************************)
RingIsFifo == CP!ImplementsFifo

(***************************************************************************)
(* OnShutdown of the connection pool returns, and both threads end         *)
(* (connection_pool.cpp:168).                                              *)
(***************************************************************************)
ShutdownEnds == CP!ShutdownEnds

=============================================================================
