---------------------------- MODULE ConnectionPool ----------------------------
(***************************************************************************)
(* The database connection pool of the server (CDbConnectionPool,          *)
(* src/engine/server/databases/connection_pool.cpp).  The main thread puts *)
(* queries into a ring, a backup thread looks at each and stores the writes*)
(* in a local database, then a worker takes the query out of its slot and  *)
(* runs it on the real database.  Two semaphores hand the queries on.  An  *)
(* empty slot tells both threads that the pool shuts down.                 *)
(*                                                                         *)
(* A query is a read, a write, or the registration of a database, which is *)
(* named by its mode.  Each is submitted once.  The functions of the       *)
(* queries are external: they may fail at any time.                        *)
(***************************************************************************)
EXTENDS Naturals, FiniteSets

CONSTANTS
  Reads, Writes,   \* queries of Execute and of ExecuteWrite
  Modes,           \* the databases that get registered
  RingSize,        \* std::size(m_aQueries)
  MaxWaiting,      \* bound: queries in the ring at the same time
  Nil

Queries == Reads \cup Writes \cup Modes

\* What the constants are assumed to be.
Assumptions ==
  /\ Modes \subseteq {"READ", "WRITE", "WRITE_BACKUP"}
  /\ Reads \cap Writes = {} /\ (Reads \cup Writes) \cap Modes = {}
  /\ Nil \notin Queries
  /\ RingSize \in Nat \ {0} /\ MaxWaiting \in Nat

VARIABLES
  slots,         \* m_aQueries
  insertIdx,     \* m_InsertIdx
  numBackup,     \* m_NumBackup
  numWorker,     \* m_NumWorker
  shutdown,      \* CSharedData::m_Shutdown
  onShutdown,    \* CDbConnectionPool::m_Shutdown
  backup,        \* the backup thread: pc, JobNum and pThreadData
  backupOpen,    \* CBackup::m_pWriteBackup is there
  worker,        \* the worker: pc, JobNum, pThreadData, FailMode
  connections,   \* the connections of the worker, by mode
  result,        \* where each query is, and ISqlResult at the end
  copies,        \* external: writes in the backup table of the backup database
  local,         \* external: writes in its other table
  remote         \* external: writes in the write database

mainVars == <<insertIdx, onShutdown>>
tables == <<copies, local, remote>>
vars == <<slots, numBackup, numWorker, shutdown, mainVars, backup, backupOpen,
          worker, connections, result, tables>>

Waiting == {q \in Queries : result[q] = "queued"}

TypeOK ==
  /\ slots \in [0 .. RingSize - 1 -> Queries \cup {Nil}]
  /\ insertIdx \in 0 .. RingSize - 1
  /\ numBackup \in Nat /\ numWorker \in Nat
  /\ shutdown \in BOOLEAN /\ onShutdown \in BOOLEAN
  /\ backup \in [pc : {"wait", "exec", "exit"}, job : 0 .. RingSize - 1,
                 query : Queries \cup {Nil}]
  /\ backupOpen \in BOOLEAN
  /\ worker \in [pc : {"top", "wait", "run", "succeeded", "failed", "exit"},
                 job : 0 .. RingSize - 1, query : Queries \cup {Nil},
                 failMode : BOOLEAN]
  /\ connections \subseteq Modes
  /\ result \in [Queries -> {"new", "queued", "taken", "success", "failure"}]
  /\ copies \subseteq Writes /\ local \subseteq Writes /\ remote \subseteq Writes

Init ==
  /\ slots = [i \in 0 .. RingSize - 1 |-> Nil]
  /\ insertIdx = 0
  /\ numBackup = 0 /\ numWorker = 0
  /\ shutdown = FALSE /\ onShutdown = FALSE
  /\ backup = [pc |-> "wait", job |-> 0, query |-> Nil]
  /\ backupOpen = FALSE
  /\ worker = [pc |-> "top", job |-> 0, query |-> Nil, failMode |-> FALSE]
  /\ connections = {}
  /\ result = [q \in Queries |-> "new"]
  /\ copies = {} /\ local = {} /\ remote = {}

\* Mutant: the index wraps one slot early.
NextIdxShort(i) == (i + 1) % (RingSize - 1)

\* An index or a JobNum, modulo the size of the ring.
NextIdx(i) == (i + 1) % RingSize

-----------------------------------------------------------------------------
\* The main thread.  The server registers the backup before anything else.
Submit(q) ==
  /\ ~onShutdown
  /\ result[q] = "new"
  /\ ("WRITE_BACKUP" \in Modes /\ q # "WRITE_BACKUP")
       => result["WRITE_BACKUP"] # "new"
  /\ Cardinality(Waiting) < MaxWaiting
  /\ slots' = [slots EXCEPT ![insertIdx] = q]
  /\ insertIdx' = NextIdx(insertIdx)
  /\ numBackup' = numBackup + 1
  /\ result' = [result EXCEPT ![q] = "queued"]
  /\ UNCHANGED <<numWorker, shutdown, onShutdown, backup, backupOpen, worker,
                 connections, tables>>

OnShutdown ==
  /\ ~onShutdown
  /\ onShutdown' = TRUE
  /\ shutdown' = TRUE
  /\ numBackup' = numBackup + 1
  /\ UNCHANGED <<slots, insertIdx, numWorker, backup, backupOpen, worker,
                 connections, result, tables>>

-----------------------------------------------------------------------------
\* CBackup::ProcessQueries waits and reads the slot; an empty one ends it.
BackupTakes ==
  /\ backup.pc = "wait" /\ numBackup > 0
  /\ numBackup' = numBackup - 1
  /\ LET q == slots[backup.job]
     IN IF q = Nil
        THEN /\ backup' = [backup EXCEPT !.pc = "exit"]
             /\ numWorker' = numWorker + 1
        ELSE /\ backup' = [backup EXCEPT !.pc = "exec", !.query = q]
             /\ UNCHANGED numWorker
  /\ UNCHANGED <<slots, mainVars, shutdown, backupOpen, worker, connections,
                 result, tables>>

\* The function of a write with BACKUP_FIRST, on the open backup database.
BackupFirst(q) ==
  \/ copies' = copies
  \/ q \in Writes /\ backupOpen /\ copies' = copies \cup {q}

\* Mutant: the query is handed on before it is looked at.
BackupHandsOnFirst ==
  /\ backup.pc = "exec"
  /\ \/ /\ numWorker' = numWorker + 1
        /\ UNCHANGED <<backup, backupOpen, copies>>
     \/ /\ BackupFirst(backup.query)
        /\ backupOpen' = (backupOpen \/ backup.query = "WRITE_BACKUP")
        /\ backup' = [pc |-> "wait", job |-> NextIdx(backup.job), query |-> Nil]
        /\ UNCHANGED numWorker
  /\ UNCHANGED <<slots, mainVars, numBackup, shutdown, worker, connections,
                 result, local, remote>>

\* The rest of the loop: the query is looked at and handed on.
BackupExecutes ==
  /\ backup.pc = "exec"
  /\ BackupFirst(backup.query)
  /\ backupOpen' = (backupOpen \/ backup.query = "WRITE_BACKUP")
  /\ numWorker' = numWorker + 1
  /\ backup' = [pc |-> "wait", job |-> NextIdx(backup.job), query |-> Nil]
  /\ UNCHANGED <<slots, mainVars, numBackup, shutdown, worker, connections,
                 result, local, remote>>

-----------------------------------------------------------------------------
\* The top of the loop of CWorker::ProcessQueries.
WorkerTop ==
  /\ worker.pc = "top"
  /\ worker' = [worker EXCEPT !.pc = "wait",
                              !.failMode = @ /\ numWorker # 0]
  /\ UNCHANGED <<slots, mainVars, numBackup, numWorker, shutdown, backup,
                 backupOpen, connections, result, tables>>

\* An empty slot ends the worker.
Ends(q) == q = Nil

\* Mutant: the query is read and not moved.
MovedOutNot(i) == slots

MovedOut(i) == [slots EXCEPT ![i] = Nil]

\* The worker moves the query out of its slot.
WorkerTakes ==
  /\ worker.pc = "wait" /\ numWorker > 0
  /\ numWorker' = numWorker - 1
  /\ LET q == slots[worker.job]
     IN IF Ends(q)
        THEN /\ worker' = [worker EXCEPT !.pc = "exit"]
             /\ shutdown' = FALSE
             /\ UNCHANGED <<slots, result>>
        ELSE /\ worker' = [worker EXCEPT !.pc = "run", !.query = q,
                                         !.job = NextIdx(@)]
             /\ slots' = MovedOut(worker.job)
             /\ result' = [result EXCEPT ![q] = "taken"]
             /\ UNCHANGED shutdown
  /\ UNCHANGED <<mainVars, numBackup, backup, backupOpen, connections, tables>>

\* The end of the loop: the result is published and the query freed.
Completed(success, failMode) ==
  /\ result' = [result EXCEPT ![worker.query] =
                  IF success THEN "success" ELSE "failure"]
  /\ worker' = [worker EXCEPT !.pc = "top", !.query = Nil, !.failMode = failMode]
  /\ UNCHANGED <<slots, mainVars, numBackup, numWorker, shutdown, backup,
                 backupOpen>>

WorkerReads ==
  /\ worker.pc = "run" /\ worker.query \in Reads
  /\ \E success \in BOOLEAN :
       /\ success => "READ" \in connections /\ ~shutdown /\ ~worker.failMode
       /\ Completed(success, worker.failMode \/ ~success)
  /\ UNCHANGED <<connections, tables>>

WorkerRegisters ==
  /\ worker.pc = "run" /\ worker.query \in Modes
  /\ connections' = connections \cup {worker.query}
  /\ Completed(TRUE, worker.failMode)
  /\ UNCHANGED tables

\* The first half of a write: NORMAL on the write database, unless a backup
\* spares the attempt.
WorkerWrites ==
  /\ worker.pc = "run" /\ worker.query \in Writes
  /\ \E success \in BOOLEAN :
       /\ success => /\ "WRITE" \in connections
                     /\ ~(   (shutdown \/ worker.failMode)
                          /\ "WRITE_BACKUP" \in connections)
       /\ worker' = [worker EXCEPT !.pc = IF success THEN "succeeded" ELSE "failed",
                                   !.failMode = @ \/ ~success]
       /\ remote' = IF success THEN remote \cup {worker.query} ELSE remote
  /\ UNCHANGED <<slots, mainVars, numBackup, numWorker, shutdown, backup,
                 backupOpen, connections, result, copies, local>>

\* Mutant: after a failure the copy is removed as after a success.
CopyRemoved(q) ==
  /\ copies' = copies \ {q}
  /\ UNCHANGED local

\* NORMAL_SUCCEEDED removes the copy, NORMAL_FAILED moves it to the other table.
CopyMoved(q) ==
  /\ copies' = copies \ {q}
  /\ IF worker.pc = "succeeded"
     THEN UNCHANGED local
     ELSE q \in copies /\ local' = local \cup {q}

\* The second half of a write: what becomes of the copy.
WorkerMovesCopy ==
  /\ worker.pc \in {"succeeded", "failed"}
  /\ \/ /\ "WRITE_BACKUP" \in connections
        /\ CopyMoved(worker.query)
        /\ Completed(TRUE, worker.failMode)
     \/ /\ UNCHANGED <<copies, local>>
        /\ Completed(worker.pc = "succeeded", worker.failMode)
  /\ UNCHANGED <<connections, remote>>

-----------------------------------------------------------------------------
\* The threads wait or are gone, and the main thread submits nothing.
Rest ==
  /\ worker.pc = "exit" \/ (worker.pc = "wait" /\ numWorker = 0)
  /\ backup.pc = "exit" \/ (backup.pc = "wait" /\ numBackup = 0)
  /\ UNCHANGED vars

Backup == BackupTakes \/ BackupExecutes
Worker == WorkerTop \/ WorkerTakes \/ WorkerReads \/ WorkerRegisters
          \/ WorkerWrites \/ WorkerMovesCopy

Next ==
  \/ \E q \in Queries : Submit(q)
  \/ OnShutdown
  \/ Backup
  \/ Worker
  \/ Rest

Spec == Init /\ [][Next]_vars

\* The threads run, and no database call blocks for ever.
FairSpec == Spec /\ WF_vars(Backup) /\ WF_vars(Worker)

-----------------------------------------------------------------------------
(***************************************************************************)
(* The query the backup thread points at (get(), connection_pool.cpp:214)  *)
(* stays in its slot while the thread looks at it: the main thread has not *)
(* put another there and the worker has not moved and freed it.            *)
(***************************************************************************)
PointerIsLive == backup.query # Nil => slots[backup.job] = backup.query

(***************************************************************************)
(* A write is never lost again once a database has it, wherever the process*)
(* dies: the copy goes only when the write or its move is done             *)
(* (connection_pool.cpp:181-185).                                          *)
(***************************************************************************)
Kept == copies \cup local \cup remote
NothingLost == [][Kept \subseteq Kept']_vars

(***************************************************************************)
(* A write that was reported as done is in the write database or in the    *)
(* local table, from which it is sent later, and never in both: that would *)
(* load it twice (connection_pool.cpp:320-336).                            *)
(***************************************************************************)
DoneOnce ==
  /\ \A q \in Writes : result[q] = "success" => q \in local \cup remote
  /\ local \cap remote = {}

(***************************************************************************)
(* "Work through all database jobs after OnShutdown is called before       *)
(* exiting the thread" (connection_pool.cpp:216, 290): when OnShutdown     *)
(* returns, no query is left without a result.                             *)
(***************************************************************************)
AllWorkedThrough ==
  (onShutdown /\ ~shutdown) =>
    \A q \in Queries : result[q] \in {"new", "success", "failure"}

(***************************************************************************)
(* The queries reach the worker in the order of their submission, each     *)
(* once: the ring, the two semaphores and the two indices are a queue.     *)
(***************************************************************************)
Queue == [i \in 1 .. Cardinality(Waiting) |->
            slots[(worker.job + i - 1) % RingSize]]

Fifo == INSTANCE FifoQueue WITH Closures <- Queries, queue <- Queue

ImplementsFifo == Fifo!Spec

(***************************************************************************)
(* A shutdown ends: OnShutdown sees its flag cleared, and the destructor   *)
(* can join both threads (connection_pool.cpp:168, 457-464).               *)
(***************************************************************************)
ShutdownEnds == onShutdown ~> (~shutdown /\ worker.pc = "exit" /\ backup.pc = "exit")

=============================================================================
