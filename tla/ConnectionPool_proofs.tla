------------------------- MODULE ConnectionPool_proofs -------------------------
(***************************************************************************)
(* Proofs about ConnectionPool, for any number of queries and any size of  *)
(* the ring that the main thread does not overrun: the two threads, their  *)
(* indices and their semaphores are a queue, and no write gets lost.       *)
(***************************************************************************)
EXTENDS ConnectionPool, Sequences, FiniteSetTheorems, SequenceTheorems, TLAPS

\* The main thread never fills the ring.
Fits == Assumptions /\ MaxWaiting < RingSize

Positions == 0 .. RingSize - 1

(***************************************************************************)
(* Positions in the ring.                                                  *)
(***************************************************************************)
At(i, k) == (i + k) % RingSize

LEMMA Sizes ==
  ASSUME Fits
  PROVE  RingSize \in Nat \ {0} /\ MaxWaiting \in Nat /\ MaxWaiting < RingSize
BY DEF Fits, Assumptions

LEMMA AtIs ==
  ASSUME Fits, NEW i \in Positions, NEW k \in 0 .. RingSize
  PROVE  /\ At(i, k) = IF i + k < RingSize THEN i + k ELSE i + k - RingSize
         /\ At(i, k) \in Positions
<1>1. CASE i + k < RingSize
  <2>1. (i + k) % RingSize = i + k
    BY <1>1, Sizes DEF Positions
  <2>2. QED
    BY <1>1, <2>1, Sizes DEF At, Positions
<1>2. CASE i + k >= RingSize
  <2>1. (i + k) % RingSize = i + k - RingSize
    BY <1>2, Sizes DEF Positions
  <2>2. QED
    BY <1>2, <2>1, Sizes DEF At, Positions
<1>3. QED
  BY <1>1, <1>2, Sizes DEF Positions

LEMMA AtFacts ==
  ASSUME Fits, NEW i \in Positions
  PROVE  /\ At(i, 0) = i /\ At(i, RingSize) = i
         /\ NextIdx(i) = At(i, 1) /\ NextIdx(i) \in Positions
         /\ \A k \in 0 .. RingSize - 1 : /\ At(NextIdx(i), k) = At(i, k + 1)
                                         /\ NextIdx(At(i, k)) = At(i, k + 1)
         /\ \A j, k \in 0 .. RingSize - 1 : At(i, j) = At(i, k) => j = k
<1>1. At(i, 0) = i /\ At(i, RingSize) = i
  <2>1. /\ i \in 0 .. RingSize - 1 /\ RingSize \in Nat \ {0}
        /\ 0 \in 0 .. RingSize /\ RingSize \in 0 .. RingSize
    BY Sizes DEF Positions
  <2>2. At(i, 0) = IF i + 0 < RingSize THEN i + 0 ELSE i + 0 - RingSize
    BY <2>1, AtIs
  <2>3. At(i, RingSize) = IF i + RingSize < RingSize THEN i + RingSize
                          ELSE i + RingSize - RingSize
    BY <2>1, AtIs
  <2>4. QED
    BY <2>1, <2>2, <2>3
<1>2. ASSUME NEW j \in Positions PROVE NextIdx(j) = At(j, 1)
  BY DEF NextIdx, At
<1>3. NextIdx(i) = At(i, 1) /\ At(i, 1) \in Positions
  BY <1>2, AtIs, Sizes
<1>4. ASSUME NEW k \in 0 .. RingSize - 1
      PROVE  At(NextIdx(i), k) = At(i, k + 1) /\ NextIdx(At(i, k)) = At(i, k + 1)
  <2>1. At(i, 1) = IF i + 1 < RingSize THEN i + 1 ELSE i + 1 - RingSize
    BY AtIs, Sizes
  <2>2. At(i, k + 1) = IF i + (k + 1) < RingSize THEN i + (k + 1) ELSE i + (k + 1) - RingSize
    BY AtIs, Sizes
  <2>3. At(At(i, 1), k) = IF At(i, 1) + k < RingSize THEN At(i, 1) + k ELSE At(i, 1) + k - RingSize
    BY <1>3, AtIs, Sizes
  <2>4. At(i, k) = IF i + k < RingSize THEN i + k ELSE i + k - RingSize
    BY AtIs, Sizes
  <2>5. At(i, k) \in Positions
    BY AtIs, Sizes
  <2>6. At(At(i, k), 1) = IF At(i, k) + 1 < RingSize THEN At(i, k) + 1 ELSE At(i, k) + 1 - RingSize
    BY <2>5, AtIs, Sizes
  <2>7. At(At(i, 1), k) = At(i, k + 1)
    BY <2>1, <2>2, <2>3, Sizes DEF Positions
  <2>8. At(At(i, k), 1) = At(i, k + 1)
    BY <2>2, <2>4, <2>6, Sizes DEF Positions
  <2>9. QED
    BY <1>2, <1>3, <2>5, <2>7, <2>8
<1>5. ASSUME NEW j \in 0 .. RingSize - 1, NEW k \in 0 .. RingSize - 1, At(i, j) = At(i, k)
      PROVE  j = k
  <2>1. At(i, j) = IF i + j < RingSize THEN i + j ELSE i + j - RingSize
    BY AtIs, Sizes
  <2>2. At(i, k) = IF i + k < RingSize THEN i + k ELSE i + k - RingSize
    BY AtIs, Sizes
  <2>3. /\ i \in 0 .. RingSize - 1 /\ RingSize \in Nat \ {0}
        /\ (IF i + j < RingSize THEN i + j ELSE i + j - RingSize)
             = (IF i + k < RingSize THEN i + k ELSE i + k - RingSize)
    BY <1>5, <2>1, <2>2, Sizes DEF Positions
  <2>4. QED
    BY <2>3
<1>6. QED
  BY <1>1, <1>3, <1>4, <1>5

-----------------------------------------------------------------------------
(***************************************************************************)
(* The ring: n queries wait from the place of the worker to that of the    *)
(* main thread, the backup thread has handed on the first b of them.       *)
(***************************************************************************)
Ring(n, b) ==
  /\ n \in 0 .. MaxWaiting /\ b \in 0 .. n
  /\ insertIdx = At(worker.job, n)
  /\ backup.job = At(worker.job, b)
  /\ \A k \in 0 .. n - 1 : slots[At(worker.job, k)] \in Waiting
  /\ \A k \in n .. RingSize - 1 : slots[At(worker.job, k)] = Nil
  /\ \A j, k \in 0 .. n - 1 :
       slots[At(worker.job, j)] = slots[At(worker.job, k)] => j = k
  /\ IsFiniteSet(Waiting) /\ Cardinality(Waiting) = n

\* The semaphores.  At the end each holds one signal more.
Tokens(n, b) ==
  /\ numWorker = b + IF backup.pc = "exit" /\ worker.pc # "exit" THEN 1 ELSE 0
  /\ numBackup = n - b - (IF backup.pc = "exec" THEN 1 ELSE 0)
                 + IF onShutdown /\ backup.pc # "exit" THEN 1 ELSE 0
  /\ backup.pc = "exec" => b < n /\ backup.query = slots[backup.job]
  /\ backup.pc # "exec" => backup.query = Nil
  /\ backup.pc = "exit" => b = n /\ onShutdown
  /\ worker.pc = "exit" => n = 0 /\ backup.pc = "exit"

RingInv == TypeOK /\ \E n, b \in Nat : Ring(n, b) /\ Tokens(n, b)

LEMMA NilIsNone == ASSUME Fits PROVE Nil \notin Queries
BY DEF Fits, Assumptions

(* A position within the ring.                                             *)
LEMMA RingBounds ==
  ASSUME Fits, TypeOK, NEW n, NEW b, Ring(n, b)
  PROVE  /\ n \in Nat /\ b \in Nat /\ b <= n /\ n <= MaxWaiting /\ n < RingSize
         /\ worker.job \in Positions /\ insertIdx \in Positions /\ backup.job \in Positions
BY Sizes DEF Ring, TypeOK, Positions

(* The ring stays where the indices, the slots and the queries that wait do.*)
LEMMA RingFrame ==
  ASSUME NEW n, NEW b, Ring(n, b),
         slots' = slots, insertIdx' = insertIdx, worker'.job = worker.job,
         backup'.job = backup.job, Waiting' = Waiting
  PROVE  Ring(n, b)'
BY DEF Ring

(* The two ways a thread may go on from its semaphore.                     *)
LEMMA BackupWakes ==
  ASSUME TypeOK, BackupTakes
  PROVE  /\ backup.pc = "wait" /\ numBackup > 0 /\ numBackup' = numBackup - 1
         /\ UNCHANGED <<slots, mainVars, shutdown, backupOpen, worker, connections, result, tables>>
         /\ \/ /\ slots[backup.job] = Nil
               /\ backup' = [backup EXCEPT !.pc = "exit"]
               /\ numWorker' = numWorker + 1
            \/ /\ slots[backup.job] \in Queries
               /\ backup' = [backup EXCEPT !.pc = "exec", !.query = slots[backup.job]]
               /\ numWorker' = numWorker
BY DEF BackupTakes, TypeOK

LEMMA WorkerWakes ==
  ASSUME TypeOK, WorkerTakes
  PROVE  /\ worker.pc = "wait" /\ numWorker > 0 /\ numWorker' = numWorker - 1
         /\ UNCHANGED <<mainVars, numBackup, backup, backupOpen, connections, tables>>
         /\ \/ /\ slots[worker.job] = Nil
               /\ worker' = [worker EXCEPT !.pc = "exit"]
               /\ shutdown' = FALSE
               /\ UNCHANGED <<slots, result>>
            \/ /\ slots[worker.job] # Nil /\ slots[worker.job] \in Queries
               /\ worker' = [worker EXCEPT !.pc = "run", !.query = slots[worker.job],
                                           !.job = NextIdx(worker.job)]
               /\ slots' = [slots EXCEPT ![worker.job] = Nil]
               /\ result' = [result EXCEPT ![slots[worker.job]] = "taken"]
               /\ shutdown' = shutdown
BY DEF WorkerTakes, Ends, MovedOut, TypeOK

LEMMA TypeStep ==
  ASSUME Fits, TypeOK, [Next]_vars
  PROVE  TypeOK'
<1>1. ASSUME NEW q \in Queries, Submit(q) PROVE TypeOK'
  <2>1. NextIdx(insertIdx) \in 0 .. RingSize - 1
    BY AtFacts DEF TypeOK, Positions
  <2>2. slots' \in [0 .. RingSize - 1 -> Queries \cup {Nil}]
    BY <1>1 DEF Submit, TypeOK
  <2>3. result' \in [Queries -> {"new", "queued", "taken", "success", "failure"}]
    BY <1>1 DEF Submit, TypeOK
  <2>4. QED
    BY <1>1, <2>1, <2>2, <2>3 DEF Submit, TypeOK, tables
<1>2. CASE OnShutdown
  BY <1>2 DEF OnShutdown, TypeOK, tables
<1>3. CASE BackupTakes
  <2>1. backup' \in [pc : {"wait", "exec", "exit"}, job : 0 .. RingSize - 1,
                     query : Queries \cup {Nil}]
    BY <1>3, BackupWakes DEF TypeOK
  <2>2. numBackup' \in Nat /\ numWorker' \in Nat
    BY <1>3, BackupWakes DEF TypeOK
  <2>3. QED
    BY <1>3, <2>1, <2>2, BackupWakes DEF TypeOK, mainVars, tables
<1>4. CASE BackupExecutes
  <2>1. NextIdx(backup.job) \in 0 .. RingSize - 1
    BY AtFacts DEF TypeOK, Positions
  <2>2. copies' \subseteq Writes
    BY <1>4 DEF BackupExecutes, BackupFirst, TypeOK
  <2>3. QED
    BY <1>4, <2>1, <2>2 DEF BackupExecutes, TypeOK, mainVars
<1>5. CASE WorkerTop
  BY <1>5 DEF WorkerTop, TypeOK, mainVars, tables
<1>6. CASE WorkerTakes
  <2>1. NextIdx(worker.job) \in 0 .. RingSize - 1
    BY AtFacts DEF TypeOK, Positions
  <2>2. worker' \in [pc : {"top", "wait", "run", "succeeded", "failed", "exit"},
                     job : 0 .. RingSize - 1, query : Queries \cup {Nil}, failMode : BOOLEAN]
    BY <1>6, <2>1, WorkerWakes DEF TypeOK
  <2>3. slots' \in [0 .. RingSize - 1 -> Queries \cup {Nil}]
    BY <1>6, WorkerWakes DEF TypeOK
  <2>4. result' \in [Queries -> {"new", "queued", "taken", "success", "failure"}]
    BY <1>6, WorkerWakes DEF TypeOK
  <2>5. numWorker' \in Nat
    <3>1. numWorker > 0 /\ numWorker' = numWorker - 1 /\ numWorker \in Nat
      BY <1>6, WorkerWakes DEF TypeOK
    <3>2. QED
      BY <3>1
  <2>6. shutdown' = FALSE \/ shutdown' = shutdown
    BY <1>6, WorkerWakes
  <2>7. QED
    BY <1>6, <2>2, <2>3, <2>4, <2>5, <2>6, WorkerWakes DEF TypeOK, mainVars, tables
<1>7. CASE WorkerReads
  BY <1>7 DEF WorkerReads, Completed, TypeOK, mainVars, tables
<1>8. CASE WorkerRegisters
  BY <1>8 DEF WorkerRegisters, Completed, TypeOK, mainVars, tables
<1>9. CASE WorkerWrites
  BY <1>9 DEF WorkerWrites, TypeOK, mainVars
<1>10. CASE WorkerMovesCopy
  <2>1. worker'.pc = "top" /\ TypeOK
    BY <1>10 DEF WorkerMovesCopy, Completed, TypeOK
  <2>2. PICK success \in BOOLEAN, mode \in BOOLEAN : Completed(success, mode)
    BY <1>10 DEF WorkerMovesCopy, TypeOK
  <2>3. copies' \subseteq Writes /\ local' \subseteq Writes
    BY <1>10 DEF WorkerMovesCopy, CopyMoved, TypeOK
  <2>4. QED
    BY <1>10, <2>1, <2>2, <2>3 DEF WorkerMovesCopy, Completed, TypeOK, mainVars
<1>11. CASE UNCHANGED vars
  BY <1>11 DEF vars, mainVars, tables, TypeOK
<1>12. QED
  BY <1>1, <1>2, <1>3, <1>4, <1>5, <1>6, <1>7, <1>8, <1>9, <1>10, <1>11
  DEF Next, Backup, Worker, Rest

(* A query is put behind the last one.                                     *)
LEMMA SubmitRing ==
  ASSUME Fits, TypeOK, NEW n, NEW b, Ring(n, b), Tokens(n, b), NEW q \in Queries, Submit(q)
  PROVE  Ring(n + 1, b)' /\ Tokens(n + 1, b)'
<1> DEFINE w == worker.job
<1>1. /\ n \in Nat /\ b \in Nat /\ b <= n /\ n <= MaxWaiting /\ n < RingSize
      /\ w \in Positions /\ MaxWaiting \in Nat /\ RingSize \in Nat
  BY RingBounds, Sizes
<1>2. Waiting' = Waiting \cup {q} /\ q \notin Waiting
  BY DEF Submit, Waiting, TypeOK
<1>3. IsFiniteSet(Waiting') /\ Cardinality(Waiting') = n + 1
  BY <1>2, FS_AddElement DEF Ring
<1>4. n + 1 \in 0 .. MaxWaiting
  BY <1>1 DEF Ring, Submit
<1>5. insertIdx' = At(w, n + 1)
  BY <1>1, AtFacts DEF Submit, Ring
<1>6. /\ slots' = [slots EXCEPT ![At(w, n)] = q] /\ At(w, n) \in DOMAIN slots
      /\ DOMAIN slots = Positions
  BY <1>1, AtIs DEF Submit, Ring, TypeOK, Positions
<1>7. ASSUME NEW k \in 0 .. RingSize - 1
      PROVE  slots'[At(w, k)] = IF k = n THEN q ELSE slots[At(w, k)]
  <2>1. At(w, k) \in Positions /\ n \in 0 .. RingSize - 1 /\ k \in 0 .. RingSize
    BY <1>1, AtIs
  <2>2. At(w, k) = At(w, n) <=> k = n
    BY <1>1, <2>1, AtFacts
  <2>3. QED
    BY <1>6, <2>1, <2>2
<1>8. \A k \in 0 .. n - 1 : slots[At(w, k)] \in Waiting /\ slots[At(w, k)] # q
  BY <1>2 DEF Ring
<1>9. worker' = worker /\ backup' = backup
  BY DEF Submit
<1>10. \A k \in 0 .. (n + 1) - 1 : slots'[At(w, k)] \in Waiting'
  <2>1. \A k \in 0 .. (n + 1) - 1 : k \in 0 .. RingSize - 1 /\ (k = n \/ k \in 0 .. n - 1)
    BY <1>1
  <2>2. QED
    BY <1>2, <1>7, <1>8, <2>1
<1>11. \A k \in (n + 1) .. RingSize - 1 : slots'[At(w, k)] = Nil
  <2>1. \A k \in (n + 1) .. RingSize - 1 : k \in 0 .. RingSize - 1 /\ k # n /\ k \in n .. RingSize - 1
    BY <1>1
  <2>2. QED
    BY <1>7, <2>1 DEF Ring
<1>12. \A j, k \in 0 .. (n + 1) - 1 : slots'[At(w, j)] = slots'[At(w, k)] => j = k
  <2>1. \A k \in 0 .. (n + 1) - 1 : k \in 0 .. RingSize - 1 /\ (k = n \/ k \in 0 .. n - 1)
    BY <1>1
  <2>2. \A k \in 0 .. n - 1 : k # n
    BY <1>1
  <2>3. QED
    BY <1>7, <1>8, <2>1, <2>2 DEF Ring
<1>13. Ring(n + 1, b)'
  <2>1. b \in 0 .. n + 1 /\ backup'.job = At(worker'.job, b)
    BY <1>1, <1>9 DEF Ring
  <2>2. QED
    BY <1>3, <1>4, <1>5, <1>9, <1>10, <1>11, <1>12, <2>1 DEF Ring
<1>14. Tokens(n + 1, b)'
  <2>1. /\ numWorker' = numWorker /\ numBackup' = numBackup + 1
        /\ onShutdown' = onShutdown /\ ~onShutdown
    BY DEF Submit
  <2>2. backup.pc = "exec" => slots'[backup.job] = slots[backup.job]
    <3>1. backup.pc = "exec" => b # n /\ b \in 0 .. RingSize - 1
      BY <1>1 DEF Tokens
    <3>2. QED
      BY <1>7, <3>1 DEF Ring
  <2>3. QED
    BY <1>1, <1>9, <2>1, <2>2 DEF Tokens
<1>15. QED
  BY <1>13, <1>14

(* The first query leaves the ring.  An empty slot is the end.             *)
LEMMA WorkerTakesRing ==
  ASSUME Fits, TypeOK, NEW n, NEW b, Ring(n, b), Tokens(n, b), WorkerTakes
  PROVE  \/ Ring(n, b)' /\ Tokens(n, b)' /\ UNCHANGED result /\ worker'.pc = "exit"
         \/ n > 0 /\ Ring(n - 1, b - 1)' /\ Tokens(n - 1, b - 1)'
<1> DEFINE w == worker.job
           q == slots[w]
<1>1. /\ n \in Nat /\ b \in Nat /\ b <= n /\ n <= MaxWaiting /\ n < RingSize
      /\ w \in Positions /\ MaxWaiting \in Nat /\ RingSize \in Nat
  BY RingBounds, Sizes
<1>2. At(w, 0) = w
  BY <1>1, AtFacts
<1>3. q = Nil <=> n = 0
  <2>1. n = 0 => q = Nil
    BY <1>1, <1>2 DEF Ring
  <2>2. n # 0 => q \in Queries
    BY <1>1, <1>2 DEF Ring, Waiting
  <2>3. QED
    BY <2>1, <2>2, NilIsNone
<1>4. CASE q = Nil
  <2>1. /\ worker' = [worker EXCEPT !.pc = "exit"] /\ UNCHANGED <<slots, result, insertIdx, backup>>
        /\ numBackup' = numBackup /\ onShutdown' = onShutdown /\ worker.pc = "wait"
        /\ numWorker > 0 /\ numWorker' = numWorker - 1
    BY <1>4, WorkerWakes DEF mainVars
  <2>2. worker'.job = worker.job /\ worker'.pc = "exit" /\ Waiting' = Waiting
    BY <2>1 DEF TypeOK, Waiting
  <2>3. Ring(n, b)'
    BY <2>1, <2>2, RingFrame
  <2>4. n = 0 /\ b = 0
    BY <1>1, <1>3, <1>4
  <2>5. Tokens(n, b)'
    BY <2>1, <2>2, <2>4 DEF Tokens
  <2>6. QED
    BY <2>1, <2>2, <2>3, <2>5
<1>5. CASE q # Nil
  <2>1. /\ worker' = [worker EXCEPT !.pc = "run", !.query = q, !.job = NextIdx(w)]
        /\ slots' = [slots EXCEPT ![w] = Nil] /\ result' = [result EXCEPT ![q] = "taken"]
        /\ UNCHANGED <<insertIdx, backup, numBackup, onShutdown>> /\ worker.pc = "wait"
        /\ numWorker > 0 /\ numWorker' = numWorker - 1
    BY <1>5, WorkerWakes DEF mainVars
  <2>2. worker'.job = NextIdx(w) /\ worker'.pc = "run"
    BY <2>1 DEF TypeOK
  <2>3. n > 0 /\ b > 0
    <3>1. n > 0
      BY <1>1, <1>3, <1>5
    <3>2. b = 0 => backup.pc = "exit"
      BY <2>1 DEF Tokens
    <3>3. QED
      BY <1>1, <3>1, <3>2 DEF Tokens
  <2>4. q \in Waiting /\ Waiting' = Waiting \ {q}
    <3>1. q \in Waiting
      BY <1>1, <1>2, <2>3 DEF Ring
    <3>2. QED
      BY <2>1, <3>1 DEF Waiting, TypeOK
  <2>5. IsFiniteSet(Waiting') /\ Cardinality(Waiting') = n - 1
    BY <2>4, FS_RemoveElement DEF Ring
  <2>6. \A k \in 0 .. RingSize - 1 : At(worker'.job, k) = At(w, k + 1)
    BY <1>1, <2>2, AtFacts
  <2>7. insertIdx' = At(worker'.job, n - 1) /\ backup'.job = At(worker'.job, b - 1)
    <3>1. n - 1 \in 0 .. RingSize - 1 /\ b - 1 \in 0 .. RingSize - 1
      BY <1>1, <2>3
    <3>2. QED
      BY <1>1, <2>1, <2>6, <3>1 DEF Ring
  <2>8. ASSUME NEW k \in 0 .. RingSize - 1
        PROVE  slots'[At(worker'.job, k)] = IF k = RingSize - 1 THEN Nil ELSE slots[At(w, k + 1)]
    <3>1. CASE k = RingSize - 1
      <4>1. At(w, k + 1) = w
        BY <1>1, <3>1, AtFacts
      <4>2. QED
        BY <1>1, <2>1, <2>6, <3>1, <4>1 DEF TypeOK, Positions
    <3>2. CASE k # RingSize - 1
      <4>1. k + 1 \in 0 .. RingSize - 1 /\ k + 1 # 0 /\ 0 \in 0 .. RingSize - 1
        BY <1>1, <3>2
      <4>2. At(w, k + 1) # w
        BY <1>1, <1>2, <4>1, AtFacts
      <4>3. At(w, k + 1) \in Positions
        BY <1>1, <4>1, AtIs
      <4>4. QED
        BY <2>1, <2>6, <3>2, <4>2, <4>3 DEF TypeOK, Positions
    <3>3. QED
      BY <3>1, <3>2
  <2>9. \A k \in 0 .. (n - 1) - 1 : slots'[At(worker'.job, k)] \in Waiting'
    <3>1. ASSUME NEW k \in 0 .. (n - 1) - 1
          PROVE  slots'[At(worker'.job, k)] \in Waiting'
      <4>1. /\ k \in 0 .. RingSize - 1 /\ k # RingSize - 1 /\ k + 1 \in 0 .. n - 1
            /\ 0 \in 0 .. n - 1 /\ k + 1 # 0
        BY <1>1
      <4>2. slots'[At(worker'.job, k)] = slots[At(w, k + 1)]
        BY <2>8, <4>1
      <4>3. slots[At(w, k + 1)] \in Waiting /\ slots[At(w, k + 1)] # slots[At(w, 0)]
        BY <4>1 DEF Ring
      <4>4. QED
        BY <1>2, <2>4, <4>2, <4>3
    <3>2. QED
      BY <3>1
  <2>10. \A k \in (n - 1) .. RingSize - 1 : slots'[At(worker'.job, k)] = Nil
    <3>1. \A k \in (n - 1) .. RingSize - 1 :
            /\ k \in 0 .. RingSize - 1 /\ (k = RingSize - 1 \/ k + 1 \in n .. RingSize - 1)
      BY <1>1, <2>3
    <3>2. QED
      BY <2>8, <3>1 DEF Ring
  <2>11. \A j, k \in 0 .. (n - 1) - 1 :
           slots'[At(worker'.job, j)] = slots'[At(worker'.job, k)] => j = k
    <3>1. ASSUME NEW j \in 0 .. (n - 1) - 1, NEW k \in 0 .. (n - 1) - 1,
                 slots'[At(worker'.job, j)] = slots'[At(worker'.job, k)]
          PROVE  j = k
      <4>1. /\ j \in 0 .. RingSize - 1 /\ j # RingSize - 1 /\ j + 1 \in 0 .. n - 1
            /\ k \in 0 .. RingSize - 1 /\ k # RingSize - 1 /\ k + 1 \in 0 .. n - 1
        BY <1>1
      <4>2. slots[At(w, j + 1)] = slots[At(w, k + 1)]
        BY <2>8, <3>1, <4>1
      <4>3. j + 1 = k + 1
        BY <4>1, <4>2 DEF Ring
      <4>4. QED
        BY <4>1, <4>3
    <3>2. QED
      BY <3>1
  <2>12. Ring(n - 1, b - 1)'
    <3>1. n - 1 \in 0 .. MaxWaiting /\ b - 1 \in 0 .. n - 1
      BY <1>1, <2>3
    <3>2. QED
      BY <2>5, <2>7, <2>9, <2>10, <2>11, <3>1 DEF Ring
  <2>13. Tokens(n - 1, b - 1)'
    <3>1. backup.pc = "exec" => slots'[backup.job] = slots[backup.job]
      <4>1. backup.pc = "exec" => b \in 0 .. RingSize - 1 /\ b # 0 /\ 0 \in 0 .. RingSize - 1
        BY <1>1, <2>3
      <4>2. backup.pc = "exec" => backup.job # w
        BY <1>1, <1>2, <4>1, AtFacts DEF Ring
      <4>3. QED
        BY <2>1, <4>2 DEF TypeOK
    <3>2. worker.pc = "wait" /\ worker'.pc = "run"
      BY <2>1, <2>2
    <3>3. QED
      BY <1>1, <2>1, <2>3, <3>1, <3>2 DEF Tokens
  <2>14. QED
    BY <2>3, <2>12, <2>13
<1>6. QED
  BY <1>4, <1>5

(* The backup thread points at the next query that it has not handed on.   *)
LEMMA BackupTakesRing ==
  ASSUME Fits, TypeOK, NEW n, NEW b, Ring(n, b), Tokens(n, b), BackupTakes
  PROVE  Ring(n, b)' /\ Tokens(n, b)'
<1>1. /\ n \in Nat /\ b \in Nat /\ b <= n /\ n < RingSize /\ RingSize \in Nat
  BY RingBounds, Sizes
<1>2. slots[backup.job] = Nil <=> b = n
  <2>1. b = n => slots[backup.job] = Nil
    BY <1>1 DEF Ring
  <2>2. b # n => slots[backup.job] \in Queries
    BY <1>1 DEF Ring, Waiting
  <2>3. QED
    BY <2>1, <2>2, NilIsNone
<1>3. backup'.job = backup.job
  BY BackupWakes DEF TypeOK
<1>4. Ring(n, b)'
  <2>1. Waiting' = Waiting /\ slots' = slots /\ insertIdx' = insertIdx /\ worker' = worker
    BY BackupWakes DEF Waiting, mainVars
  <2>2. QED
    BY <1>3, <2>1, RingFrame
<1>5. /\ backup.pc = "wait" /\ numBackup > 0 /\ numBackup' = numBackup - 1
      /\ UNCHANGED <<slots, worker, onShutdown>>
  BY BackupWakes DEF mainVars
<1>6. CASE b = n
  <2>1. backup'.pc = "exit" /\ backup'.query = backup.query /\ numWorker' = numWorker + 1
    BY <1>2, <1>6, BackupWakes, NilIsNone DEF TypeOK
  <2>2. onShutdown
    BY <1>1, <1>5, <1>6 DEF Tokens
  <2>3. worker.pc # "exit"
    BY <1>5 DEF Tokens
  <2>4. QED
    BY <1>1, <1>4, <1>5, <1>6, <2>1, <2>2, <2>3 DEF Tokens
<1>7. CASE b # n
  <2>1. /\ backup'.pc = "exec" /\ backup'.query = slots[backup.job] /\ numWorker' = numWorker
    BY <1>2, <1>7, BackupWakes DEF TypeOK
  <2>2. QED
    BY <1>1, <1>3, <1>4, <1>5, <1>7, <2>1 DEF Tokens
<1>8. QED
  BY <1>6, <1>7

LEMMA BackupExecutesRing ==
  ASSUME Fits, TypeOK, NEW n, NEW b, Ring(n, b), Tokens(n, b), BackupExecutes
  PROVE  Ring(n, b + 1)' /\ Tokens(n, b + 1)'
<1>1. /\ n \in Nat /\ b \in Nat /\ b < n /\ n < RingSize
      /\ worker.job \in Positions /\ RingSize \in Nat
  BY RingBounds, Sizes DEF BackupExecutes, Tokens
<1>2. /\ backup'.job = NextIdx(backup.job) /\ backup'.pc = "wait" /\ backup'.query = Nil
      /\ numWorker' = numWorker + 1 /\ backup.pc = "exec"
      /\ UNCHANGED <<slots, insertIdx, onShutdown, numBackup, worker, result>>
  BY DEF BackupExecutes, mainVars
<1>3. backup'.job = At(worker.job, b + 1)
  <2>1. b \in 0 .. RingSize - 1
    BY <1>1
  <2>2. QED
    BY <1>1, <1>2, <2>1, AtFacts DEF Ring
<1>4. b + 1 \in 0 .. n
  BY <1>1
<1>5. Waiting' = Waiting
  BY <1>2 DEF Waiting
<1>6. Ring(n, b + 1)'
  BY <1>2, <1>3, <1>4, <1>5 DEF Ring
<1>7. Tokens(n, b + 1)'
  BY <1>1, <1>2 DEF Tokens
<1>8. QED
  BY <1>6, <1>7

\* The steps that move nothing in the ring.
Elsewhere ==
  \/ OnShutdown \/ WorkerTop \/ WorkerReads \/ WorkerRegisters \/ WorkerWrites
  \/ WorkerMovesCopy \/ UNCHANGED vars

LEMMA ElsewhereRing ==
  ASSUME Fits, TypeOK, NEW n, NEW b, Ring(n, b), Tokens(n, b), Elsewhere,
         worker.pc \in {"run", "succeeded", "failed"} => result[worker.query] # "queued"
  PROVE  Ring(n, b)' /\ Tokens(n, b)' /\ Waiting' = Waiting /\ UNCHANGED <<slots, worker.job>>
<1>1. Waiting' = Waiting
  <2>1. CASE WorkerReads \/ WorkerRegisters \/ WorkerMovesCopy
    <3>1. PICK success, mode : Completed(success, mode)
      BY <2>1 DEF WorkerReads, WorkerRegisters, WorkerMovesCopy
    <3>2. result[worker.query] # "queued"
      BY <2>1 DEF WorkerReads, WorkerRegisters, WorkerMovesCopy
    <3>3. result' = [result EXCEPT ![worker.query] = IF success THEN "success" ELSE "failure"]
      BY <3>1 DEF Completed
    <3>4. QED
      BY <3>2, <3>3 DEF Waiting, TypeOK
  <2>2. CASE ~(WorkerReads \/ WorkerRegisters \/ WorkerMovesCopy)
    <3>1. result' = result
      BY <2>2 DEF Elsewhere, OnShutdown, WorkerTop, WorkerWrites, vars
    <3>2. QED
      BY <3>1 DEF Waiting
  <2>3. QED
    BY <2>1, <2>2
<1>2. slots' = slots /\ insertIdx' = insertIdx /\ backup' = backup /\ worker'.job = worker.job
  BY DEF Elsewhere, OnShutdown, WorkerTop, WorkerReads, WorkerRegisters, WorkerWrites,
         WorkerMovesCopy, Completed, vars, mainVars, TypeOK
<1>3. Ring(n, b)'
  BY <1>1, <1>2, RingFrame
<1>4. /\ numWorker' = numWorker
      /\ (worker.pc = "exit") <=> (worker'.pc = "exit")
      /\ \/ onShutdown' = onShutdown /\ numBackup' = numBackup
         \/ ~onShutdown /\ onShutdown' /\ numBackup' = numBackup + 1
  BY DEF Elsewhere, OnShutdown, WorkerTop, WorkerReads, WorkerRegisters, WorkerWrites,
         WorkerMovesCopy, Completed, vars, mainVars, TypeOK
<1>5. Tokens(n, b)'
  <2>1. /\ n \in Nat /\ b \in Nat /\ numWorker \in Nat /\ numBackup \in Nat
    BY RingBounds DEF TypeOK
  <2>2. CASE onShutdown' = onShutdown /\ numBackup' = numBackup
    BY <1>2, <1>4, <2>2 DEF Tokens
  <2>3. CASE ~onShutdown /\ onShutdown' /\ numBackup' = numBackup + 1
    <3>1. backup.pc # "exit" /\ worker.pc # "exit"
      BY <2>3 DEF Tokens
    <3>2. QED
      BY <1>2, <1>4, <2>1, <2>3, <3>1 DEF Tokens
  <2>4. QED
    BY <1>4, <2>2, <2>3
<1>6. QED
  BY <1>1, <1>2, <1>3, <1>5

-----------------------------------------------------------------------------
(***************************************************************************)
(* The worker: it has the one query that is taken, and the write database  *)
(* and the local table hold a write only when it is reported or about to   *)
(* be.                                                                     *)
(***************************************************************************)
Busy == worker.pc \in {"run", "succeeded", "failed"}

Working ==
  /\ Busy => worker.query \in Queries
  /\ ~Busy => worker.query = Nil
  /\ \A q \in Queries : result[q] = "taken" <=> worker.query = q
  /\ worker.pc \in {"succeeded", "failed"} => worker.query \in Writes
  /\ (onShutdown /\ ~shutdown) => worker.pc = "exit"

\* Where the writes are that a database has.
Stored ==
  /\ DoneOnce
  /\ worker.pc = "succeeded" => worker.query \in remote
  /\ \A q \in local \cup remote :
       \/ result[q] = "success"
       \/ worker.query = q /\ worker.pc = "succeeded" /\ q \notin local

IInv == RingInv /\ Working /\ Stored

LEMMA InitIInv == ASSUME Fits PROVE Init => IInv
<1> SUFFICES ASSUME Init PROVE IInv
  OBVIOUS
<1>1. /\ RingSize \in Nat \ {0} /\ MaxWaiting \in Nat /\ 0 \in Positions
  BY Sizes DEF Positions
<1>2. TypeOK
  BY <1>1 DEF Init, TypeOK, Positions
<1>3. Waiting = {}
  BY DEF Init, Waiting
<1>4. Ring(0, 0)
  <2>1. At(0, 0) = 0
    BY <1>1, AtFacts
  <2>2. \A k \in 0 .. RingSize - 1 : slots[At(0, k)] = Nil
    BY <1>1, AtIs DEF Init, Positions
  <2>3. IsFiniteSet(Waiting) /\ Cardinality(Waiting) = 0
    BY <1>3, FS_EmptySet
  <2>4. 0 .. 0 - 1 = {} /\ 0 \in 0 .. MaxWaiting /\ 0 \in 0 .. 0
    BY <1>1
  <2>5. worker.job = 0 /\ backup.job = 0 /\ insertIdx = 0
    BY DEF Init
  <2>6. QED
    BY <2>1, <2>2, <2>3, <2>4, <2>5 DEF Ring
<1>5. Tokens(0, 0)
  BY DEF Init, Tokens
<1>6. Working
  BY NilIsNone DEF Init, Working, Busy
<1>7. Stored
  BY DEF Init, Stored, DoneOnce, Queries
<1>8. QED
  BY <1>2, <1>4, <1>5, <1>6, <1>7 DEF IInv, RingInv

LEMMA RingStep ==
  ASSUME Fits, RingInv, Working, [Next]_vars
  PROVE  RingInv'
<1>1. TypeOK /\ TypeOK'
  BY TypeStep DEF RingInv
<1>2. PICK n \in Nat, b \in Nat : Ring(n, b) /\ Tokens(n, b)
  BY DEF RingInv
<1>3. ASSUME NEW q \in Queries, Submit(q) PROVE RingInv'
  <2>1. Ring(n + 1, b)' /\ Tokens(n + 1, b)' /\ n + 1 \in Nat
    BY <1>1, <1>2, <1>3, SubmitRing
  <2>2. QED
    BY <1>1, <2>1 DEF RingInv
<1>4. CASE BackupTakes
  BY <1>1, <1>2, <1>4, BackupTakesRing DEF RingInv
<1>5. CASE BackupExecutes
  <2>1. Ring(n, b + 1)' /\ Tokens(n, b + 1)' /\ b + 1 \in Nat
    BY <1>1, <1>2, <1>5, BackupExecutesRing
  <2>2. QED
    BY <1>1, <2>1 DEF RingInv
<1>6. CASE WorkerTakes
  <2>1. CASE Ring(n, b)' /\ Tokens(n, b)'
    BY <1>1, <2>1 DEF RingInv
  <2>2. CASE n > 0 /\ Ring(n - 1, b - 1)' /\ Tokens(n - 1, b - 1)'
    <3>1. n - 1 \in Nat /\ b - 1 \in Nat
      BY <2>2 DEF Ring
    <3>2. QED
      BY <1>1, <2>2, <3>1 DEF RingInv
  <2>3. QED
    BY <1>1, <1>2, <1>6, <2>1, <2>2, WorkerTakesRing
<1>7. CASE Elsewhere
  <2>1. worker.pc \in {"run", "succeeded", "failed"} => result[worker.query] # "queued"
    BY DEF Working, Busy
  <2>2. QED
    BY <1>1, <1>2, <1>7, <2>1, ElsewhereRing DEF RingInv
<1>8. QED
  BY <1>3, <1>4, <1>5, <1>6, <1>7 DEF Next, Backup, Worker, Rest, Elsewhere

(* A query gets its result.                                                *)
LEMMA CompletedWorking ==
  ASSUME Fits, TypeOK, Working, Busy, NEW success, NEW mode, Completed(success, mode)
  PROVE  Working'
<1>1. /\ result' = [result EXCEPT ![worker.query] = IF success THEN "success" ELSE "failure"]
      /\ worker'.pc = "top" /\ worker'.query = Nil
      /\ onShutdown' = onShutdown /\ shutdown' = shutdown
  BY DEF Completed, TypeOK, mainVars
<1>2. worker.query \in Queries /\ ~Busy'
  BY <1>1 DEF Working, Busy
<1>3. \A q \in Queries : result'[q] # "taken" /\ q # Nil
  BY <1>1, <1>2, NilIsNone DEF Working, TypeOK
<1>4. ~(onShutdown /\ ~shutdown)
  BY DEF Working, Busy
<1>5. QED
  BY <1>1, <1>2, <1>3, <1>4 DEF Working, Busy

LEMMA WorkingStep ==
  ASSUME Fits, RingInv, Working, [Next]_vars
  PROVE  Working'
<1>1. TypeOK
  BY DEF RingInv
<1>2. ASSUME NEW q \in Queries, Submit(q) PROVE Working'
  BY <1>1, <1>2 DEF Submit, Working, Busy, TypeOK
<1>3. CASE OnShutdown
  BY <1>3 DEF OnShutdown, Working, Busy
<1>4. CASE BackupTakes
  BY <1>1, <1>4, BackupWakes DEF Working, Busy, tables, mainVars
<1>5. CASE BackupExecutes
  BY <1>5 DEF BackupExecutes, Working, Busy, mainVars
<1>6. CASE WorkerTop
  <2>1. worker.pc = "top" /\ worker'.pc = "wait" /\ worker'.query = worker.query
    BY <1>1, <1>6 DEF WorkerTop, TypeOK
  <2>2. UNCHANGED <<result, onShutdown, shutdown>>
    BY <1>6 DEF WorkerTop, mainVars
  <2>3. QED
    BY <2>1, <2>2 DEF Working, Busy
<1>7. CASE WorkerTakes
  <2>1. CASE slots[worker.job] = Nil
    <3>1. worker.pc = "wait" /\ worker'.pc = "exit" /\ worker'.query = worker.query
      BY <1>1, <1>7, <2>1, WorkerWakes DEF TypeOK
    <3>2. result' = result
      BY <1>1, <1>7, <2>1, WorkerWakes
    <3>3. QED
      BY <3>1, <3>2 DEF Working, Busy
  <2>2. CASE slots[worker.job] # Nil
    <3> DEFINE q == slots[worker.job]
    <3>1. q \in Queries
      BY <1>1, <1>7, <2>2, WorkerWakes
    <3>2. /\ worker.pc = "wait" /\ worker'.pc = "run" /\ worker'.query = q
          /\ result' = [result EXCEPT ![q] = "taken"]
          /\ UNCHANGED <<onShutdown, shutdown>>
      BY <1>1, <1>7, <2>2, WorkerWakes DEF TypeOK, mainVars
    <3>3. \A p \in Queries : result[p] # "taken"
      BY <3>2, NilIsNone DEF Working, Busy
    <3>4. ~(onShutdown /\ ~shutdown)
      BY <3>2 DEF Working
    <3> HIDE DEF q
    <3>5. \A p \in Queries : result'[p] = "taken" <=> p = q
      BY <1>1, <3>1, <3>2, <3>3 DEF TypeOK
    <3>6. QED
      BY <3>1, <3>2, <3>4, <3>5 DEF Working, Busy
  <2>3. QED
    BY <2>1, <2>2
<1>8. CASE WorkerReads \/ WorkerRegisters \/ WorkerMovesCopy
  <2>1. PICK success, mode : Completed(success, mode)
    BY <1>8 DEF WorkerReads, WorkerRegisters, WorkerMovesCopy
  <2>2. Busy
    BY <1>8 DEF WorkerReads, WorkerRegisters, WorkerMovesCopy, Busy
  <2>3. QED
    BY <1>1, <2>1, <2>2, CompletedWorking
<1>9. CASE WorkerWrites
  <2>1. /\ worker.pc = "run" /\ worker.query \in Writes /\ worker'.query = worker.query
        /\ worker'.pc \in {"succeeded", "failed"}
        /\ UNCHANGED <<result, onShutdown, shutdown>>
    BY <1>1, <1>9 DEF WorkerWrites, TypeOK, mainVars
  <2>2. QED
    BY <2>1 DEF Working, Busy
<1>10. CASE UNCHANGED vars
  BY <1>10 DEF vars, mainVars, Working, Busy
<1>11. QED
  BY <1>2, <1>3, <1>4, <1>5, <1>6, <1>7, <1>8, <1>9, <1>10 DEF Next, Backup, Worker, Rest

(* What a query becomes, for the places where the writes are.              *)
LEMMA StoredStep ==
  ASSUME Fits, RingInv, Working, Stored, [Next]_vars
  PROVE  Stored'
<1>1. TypeOK
  BY DEF RingInv
<1>2. /\ \A q \in Writes : q \in Queries /\ q \notin Reads /\ q \notin Modes
      /\ Nil \notin Writes
  BY DEF Fits, Assumptions, Queries
<1>3. ASSUME UNCHANGED <<local, remote>>,
             \A q \in Writes : result[q] = "success" <=> result'[q] = "success",
             worker.pc = "succeeded" => worker'.pc = "succeeded" /\ worker'.query = worker.query,
             worker'.pc = "succeeded" => worker.pc = "succeeded"
      PROVE  Stored'
  BY <1>1, <1>3 DEF Stored, DoneOnce, TypeOK
<1>4. ASSUME NEW q \in Queries, Submit(q) PROVE Stored'
  <2>1. UNCHANGED <<local, remote, worker>> /\ result' = [result EXCEPT ![q] = "queued"]
        /\ result[q] = "new"
    BY <1>4 DEF Submit, tables
  <2>2. QED
    BY <1>1, <1>2, <1>3, <2>1 DEF TypeOK
<1>5. CASE OnShutdown
  BY <1>3, <1>5 DEF OnShutdown, tables
<1>6. CASE BackupTakes
  BY <1>1, <1>3, <1>6, BackupWakes DEF tables
<1>7. CASE BackupExecutes
  BY <1>3, <1>7 DEF BackupExecutes
<1>8. CASE WorkerTop
  <2>1. worker.pc = "top" /\ worker'.pc = "wait" /\ UNCHANGED <<result, local, remote>>
    BY <1>1, <1>8 DEF WorkerTop, TypeOK, tables
  <2>2. QED
    BY <1>3, <2>1
<1>9. CASE WorkerTakes
  <2>1. worker.pc = "wait" /\ UNCHANGED <<local, remote>> /\ worker'.pc \in {"exit", "run"}
    BY <1>1, <1>9, WorkerWakes DEF TypeOK, tables
  <2>2. \A q \in Writes : result[q] = "success" <=> result'[q] = "success"
    <3>1. CASE result' = result
      BY <3>1
    <3>2. CASE result' # result
      <4>1. /\ slots[worker.job] \in Queries
            /\ result' = [result EXCEPT ![slots[worker.job]] = "taken"]
        BY <1>1, <1>9, <3>2, WorkerWakes
      <4>2. result[slots[worker.job]] = "queued"
        <5>1. PICK n \in Nat, b \in Nat : Ring(n, b) /\ Tokens(n, b)
          BY DEF RingInv
        <5>2. /\ n < RingSize /\ worker.job \in Positions /\ RingSize \in Nat
          BY <1>1, <5>1, RingBounds, Sizes
        <5>3. At(worker.job, 0) = worker.job
          BY <5>2, AtFacts
        <5>4. n # 0
          <6>1. n = 0 => slots[At(worker.job, 0)] = Nil
            BY <5>1, <5>2 DEF Ring
          <6>2. QED
            BY <4>1, <5>3, <6>1, NilIsNone
        <5>5. slots[At(worker.job, 0)] \in Waiting
          BY <5>1, <5>4 DEF Ring
        <5>6. QED
          BY <5>3, <5>5 DEF Waiting
      <4>3. QED
        BY <1>1, <1>2, <4>1, <4>2 DEF TypeOK
    <3>3. QED
      BY <3>1, <3>2
  <2>3. QED
    BY <1>3, <2>1, <2>2
<1>10. CASE WorkerReads \/ WorkerRegisters
  <2>1. PICK success, mode : Completed(success, mode)
    BY <1>10 DEF WorkerReads, WorkerRegisters
  <2>2. worker.pc = "run" /\ worker.query \in Reads \cup Modes /\ UNCHANGED <<local, remote>>
    BY <1>10 DEF WorkerReads, WorkerRegisters, tables
  <2>3. /\ result' = [result EXCEPT ![worker.query] = IF success THEN "success" ELSE "failure"]
        /\ worker'.pc = "top"
    BY <1>1, <2>1 DEF Completed, TypeOK
  <2>4. \A q \in Writes : result'[q] = result[q]
    BY <1>1, <1>2, <2>2, <2>3 DEF TypeOK
  <2>5. QED
    BY <1>3, <2>2, <2>3, <2>4
<1>11. CASE WorkerWrites
  <2>1. PICK success \in BOOLEAN :
          /\ worker' = [worker EXCEPT !.pc = IF success THEN "succeeded" ELSE "failed",
                                      !.failMode = @ \/ ~success]
          /\ remote' = IF success THEN remote \cup {worker.query} ELSE remote
    BY <1>11 DEF WorkerWrites
  <2>2. /\ worker.pc = "run" /\ worker.query \in Writes /\ worker'.query = worker.query
        /\ worker'.pc = IF success THEN "succeeded" ELSE "failed"
        /\ UNCHANGED <<result, local>>
    BY <1>1, <1>11, <2>1 DEF WorkerWrites, TypeOK
  <2>3. result[worker.query] = "taken"
    BY <1>2, <2>2 DEF Working
  <2>4. worker.query \notin local \cup remote
    BY <2>2, <2>3 DEF Stored
  <2>5. QED
    BY <1>1, <2>1, <2>2, <2>3, <2>4 DEF Stored, DoneOnce, TypeOK
<1>12. CASE WorkerMovesCopy
  <2>1. worker.query \in Writes /\ worker.pc \in {"succeeded", "failed"} /\ remote' = remote
    BY <1>12 DEF WorkerMovesCopy, Working
  <2>2. result[worker.query] = "taken"
    BY <1>2, <2>1 DEF Working
  <2>3. worker.pc = "failed" => worker.query \notin local \cup remote
    BY <2>1, <2>2 DEF Stored
  <2>4. PICK success, mode :
          /\ success \in BOOLEAN /\ Completed(success, mode)
          /\ \/ local' = local /\ (success <=> worker.pc = "succeeded")
             \/ success /\ local' = IF worker.pc = "succeeded" THEN local
                                    ELSE local \cup {worker.query}
    BY <1>12 DEF WorkerMovesCopy, CopyMoved
  <2>5. /\ result' = [result EXCEPT ![worker.query] = IF success THEN "success" ELSE "failure"]
        /\ worker'.pc = "top"
    BY <1>1, <2>4 DEF Completed, TypeOK
  <2>6. CASE worker.pc = "succeeded"
    <3>1. local' = local /\ success /\ worker.query \in remote
      BY <2>4, <2>6 DEF Stored
    <3>2. QED
      BY <1>1, <1>2, <2>1, <2>5, <2>6, <3>1 DEF Stored, DoneOnce, TypeOK
  <2>7. CASE worker.pc = "failed"
    <3>1. CASE success
      <4>1. local' = local \cup {worker.query}
        BY <2>4, <2>7, <3>1
      <4>2. QED
        BY <1>1, <1>2, <2>1, <2>3, <2>5, <2>7, <3>1, <4>1 DEF Stored, DoneOnce, TypeOK
    <3>2. CASE ~success
      <4>1. local' = local
        BY <2>4, <3>2
      <4>2. QED
        BY <1>1, <1>2, <2>1, <2>2, <2>3, <2>5, <2>7, <3>2, <4>1 DEF Stored, DoneOnce, TypeOK
    <3>3. QED
      BY <3>1, <3>2
  <2>8. QED
    BY <2>1, <2>6, <2>7
<1>13. CASE UNCHANGED vars
  BY <1>3, <1>13 DEF vars, tables
<1>14. QED
  BY <1>4, <1>5, <1>6, <1>7, <1>8, <1>9, <1>10, <1>11, <1>12, <1>13
  DEF Next, Backup, Worker, Rest

LEMMA IInvAlways == ASSUME Fits PROVE Spec => []IInv
<1>1. Init => IInv
  BY InitIInv
<1>2. IInv /\ [Next]_vars => IInv'
  BY RingStep, WorkingStep, StoredStep DEF IInv
<1>3. QED
  BY <1>1, <1>2, PTL DEF Spec

-----------------------------------------------------------------------------
(***************************************************************************)
(* The query that the backup thread looks at stays in its slot, whatever   *)
(* the main thread and the worker do meanwhile (connection_pool.cpp:214).  *)
(***************************************************************************)
THEOREM PointerAlwaysLive == ASSUME Fits PROVE Spec => []PointerIsLive
<1>1. IInv => PointerIsLive
  BY DEF IInv, RingInv, Tokens, PointerIsLive
<1>2. QED
  BY <1>1, IInvAlways, PTL

(***************************************************************************)
(* A write that was reported as done is in the write database or in the    *)
(* local table, and never in both (connection_pool.cpp:320-336).           *)
(***************************************************************************)
THEOREM DoneAlwaysOnce == ASSUME Fits PROVE Spec => []DoneOnce
<1>1. IInv => DoneOnce
  BY DEF IInv, Stored
<1>2. QED
  BY <1>1, IInvAlways, PTL

(***************************************************************************)
(* When OnShutdown returns, every query that was submitted has its result  *)
(* (connection_pool.cpp:216, 290).                                         *)
(***************************************************************************)
THEOREM ShutdownAfterAll == ASSUME Fits PROVE Spec => []AllWorkedThrough
<1>1. ASSUME IInv, onShutdown, ~shutdown, NEW q \in Queries
      PROVE  result[q] \in {"new", "success", "failure"}
  <2>1. worker.pc = "exit" /\ worker.query = Nil
    BY <1>1 DEF IInv, Working, Busy
  <2>2. result[q] # "taken"
    BY <1>1, <2>1, NilIsNone DEF IInv, Working
  <2>3. IsFiniteSet(Waiting) /\ Cardinality(Waiting) = 0
    BY <1>1, <2>1 DEF IInv, RingInv, Ring, Tokens
  <2>4. q \notin Waiting
    BY <2>3, FS_EmptySet
  <2>5. QED
    BY <1>1, <2>2, <2>4 DEF IInv, RingInv, TypeOK, Waiting
<1>2. IInv => AllWorkedThrough
  BY <1>1 DEF AllWorkedThrough
<1>3. QED
  BY <1>2, IInvAlways, PTL

(***************************************************************************)
(* No write that a database has is lost again, at whatever step the process*)
(* dies (connection_pool.cpp:181-185): the copy goes after the write it    *)
(* stands for.                                                             *)
(***************************************************************************)
THEOREM WritesAreKept == ASSUME Fits PROVE Spec => NothingLost
<1>1. ASSUME IInv, [Next]_vars PROVE Kept \subseteq Kept'
  <2>1. CASE BackupExecutes
    BY <2>1 DEF BackupExecutes, BackupFirst, Kept
  <2>2. CASE WorkerWrites
    BY <2>2 DEF WorkerWrites, Kept
  <2>3. CASE WorkerMovesCopy
    <3>1. worker.pc = "succeeded" => worker.query \in remote
      BY <1>1 DEF IInv, Stored
    <3>2. QED
      BY <2>3, <3>1 DEF WorkerMovesCopy, CopyMoved, Kept
  <2>4. CASE ~(BackupExecutes \/ WorkerWrites \/ WorkerMovesCopy)
    <3>1. UNCHANGED tables
      BY <1>1, <2>4
      DEF Next, Submit, OnShutdown, Backup, BackupTakes, Worker, WorkerTop, WorkerTakes,
          WorkerReads, WorkerRegisters, Rest, vars
    <3>2. QED
      BY <3>1 DEF tables, Kept
  <2>5. QED
    BY <2>1, <2>2, <2>3, <2>4
<1>2. IInv /\ [Next]_vars => [Kept \subseteq Kept']_vars
  BY <1>1
<1>3. QED
  BY <1>2, IInvAlways, PTL DEF Spec, NothingLost

-----------------------------------------------------------------------------
\* Queue lists the slots from the place of the worker on.
Listed(n) ==
  /\ Queue \in Seq(Queries) /\ Len(Queue) = n
  /\ \A k \in 1 .. n : Queue[k] = slots[At(worker.job, k - 1)]

AllListed == \A n, b \in Nat : Ring(n, b) => Listed(n)

LEMMA QueueIs ==
  ASSUME Fits, TypeOK, NEW n, NEW b, Ring(n, b)
  PROVE  Listed(n)
<1>1. n \in Nat /\ Cardinality(Waiting) = n /\ worker.job \in Nat
  BY RingBounds, Sizes DEF Ring, Positions
<1>2. ASSUME NEW k \in 1 .. n
      PROVE  slots[(worker.job + k - 1) % RingSize] = slots[At(worker.job, k - 1)]
  <2>1. worker.job + k - 1 = worker.job + (k - 1)
    BY <1>1
  <2>2. QED
    BY <2>1 DEF At
<1>3. ASSUME NEW k \in 1 .. n PROVE slots[At(worker.job, k - 1)] \in Queries
  <2>1. k - 1 \in 0 .. n - 1
    BY <1>1
  <2>2. QED
    BY <2>1 DEF Ring, Waiting
<1>4. Queue = [k \in 1 .. n |-> slots[(worker.job + k - 1) % RingSize]]
  BY <1>1 DEF Queue
<1>5. Queue \in [1 .. n -> Queries]
  BY <1>2, <1>3, <1>4
<1>6. Queue \in Seq(Queries)
  BY <1>1, <1>5, SeqDef
<1>7. Len(Queue) = n
  BY <1>1, <1>5, <1>6, LenProperties
<1>8. QED
  BY <1>2, <1>4, <1>6, <1>7 DEF Listed

LEMMA QueueFrame ==
  ASSUME UNCHANGED slots, worker'.job = worker.job, Waiting' = Waiting
  PROVE  Queue' = Queue
BY DEF Queue

LEMMA FifoStep ==
  ASSUME Fits, RingInv, RingInv', AllListed, AllListed', Working, [Next]_vars
  PROVE  \/ \E q \in Queries : Queue' = Append(Queue, q)
         \/ Queue # << >> /\ Queue' = Tail(Queue)
         \/ Queue' = Queue
<1>1. TypeOK /\ TypeOK'
  BY DEF RingInv
<1>2. PICK n \in Nat, b \in Nat : Ring(n, b) /\ Tokens(n, b)
  BY DEF RingInv
<1>3. /\ Queue \in Seq(Queries) /\ Len(Queue) = n
      /\ \A k \in 1 .. n : Queue[k] = slots[At(worker.job, k - 1)]
  BY <1>2 DEF AllListed, Listed
<1>4. n < RingSize /\ worker.job \in Positions /\ RingSize \in Nat
  BY <1>1, <1>2, RingBounds, Sizes
<1>5. \A m, c \in Nat : Ring(m, c)' =>
        /\ Queue' \in Seq(Queries) /\ Len(Queue') = m
        /\ \A k \in 1 .. m : Queue'[k] = slots'[At(worker'.job, k - 1)]
  BY DEF AllListed, Listed
<1>6. ASSUME NEW q \in Queries, Submit(q) PROVE Queue' = Append(Queue, q)
  <2>1. Ring(n + 1, b)'
    BY <1>1, <1>2, <1>6, SubmitRing
  <2>2. /\ Queue' \in Seq(Queries) /\ Len(Queue') = n + 1
        /\ \A k \in 1 .. n + 1 : Queue'[k] = slots'[At(worker'.job, k - 1)]
    <3>1. n + 1 \in Nat
      OBVIOUS
    <3>2. QED
      BY <1>5, <2>1, <3>1
  <2>3. /\ Append(Queue, q) \in Seq(Queries) /\ Len(Append(Queue, q)) = n + 1
        /\ Append(Queue, q)[n + 1] = q /\ \A k \in 1 .. n : Append(Queue, q)[k] = Queue[k]
    BY <1>3, AppendProperties
  <2>4. /\ worker' = worker /\ insertIdx = At(worker.job, n)
        /\ slots' = [slots EXCEPT ![At(worker.job, n)] = q]
    BY <1>2, <1>6 DEF Submit, Ring
  <2>5. ASSUME NEW k \in 1 .. n + 1 PROVE Queue'[k] = Append(Queue, q)[k]
    <3>1. k - 1 \in 0 .. RingSize - 1 /\ n \in 0 .. RingSize - 1
      BY <1>4
    <3>2. At(worker.job, k - 1) \in Positions /\ (At(worker.job, k - 1) = At(worker.job, n) => k - 1 = n)
      BY <1>4, <3>1, AtFacts, AtIs
    <3>3. CASE k = n + 1
      <4>1. k - 1 = n
        BY <3>3
      <4>2. QED
        BY <1>1, <2>2, <2>3, <2>4, <3>2, <3>3, <4>1 DEF TypeOK, Positions
    <3>4. CASE k # n + 1
      <4>1. k \in 1 .. n /\ k - 1 # n
        BY <3>4
      <4>2. QED
        BY <1>1, <1>3, <2>2, <2>3, <2>4, <3>2, <4>1 DEF TypeOK, Positions
    <3>5. QED
      BY <3>3, <3>4
  <2>6. QED
    BY <2>2, <2>3, <2>5, SeqEqual
<1>7. CASE WorkerTakes
  <2>1. CASE Ring(n, b)' /\ Tokens(n, b)' /\ UNCHANGED result /\ worker'.pc = "exit"
    <3>1. worker'.job = worker.job /\ slots' = slots
      BY <1>1, <1>7, <2>1, WorkerWakes DEF TypeOK
    <3>2. Waiting' = Waiting
      BY <2>1 DEF Waiting
    <3>3. QED
      BY <3>1, <3>2, QueueFrame
  <2>2. CASE n > 0 /\ Ring(n - 1, b - 1)' /\ Tokens(n - 1, b - 1)'
    <3>1. /\ Queue' \in Seq(Queries) /\ Len(Queue') = n - 1
          /\ \A k \in 1 .. n - 1 : Queue'[k] = slots'[At(worker'.job, k - 1)]
      <4>1. n - 1 \in Nat /\ b - 1 \in Nat
        BY <2>2 DEF Ring
      <4>2. QED
        BY <1>5, <2>2, <4>1
    <3>2. Queue # << >>
      BY <1>3, <2>2
    <3>3. /\ Tail(Queue) \in Seq(Queries) /\ Len(Tail(Queue)) = n - 1
          /\ \A k \in 1 .. n - 1 : Tail(Queue)[k] = Queue[k + 1]
      BY <1>3, <3>2, HeadTailProperties
    <3>4. slots[worker.job] # Nil
      <4>1. At(worker.job, 0) = worker.job /\ 0 \in 0 .. n - 1
        BY <1>4, <2>2, AtFacts
      <4>2. QED
        BY <1>2, <4>1, NilIsNone DEF Ring, Waiting
    <3>5. worker'.job = NextIdx(worker.job) /\ slots' = [slots EXCEPT ![worker.job] = Nil]
      BY <1>1, <1>7, <3>4, WorkerWakes DEF TypeOK
    <3>6. ASSUME NEW k \in 1 .. n - 1 PROVE Queue'[k] = Tail(Queue)[k]
      <4>1. /\ k \in 0 .. RingSize - 1 /\ k # 0 /\ 0 \in 0 .. RingSize - 1 /\ k - 1 \in 0 .. RingSize - 1
            /\ (k - 1) + 1 = k /\ (k + 1) - 1 = k /\ k + 1 \in 1 .. n
        BY <1>4
      <4>2. At(worker'.job, k - 1) = At(worker.job, k)
        BY <1>4, <3>5, <4>1, AtFacts
      <4>3. At(worker.job, k) # worker.job
        <5>1. At(worker.job, 0) = worker.job
          BY <1>4, AtFacts
        <5>2. At(worker.job, k) = At(worker.job, 0) => k = 0
          BY <1>4, <4>1, AtFacts
        <5>3. QED
          BY <4>1, <5>1, <5>2
      <4>4. Queue[k + 1] = slots[At(worker.job, k)]
        BY <1>3, <4>1
      <4>5. slots'[At(worker.job, k)] = slots[At(worker.job, k)]
        BY <1>1, <3>5, <4>3 DEF TypeOK
      <4>6. QED
        BY <3>1, <3>3, <4>2, <4>4, <4>5
    <3>7. QED
      BY <3>1, <3>2, <3>3, <3>6, SeqEqual
  <2>3. QED
    BY <1>1, <1>2, <1>7, <2>1, <2>2, WorkerTakesRing
<1>8. CASE BackupTakes \/ BackupExecutes
  <2>1. UNCHANGED <<slots, worker, result>>
    BY <1>1, <1>8, BackupWakes DEF BackupExecutes
  <2>2. QED
    BY <2>1, QueueFrame DEF Waiting
<1>9. CASE Elsewhere
  <2>1. worker.pc \in {"run", "succeeded", "failed"} => result[worker.query] # "queued"
    BY DEF Working, Busy
  <2>2. QED
    BY <1>1, <1>2, <1>9, <2>1, ElsewhereRing, QueueFrame
<1>10. QED
  BY <1>6, <1>7, <1>8, <1>9 DEF Next, Backup, Worker, Rest, Elsewhere

(***************************************************************************)
(* The ring, the two semaphores and the three indices are a queue: the     *)
(* worker gets every query once, in the order of Execute and ExecuteWrite  *)
(* (connection_pool.cpp:146-330).                                          *)
(***************************************************************************)
THEOREM RingIsQueue == ASSUME Fits PROVE Spec => ImplementsFifo
<1>1. Init /\ IInv => Fifo!Init
  <2>1. ASSUME Init, IInv PROVE Queue = << >>
    <3>1. Waiting = {}
      BY <2>1 DEF Init, Waiting
    <3>2. Cardinality(Waiting) = 0
      BY <3>1, FS_EmptySet
    <3>3. PICK n \in Nat, b \in Nat : Ring(n, b)
      BY <2>1 DEF IInv, RingInv
    <3>4. n = 0
      BY <3>2, <3>3 DEF Ring
    <3>5. Queue \in Seq(Queries) /\ Len(Queue) = 0
      BY <2>1, <3>3, <3>4, QueueIs DEF IInv, RingInv, Listed
    <3>6. QED
      BY <3>5, EmptySeq
  <2>2. QED
    BY <2>1 DEF Fifo!Init, Queue
<1>2. IInv => AllListed
  BY QueueIs DEF IInv, RingInv, AllListed
<1>3. (IInv /\ AllListed) /\ (IInv /\ AllListed)' /\ [Next]_vars => [Fifo!Next]_Queue
  BY FifoStep DEF IInv, Fifo!Next, Fifo!Submit, Fifo!Serve, Queue
<1>4. QED
  BY <1>1, <1>2, <1>3, IInvAlways, PTL DEF Spec, ImplementsFifo, Fifo!Spec, Queue

=============================================================================
