---------------------------- MODULE MCPools_proofs ----------------------------
(***************************************************************************)
(* Proofs about the queues and pools that MCPools puts side by side.       *)
(*                                                                         *)
(* The snap ids, for any number of ids: the two lists that share m_Next    *)
(* never mix and lose no id, the counters count, and the pool is an        *)
(* allocator that withholds no id for longer than the quarantine.          *)
(*                                                                         *)
(* The database queue: no request is ever without a closure, and with      *)
(* disciplined callers the queue is a FIFO queue of closures.              *)
(*                                                                         *)
(* The job pool: the links hold the jobs that wait in their order, each job*)
(* is run once, and no wake-up is lost.                                    *)
(*                                                                         *)
(* The connection pool: what ConnectionPool_proofs proves of it holds in   *)
(* the composition.                                                        *)
(***************************************************************************)
EXTENDS MCPools, FiniteSetTheorems, SequenceTheorems, TLAPS

(***************************************************************************)
(* A list in an array of links: s lists the n members of S in the order in *)
(* which nx runs through them from first.                                  *)
(***************************************************************************)
Chain(nx, S, first, n, s) ==
  /\ n \in Nat /\ s \in [1 .. n -> Ids]
  /\ \A j, k \in 1 .. n : s[j] = s[k] => j = k
  /\ first = IF n = 0 THEN NoId ELSE s[1]
  /\ \A j \in 1 .. n : nx[s[j]] = IF j = n THEN NoId ELSE s[j + 1]
  /\ S = {s[j] : j \in 1 .. n}

LEMMA NoIdIsNone == NoId \notin Ids
BY DEF NoId, Ids

(* A list without repetitions is no longer than the array.                 *)
LEMMA ChainBound ==
  ASSUME Assumptions, NEW nx, NEW S, NEW first, NEW n, NEW s, Chain(nx, S, first, n, s)
  PROVE  n \in 0 .. MaxIds
<1>1. n \in Nat /\ MaxIds \in Nat \ {0}
  BY DEF Assumptions, Chain
<1>2. s \in Injection(1 .. n, Ids)
  BY DEF Chain, Injection, IsInjective
<1>3. IsFiniteSet(Ids) /\ Cardinality(Ids) = MaxIds
  BY <1>1, FS_Interval DEF Ids
<1>4. Cardinality(1 .. n) = n
  BY <1>1, FS_Interval
<1>5. n <= MaxIds
  BY <1>2, <1>3, <1>4, FS_Injection
<1>6. QED
  BY <1>1, <1>5

(* Where the links of its members stay, the list stays.                    *)
LEMMA ChainFrame ==
  ASSUME NEW nx, NEW S, NEW first, NEW n, NEW s, Chain(nx, S, first, n, s),
         NEW ny, \A i \in S : ny[i] = nx[i]
  PROVE  Chain(ny, S, first, n, s)
BY DEF Chain

LEMMA ChainTail ==
  ASSUME NEW nx, NEW S, NEW first, NEW n, NEW s, Chain(nx, S, first, n, s), first # NoId
  PROVE  /\ first \in S /\ first \in Ids /\ n > 0
         /\ nx[first] = NoId <=> n = 1
         /\ Chain(nx, S \ {first}, nx[first], n - 1, [j \in 1 .. n - 1 |-> s[j + 1]])
<1> DEFINE t == [j \in 1 .. n - 1 |-> s[j + 1]]
<1>1. /\ n \in Nat /\ n > 0 /\ first = s[1] /\ 1 \in 1 .. n
  BY DEF Chain
<1>2. first \in S /\ first \in Ids
  BY <1>1 DEF Chain
<1>3. nx[first] = NoId <=> n = 1
  <2>1. n # 1 => 2 \in 1 .. n /\ nx[first] = s[2] /\ s[2] \in Ids
    BY <1>1 DEF Chain
  <2>2. n = 1 => nx[first] = NoId
    BY <1>1 DEF Chain
  <2>3. QED
    BY <2>1, <2>2, NoIdIsNone
<1>4. n - 1 \in Nat /\ t \in [1 .. n - 1 -> Ids]
  BY <1>1 DEF Chain
<1>5. \A j, k \in 1 .. n - 1 : t[j] = t[k] => j = k
  BY <1>1 DEF Chain
<1>6. nx[first] = IF n - 1 = 0 THEN NoId ELSE t[1]
  BY <1>1 DEF Chain
<1>7. \A j \in 1 .. n - 1 : nx[t[j]] = IF j = n - 1 THEN NoId ELSE t[j + 1]
  <2>1. ASSUME NEW j \in 1 .. n - 1
        PROVE  nx[t[j]] = IF j = n - 1 THEN NoId ELSE t[j + 1]
    <3>1. j + 1 \in 1 .. n /\ t[j] = s[j + 1]
      BY <1>1
    <3>2. nx[s[j + 1]] = IF j + 1 = n THEN NoId ELSE s[(j + 1) + 1]
      BY <3>1 DEF Chain
    <3>3. j # n - 1 => j + 1 \in 1 .. n - 1 /\ t[j + 1] = s[(j + 1) + 1]
      BY <1>1
    <3>4. j + 1 = n <=> j = n - 1
      BY <1>1
    <3>5. QED
      BY <3>1, <3>2, <3>3, <3>4
  <2>2. QED
    BY <2>1
<1>8. S \ {first} = {t[j] : j \in 1 .. n - 1}
  <2>1. ASSUME NEW i \in S, i # first PROVE \E j \in 1 .. n - 1 : i = t[j]
    <3>1. PICK k \in 1 .. n : i = s[k]
      BY DEF Chain
    <3>2. k - 1 \in 1 .. n - 1 /\ t[k - 1] = s[k]
      BY <1>1, <2>1, <3>1
    <3>3. QED
      BY <3>1, <3>2
  <2>2. ASSUME NEW j \in 1 .. n - 1 PROVE t[j] \in S /\ t[j] # first
    <3>1. j + 1 \in 1 .. n /\ j + 1 # 1 /\ t[j] = s[j + 1]
      BY <1>1
    <3>2. QED
      BY <1>1, <3>1 DEF Chain
  <2> HIDE DEF t
  <2>3. QED
    BY <2>1, <2>2
<1> HIDE DEF t
<1>9. Chain(nx, S \ {first}, nx[first], n - 1, t)
  BY <1>4, <1>5, <1>6, <1>7, <1>8 DEF Chain
<1>10. QED
  BY <1>1, <1>2, <1>3, <1>9 DEF t

LEMMA ChainPush ==
  ASSUME NEW nx \in [Ids -> Ids \cup {NoId}], NEW S, NEW first, NEW n, NEW s,
         Chain(nx, S, first, n, s), NEW i \in Ids, i \notin S,
         NEW ny, ny = [nx EXCEPT ![i] = first]
  PROVE  \E t : Chain(ny, S \cup {i}, i, n + 1, t)
<1> DEFINE t == [j \in 1 .. n + 1 |-> IF j = 1 THEN i ELSE s[j - 1]]
<1>1. /\ n \in Nat /\ s \in [1 .. n -> Ids] /\ \A j \in 1 .. n : s[j] # i
      /\ first = IF n = 0 THEN NoId ELSE s[1]
  BY DEF Chain
<1>2. n + 1 \in Nat /\ n + 1 # 0 /\ 1 \in 1 .. n + 1 /\ t[1] = i
  BY <1>1
<1>3. \A j \in 2 .. n + 1 : j \in 1 .. n + 1 /\ j - 1 \in 1 .. n /\ t[j] = s[j - 1]
  BY <1>1
<1>4. t \in [1 .. n + 1 -> Ids]
  BY <1>1
<1> HIDE DEF t
<1>5. \A j \in 1 .. n + 1 : j = 1 \/ j \in 2 .. n + 1
  BY <1>1
<1>6. \A j, k \in 1 .. n + 1 : t[j] = t[k] => j = k
  <2>1. ASSUME NEW j \in 2 .. n + 1, NEW k \in 2 .. n + 1, t[j] = t[k] PROVE j = k
    <3>1. j - 1 = k - 1
      BY <1>3, <2>1 DEF Chain
    <3>2. QED
      BY <1>1, <3>1
  <2>2. \A j \in 2 .. n + 1 : t[j] # t[1]
    BY <1>1, <1>2, <1>3
  <2>3. QED
    BY <1>5, <2>1, <2>2
<1>7. \A j \in 1 .. n + 1 : ny[t[j]] = IF j = n + 1 THEN NoId ELSE t[j + 1]
  <2>1. ny[t[1]] = IF 1 = n + 1 THEN NoId ELSE t[1 + 1]
    <3>1. ny[t[1]] = first
      BY <1>2
    <3>2. n # 0 => 2 \in 2 .. n + 1 /\ t[2] = s[1]
      BY <1>1, <1>3
    <3>3. QED
      BY <1>1, <3>1, <3>2
  <2>2. ASSUME NEW j \in 2 .. n + 1
        PROVE  ny[t[j]] = IF j = n + 1 THEN NoId ELSE t[j + 1]
    <3>1. j - 1 \in 1 .. n /\ t[j] = s[j - 1] /\ t[j] # i /\ t[j] \in Ids
      BY <1>1, <1>3
    <3>2. ny[t[j]] = nx[s[j - 1]]
      BY <3>1
    <3>3. nx[s[j - 1]] = IF j - 1 = n THEN NoId ELSE s[(j - 1) + 1]
      BY <3>1 DEF Chain
    <3>4. (j - 1 = n <=> j = n + 1) /\ (j - 1) + 1 = j /\ (j + 1) - 1 = j
      BY <1>1
    <3>5. j # n + 1 => j + 1 \in 2 .. n + 1 /\ t[j + 1] = s[j]
      BY <1>1, <1>3, <3>4
    <3>6. QED
      BY <3>2, <3>3, <3>4, <3>5
  <2>3. QED
    BY <1>5, <2>1, <2>2
<1>8. S \cup {i} = {t[j] : j \in 1 .. n + 1}
  <2>1. ASSUME NEW k \in S PROVE \E j \in 1 .. n + 1 : k = t[j]
    <3>1. PICK j \in 1 .. n : k = s[j]
      BY DEF Chain
    <3>2. j + 1 \in 2 .. n + 1 /\ (j + 1) - 1 = j
      BY <1>1
    <3>3. QED
      BY <1>3, <3>1, <3>2
  <2>2. \A j \in 2 .. n + 1 : t[j] \in S
    BY <1>3 DEF Chain
  <2>3. QED
    BY <1>2, <1>5, <2>1, <2>2
<1>9. Chain(ny, S \cup {i}, i, n + 1, t)
  BY <1>2, <1>4, <1>6, <1>7, <1>8 DEF Chain
<1>10. QED
  BY <1>9

LEMMA ChainAppend ==
  ASSUME NEW nx \in [Ids -> Ids \cup {NoId}], NEW S, NEW first, NEW n, NEW s,
         Chain(nx, S, first, n, s), NEW i \in Ids, i \notin S,
         NEW last, last = IF n = 0 THEN NoId ELSE s[n],
         NEW head, head = IF last = NoId THEN i ELSE first,
         NEW ny,
         \A j \in Ids : ny[j] = IF j = i THEN NoId ELSE IF j = last THEN i ELSE nx[j]
  PROVE  \E t : /\ Chain(ny, S \cup {i}, head, n + 1, t)
                /\ t[n + 1] = i /\ \A j \in 1 .. n : t[j] = s[j]
<1> DEFINE t == [j \in 1 .. n + 1 |-> IF j = n + 1 THEN i ELSE s[j]]
<1>1. /\ n \in Nat /\ s \in [1 .. n -> Ids] /\ \A j \in 1 .. n : s[j] # i
      /\ first = IF n = 0 THEN NoId ELSE s[1]
  BY DEF Chain
<1>2. n + 1 \in Nat /\ n + 1 # 0 /\ n + 1 \in 1 .. n + 1 /\ t[n + 1] = i
  BY <1>1
<1>3. \A j \in 1 .. n : j \in 1 .. n + 1 /\ j # n + 1 /\ t[j] = s[j]
  BY <1>1
<1>4. t \in [1 .. n + 1 -> Ids]
  BY <1>1
<1> HIDE DEF t
<1>5. \A j \in 1 .. n + 1 : j = n + 1 \/ j \in 1 .. n
  BY <1>1
<1>6. \A j, k \in 1 .. n + 1 : t[j] = t[k] => j = k
  <2>1. \A j, k \in 1 .. n : t[j] = t[k] => j = k
    BY <1>3 DEF Chain
  <2>2. \A j \in 1 .. n : t[j] # t[n + 1]
    BY <1>1, <1>2, <1>3
  <2>3. QED
    BY <1>5, <2>1, <2>2
<1>7. \A j \in 1 .. n + 1 : ny[t[j]] = IF j = n + 1 THEN NoId ELSE t[j + 1]
  <2>1. ny[t[n + 1]] = NoId
    BY <1>2
  <2>2. ASSUME NEW j \in 1 .. n PROVE ny[t[j]] = t[j + 1]
    <3>1. t[j] = s[j] /\ s[j] \in Ids /\ s[j] # i
      BY <1>1, <1>3
    <3>2. CASE j = n
      <4>1. s[j] = last
        BY <1>1, <3>2
      <4>2. QED
        BY <1>2, <3>1, <3>2, <4>1
    <3>3. CASE j # n
      <4>1. j + 1 \in 1 .. n /\ n \in 1 .. n /\ n # 0
        BY <1>1, <3>3
      <4>2. s[j] # last
        BY <3>3, <4>1 DEF Chain
      <4>3. ny[t[j]] = nx[s[j]]
        BY <3>1, <4>2
      <4>4. nx[s[j]] = s[j + 1]
        BY <3>3 DEF Chain
      <4>5. t[j + 1] = s[j + 1]
        BY <1>3, <4>1
      <4>6. QED
        BY <4>3, <4>4, <4>5
    <3>4. QED
      BY <3>2, <3>3
  <2>3. ASSUME NEW j \in 1 .. n PROVE j # n + 1
    BY <1>1
  <2>4. QED
    BY <1>5, <2>1, <2>2, <2>3
<1>8. S \cup {i} = {t[j] : j \in 1 .. n + 1}
  <2>1. S = {s[j] : j \in 1 .. n}
    BY DEF Chain
  <2>2. QED
    BY <1>2, <1>3, <1>5, <2>1
<1>9. head = t[1]
  <2>1. CASE n = 0
    BY <1>2, <2>1
  <2>2. CASE n # 0
    <3>1. n \in 1 .. n /\ 1 \in 1 .. n
      BY <1>1, <2>2
    <3>2. last \in Ids
      BY <1>1, <2>2, <3>1
    <3>3. QED
      BY <1>1, <1>3, <2>2, <3>1, <3>2, NoIdIsNone
  <2>3. QED
    BY <2>1, <2>2
<1>10. Chain(ny, S \cup {i}, head, n + 1, t)
  BY <1>2, <1>4, <1>6, <1>7, <1>8, <1>9 DEF Chain
<1>11. QED
  BY <1>2, <1>3, <1>10
-----------------------------------------------------------------------------
(***************************************************************************)
(* The inductive invariant: the two lists run through the free ids and the *)
(* ids in quarantine.                                                      *)
(***************************************************************************)
With(st) == {i \in Ids : state[i] = st}

FreeRuns == \E n, s : Chain(next, With("free"), firstFree, n, s)

TimedRuns ==
  \E n, s : /\ Chain(next, With("timed"), firstTimed, n, s)
            /\ lastTimed = IF n = 0 THEN NoId ELSE s[n]

Linked ==
  /\ next \in [Ids -> Ids \cup {NoId}]
  /\ state \in [Ids -> {"free", "allocated", "timed"}]
  /\ FreeRuns
  /\ TimedRuns

LEMMA Ends ==
  ASSUME Linked
  PROVE  /\ firstFree \in Ids \cup {NoId} /\ firstTimed \in Ids \cup {NoId}
         /\ lastTimed \in Ids \cup {NoId}
         /\ firstFree # NoId => firstFree \in With("free")
         /\ firstTimed # NoId => firstTimed \in With("timed")
         /\ lastTimed # NoId => lastTimed \in With("timed")
<1>1. PICK n, s : Chain(next, With("free"), firstFree, n, s)
  BY DEF Linked, FreeRuns
<1>2. PICK m, t : /\ Chain(next, With("timed"), firstTimed, m, t)
                  /\ lastTimed = IF m = 0 THEN NoId ELSE t[m]
  BY DEF Linked, TimedRuns
<1>3. firstFree # NoId => firstFree \in With("free") /\ firstFree \in Ids
  BY <1>1, ChainTail
<1>4. firstTimed # NoId => firstTimed \in With("timed") /\ firstTimed \in Ids
  BY <1>2, ChainTail
<1>5. lastTimed # NoId => lastTimed \in With("timed") /\ lastTimed \in Ids
  <2>1. m # 0 => m \in 1 .. m /\ t[m] \in With("timed") /\ t[m] \in Ids
    BY <1>2 DEF Chain
  <2>2. QED
    BY <1>2, <2>1
<1>6. QED
  BY <1>3, <1>4, <1>5

LEMMA InitLinked == ASSUME Assumptions, Init PROVE Linked
<1>1. MaxIds \in Nat \ {0}
  BY DEF Assumptions
<1>2. /\ next = [i \in Ids |-> IF i = MaxIds - 1 THEN NoId ELSE i + 1]
      /\ state = [i \in Ids |-> "free"]
      /\ firstFree = 0 /\ firstTimed = NoId /\ lastTimed = NoId
  BY DEF Init
<1>3. next \in [Ids -> Ids \cup {NoId}]
  BY <1>1, <1>2 DEF Ids, NoId
<1>4. With("free") = Ids /\ With("timed") = {}
  BY <1>2 DEF With
<1>5. Chain(next, Ids, 0, MaxIds, [j \in 1 .. MaxIds |-> j - 1])
  <2> DEFINE s == [j \in 1 .. MaxIds |-> j - 1]
  <2>1. \A j \in 1 .. MaxIds : s[j] = j - 1 /\ s[j] \in Ids
    BY <1>1 DEF Ids
  <2>2. \A j \in 1 .. MaxIds : next[s[j]] = IF j = MaxIds THEN NoId ELSE s[j + 1]
    <3>1. ASSUME NEW j \in 1 .. MaxIds
          PROVE  next[s[j]] = IF j = MaxIds THEN NoId ELSE s[j + 1]
      <4>1. next[s[j]] = IF j - 1 = MaxIds - 1 THEN NoId ELSE (j - 1) + 1
        BY <1>2, <2>1
      <4>2. j # MaxIds => j + 1 \in 1 .. MaxIds
        BY <1>1
      <4>3. j - 1 = MaxIds - 1 <=> j = MaxIds
        BY <1>1
      <4>4. (j - 1) + 1 = (j + 1) - 1
        OBVIOUS
      <4> HIDE DEF s
      <4>5. QED
        BY <2>1, <4>1, <4>2, <4>3, <4>4
    <3>2. QED
      BY <3>1
  <2>3. \A i \in Ids : i + 1 \in 1 .. MaxIds /\ s[i + 1] = i
    BY <1>1 DEF Ids
  <2>4. s \in [1 .. MaxIds -> Ids] /\ 1 \in 1 .. MaxIds /\ s[1] = 0
    BY <1>1 DEF Ids
  <2>5. \A j, k \in 1 .. MaxIds : s[j] = s[k] => j = k
    BY <1>1
  <2> HIDE DEF s
  <2>6. Ids = {s[j] : j \in 1 .. MaxIds}
    BY <2>1, <2>3
  <2>7. Chain(next, Ids, 0, MaxIds, s)
    BY <1>1, <2>2, <2>4, <2>5, <2>6 DEF Chain
  <2>8. QED
    BY <2>7 DEF s
<1>6. Chain(next, {}, NoId, 0, [j \in 1 .. 0 |-> 0])
  BY DEF Chain
<1>7. FreeRuns /\ TimedRuns
  BY <1>2, <1>4, <1>5, <1>6 DEF FreeRuns, TimedRuns
<1>8. QED
  BY <1>2, <1>3, <1>7 DEF Linked

(* The oldest id in quarantine becomes the first free one.                 *)
LEMMA ExpireLinked ==
  ASSUME Linked, firstTimed # NoId, RemoveFirstTimeoutLists
  PROVE  /\ Linked'
         /\ With("free")' = With("free") \cup {firstTimed}
         /\ With("timed")' = With("timed") \ {firstTimed}
         /\ With("allocated")' = With("allocated")
<1> DEFINE i == firstTimed
<1>1. /\ next \in [Ids -> Ids \cup {NoId}]
      /\ state \in [Ids -> {"free", "allocated", "timed"}]
      /\ i \in Ids /\ state[i] = "timed" /\ firstFree \in Ids \cup {NoId}
  BY Ends DEF Linked, With
<1>2. /\ next' = [next EXCEPT ![i] = firstFree]
      /\ state' = [state EXCEPT ![i] = "free"]
      /\ firstFree' = i /\ firstTimed' = next[i]
      /\ lastTimed' = IF next[i] = NoId THEN NoId ELSE lastTimed
  BY DEF RemoveFirstTimeoutLists
<1> HIDE DEF i
<1>3. /\ With("free")' = With("free") \cup {i}
      /\ With("timed")' = With("timed") \ {i}
      /\ With("allocated")' = With("allocated")
  BY <1>1, <1>2 DEF With
<1>4. FreeRuns'
  <2>1. PICK n, s : Chain(next, With("free"), firstFree, n, s)
    BY DEF Linked, FreeRuns
  <2>2. i \notin With("free")
    BY <1>1 DEF With
  <2>3. PICK t : Chain(next', With("free") \cup {i}, i, n + 1, t)
    BY <1>1, <1>2, <2>1, <2>2, ChainPush
  <2>4. Chain(next', With("free")', firstFree', n + 1, t)
    BY <1>2, <1>3, <2>3
  <2>5. QED
    BY <2>4 DEF FreeRuns
<1>5. TimedRuns'
  <2>1. PICK n, s : /\ Chain(next, With("timed"), i, n, s)
                    /\ lastTimed = IF n = 0 THEN NoId ELSE s[n]
    BY DEF Linked, TimedRuns, i
  <2> DEFINE t == [j \in 1 .. n - 1 |-> s[j + 1]]
  <2>2. /\ n > 0 /\ (next[i] = NoId <=> n = 1)
        /\ Chain(next, With("timed") \ {i}, next[i], n - 1, t)
    BY <2>1, ChainTail DEF i
  <2>3. Chain(next', With("timed")', next[i], n - 1, t)
    <3>1. \A k \in With("timed") \ {i} : next'[k] = next[k]
      BY <1>1, <1>2 DEF With
    <3> HIDE DEF t
    <3>2. QED
      BY <1>3, <2>2, <3>1, ChainFrame
  <2>4. lastTimed' = IF n - 1 = 0 THEN NoId ELSE t[n - 1]
    <3>1. n \in Nat
      BY <2>1 DEF Chain
    <3>2. n # 1 => n - 1 \in 1 .. n - 1 /\ (n - 1) + 1 = n /\ n - 1 # 0 /\ n # 0
      BY <2>2, <3>1
    <3>3. n # 1 => t[n - 1] = s[n]
      BY <3>2
    <3>4. n = 1 => n - 1 = 0
      OBVIOUS
    <3> HIDE DEF t
    <3>5. QED
      BY <1>2, <2>1, <2>2, <3>2, <3>3, <3>4
  <2> HIDE DEF t
  <2>5. QED
    BY <1>2, <2>3, <2>4 DEF TimedRuns
<1>6. Linked'
  <2>1. /\ next' \in [Ids -> Ids \cup {NoId}]
        /\ state' \in [Ids -> {"free", "allocated", "timed"}]
    BY <1>1, <1>2
  <2>2. QED
    BY <1>4, <1>5, <2>1 DEF Linked
<1>7. QED
  BY <1>3, <1>6 DEF i

LEMMA ReturnLinked ==
  ASSUME Linked, NewIDReturns
  PROVE  /\ Linked'
         /\ With("free")' = With("free") \ {firstFree}
         /\ With("timed")' = With("timed")
         /\ With("allocated")' = With("allocated") \cup {firstFree}
<1> DEFINE i == firstFree
<1>1. /\ next \in [Ids -> Ids \cup {NoId}]
      /\ state \in [Ids -> {"free", "allocated", "timed"}]
      /\ i # NoId /\ i \in Ids /\ state[i] = "free"
  BY Ends DEF Linked, With, NewIDReturns
<1>2. /\ state' = [state EXCEPT ![i] = "allocated"] /\ firstFree' = next[i]
      /\ UNCHANGED <<next, firstTimed, lastTimed>>
  BY DEF NewIDReturns
<1> HIDE DEF i
<1>3. /\ With("free")' = With("free") \ {i}
      /\ With("timed")' = With("timed")
      /\ With("allocated")' = With("allocated") \cup {i}
  BY <1>1, <1>2 DEF With
<1>4. FreeRuns'
  <2>1. PICK n, s : Chain(next, With("free"), i, n, s)
    BY DEF Linked, FreeRuns, i
  <2> DEFINE t == [j \in 1 .. n - 1 |-> s[j + 1]]
  <2>2. Chain(next, With("free") \ {i}, next[i], n - 1, t)
    <3>1. i # NoId
      BY <1>1
    <3>2. QED
      BY <2>1, <3>1, ChainTail DEF i
  <2> HIDE DEF t
  <2>3. Chain(next', With("free")', firstFree', n - 1, t)
    BY <1>2, <1>3, <2>2
  <2>4. QED
    BY <2>3 DEF FreeRuns
<1>5. TimedRuns'
  BY <1>2, <1>3 DEF Linked, TimedRuns
<1>6. state' \in [Ids -> {"free", "allocated", "timed"}]
  BY <1>1, <1>2
<1>7. QED
  BY <1>1, <1>2, <1>3, <1>4, <1>5, <1>6 DEF Linked, i

LEMMA FreeLinked ==
  ASSUME Linked, NEW i \in Ids, FreeID(i)
  PROVE  /\ Linked' /\ i \in With("allocated")
         /\ With("free")' = With("free")
         /\ With("timed")' = With("timed") \cup {i}
         /\ With("allocated")' = With("allocated") \ {i}
<1>1. /\ next \in [Ids -> Ids \cup {NoId}]
      /\ state \in [Ids -> {"free", "allocated", "timed"}]
      /\ state[i] = "allocated"
      /\ lastTimed # NoId => lastTimed \in Ids /\ state[lastTimed] = "timed"
  BY Ends DEF Linked, With, FreeID
<1>2. /\ state' = [state EXCEPT ![i] = "timed"]
      /\ next' = [j \in Ids |-> IF j = i THEN NoId ELSE IF j = lastTimed THEN i ELSE next[j]]
      /\ firstTimed' = IF lastTimed = NoId THEN i ELSE firstTimed
      /\ lastTimed' = i /\ firstFree' = firstFree
  BY DEF FreeID, LinkLast
<1>3. /\ With("free")' = With("free")
      /\ With("timed")' = With("timed") \cup {i}
      /\ With("allocated")' = With("allocated") \ {i}
      /\ i \in With("allocated") /\ i \notin With("timed")
  BY <1>1, <1>2 DEF With
<1>4. FreeRuns'
  <2>1. PICK n, s : Chain(next, With("free"), firstFree, n, s)
    BY DEF Linked, FreeRuns
  <2>2. \A k \in With("free") : next'[k] = next[k]
    BY <1>1, <1>2, NoIdIsNone DEF With
  <2>3. Chain(next', With("free"), firstFree, n, s)
    BY <2>1, <2>2, ChainFrame
  <2>4. Chain(next', With("free")', firstFree', n, s)
    BY <1>2, <1>3, <2>3
  <2>5. QED
    BY <2>4 DEF FreeRuns
<1>5. TimedRuns'
  <2>1. PICK n, s : /\ Chain(next, With("timed"), firstTimed, n, s)
                    /\ lastTimed = IF n = 0 THEN NoId ELSE s[n]
    BY DEF Linked, TimedRuns
  <2>2. PICK t : Chain(next', With("timed") \cup {i}, firstTimed', n + 1, t) /\ t[n + 1] = i
    <3>1. next \in [Ids -> Ids \cup {NoId}] /\ i \notin With("timed")
      BY <1>1, <1>3
    <3>2. /\ firstTimed' = IF lastTimed = NoId THEN i ELSE firstTimed
          /\ \A j \in Ids : next'[j] = IF j = i THEN NoId
                                       ELSE IF j = lastTimed THEN i ELSE next[j]
      BY <1>2
    <3>3. PICK t : /\ Chain(next', With("timed") \cup {i}, firstTimed', n + 1, t)
                   /\ t[n + 1] = i /\ \A j \in 1 .. n : t[j] = s[j]
      BY <2>1, <3>1, <3>2, ChainAppend
    <3>4. QED
      BY <3>3
  <2>3. n + 1 # 0 /\ t[n + 1] = i
    BY <2>1, <2>2 DEF Chain
  <2>4. Chain(next', With("timed")', firstTimed', n + 1, t)
    BY <1>2, <1>3, <2>2
  <2>5. QED
    BY <1>2, <2>3, <2>4 DEF TimedRuns
<1>6. /\ next' \in [Ids -> Ids \cup {NoId}]
      /\ state' \in [Ids -> {"free", "allocated", "timed"}]
  BY <1>1, <1>2
<1>7. QED
  BY <1>3, <1>4, <1>5, <1>6 DEF Linked

LEMMA LinkedStays ==
  ASSUME Linked, UNCHANGED lists
  PROVE  Linked' /\ \A st : With(st)' = With(st)
BY DEF Linked, FreeRuns, TimedRuns, With, lists

LEMMA LinkedStep ==
  ASSUME Linked, [Next]_vars
  PROVE  Linked'
<1>1. CASE NewIDExpires \/ TimeoutIDsExpires
  BY <1>1, ExpireLinked DEF NewIDExpires, TimeoutIDsExpires, HasExpired, RemoveFirstTimeout
<1>2. CASE NewIDReturns
  BY <1>2, ReturnLinked
<1>3. ASSUME NEW i \in Ids, FreeID(i) PROVE Linked'
  BY <1>3, FreeLinked
<1>4. CASE NewID \/ NewIDFails \/ TimeoutIDs \/ TimeoutIDsReturns \/ Advance \/ UNCHANGED vars
  BY <1>4, LinkedStays
  DEF NewID, NewIDFails, TimeoutIDs, TimeoutIDsReturns, Advance, vars
<1>5. QED
  BY <1>1, <1>2, <1>3, <1>4 DEF Next

(***************************************************************************)
(* The free list runs through the free ids and the timed list through the  *)
(* ids in quarantine, each through all of them and once, and m_LastTimed is*)
(* the end of the latter (server.cpp:84-168).                              *)
(***************************************************************************)
THEOREM ListsAlwaysComplete == ASSUME Assumptions PROVE Spec => []ListsComplete
<1>1. Init => Linked
  BY InitLinked
<1>2. Linked /\ [Next]_vars => Linked'
  BY LinkedStep
<1>3. ASSUME Linked PROVE ListsComplete
  <2>1. PICK n, s : Chain(next, With("free"), firstFree, n, s)
    BY <1>3 DEF Linked, FreeRuns
  <2>2. n \in 0 .. MaxIds
    BY <2>1, ChainBound
  <2>3. FreeListComplete
    BY <2>1, <2>2 DEF FreeListComplete, IsList, Chain, With
  <2>4. PICK m, t : /\ Chain(next, With("timed"), firstTimed, m, t)
                    /\ lastTimed = IF m = 0 THEN NoId ELSE t[m]
    BY <1>3 DEF Linked, TimedRuns
  <2>5. m \in 0 .. MaxIds
    BY <2>4, ChainBound
  <2>6. TimedListComplete
    BY <2>4, <2>5 DEF TimedListComplete, IsList, Chain, With
  <2>7. QED
    BY <2>3, <2>6 DEF ListsComplete
<1>4. Linked => ListsComplete
  BY <1>3
<1>5. QED
  BY <1>1, <1>2, <1>4, PTL DEF Spec

-----------------------------------------------------------------------------
(***************************************************************************)
(* The counters.                                                           *)
(***************************************************************************)
LEMMA IdsFinite ==
  ASSUME Assumptions, NEW S \in SUBSET Ids
  PROVE  IsFiniteSet(S) /\ Cardinality(S) \in 0 .. MaxIds
<1>1. MaxIds \in Nat \ {0}
  BY DEF Assumptions
<1>2. IsFiniteSet(Ids) /\ Cardinality(Ids) = MaxIds
  BY <1>1, FS_Interval DEF Ids
<1>3. IsFiniteSet(S) /\ Cardinality(S) <= MaxIds
  BY <1>2, FS_Subset
<1>4. Cardinality(S) \in Nat
  BY <1>3, FS_CardinalityType
<1>5. QED
  BY <1>1, <1>3, <1>4

Taken == {i \in Ids : state[i] # "free"}

LEMMA CountersStep ==
  ASSUME Assumptions, Linked, CountersRight, [Next]_vars
  PROVE  CountersRight'
<1>1. Taken \in SUBSET Ids /\ With("allocated") \in SUBSET Ids
      /\ usage = Cardinality(Taken) /\ inUsage = Cardinality(With("allocated"))
  BY DEF CountersRight, Taken, With
<1>2. /\ IsFiniteSet(Taken) /\ IsFiniteSet(With("allocated"))
      /\ usage \in Nat /\ inUsage \in Nat
  BY <1>1, IdsFinite
<1>3. Taken = Ids \ With("free") /\ Taken' = Ids \ With("free")'
  BY DEF Taken, With
<1>4. CASE NewIDExpires \/ TimeoutIDsExpires
  <2>1. /\ firstTimed # NoId /\ RemoveFirstTimeoutLists
        /\ usage' = usage - 1 /\ inUsage' = inUsage
    BY <1>4 DEF NewIDExpires, TimeoutIDsExpires, HasExpired, RemoveFirstTimeout
  <2>2. /\ With("free")' = With("free") \cup {firstTimed}
        /\ With("allocated")' = With("allocated")
    BY <2>1, ExpireLinked
  <2>3. firstTimed \in Taken
    BY <2>1, Ends DEF With, Taken
  <2>4. Taken' = Taken \ {firstTimed}
    BY <1>3, <2>2
  <2>5. Cardinality(Taken') = usage - 1
    BY <1>1, <1>2, <2>3, <2>4, FS_RemoveElement
  <2>6. QED
    BY <1>1, <2>1, <2>2, <2>5 DEF CountersRight, Taken, With
<1>5. CASE NewIDReturns
  <2>1. /\ firstFree # NoId /\ usage' = usage + 1 /\ inUsage' = inUsage + 1
    BY <1>5 DEF NewIDReturns
  <2>2. /\ With("free")' = With("free") \ {firstFree}
        /\ With("allocated")' = With("allocated") \cup {firstFree}
    BY <1>5, ReturnLinked
  <2>3. firstFree \in Ids /\ firstFree \notin Taken /\ firstFree \notin With("allocated")
    BY <2>1, Ends DEF With, Taken
  <2>4. Taken' = Taken \cup {firstFree}
    BY <1>3, <2>2, <2>3
  <2>5. /\ Cardinality(Taken') = usage + 1
        /\ Cardinality(With("allocated")') = inUsage + 1
    BY <1>1, <1>2, <2>2, <2>3, <2>4, FS_AddElement
  <2>6. QED
    BY <2>1, <2>5 DEF CountersRight, Taken, With
<1>6. ASSUME NEW i \in Ids, FreeID(i) PROVE CountersRight'
  <2>1. usage' = usage /\ inUsage' = inUsage - 1
    BY <1>6 DEF FreeID
  <2>2. /\ With("free")' = With("free") /\ i \in With("allocated")
        /\ With("allocated")' = With("allocated") \ {i}
    BY <1>6, FreeLinked
  <2>3. Cardinality(With("allocated")') = inUsage - 1
    BY <1>1, <1>2, <2>2, FS_RemoveElement
  <2>4. Taken' = Taken
    BY <1>3, <2>2
  <2>5. QED
    BY <1>1, <2>1, <2>3, <2>4 DEF CountersRight, Taken, With
<1>7. CASE NewID \/ NewIDFails \/ TimeoutIDs \/ TimeoutIDsReturns \/ Advance \/ UNCHANGED vars
  BY <1>7
  DEF NewID, NewIDFails, TimeoutIDs, TimeoutIDsReturns, Advance, vars, lists, CountersRight
<1>8. QED
  BY <1>4, <1>5, <1>6, <1>7 DEF Next

(***************************************************************************)
(* m_Usage and m_InUsage, which are changed apart from each other, count   *)
(* the ids that are not free and the ids in use (server.cpp:84-168).       *)
(***************************************************************************)
THEOREM CountersAlwaysRight == ASSUME Assumptions PROVE Spec => []CountersRight
<1>1. Init => Linked /\ CountersRight
  <2>1. ASSUME Init PROVE Linked /\ CountersRight
    <3>1. {i \in Ids : state[i] # "free"} = {} /\ {i \in Ids : state[i] = "allocated"} = {}
      BY <2>1 DEF Init
    <3>2. usage = 0 /\ inUsage = 0
      BY <2>1 DEF Init
    <3>3. QED
      BY <2>1, <3>1, <3>2, InitLinked, FS_EmptySet DEF CountersRight
  <2>2. QED
    BY <2>1
<1>2. Linked /\ CountersRight /\ [Next]_vars => (Linked /\ CountersRight)'
  BY LinkedStep, CountersStep
<1>3. QED
  BY <1>1, <1>2, PTL DEF Spec

-----------------------------------------------------------------------------
(***************************************************************************)
(* The ids in quarantine stand in the order in which their times end, and  *)
(* no stored time of expiry is later than the end of the quarantine: an int*)
(* holds less of a time, never more.                                       *)
(***************************************************************************)
Sorted(n, s, h) == \A j, k \in 1 .. n : j <= k => h[s[j]] <= h[s[k]]

InOrder ==
  \E n, s : /\ Chain(next, With("timed"), firstTimed, n, s)
            /\ lastTimed = IF n = 0 THEN NoId ELSE s[n]
            /\ Sorted(n, s, heldUntil)

Clocked ==
  /\ now \in Nat
  /\ heldUntil \in [Ids -> Nat]
  /\ timeout \in [Ids -> Int]
  /\ \A i \in Ids : state[i] = "timed" => /\ heldUntil[i] <= now + Quarantine
                                          /\ timeout[i] <= heldUntil[i]

(* A conversion to int makes no time later.                                *)
LEMMA CutShort ==
  ASSUME Assumptions, NEW t \in Nat
  PROVE  ToInt(t) \in Int /\ ToInt(t) <= t
<1>1. IntLimit \in Nat /\ IntLimit > 0
  BY DEF Assumptions
<1> DEFINE m == 2 * IntLimit
           a == t + IntLimit
<1>2. m \in Nat /\ m > 0 /\ a \in Nat
  BY <1>1
<1>3. ToInt(t) = (a % m) - IntLimit
  BY DEF ToInt
<1>4. a - IntLimit = t
  BY <1>1
<1> HIDE DEF m, a
<1>5. a % m \in 0 .. m - 1
  BY <1>2
<1>6. a % m <= a
  <2>1. CASE a < m
    <3>1. a % m = a
      BY <1>2, <2>1
    <3>2. QED
      BY <1>2, <3>1
  <2>2. CASE a >= m
    BY <1>2, <1>5, <2>2
  <2>3. QED
    BY <1>2, <2>1, <2>2
<1>7. QED
  BY <1>1, <1>2, <1>3, <1>4, <1>5, <1>6

(* Where neither the list nor the times of its ids change, the order stays.*)
LEMMA OrderStays ==
  ASSUME InOrder, NEW ny, NEW h,
         \A i \in With("timed") : ny[i] = next[i] /\ h[i] = heldUntil[i]
  PROVE  \E n, s : /\ Chain(ny, With("timed"), firstTimed, n, s)
                   /\ lastTimed = IF n = 0 THEN NoId ELSE s[n]
                   /\ Sorted(n, s, h)
<1>1. PICK n, s : /\ Chain(next, With("timed"), firstTimed, n, s)
                  /\ lastTimed = IF n = 0 THEN NoId ELSE s[n]
                  /\ Sorted(n, s, heldUntil)
  BY DEF InOrder
<1>2. Chain(ny, With("timed"), firstTimed, n, s)
  BY <1>1, ChainFrame
<1>3. \A j \in 1 .. n : s[j] \in With("timed")
  BY <1>1 DEF Chain
<1>4. Sorted(n, s, h)
  BY <1>1, <1>3 DEF Sorted
<1>5. QED
  BY <1>1, <1>2, <1>4

(* The oldest id leaves the order at its head.                             *)
(* The list of the ids in quarantine without its head.                    *)
LEMMA TailOfTimed ==
  ASSUME NEW n, NEW s, Chain(next, With("timed"), firstTimed, n, s), firstTimed # NoId
  PROVE  /\ n > 0 /\ (next[firstTimed] = NoId <=> n = 1)
         /\ \E t : /\ Chain(next, With("timed") \ {firstTimed}, next[firstTimed], n - 1, t)
                  /\ t = [j \in 1 .. n - 1 |-> s[j + 1]]
<1>1. n > 0
  BY ChainTail
<1>2. next[firstTimed] = NoId <=> n = 1
  BY ChainTail
<1>3. Chain(next, With("timed") \ {firstTimed}, next[firstTimed], n - 1,
            [j \in 1 .. n - 1 |-> s[j + 1]])
  BY ChainTail
<1>4. QED
  BY <1>1, <1>2, <1>3

LEMMA ExpireOrder ==
  ASSUME Linked, InOrder, firstTimed # NoId, RemoveFirstTimeoutLists,
         \A k \in Ids : k # firstTimed => heldUntil'[k] = heldUntil[k]
  PROVE  InOrder'
<1> DEFINE i == firstTimed
<1>1. /\ next \in [Ids -> Ids \cup {NoId}]
      /\ i \in Ids /\ state[i] = "timed"
      /\ With("timed")' = With("timed") \ {i}
  BY Ends, ExpireLinked DEF Linked, With
<1>2. /\ next' = [next EXCEPT ![i] = firstFree]
      /\ firstTimed' = next[i]
      /\ lastTimed' = IF next[i] = NoId THEN NoId ELSE lastTimed
  BY DEF RemoveFirstTimeoutLists
<1>3. PICK n, s : /\ Chain(next, With("timed"), i, n, s)
                  /\ lastTimed = IF n = 0 THEN NoId ELSE s[n]
                  /\ Sorted(n, s, heldUntil)
  BY DEF InOrder
<1>4. i # NoId /\ \A k \in Ids : k # i => heldUntil'[k] = heldUntil[k]
  OBVIOUS
<1> HIDE DEF i
<1>5. PICK t : /\ n > 0 /\ (next[i] = NoId <=> n = 1)
               /\ Chain(next, With("timed") \ {i}, next[i], n - 1, t)
               /\ t = [j \in 1 .. n - 1 |-> s[j + 1]]
  <2>1. Chain(next, With("timed"), firstTimed, n, s) /\ firstTimed # NoId
    BY <1>3, <1>4 DEF i
  <2>2. n > 0 /\ (next[i] = NoId <=> n = 1)
    BY <2>1, TailOfTimed DEF i
  <2>3. PICK t : /\ Chain(next, With("timed") \ {i}, next[i], n - 1, t)
                 /\ t = [j \in 1 .. n - 1 |-> s[j + 1]]
    BY <2>1, TailOfTimed DEF i
  <2>4. QED
    BY <2>2, <2>3
<1>6. n \in Nat
  BY <1>3 DEF Chain
<1>7. \A j \in 1 .. n - 1 : j + 1 \in 1 .. n /\ t[j] = s[j + 1]
  BY <1>5, <1>6
<1>8. lastTimed' = IF n - 1 = 0 THEN NoId ELSE t[n - 1]
  <2>1. n # 1 => n - 1 \in 1 .. n - 1 /\ (n - 1) + 1 = n /\ n - 1 # 0 /\ n # 0
    BY <1>5, <1>6
  <2>2. n # 1 => t[n - 1] = s[n]
    BY <1>7, <2>1
  <2>3. n = 1 => n - 1 = 0
    OBVIOUS
  <2>4. QED
    BY <1>2, <1>3, <1>5, <2>1, <2>2, <2>3
<1>9. Chain(next', With("timed")', next[i], n - 1, t)
  <2>1. \A k \in With("timed") \ {i} : next'[k] = next[k]
    BY <1>1, <1>2 DEF With
  <2>2. QED
    BY <1>1, <1>5, <2>1, ChainFrame
<1>10. \A j \in 1 .. n - 1 : t[j] \in Ids /\ t[j] # i
  <2>1. \A j \in 1 .. n - 1 : t[j] \in With("timed") \ {i}
    BY <1>5 DEF Chain
  <2>2. QED
    BY <2>1 DEF With
<1>11. Sorted(n - 1, t, heldUntil')
  <2>1. ASSUME NEW j \in 1 .. n - 1, NEW k \in 1 .. n - 1, j <= k
        PROVE  heldUntil'[t[j]] <= heldUntil'[t[k]]
    <3>1. j + 1 \in 1 .. n /\ k + 1 \in 1 .. n /\ j + 1 <= k + 1
      BY <1>7, <2>1
    <3>2. heldUntil[s[j + 1]] <= heldUntil[s[k + 1]]
      BY <1>3, <3>1 DEF Sorted
    <3>3. QED
      BY <1>4, <1>7, <1>10, <3>2
  <2>2. QED
    BY <2>1 DEF Sorted
<1>12. QED
  BY <1>2, <1>8, <1>9, <1>11 DEF InOrder

(* A freed id ends last, and stands last.                                  *)
LEMMA FreeOrder ==
  ASSUME Assumptions, Linked, InOrder, Clocked, NEW i \in Ids, FreeID(i)
  PROVE  InOrder'
<1>1. /\ next \in [Ids -> Ids \cup {NoId}]
      /\ i \notin With("timed") /\ With("timed")' = With("timed") \cup {i}
  BY FreeLinked DEF Linked, With
<1>2. /\ \A j \in Ids : next'[j] = IF j = i THEN NoId
                                   ELSE IF j = lastTimed THEN i ELSE next[j]
      /\ firstTimed' = IF lastTimed = NoId THEN i ELSE firstTimed
      /\ lastTimed' = i
      /\ heldUntil' = [heldUntil EXCEPT ![i] = now + Quarantine]
  BY DEF FreeID, LinkLast
<1>3. PICK n, s : /\ Chain(next, With("timed"), firstTimed, n, s)
                  /\ lastTimed = IF n = 0 THEN NoId ELSE s[n]
                  /\ Sorted(n, s, heldUntil)
  BY DEF InOrder
<1>4. PICK t : /\ Chain(next', With("timed") \cup {i}, firstTimed', n + 1, t)
               /\ t[n + 1] = i /\ \A j \in 1 .. n : t[j] = s[j]
  BY <1>1, <1>2, <1>3, ChainAppend
<1>5. /\ n \in Nat /\ n + 1 # 0
      /\ \A j \in 1 .. n + 1 : j = n + 1 \/ j \in 1 .. n
  <2>1. n \in Nat
    BY <1>3 DEF Chain
  <2>2. QED
    BY <2>1
<1>6. \A j \in 1 .. n : /\ heldUntil'[t[j]] = heldUntil[s[j]]
                        /\ heldUntil[s[j]] <= now + Quarantine
  <2>1. \A j \in 1 .. n : s[j] \in With("timed")
    BY <1>3 DEF Chain
  <2>2. QED
    BY <1>1, <1>2, <1>4, <2>1 DEF Clocked, With
<1>7. heldUntil'[t[n + 1]] = now + Quarantine /\ now + Quarantine \in Nat
  BY <1>2, <1>4 DEF Clocked, Assumptions
<1>8. Sorted(n + 1, t, heldUntil')
  <2>1. ASSUME NEW j \in 1 .. n + 1, NEW k \in 1 .. n + 1, j <= k
        PROVE  heldUntil'[t[j]] <= heldUntil'[t[k]]
    <3>1. CASE k = n + 1
      BY <1>5, <1>6, <1>7, <3>1
    <3>2. CASE k # n + 1
      <4>1. j \in 1 .. n /\ k \in 1 .. n
        BY <1>5, <2>1, <3>2
      <4>2. heldUntil[s[j]] <= heldUntil[s[k]]
        BY <1>3, <2>1, <4>1 DEF Sorted
      <4>3. QED
        BY <1>6, <4>1, <4>2
    <3>3. QED
      BY <3>1, <3>2
  <2>2. QED
    BY <2>1 DEF Sorted
<1>9. Chain(next', With("timed")', firstTimed', n + 1, t)
  BY <1>1, <1>4
<1>10. lastTimed' = IF n + 1 = 0 THEN NoId ELSE t[n + 1]
  BY <1>2, <1>4, <1>5
<1>11. QED
  BY <1>8, <1>9, <1>10 DEF InOrder

LEMMA OrderStep ==
  ASSUME Assumptions, Linked, InOrder, Clocked, [Next]_vars
  PROVE  InOrder'
<1>1. heldUntil \in [Ids -> Nat]
  BY DEF Clocked
<1>2. CASE NewIDExpires
  BY <1>2, ExpireOrder DEF NewIDExpires, HasExpired, RemoveFirstTimeout
<1>3. CASE TimeoutIDsExpires
  <2>1. /\ firstTimed # NoId /\ RemoveFirstTimeoutLists
        /\ heldUntil' = [heldUntil EXCEPT ![firstTimed] = 0]
    BY <1>3 DEF TimeoutIDsExpires, RemoveFirstTimeout
  <2>2. \A i \in Ids : i # firstTimed => heldUntil'[i] = heldUntil[i]
    BY <1>1, <2>1
  <2>3. QED
    BY <2>1, <2>2, ExpireOrder
<1>4. CASE NewIDReturns
  <2>1. /\ firstFree # NoId /\ With("timed")' = With("timed")
        /\ UNCHANGED <<next, firstTimed, lastTimed>>
        /\ heldUntil' = [heldUntil EXCEPT ![firstFree] = 0]
    BY <1>4, ReturnLinked DEF NewIDReturns
  <2>2. firstFree \in With("free")
    BY <2>1, Ends
  <2>3. \A i \in With("timed") : next'[i] = next[i] /\ heldUntil'[i] = heldUntil[i]
    BY <1>1, <2>1, <2>2 DEF With
  <2>4. QED
    BY <2>1, <2>3, OrderStays DEF InOrder
<1>5. ASSUME NEW i \in Ids, FreeID(i) PROVE InOrder'
  BY <1>5, FreeOrder
<1>6. CASE NewID \/ NewIDFails \/ TimeoutIDs \/ TimeoutIDsReturns \/ Advance \/ UNCHANGED vars
  <2>1. UNCHANGED <<lists, heldUntil>>
    BY <1>6 DEF NewID, NewIDFails, TimeoutIDs, TimeoutIDsReturns, Advance, vars
  <2>2. With("timed")' = With("timed")
    BY <2>1 DEF With, lists
  <2>3. QED
    BY <2>1, <2>2 DEF InOrder, lists
<1>7. QED
  BY <1>2, <1>3, <1>4, <1>5, <1>6 DEF Next

LEMMA ClockedStep ==
  ASSUME Assumptions, Linked, Clocked, [Next]_vars
  PROVE  Clocked'
<1>1. state \in [Ids -> {"free", "allocated", "timed"}]
      /\ Quarantine \in Nat /\ MaxNow \in Nat
  BY DEF Linked, Assumptions
<1>2. CASE NewIDExpires
  <2>1. /\ state' = [state EXCEPT ![firstTimed] = "free"]
        /\ UNCHANGED <<timeout, now, heldUntil>>
    BY <1>2 DEF NewIDExpires, RemoveFirstTimeout, RemoveFirstTimeoutLists
  <2>2. QED
    BY <1>1, <2>1 DEF Clocked
<1>3. CASE TimeoutIDsExpires
  <2>1. /\ firstTimed # NoId /\ heldUntil' = [heldUntil EXCEPT ![firstTimed] = 0]
        /\ state' = [state EXCEPT ![firstTimed] = "free"]
        /\ UNCHANGED <<timeout, now>>
    BY <1>3 DEF TimeoutIDsExpires, RemoveFirstTimeout, RemoveFirstTimeoutLists
  <2>2. firstTimed \in Ids
    BY <2>1, Ends DEF With
  <2>3. QED
    BY <1>1, <2>1, <2>2 DEF Clocked
<1>4. CASE NewIDReturns
  <2>1. /\ firstFree # NoId /\ state' = [state EXCEPT ![firstFree] = "allocated"]
        /\ heldUntil' = [heldUntil EXCEPT ![firstFree] = 0]
        /\ UNCHANGED <<timeout, now>>
    BY <1>4 DEF NewIDReturns
  <2>2. firstFree \in Ids
    BY <2>1, Ends DEF With
  <2>3. QED
    BY <1>1, <2>1, <2>2 DEF Clocked
<1>5. ASSUME NEW i \in Ids, FreeID(i) PROVE Clocked'
  <2>1. /\ state' = [state EXCEPT ![i] = "timed"]
        /\ timeout' = [timeout EXCEPT ![i] = ToInt(now + Quarantine)]
        /\ heldUntil' = [heldUntil EXCEPT ![i] = now + Quarantine]
        /\ now' = now
    BY <1>5 DEF FreeID
  <2>2. now + Quarantine \in Nat
    BY <1>1 DEF Clocked
  <2>3. ToInt(now + Quarantine) \in Int /\ ToInt(now + Quarantine) <= now + Quarantine
    BY <2>2, CutShort
  <2>4. QED
    BY <1>1, <2>1, <2>2, <2>3 DEF Clocked
<1>6. CASE Advance
  <2>1. now' \in now + 1 .. MaxNow /\ UNCHANGED <<state, timeout, heldUntil>>
    BY <1>6 DEF Advance, lists
  <2>2. now' \in Nat /\ now <= now'
    BY <1>1, <2>1 DEF Clocked
  <2>3. \A i \in Ids : heldUntil[i] <= now + Quarantine => heldUntil[i] <= now' + Quarantine
    BY <1>1, <2>2 DEF Clocked
  <2>4. QED
    BY <2>1, <2>2, <2>3 DEF Clocked
<1>7. CASE NewID \/ NewIDFails \/ TimeoutIDs \/ TimeoutIDsReturns \/ UNCHANGED vars
  BY <1>7 DEF NewID, NewIDFails, TimeoutIDs, TimeoutIDsReturns, vars, lists, Clocked
<1>8. QED
  BY <1>2, <1>3, <1>4, <1>5, <1>6, <1>7 DEF Next

(* NewID refuses with cause: nothing is free, and the head of the timed    *)
(* list, which ends first, has not ended.                                  *)
LEMMA RefusedWithCause ==
  ASSUME Linked, InOrder, Clocked, firstFree = NoId, ~HasExpired, NEW i \in Ids
  PROVE  i \in With("allocated") \/ heldUntil[i] >= now
<1>1. i \notin With("free")
  <2>1. PICK n, s : Chain(next, With("free"), NoId, n, s)
    BY DEF Linked, FreeRuns
  <2>2. n = 0
    <3>1. n \in Nat /\ (n # 0 => 1 \in 1 .. n)
      BY <2>1 DEF Chain
    <3>2. n # 0 => s[1] \in Ids /\ s[1] = NoId
      BY <2>1, <3>1 DEF Chain
    <3>3. QED
      BY <3>2, NoIdIsNone
  <2>3. QED
    BY <2>1, <2>2 DEF Chain
<1>2. CASE state[i] = "timed"
  <2>1. PICK n, s : /\ Chain(next, With("timed"), firstTimed, n, s)
                    /\ Sorted(n, s, heldUntil)
    BY DEF InOrder
  <2>2. i \in With("timed")
    BY <1>2 DEF With
  <2>3. PICK k \in 1 .. n : s[k] = i
    BY <2>1, <2>2 DEF Chain
  <2>4. n \in Nat /\ n # 0 /\ 1 \in 1 .. n /\ 1 <= k
    BY <2>1, <2>3 DEF Chain
  <2>5. firstTimed = s[1] /\ firstTimed \in Ids /\ firstTimed \in With("timed")
    BY <2>1, <2>4 DEF Chain
  <2>6. timeout[firstTimed] >= now
    BY <2>5, NoIdIsNone DEF HasExpired, Clocked
  <2>7. heldUntil[firstTimed] >= now
    BY <2>5, <2>6 DEF Clocked, With
  <2>8. heldUntil[firstTimed] <= heldUntil[i]
    BY <2>1, <2>3, <2>4, <2>5 DEF Sorted
  <2>9. QED
    BY <2>5, <2>7, <2>8 DEF Clocked
<1>3. CASE state[i] = "allocated"
  BY <1>3 DEF With
<1>4. QED
  BY <1>1, <1>2, <1>3 DEF Linked, With

(* Every step of the pool is a step of the allocator, or none.             *)
LEMMA AllocatorStep ==
  ASSUME Assumptions, Linked, InOrder, Clocked, [Next]_vars
  PROVE  [Allocator!Next]_(Allocator!vars)
<1>1. MaxNow \in Nat
  BY DEF Assumptions
<1>2. CASE NewIDExpires
  <2>1. With("allocated")' = With("allocated")
    BY <1>2, ExpireLinked DEF NewIDExpires, HasExpired, RemoveFirstTimeout
  <2>2. UNCHANGED <<call, heldUntil, now>>
    BY <1>2 DEF NewIDExpires, RemoveFirstTimeout
  <2>3. QED
    BY <2>1, <2>2 DEF Allocator!vars, With
<1>3. CASE TimeoutIDsExpires
  <2>1. /\ firstTimed # NoId /\ now' = now /\ call = "TimeoutIDs" /\ call' = call
        /\ heldUntil' = [heldUntil EXCEPT ![firstTimed] = 0]
        /\ With("allocated")' = With("allocated")
    BY <1>3, ExpireLinked DEF TimeoutIDsExpires, RemoveFirstTimeout
  <2>2. firstTimed \in Ids /\ firstTimed \notin With("allocated")
    BY <2>1, Ends DEF With
  <2>3. ASSUME NEW i \in Ids, i = firstTimed PROVE Allocator!Forgive(i)
    BY <2>1, <2>2, <2>3 DEF Allocator!Forgive, With
  <2>4. QED
    BY <2>2, <2>3 DEF Allocator!Next
<1>4. CASE NewIDReturns
  <2>1. /\ firstFree # NoId /\ now' = now /\ call = "NewID" /\ call' = "none"
        /\ heldUntil' = [heldUntil EXCEPT ![firstFree] = 0]
        /\ With("allocated")' = With("allocated") \cup {firstFree}
    BY <1>4, ReturnLinked DEF NewIDReturns
  <2>2. firstFree \in Ids /\ firstFree \notin With("allocated")
    BY <2>1, Ends DEF With
  <2>3. ASSUME NEW i \in Ids, i = firstFree PROVE Allocator!Give(i)
    BY <2>1, <2>2, <2>3 DEF Allocator!Give, With
  <2>4. QED
    BY <2>2, <2>3 DEF Allocator!Next
<1>5. ASSUME NEW i \in Ids, FreeID(i) PROVE Allocator!Next
  <2>1. /\ heldUntil' = [heldUntil EXCEPT ![i] = now + Quarantine] /\ now' = now
        /\ call = "none" /\ call' = call
        /\ i \in With("allocated") /\ With("allocated")' = With("allocated") \ {i}
    BY <1>5, FreeLinked DEF FreeID
  <2>2. Allocator!GiveBack(i)
    BY <2>1 DEF Allocator!GiveBack, With
  <2>3. QED
    BY <2>2 DEF Allocator!Next
<1>6. CASE Advance
  <2>1. /\ now' \in now + 1 .. MaxNow /\ UNCHANGED <<state, heldUntil, call>>
        /\ call = "none"
    BY <1>6 DEF Advance, lists
  <2>2. now' \in Nat /\ now' > now
    BY <1>1, <2>1 DEF Clocked
  <2>3. Allocator!Advance
    BY <2>1, <2>2 DEF Allocator!Advance
  <2>4. QED
    BY <2>3 DEF Allocator!Next
<1>7. CASE NewID
  <2>1. Allocator!Ask
    BY <1>7 DEF NewID, lists, Allocator!Ask
  <2>2. QED
    BY <2>1 DEF Allocator!Next
<1>8. CASE NewIDFails
  <2>1. \A i \in Ids : i \in With("allocated") \/ heldUntil[i] >= now
    BY <1>8, RefusedWithCause DEF NewIDFails
  <2>2. Allocator!Refuse
    BY <1>8, <2>1 DEF NewIDFails, lists, Allocator!Refuse, With
  <2>3. QED
    BY <2>2 DEF Allocator!Next
<1>9. CASE TimeoutIDs \/ TimeoutIDsReturns \/ UNCHANGED vars
  <2>1. UNCHANGED <<state, heldUntil, now>> /\ (call = "NewID" <=> call' = "NewID")
    BY <1>9 DEF TimeoutIDs, TimeoutIDsReturns, vars, lists
  <2>2. QED
    BY <2>1 DEF Allocator!vars
<1>10. QED
  BY <1>2, <1>3, <1>4, <1>5, <1>6, <1>7, <1>8, <1>9 DEF Next

(***************************************************************************)
(* An id has one user at a time, and NewID refuses one only while all are  *)
(* in use or freed less than the quarantine ago, whatever an int holds     *)
(* (server.cpp:84-139).                                                    *)
(***************************************************************************)
THEOREM PoolIsAllocator ==
  ASSUME Assumptions
  PROVE  Spec => ImplementsAllocator
<1>1. Init => Linked /\ InOrder /\ Clocked
  <2>1. Init => Linked
    BY InitLinked
  <2>2. Init => Clocked
    BY DEF Init, Clocked, Assumptions
  <2>3. ASSUME Init PROVE InOrder
    <3>1. firstTimed = NoId /\ lastTimed = NoId /\ With("timed") = {}
      BY <2>3 DEF Init, With
    <3>2. Chain(next, {}, NoId, 0, [j \in 1 .. 0 |-> 0])
      BY DEF Chain
    <3>3. Sorted(0, [j \in 1 .. 0 |-> 0], heldUntil)
      BY DEF Sorted
    <3>4. QED
      BY <3>1, <3>2, <3>3 DEF InOrder
  <2>4. QED
    BY <2>1, <2>2, <2>3
<1>2. Linked /\ InOrder /\ Clocked /\ [Next]_vars => (Linked /\ InOrder /\ Clocked)'
  BY LinkedStep, OrderStep, ClockedStep
<1>3. Init => Allocator!Init
  BY DEF Init, Allocator!Init
<1>4. Linked /\ InOrder /\ Clocked /\ [Next]_vars => [Allocator!Next]_(Allocator!vars)
  BY AllocatorStep
<1>5. QED
  BY <1>1, <1>2, <1>3, <1>4, PTL DEF Spec, ImplementsAllocator, Allocator!Spec

(* The snap ids are one of the parts of PoolsSpec.                         *)
LEMMA IdsSpec == PoolsSpec => Spec
<1>1. PoolsInit => Init
  BY DEF PoolsInit
<1>2. [PoolsNext]_allVars => [Next]_vars
  BY DEF PoolsNext, allVars, IdsNext, idVars
<1>3. QED
  BY <1>1, <1>2, PTL DEF PoolsSpec, Spec

(***************************************************************************)
(* In the composition, too, the lists of the snap ids are complete and the *)
(* pool is an allocator (server.cpp:30-147).                               *)
(***************************************************************************)
THEOREM IdsOfThePools == PoolsSpec => []ListsComplete /\ ImplementsAllocator
<1>1. Spec => []ListsComplete
  BY PoolsAssumption, ListsAlwaysComplete
<1>2. Spec => ImplementsAllocator
  BY PoolsAssumption, PoolIsAllocator
<1>3. QED
  BY IdsSpec, <1>1, <1>2, PTL

-----------------------------------------------------------------------------
(***************************************************************************)
(* The database queue.                                                     *)
(***************************************************************************)
QueueInv == DQ!TypeOK /\ DQ!NoEmptyRequest

(* What each waiting request will run.                                     *)
Waiting == [i \in DOMAIN requests |-> globals[requests[i]]]

LEMMA QueueInvInit == DQ!Init => QueueInv
BY DEF DQ!Init, QueueInv, DQ!TypeOK, DQ!NoEmptyRequest, DQ!Pending

(* The closure of a request is stored before the request is queued, and    *)
(* nothing removes it.                                                     *)
LEMMA QueueInvStep == QueueInv /\ [DQ!Next]_(DQ!vars) => QueueInv'
<1> SUFFICES ASSUME QueueInv, [DQ!Next]_(DQ!vars)
             PROVE  QueueInv'
  OBVIOUS
<1> USE DEF QueueInv, DQ!TypeOK, DQ!NoEmptyRequest, DQ!Pending
<1>1. ASSUME NEW n \in Names, NEW c \in Closures, DQ!Execute(n, c)
      PROVE  QueueInv'
  <2>1. globals' = [globals EXCEPT ![n] = c] /\ requests' = Append(requests, n)
    BY <1>1 DEF DQ!Execute, DQ!Enqueue
  <2>2. DQ!TypeOK'
    BY <2>1
  <2>3. c # NoClosure
    BY PoolsAssumption DEF DQ!Assumptions
  <2>4. ASSUME NEW i \in DOMAIN requests'
        PROVE  globals'[requests'[i]] # NoClosure
    <3>1. requests'[i] = n \/ (i \in DOMAIN requests /\ requests'[i] = requests[i])
      BY <2>1
    <3>2. QED
      BY <2>1, <2>3, <3>1
  <2>5. QED
    BY <2>2, <2>4
<1>2. CASE DQ!Loop
  <2>1. requests # << >> /\ requests' = Tail(requests) /\ globals' = globals
    BY <1>2 DEF DQ!Loop, DQ!Dequeue
  <2>2. DQ!TypeOK'
    BY <2>1
  <2>3. \A i \in DOMAIN requests' : i + 1 \in DOMAIN requests /\ requests'[i] = requests[i + 1]
    BY <2>1
  <2>4. QED
    BY <2>1, <2>2, <2>3
<1>3. CASE UNCHANGED DQ!vars
  BY <1>3 DEF DQ!vars
<1>4. QED
  BY <1>1, <1>2, <1>3 DEF DQ!Next

LEMMA QueueInvAlways == DQ!Spec => []QueueInv
BY QueueInvInit, QueueInvStep, PTL DEF DQ!Spec

(* CSQLite::Loop always finds a closure under the name of a request.       *)
THEOREM LoopFindsClosure == DQ!Spec => []DQ!NoEmptyRequest
<1>1. QueueInv => DQ!NoEmptyRequest
  BY DEF QueueInv
<1>2. QED
  BY QueueInvAlways, <1>1, PTL

-----------------------------------------------------------------------------
(* Waiting is a sequence of closures, one for each request.                *)
WaitingMatches ==
  /\ Waiting \in Seq(Closures)
  /\ Len(Waiting) = Len(requests)
  /\ Len(requests) \in Nat
  /\ \A i \in 1 .. Len(requests) : Waiting[i] = globals[requests[i]]

LEMMA WaitingSeq == QueueInv => WaitingMatches
<1> SUFFICES ASSUME QueueInv
             PROVE  WaitingMatches
  OBVIOUS
<1>1. Len(requests) \in Nat /\ DOMAIN requests = 1 .. Len(requests)
  BY DEF QueueInv, DQ!TypeOK
<1>2. \A i \in DOMAIN requests : globals[requests[i]] \in Closures
  BY DEF QueueInv, DQ!TypeOK, DQ!NoEmptyRequest, DQ!Pending
<1>3. Waiting \in [1 .. Len(requests) -> Closures]
  BY <1>1, <1>2 DEF Waiting
<1>4. Waiting \in Seq(Closures)
  BY <1>1, <1>3, SeqDef
<1>5. Len(Waiting) = Len(requests)
  BY <1>1, <1>3, <1>4, LenProperties
<1>6. QED
  BY <1>1, <1>4, <1>5 DEF Waiting, WaitingMatches

(* Appending a request appends its closure, if a waiting request under the *)
(* same name has that closure already.                                     *)
LEMMA ExecuteSubmits ==
  ASSUME QueueInv, Disciplined, NEW n \in Names, NEW c \in Closures, DQ!Execute(n, c)
  PROVE  Waiting' = Append(Waiting, c)
<1>1. globals' = [globals EXCEPT ![n] = c] /\ requests' = Append(requests, n)
  BY DEF DQ!Execute, DQ!Enqueue
<1>2. \A i \in DOMAIN requests : requests[i] = n => globals[n] = c
  BY DEF DQ!Execute, DQ!Pending
<1>3. QueueInv'
  BY QueueInvStep DEF DQ!Next
<1>4. /\ Waiting' \in Seq(Closures) /\ Len(Waiting') = Len(requests')
      /\ \A i \in 1 .. Len(requests') : Waiting'[i] = globals'[requests'[i]]
  <2>1. WaitingMatches'
    BY <1>3, WaitingSeq, PTL
  <2>2. QED
    BY <2>1 DEF WaitingMatches
<1>5. /\ Len(requests) \in Nat /\ Len(requests') = Len(requests) + 1
      /\ requests'[Len(requests) + 1] = n
      /\ \A i \in 1 .. Len(requests) : requests'[i] = requests[i]
  BY <1>1 DEF QueueInv, DQ!TypeOK
<1>6. /\ Append(Waiting, c) \in Seq(Closures)
      /\ Len(Append(Waiting, c)) = Len(requests) + 1
      /\ Append(Waiting, c)[Len(requests) + 1] = c
      /\ \A i \in 1 .. Len(requests) : Append(Waiting, c)[i] = globals[requests[i]]
  BY WaitingSeq, AppendProperties DEF WaitingMatches
<1>7. globals'[n] = c /\ \A i \in 1 .. Len(requests) : globals'[requests[i]] = globals[requests[i]]
  BY <1>1, <1>2 DEF QueueInv, DQ!TypeOK
<1>8. \A i \in 1 .. Len(Waiting') : Waiting'[i] = Append(Waiting, c)[i]
  BY <1>4, <1>5, <1>6, <1>7
<1>9. QED
  BY <1>4, <1>5, <1>6, <1>8, SeqEqual

(* Taking the head of the queue serves the oldest closure.                 *)
LEMMA LoopServes ==
  ASSUME QueueInv, DQ!Loop
  PROVE  Waiting # << >> /\ Waiting' = Tail(Waiting)
<1>1. requests # << >> /\ requests' = Tail(requests) /\ globals' = globals
  BY DEF DQ!Loop, DQ!Dequeue
<1>2. QueueInv'
  BY QueueInvStep DEF DQ!Next
<1>3. /\ Waiting' \in Seq(Closures) /\ Len(Waiting') = Len(requests')
      /\ \A i \in 1 .. Len(requests') : Waiting'[i] = globals'[requests'[i]]
  <2>1. WaitingMatches'
    BY <1>2, WaitingSeq, PTL
  <2>2. QED
    BY <2>1 DEF WaitingMatches
<1>4. /\ Len(requests) \in Nat /\ Len(requests) > 0 /\ Len(requests') = Len(requests) - 1
      /\ \A i \in 1 .. Len(requests') : requests'[i] = requests[i + 1]
  BY <1>1 DEF QueueInv, DQ!TypeOK
<1>5. Waiting # << >>
  BY <1>4, WaitingSeq DEF WaitingMatches
<1>6. /\ Tail(Waiting) \in Seq(Closures) /\ Len(Tail(Waiting)) = Len(requests) - 1
      /\ \A i \in 1 .. Len(requests) - 1 : Tail(Waiting)[i] = globals[requests[i + 1]]
  BY <1>4, <1>5, WaitingSeq, HeadTailProperties DEF WaitingMatches
<1>7. \A i \in 1 .. Len(Waiting') : Waiting'[i] = Tail(Waiting)[i]
  BY <1>1, <1>3, <1>4, <1>6
<1>8. QED
  BY <1>3, <1>4, <1>5, <1>6, <1>7, SeqEqual

(* With callers that keep to the naming convention, like DB.SimpleExecute  *)
(* (database.lua:11-20), closures run once, in the order of submission,    *)
(* and none is replaced while it waits.                                    *)
THEOREM DisciplinedIsFifo == Disciplined => (DQ!Spec => DQ!ImplementsFifo)
<1> SUFFICES ASSUME Disciplined
             PROVE  DQ!Spec => DQ!ImplementsFifo
  OBVIOUS
<1>1. DQ!Init => Waiting = << >>
  BY DEF DQ!Init, Waiting
<1>2. ASSUME QueueInv, [DQ!Next]_(DQ!vars)
      PROVE  \/ \E c \in Closures : Waiting' = Append(Waiting, c)
             \/ Waiting # << >> /\ Waiting' = Tail(Waiting)
             \/ Waiting' = Waiting
  <2>1. CASE \E n \in Names, c \in Closures : DQ!Execute(n, c)
    BY <1>2, <2>1, ExecuteSubmits
  <2>2. CASE DQ!Loop
    BY <1>2, <2>2, LoopServes
  <2>3. CASE UNCHANGED DQ!vars
    BY <2>3 DEF DQ!vars, Waiting
  <2>4. QED
    BY <1>2, <2>1, <2>2, <2>3 DEF DQ!Next
<1>3. DQ!Init => DQ!Fifo!Init
  BY <1>1 DEF DQ!Fifo!Init, Waiting
<1>4. QueueInv /\ [DQ!Next]_(DQ!vars) => [DQ!Fifo!Next]_Waiting
  BY <1>2 DEF DQ!Fifo!Next, DQ!Fifo!Submit, DQ!Fifo!Serve, Waiting
<1>5. QED
  BY <1>3, <1>4, QueueInvAlways, PTL DEF DQ!Spec, DQ!ImplementsFifo, DQ!Fifo!Spec, Waiting

(* The database queue is one of the parts of PoolsSpec.                    *)
LEMMA QueueSpec == PoolsSpec => DQ!Spec
<1>1. PoolsInit => DQ!Init
  BY DEF PoolsInit
<1>2. UNCHANGED queueVars => UNCHANGED DQ!vars
  BY DEF queueVars, DQ!vars
<1>3. [PoolsNext]_allVars => [DQ!Next]_(DQ!vars)
  BY <1>2 DEF PoolsNext, allVars, QueueNext
<1>4. QED
  BY <1>1, <1>3, PTL DEF PoolsSpec, DQ!Spec

(***************************************************************************)
(* Disciplined callers have a FIFO queue in the composition, too           *)
(* (database.lua:11-20).                                                   *)
(***************************************************************************)
THEOREM DisciplinedQueue == ASSUME Disciplined PROVE PoolsSpec => QueueIsFifo
<1>1. DQ!Spec => DQ!ImplementsFifo
  BY DisciplinedIsFifo
<1>2. QED
  BY QueueSpec, <1>1, PTL DEF QueueIsFifo

-----------------------------------------------------------------------------
(***************************************************************************)
(* The job pool.  Its lists are those of the jobs that wait, in the order  *)
(* of their Add, whatever threads add and take jobs.                       *)
(***************************************************************************)
LEMMA SameFiniteSets ==
  /\ \A S : JP!Cardinality(S) = Cardinality(S)
  /\ \A S : JP!IsFiniteSet(S) <=> IsFiniteSet(S)
BY DEF JP!Cardinality, Cardinality, JP!IsFiniteSet, IsFiniteSet

(***************************************************************************)
(* Who has a job: nobody before its Add, then the queue, then one worker.  *)
(***************************************************************************)
Waits(j) == \E i \in 1 .. Len(jobQueue) : jobQueue[i] = j

JobStages ==
  /\ \A w \in Workers : (pc[w] = "run") <=> (job[w] # Nil)
  /\ \A v, w \in Workers : job[v] = job[w] /\ job[v] # Nil => v = w
  /\ \A i, k \in 1 .. Len(jobQueue) : jobQueue[i] = jobQueue[k] => i = k
  /\ \A j \in Jobs : Waits(j) => /\ status[j] = "pending" /\ added[j] # "no"
                                 /\ \A w \in Workers : job[w] # j
  /\ \A j \in Jobs : ~Waits(j) => nextJob[j] = Nil
  /\ \A w \in Workers : job[w] # Nil => status[job[w]] # "done" /\ added[job[w]] # "no"
  /\ \A j \in Jobs : runs[j] = IF status[j] = "pending" THEN 0 ELSE 1
  /\ \A j \in Jobs : added[j] = "no" => status[j] = "pending"

JobInv == JP!TypeOK /\ JobStages /\ JP!LinksAreQueue

LEMMA JobInit == ASSUME JP!Assumptions, JP!Init PROVE JobInv
<1>1. JP!Cardinality(Workers) \in Nat
  BY SameFiniteSets, FS_CardinalityType DEF JP!Assumptions
<1>2. JP!TypeOK
  <2>1. 0 \in 0 .. JP!Cardinality(Workers)
    BY <1>1
  <2>2. << >> \in Seq(Jobs)
    OBVIOUS
  <2>3. QED
    BY <2>1, <2>2 DEF JP!Init, JP!TypeOK
<1>3. Len(jobQueue) = 0
  BY DEF JP!Init
<1>4. JobStages
  BY <1>3, <1>2 DEF JP!Init, JobStages, Waits, JP!Assumptions
<1>5. JP!LinksAreQueue
  BY <1>3 DEF JP!Init, JP!LinksAreQueue
<1>6. QED
  BY <1>2, <1>4, <1>5 DEF JobInv

LEMMA AddKeeps ==
  ASSUME JP!Assumptions, JobInv, NEW j \in Jobs, JP!Add(j)
  PROVE  JobInv'
<1> DEFINE n == Len(jobQueue)
<1>1. JP!TypeOK /\ JobStages /\ JP!LinksAreQueue
  BY DEF JobInv
<1>2. /\ n \in Nat /\ jobQueue \in Seq(Jobs) /\ jobQueue' = Append(jobQueue, j)
      /\ added[j] = "no" /\ added' = [added EXCEPT ![j] = "linked"]
      /\ UNCHANGED <<status, semaphore, shutdown, pc, job, signals, runs>>
  BY <1>1 DEF JP!Add, JP!TypeOK
<1>3. /\ jobQueue' \in Seq(Jobs) /\ Len(jobQueue') = n + 1 /\ jobQueue'[n + 1] = j
      /\ \A i \in 1 .. n : jobQueue'[i] = jobQueue[i] /\ jobQueue[i] \in Jobs
  BY <1>2
<1>4. ~Waits(j) /\ status[j] = "pending" /\ nextJob[j] = Nil
  BY <1>1, <1>2 DEF JobStages
<1>5. \A i \in 1 .. n : jobQueue[i] # j
  BY <1>4 DEF Waits
<1>6. \A k \in Jobs : Waits(k)' <=> (Waits(k) \/ k = j)
  <2>1. ASSUME NEW k \in Jobs, Waits(k)' PROVE Waits(k) \/ k = j
    <3>1. PICK i \in 1 .. n + 1 : jobQueue'[i] = k
      BY <1>3, <2>1 DEF Waits
    <3>2. i = n + 1 \/ i \in 1 .. n
      BY <1>2
    <3>3. QED
      BY <1>3, <3>1, <3>2 DEF Waits
  <2>2. ASSUME NEW k \in Jobs, Waits(k) \/ k = j PROVE Waits(k)'
    <3>1. CASE k = j
      BY <1>2, <1>3, <3>1 DEF Waits
    <3>2. CASE Waits(k)
      <4>1. PICK i \in 1 .. n : jobQueue[i] = k
        BY <3>2 DEF Waits
      <4>2. i \in 1 .. Len(jobQueue') /\ jobQueue'[i] = k
        BY <1>2, <1>3, <4>1
      <4>3. QED
        BY <4>2 DEF Waits
    <3>3. QED
      BY <2>2, <3>1, <3>2
  <2>3. QED
    BY <2>1, <2>2
<1>7. /\ firstJob' = IF n = 0 THEN j ELSE jobQueue[1]
      /\ lastJob' = j
      /\ nextJob' = IF n = 0 THEN nextJob ELSE [nextJob EXCEPT ![jobQueue[n]] = j]
  <2>1. (n = 0) <=> (firstJob = Nil)
    BY <1>1, <1>2, <1>3 DEF JP!LinksAreQueue, JP!Assumptions
  <2>2. (n = 0) <=> (lastJob = Nil)
    BY <1>1, <1>2, <1>3 DEF JP!LinksAreQueue, JP!Assumptions
  <2>3. QED
    BY <1>1, <2>1, <2>2 DEF JP!Add, JP!Linked, JP!LinksAreQueue
<1>8. nextJob' \in [Jobs -> Jobs \cup {Nil}] /\ firstJob' \in Jobs /\ lastJob' \in Jobs
  BY <1>1, <1>2, <1>3, <1>7 DEF JP!TypeOK
<1>9. JP!TypeOK'
  BY <1>1, <1>2, <1>3, <1>8 DEF JP!TypeOK
<1>10. JP!LinksAreQueue'
  <2>1. ASSUME NEW i \in 1 .. n + 1
        PROVE  nextJob'[jobQueue'[i]] = IF i = n + 1 THEN Nil ELSE jobQueue'[i + 1]
    <3>1. CASE i = n + 1
      <4>1. nextJob'[j] = Nil
        BY <1>1, <1>2, <1>3, <1>4, <1>5, <1>7 DEF JP!TypeOK
      <4>2. QED
        BY <1>3, <3>1, <4>1
    <3>2. CASE i = n
      <4>1. nextJob'[jobQueue[n]] = j
        BY <1>1, <1>2, <1>3, <1>7, <3>2 DEF JP!TypeOK
      <4>2. QED
        BY <1>2, <1>3, <3>2, <4>1
    <3>3. CASE i < n
      <4>1. n # 0 /\ i \in 1 .. n /\ i + 1 \in 1 .. n /\ n \in 1 .. n /\ i # n
        BY <1>2, <3>3
      <4>2. jobQueue[i] # jobQueue[n]
        BY <1>1, <4>1 DEF JobStages
      <4>3. nextJob'[jobQueue[i]] = nextJob[jobQueue[i]]
        BY <1>1, <1>3, <1>7, <4>1, <4>2 DEF JP!TypeOK
      <4>4. nextJob[jobQueue[i]] = jobQueue[i + 1]
        BY <1>1, <4>1 DEF JP!LinksAreQueue
      <4>5. QED
        BY <1>3, <3>3, <4>1, <4>3, <4>4
    <3>4. QED
      BY <1>2, <3>1, <3>2, <3>3
  <2>2. firstJob' = jobQueue'[1] /\ lastJob' = jobQueue'[n + 1]
    BY <1>2, <1>3, <1>7
  <2>3. QED
    BY <1>2, <1>3, <2>1, <2>2 DEF JP!LinksAreQueue
<1>11. JobStages'
  <2>1. \A i, k \in 1 .. Len(jobQueue') : jobQueue'[i] = jobQueue'[k] => i = k
    <3>1. ASSUME NEW i \in 1 .. n + 1, NEW k \in 1 .. n + 1, jobQueue'[i] = jobQueue'[k]
          PROVE  i = k
      <4>1. (i = n + 1 \/ i \in 1 .. n) /\ (k = n + 1 \/ k \in 1 .. n)
        BY <1>2
      <4>2. QED
        BY <1>1, <1>3, <1>5, <3>1, <4>1 DEF JobStages
    <3>2. QED
      BY <1>3, <3>1
  <2>2. \A k \in Jobs : ~Waits(k)' => nextJob'[k] = Nil
    <3>1. ASSUME NEW k \in Jobs, ~Waits(k)' PROVE nextJob'[k] = Nil
      <4>1. ~Waits(k) /\ k # j
        BY <1>6, <3>1
      <4>2. nextJob[k] = Nil /\ (n # 0 => jobQueue[n] # k)
        <5>1. nextJob[k] = Nil
          BY <1>1, <4>1 DEF JobStages
        <5>2. ASSUME n # 0 PROVE jobQueue[n] # k
          BY <1>2, <4>1, <5>2 DEF Waits
        <5>3. QED
          BY <5>1, <5>2
      <4>3. QED
        BY <1>1, <1>7, <4>2 DEF JP!TypeOK
    <3>2. QED
      BY <3>1
  <2>3. \A k \in Jobs : Waits(k)' => /\ status'[k] = "pending" /\ added'[k] # "no"
                                     /\ \A w \in Workers : job'[w] # k
    <3>1. \A w \in Workers : job[w] # j
      BY <1>1, <1>2, <1>4 DEF JobStages, JP!Assumptions
    <3>2. QED
      BY <1>1, <1>2, <1>4, <1>6, <3>1 DEF JobStages, JP!TypeOK
  <2>4. \A w \in Workers : job[w] # Nil => added'[job[w]] # "no"
    BY <1>1, <1>2 DEF JobStages, JP!TypeOK
  <2>5. \A k \in Jobs : added'[k] = "no" => status[k] = "pending"
    BY <1>1, <1>2 DEF JobStages, JP!TypeOK
  <2>6. QED
    BY <1>1, <1>2, <2>1, <2>2, <2>3, <2>4, <2>5 DEF JobStages
<1>12. QED
  BY <1>9, <1>10, <1>11 DEF JobInv

LEMMA FetchKeeps ==
  ASSUME JP!Assumptions, JobInv, NEW w \in Workers, JP!Fetch(w), firstJob # Nil
  PROVE  JobInv' /\ jobQueue # << >> /\ jobQueue' = Tail(jobQueue)
<1> DEFINE n == Len(jobQueue)
<1>1. JP!TypeOK /\ JobStages /\ JP!LinksAreQueue
  BY DEF JobInv
<1>2. /\ n \in Nat /\ jobQueue \in Seq(Jobs) /\ jobQueue' = Tail(jobQueue)
      /\ pc[w] = "fetch" /\ pc' = [pc EXCEPT ![w] = "run"]
      /\ job' = [job EXCEPT ![w] = firstJob]
      /\ UNCHANGED <<status, added, semaphore, shutdown, signals, runs>>
  BY <1>1 DEF JP!Fetch, JP!TypeOK
<1>3. n > 0 /\ firstJob = jobQueue[1] /\ jobQueue # << >>
  BY <1>1, <1>2 DEF JP!LinksAreQueue
<1>4. /\ jobQueue' \in Seq(Jobs) /\ Len(jobQueue') = n - 1
      /\ \A i \in 1 .. n - 1 : jobQueue'[i] = jobQueue[i + 1]
      /\ \A i \in 1 .. n : jobQueue[i] \in Jobs
  BY <1>2, <1>3
<1> DEFINE j == jobQueue[1]
<1>5. j \in Jobs /\ Waits(j) /\ \A i \in 2 .. n : jobQueue[i] # j
  <2>1. 1 \in 1 .. n
    BY <1>2, <1>3
  <2>2. ASSUME NEW i \in 2 .. n PROVE jobQueue[i] # j
    <3>1. i \in 1 .. n /\ i # 1
      BY <1>2
    <3>2. QED
      BY <1>1, <2>1, <3>1 DEF JobStages
  <2>3. QED
    BY <1>4, <2>1, <2>2 DEF Waits
<1>6. nextJob[j] = IF n = 1 THEN Nil ELSE jobQueue[2]
  <2>1. 1 \in 1 .. n /\ 1 + 1 = 2
    BY <1>2, <1>3
  <2>2. nextJob[jobQueue[1]] = IF 1 = n THEN Nil ELSE jobQueue[1 + 1]
    BY <1>1, <2>1 DEF JP!LinksAreQueue
  <2>3. QED
    BY <2>1, <2>2
<1>7. /\ firstJob' = IF n = 1 THEN Nil ELSE jobQueue[2]
      /\ nextJob' = [nextJob EXCEPT ![j] = Nil]
      /\ lastJob' = IF n = 1 THEN Nil ELSE jobQueue[n]
  <2>1. n # 1 => jobQueue[2] # Nil
    BY <1>2, <1>3, <1>4 DEF JP!Assumptions
  <2>2. lastJob = jobQueue[n]
    BY <1>1, <1>2, <1>3 DEF JP!LinksAreQueue
  <2>3. QED
    BY <1>3, <1>6, <2>1, <2>2 DEF JP!Fetch, JP!Unlinked
<1>8. \A k \in Jobs : Waits(k)' <=> (Waits(k) /\ k # j)
  <2>1. ASSUME NEW k \in Jobs, Waits(k)' PROVE Waits(k) /\ k # j
    <3>1. PICK i \in 1 .. n - 1 : jobQueue'[i] = k
      BY <1>4, <2>1 DEF Waits
    <3>2. i + 1 \in 1 .. n /\ i + 1 \in 2 .. n /\ jobQueue[i + 1] = k
      BY <1>2, <1>4, <3>1
    <3>3. QED
      BY <1>5, <3>2 DEF Waits
  <2>2. ASSUME NEW k \in Jobs, Waits(k), k # j PROVE Waits(k)'
    <3>1. PICK i \in 1 .. n : jobQueue[i] = k
      BY <2>2 DEF Waits
    <3>2. i # 1
      BY <2>2, <3>1
    <3>3. i - 1 \in 1 .. n - 1 /\ (i - 1) + 1 = i
      BY <1>2, <3>2
    <3>4. jobQueue'[i - 1] = k
      BY <1>4, <3>1, <3>3
    <3>5. QED
      BY <1>4, <3>3, <3>4 DEF Waits
  <2>3. QED
    BY <2>1, <2>2
<1>9. JP!TypeOK'
  <2>1. /\ nextJob' \in [Jobs -> Jobs \cup {Nil}] /\ firstJob' \in Jobs \cup {Nil}
        /\ lastJob' \in Jobs \cup {Nil} /\ job' \in [Workers -> Jobs \cup {Nil}]
        /\ pc' \in [Workers -> {"check", "wait", "fetch", "run", "exit"}]
    BY <1>1, <1>2, <1>3, <1>4, <1>7 DEF JP!TypeOK
  <2>2. QED
    BY <1>1, <1>2, <1>4, <2>1 DEF JP!TypeOK
<1>10. JP!LinksAreQueue'
  <2>1. ASSUME NEW i \in 1 .. n - 1
        PROVE  nextJob'[jobQueue'[i]] = IF i = n - 1 THEN Nil ELSE jobQueue'[i + 1]
    <3>1. i + 1 \in 1 .. n /\ i + 1 \in 2 .. n /\ jobQueue'[i] = jobQueue[i + 1]
      BY <1>2, <1>4
    <3>2. nextJob'[jobQueue[i + 1]] = nextJob[jobQueue[i + 1]]
      BY <1>1, <1>4, <1>5, <1>7, <3>1 DEF JP!TypeOK
    <3>3. nextJob[jobQueue[i + 1]] = IF i + 1 = n THEN Nil ELSE jobQueue[(i + 1) + 1]
      BY <1>1, <3>1 DEF JP!LinksAreQueue
    <3>4. i # n - 1 => i + 1 \in 1 .. n - 1 /\ jobQueue'[i + 1] = jobQueue[(i + 1) + 1]
      <4>1. i # n - 1 => i + 1 \in 1 .. n - 1
        BY <1>2
      <4>2. QED
        BY <1>4, <4>1
    <3>5. (i + 1 = n) <=> (i = n - 1)
      BY <1>2
    <3>6. QED
      BY <3>1, <3>2, <3>3, <3>4, <3>5
  <2>2. /\ firstJob' = IF n - 1 = 0 THEN Nil ELSE jobQueue'[1]
        /\ lastJob' = IF n - 1 = 0 THEN Nil ELSE jobQueue'[n - 1]
    BY <1>2, <1>3, <1>4, <1>7
  <2>3. QED
    BY <1>4, <2>1, <2>2 DEF JP!LinksAreQueue
<1>11. JobStages'
  <2>1. \A i, k \in 1 .. Len(jobQueue') : jobQueue'[i] = jobQueue'[k] => i = k
    <3>1. ASSUME NEW i \in 1 .. n - 1, NEW k \in 1 .. n - 1, jobQueue'[i] = jobQueue'[k]
          PROVE  i = k
      <4>1. i + 1 \in 1 .. n /\ k + 1 \in 1 .. n
        BY <1>2
      <4>2. jobQueue[i + 1] = jobQueue[k + 1]
        BY <1>4, <3>1
      <4>3. i + 1 = k + 1
        BY <1>1, <4>1, <4>2 DEF JobStages
      <4>4. QED
        BY <1>2, <4>3
    <3>2. QED
      BY <1>4, <3>1
  <2>2. \A k \in Jobs : ~Waits(k)' => nextJob'[k] = Nil
    BY <1>1, <1>5, <1>7, <1>8 DEF JobStages, JP!TypeOK
  <2>3. /\ status[j] = "pending" /\ added[j] # "no"
        /\ \A v \in Workers : job[v] # j
    BY <1>1, <1>5 DEF JobStages
  <2>4. /\ job'[w] = j /\ j # Nil /\ pc'[w] = "run"
        /\ \A v \in Workers \ {w} : job'[v] = job[v] /\ pc'[v] = pc[v]
    BY <1>1, <1>2, <1>3, <1>5 DEF JP!TypeOK, JP!Assumptions
  <2>5. \A v \in Workers : (pc'[v] = "run") <=> (job'[v] # Nil)
    BY <1>1, <2>4 DEF JobStages
  <2>6. \A u, v \in Workers : job'[u] = job'[v] /\ job'[u] # Nil => u = v
    BY <1>1, <2>3, <2>4 DEF JobStages
  <2>7. \A k \in Jobs : Waits(k)' => /\ status'[k] = "pending" /\ added'[k] # "no"
                                     /\ \A v \in Workers : job'[v] # k
    BY <1>1, <1>2, <1>8, <2>4 DEF JobStages
  <2>8. \A v \in Workers : job'[v] # Nil => status'[job'[v]] # "done" /\ added'[job'[v]] # "no"
    BY <1>1, <1>2, <2>3, <2>4 DEF JobStages
  <2>9. QED
    BY <1>1, <1>2, <2>1, <2>2, <2>5, <2>6, <2>7, <2>8 DEF JobStages
<1>12. QED
  BY <1>2, <1>3, <1>9, <1>10, <1>11 DEF JobInv

(***************************************************************************)
(* The steps that leave the queue alone.                                   *)
(***************************************************************************)
LEMMA QueueKept ==
  ASSUME JP!LinksAreQueue, UNCHANGED JP!queueVars
  PROVE  JP!LinksAreQueue' /\ \A j : Waits(j)' <=> Waits(j)
BY DEF JP!LinksAreQueue, Waits, JP!queueVars

LEMMA WorkKeeps ==
  ASSUME JP!Assumptions, JobInv, NEW w \in Workers,
         JP!Check(w) \/ JP!Wait(w) \/ (JP!Fetch(w) /\ firstJob = Nil)
  PROVE  JobInv' /\ UNCHANGED JP!queueVars
<1>1. JP!TypeOK /\ JobStages /\ JP!LinksAreQueue
  BY DEF JobInv
<1>2. /\ UNCHANGED <<JP!queueVars, status, added, job, shutdown, signals, runs>>
      /\ pc[w] # "run" /\ semaphore' \in Nat
      /\ \E p \in {"check", "wait", "fetch", "exit"} : pc' = [pc EXCEPT ![w] = p]
  BY <1>1 DEF JP!Check, JP!Wait, JP!Fetch, JP!queueVars, JP!TypeOK
<1>3. JP!TypeOK'
  BY <1>1, <1>2 DEF JP!TypeOK, JP!queueVars
<1>4. \A v \in Workers : (pc'[v] = "run") <=> (pc[v] = "run")
  BY <1>1, <1>2 DEF JP!TypeOK
<1>5. JobStages'
  BY <1>1, <1>2, <1>4, QueueKept DEF JobStages, JP!queueVars
<1>6. QED
  BY <1>1, <1>2, <1>3, <1>5, QueueKept DEF JobInv

LEMMA RunKeeps ==
  ASSUME JP!Assumptions, JobInv, NEW w \in Workers, JP!Run(w) \/ JP!RunReturns(w)
  PROVE  JobInv' /\ UNCHANGED JP!queueVars
<1>1. JP!TypeOK /\ JobStages /\ JP!LinksAreQueue
  BY DEF JobInv
<1> DEFINE j == job[w]
<1>2. /\ pc[w] = "run" /\ j \in Jobs /\ j # Nil /\ ~Waits(j)
      /\ status[j] # "done" /\ added[j] # "no"
      /\ UNCHANGED <<JP!queueVars, added, semaphore, shutdown, signals>>
  BY <1>1 DEF JP!Run, JP!RunReturns, JP!TypeOK, JobStages
<1>3. CASE JP!Run(w)
  <2>1. /\ status' = [status EXCEPT ![j] = "running"]
        /\ runs' = [runs EXCEPT ![j] = @ + 1]
        /\ UNCHANGED <<pc, job>> /\ status[j] = "pending" /\ runs[j] = 0
    BY <1>1, <1>2, <1>3 DEF JP!Run, JP!TypeOK, JobStages
  <2>2. JP!TypeOK'
    BY <1>1, <1>2, <2>1 DEF JP!TypeOK, JP!queueVars
  <2>3. JobStages'
    BY <1>1, <1>2, <2>1, QueueKept DEF JobStages, JP!TypeOK, JP!queueVars
  <2>4. QED
    BY <1>1, <1>2, <2>2, <2>3, QueueKept DEF JobInv
<1>4. CASE JP!RunReturns(w)
  <2>1. /\ status' = [status EXCEPT ![j] = "done"]
        /\ pc' = [pc EXCEPT ![w] = "check"]
        /\ job' = [job EXCEPT ![w] = Nil]
        /\ UNCHANGED runs /\ status[j] = "running"
    BY <1>4 DEF JP!RunReturns
  <2>2. JP!TypeOK'
    BY <1>1, <1>2, <2>1 DEF JP!TypeOK, JP!queueVars
  <2>3. /\ job'[w] = Nil /\ pc'[w] # "run"
        /\ \A v \in Workers \ {w} : job'[v] = job[v] /\ pc'[v] = pc[v] /\ job[v] # j
    BY <1>1, <1>2, <2>1 DEF JP!TypeOK, JobStages
  <2>4. \A v \in Workers : job'[v] # Nil => v # w /\ job'[v] = job[v] /\ job[v] # j
    BY <2>3
  <2>5. \A k \in Jobs : status'[k] = IF k = j THEN "done" ELSE status[k]
    BY <1>1, <2>1 DEF JP!TypeOK
  <2>6. \A v \in Workers : job'[v] # Nil => status'[job'[v]] # "done" /\ added'[job'[v]] # "no"
    BY <1>1, <1>2, <2>4, <2>5 DEF JobStages, JP!TypeOK
  <2>7. \A k \in Jobs : Waits(k)' => /\ status'[k] = "pending" /\ added'[k] # "no"
                                     /\ \A v \in Workers : job'[v] # k
    <3>1. ASSUME NEW k \in Jobs, Waits(k) PROVE k # j /\ k # Nil
      BY <1>2, <3>1 DEF JP!Assumptions
    <3>2. QED
      BY <1>1, <1>2, <2>3, <2>5, <3>1, QueueKept DEF JobStages
  <2>8. \A k \in Jobs : runs'[k] = IF status'[k] = "pending" THEN 0 ELSE 1
    BY <1>1, <2>1, <2>5 DEF JobStages
  <2>9. JobStages'
    BY <1>1, <1>2, <2>1, <2>3, <2>4, <2>5, <2>6, <2>7, <2>8, QueueKept
    DEF JobStages, JP!queueVars
  <2>10. QED
    BY <1>1, <1>2, <2>2, <2>9, QueueKept DEF JobInv
<1>5. QED
  BY <1>2, <1>3, <1>4

LEMMA SignalsKeep ==
  ASSUME JP!Assumptions, JobInv,
         (\E j \in Jobs : JP!AddSignals(j)) \/ JP!Destroy \/ JP!DestroySignals \/ UNCHANGED JP!vars
  PROVE  JobInv' /\ UNCHANGED JP!queueVars
<1>1. JP!TypeOK /\ JobStages /\ JP!LinksAreQueue
  BY DEF JobInv
<1>2. UNCHANGED <<JP!queueVars, status, pc, job, runs>>
  BY DEF JP!AddSignals, JP!Destroy, JP!DestroySignals, JP!vars
<1>3. /\ added' \in [Jobs -> {"no", "linked", "done"}]
      /\ \A k \in Jobs : added'[k] = "no" <=> added[k] = "no"
  BY <1>1 DEF JP!AddSignals, JP!Destroy, JP!DestroySignals, JP!vars, JP!TypeOK
<1>4. semaphore' \in Nat /\ shutdown' \in BOOLEAN
  <2>1. semaphore' \in {semaphore, semaphore + 1}
    BY DEF JP!AddSignals, JP!Destroy, JP!DestroySignals, JP!vars
  <2>2. shutdown' = shutdown \/ shutdown' = TRUE
    BY DEF JP!AddSignals, JP!Destroy, JP!DestroySignals, JP!vars
  <2>3. semaphore \in Nat /\ shutdown \in BOOLEAN
    BY <1>1 DEF JP!TypeOK
  <2>4. semaphore' \in Nat
    BY <2>1, <2>3
  <2>5. shutdown' \in BOOLEAN
    BY <2>2, <2>3, Zenon
  <2>6. QED
    BY <2>4, <2>5
<1>5. JP!Cardinality(Workers) \in Nat
  BY SameFiniteSets, FS_CardinalityType DEF JP!Assumptions
<1>6. signals' \in 0 .. JP!Cardinality(Workers)
  BY <1>1, <1>5 DEF JP!AddSignals, JP!Destroy, JP!SignalsOfDestroy, JP!DestroySignals, JP!vars, JP!TypeOK
<1>7. JP!TypeOK'
  BY <1>1, <1>2, <1>3, <1>4, <1>6 DEF JP!TypeOK, JP!queueVars
<1>8. JobStages'
  BY <1>1, <1>2, <1>3, QueueKept DEF JobStages, JP!queueVars, JP!TypeOK
<1>9. QED
  BY <1>1, <1>2, <1>7, <1>8, QueueKept DEF JobInv

LEMMA JobStep == ASSUME JP!Assumptions, JobInv, [JP!Next]_(JP!vars) PROVE JobInv'
<1>1. CASE \E j \in Jobs : JP!Add(j)
  BY <1>1, AddKeeps
<1>2. CASE \E w \in Workers : JP!Work(w)
  BY <1>2, FetchKeeps, WorkKeeps, RunKeeps DEF JP!Work
<1>3. CASE (\E j \in Jobs : JP!AddSignals(j)) \/ JP!Destroy \/ JP!DestroySignals \/ JP!Rest \/ UNCHANGED JP!vars
  BY <1>3, SignalsKeep DEF JP!Rest
<1>4. QED
  BY <1>1, <1>2, <1>3 DEF JP!Next

-----------------------------------------------------------------------------
(***************************************************************************)
(* The signals.                                                            *)
(***************************************************************************)
SignalInv == JobInv /\ JP!NoLostWakeUp

LEMMA SignalsFinite ==
  ASSUME JP!Assumptions
  PROVE  /\ IsFiniteSet(JP!Fetching) /\ Cardinality(JP!Fetching) \in Nat
         /\ IsFiniteSet(JP!Unsignalled) /\ Cardinality(JP!Unsignalled) \in Nat
         /\ IsFiniteSet(JP!Fetching') /\ Cardinality(JP!Fetching') \in Nat
         /\ IsFiniteSet(JP!Unsignalled') /\ Cardinality(JP!Unsignalled') \in Nat
<1>1. /\ JP!Fetching \subseteq Workers /\ JP!Unsignalled \subseteq Jobs
      /\ JP!Fetching' \subseteq Workers /\ JP!Unsignalled' \subseteq Jobs
  BY DEF JP!Fetching, JP!Unsignalled
<1>2. \A S : S \subseteq Workers => IsFiniteSet(S)
  BY SameFiniteSets, FS_Subset DEF JP!Assumptions
<1>3. \A S : S \subseteq Jobs => IsFiniteSet(S)
  BY SameFiniteSets, FS_Subset DEF JP!Assumptions
<1>4. QED
  BY <1>1, <1>2, <1>3, FS_CardinalityType

LEMMA SignalStep ==
  ASSUME JP!Assumptions, SignalInv, [JP!Next]_(JP!vars)
  PROVE  JP!NoLostWakeUp'
<1>1. JP!TypeOK /\ JP!LinksAreQueue /\ JobInv /\ JP!NoLostWakeUp
  BY DEF SignalInv, JobInv
<1>2. Len(jobQueue) \in Nat /\ semaphore \in Nat
  BY <1>1 DEF JP!TypeOK
<1> USE SignalsFinite, SameFiniteSets DEF JP!NoLostWakeUp
<1>3. CASE \E j \in Jobs : JP!Add(j)
  <2>1. PICK j \in Jobs : JP!Add(j)
    BY <1>3
  <2>2. Len(jobQueue') = Len(jobQueue) + 1 /\ semaphore' = semaphore /\ JP!Fetching' = JP!Fetching
    BY <1>1, <2>1 DEF JP!Add, JP!TypeOK, JP!Fetching
  <2>3. JP!Unsignalled' = JP!Unsignalled \cup {j} /\ j \notin JP!Unsignalled
    BY <1>1, <2>1 DEF JP!Add, JP!TypeOK, JP!Unsignalled
  <2>4. Cardinality(JP!Unsignalled') = Cardinality(JP!Unsignalled) + 1
    BY <2>3, FS_AddElement
  <2>5. QED
    BY <1>1, <1>2, <2>2, <2>4
<1>4. CASE \E j \in Jobs : JP!AddSignals(j)
  <2>1. PICK j \in Jobs : JP!AddSignals(j)
    BY <1>4
  <2>2. /\ jobQueue' = jobQueue /\ semaphore' = semaphore + 1 /\ JP!Fetching' = JP!Fetching
    BY <2>1 DEF JP!AddSignals, JP!queueVars, JP!Fetching
  <2>3. JP!Unsignalled' = JP!Unsignalled \ {j} /\ j \in JP!Unsignalled
    BY <1>1, <2>1 DEF JP!AddSignals, JP!TypeOK, JP!Unsignalled
  <2>4. Cardinality(JP!Unsignalled') = Cardinality(JP!Unsignalled) - 1
    BY <2>3, FS_RemoveElement
  <2>5. QED
    BY <1>1, <1>2, <2>2, <2>4
<1>5. ASSUME NEW w \in Workers, JP!Wait(w) PROVE JP!NoLostWakeUp'
  <2>1. /\ jobQueue' = jobQueue /\ semaphore' = semaphore - 1 /\ JP!Unsignalled' = JP!Unsignalled
    BY <1>5 DEF JP!Wait, JP!queueVars, JP!Unsignalled
  <2>2. JP!Fetching' = JP!Fetching \cup {w} /\ w \notin JP!Fetching
    BY <1>1, <1>5 DEF JP!Wait, JP!TypeOK, JP!Fetching
  <2>3. Cardinality(JP!Fetching') = Cardinality(JP!Fetching) + 1
    BY <2>2, FS_AddElement
  <2>4. QED
    BY <1>1, <1>2, <2>1, <2>3
<1>6. ASSUME NEW w \in Workers, JP!Fetch(w) PROVE JP!NoLostWakeUp'
  <2>1. semaphore' = semaphore /\ JP!Unsignalled' = JP!Unsignalled
    BY <1>6 DEF JP!Fetch, JP!Unsignalled
  <2>2. JP!Fetching' = JP!Fetching \ {w} /\ w \in JP!Fetching
    BY <1>1, <1>6 DEF JP!Fetch, JP!TypeOK, JP!Fetching
  <2>3. Cardinality(JP!Fetching') = Cardinality(JP!Fetching) - 1
    BY <2>2, FS_RemoveElement
  <2>4. CASE firstJob = Nil
    <3>1. jobQueue' = jobQueue
      BY <1>6, <2>4 DEF JP!Fetch, JP!queueVars
    <3>2. Len(jobQueue) = 0
      <4>1. Len(jobQueue) # 0 => jobQueue[1] \in Jobs
        BY <1>1, <1>2 DEF JP!TypeOK
      <4>2. QED
        BY <1>1, <2>4, <4>1 DEF JP!LinksAreQueue, JP!Assumptions
    <3>3. QED
      BY <1>2, <2>1, <3>1, <3>2
  <2>5. CASE firstJob # Nil
    <3>1. jobQueue # << >> /\ jobQueue' = Tail(jobQueue)
      BY <1>1, <1>6, <2>5, FetchKeeps
    <3>2. Len(jobQueue') = Len(jobQueue) - 1
      BY <1>1, <3>1 DEF JP!TypeOK
    <3>3. QED
      BY <1>1, <1>2, <2>1, <2>3, <3>2
  <2>6. QED
    BY <2>4, <2>5
<1>7. ASSUME NEW w \in Workers, JP!Check(w) \/ JP!Run(w) \/ JP!RunReturns(w) PROVE JP!NoLostWakeUp'
  <2>1. UNCHANGED <<jobQueue, semaphore, JP!Unsignalled>>
    BY <1>7 DEF JP!Check, JP!Run, JP!RunReturns, JP!queueVars, JP!Unsignalled
  <2>2. JP!Fetching' = JP!Fetching
    BY <1>1, <1>7 DEF JP!Check, JP!Run, JP!RunReturns, JP!TypeOK, JP!Fetching
  <2>3. QED
    BY <1>1, <2>1, <2>2
<1>8. CASE JP!Destroy \/ JP!DestroySignals \/ JP!Rest \/ UNCHANGED JP!vars
  <2>1. UNCHANGED <<jobQueue, JP!Unsignalled, JP!Fetching>> /\ semaphore' \in {semaphore, semaphore + 1}
    BY <1>8 DEF JP!Destroy, JP!DestroySignals, JP!Rest, JP!vars, JP!queueVars, JP!Unsignalled, JP!Fetching
  <2>2. QED
    BY <1>1, <1>2, <2>1
<1>9. QED
  BY <1>3, <1>4, <1>5, <1>6, <1>7, <1>8 DEF JP!Next, JP!Work

LEMMA JobsAlways == ASSUME JP!Assumptions PROVE JP!Spec => []SignalInv
<1>1. JP!Init => SignalInv
  <2> SUFFICES ASSUME JP!Init PROVE SignalInv
    OBVIOUS
  <2>1. Len(jobQueue) = 0 /\ semaphore = 0
    BY DEF JP!Init
  <2>2. QED
    BY <2>1, JobInit, SignalsFinite, SameFiniteSets DEF SignalInv, JP!NoLostWakeUp
<1>2. SignalInv /\ [JP!Next]_(JP!vars) => SignalInv'
  BY JobStep, SignalStep DEF SignalInv
<1>3. QED
  BY <1>1, <1>2, PTL DEF JP!Spec

LEMMA JobsOfThePools == PoolsSpec => []SignalInv
<1>1. PoolsInit => JP!Init
  BY DEF PoolsInit
<1>2. UNCHANGED jobVars => UNCHANGED JP!vars
  BY DEF jobVars, JP!vars, JP!queueVars
<1>3. [PoolsNext]_allVars => [JP!Next]_(JP!vars)
  BY <1>2 DEF PoolsNext, allVars, JobsNext
<1>4. PoolsSpec => JP!Spec
  BY <1>1, <1>3, PTL DEF PoolsSpec, JP!Spec
<1>5. JP!Spec => []SignalInv
  BY PoolsAssumption, JobsAlways
<1>6. QED
  BY <1>4, <1>5, PTL

(***************************************************************************)
(* For any number of jobs and threads, m_pFirstJob, m_pNext and m_pLastJob *)
(* link the jobs that wait in the order of their Add, a job is run once,   *)
(* and for every job that waits there is a signal, given or about to be    *)
(* given, or a worker on its way to the queue (jobs.cpp:39-60, 88-101).    *)
(***************************************************************************)
THEOREM JobsAlwaysKept == PoolsSpec => []JobsKept
<1>1. ASSUME SignalInv PROVE JobsKept
  <2>1. JobStages /\ JP!TypeOK /\ JP!LinksAreQueue /\ JP!NoLostWakeUp
    BY <1>1 DEF SignalInv, JobInv
  <2>2. \A i \in 1 .. Len(jobQueue) : Waits(jobQueue[i]) /\ jobQueue[i] \in Jobs
    BY <2>1 DEF Waits, JP!TypeOK
  <2>3. JP!RunOnce
    BY <2>1, <2>2 DEF JobStages, JP!RunOnce
  <2>4. QED
    BY <2>1, <2>3 DEF JobsKept
<1>2. QED
  BY <1>1, JobsOfThePools, PTL

-----------------------------------------------------------------------------
(***************************************************************************)
(* The connection pool.  CP and CPP are the module and the module with its *)
(* proofs under the same substitution: their definitions agree.            *)
(***************************************************************************)
CPP == INSTANCE ConnectionPool_proofs WITH shutdown <- poolShutdown

LEMMA RingStep == CP!Next => CPP!Next
<1> USE DEF CP!Cardinality, CPP!Cardinality, CP!Queries, CPP!Queries,
            CP!mainVars, CPP!mainVars, CP!tables, CPP!tables, CP!NextIdx, CPP!NextIdx
<1>1. ASSUME NEW q \in CP!Queries, CP!Submit(q) PROVE CPP!Submit(q)
  BY <1>1 DEF CP!Submit, CPP!Submit, CP!Waiting, CPP!Waiting
<1>2. CP!OnShutdown => CPP!OnShutdown
  BY DEF CP!OnShutdown, CPP!OnShutdown
<1>3. CP!Backup => CPP!Backup
  BY DEF CP!Backup, CPP!Backup, CP!BackupTakes, CPP!BackupTakes,
         CP!BackupExecutes, CPP!BackupExecutes, CP!BackupFirst, CPP!BackupFirst
<1>4. CP!Worker => CPP!Worker
  <2>1. CP!WorkerTop => CPP!WorkerTop
    BY DEF CP!WorkerTop, CPP!WorkerTop
  <2>2. CP!WorkerTakes => CPP!WorkerTakes
    BY DEF CP!WorkerTakes, CPP!WorkerTakes, CP!Ends, CPP!Ends, CP!MovedOut, CPP!MovedOut
  <2>3. ASSUME NEW s, NEW f, CP!Completed(s, f) PROVE CPP!Completed(s, f)
    BY <2>3 DEF CP!Completed, CPP!Completed
  <2>4. CP!WorkerReads => CPP!WorkerReads
    BY <2>3 DEF CP!WorkerReads, CPP!WorkerReads
  <2>5. CP!WorkerRegisters => CPP!WorkerRegisters
    BY <2>3 DEF CP!WorkerRegisters, CPP!WorkerRegisters
  <2>6. CP!WorkerWrites => CPP!WorkerWrites
    BY DEF CP!WorkerWrites, CPP!WorkerWrites
  <2>7. CP!WorkerMovesCopy => CPP!WorkerMovesCopy
    BY <2>3 DEF CP!WorkerMovesCopy, CPP!WorkerMovesCopy, CP!CopyMoved, CPP!CopyMoved
  <2>8. QED
    BY <2>1, <2>2, <2>4, <2>5, <2>6, <2>7 DEF CP!Worker, CPP!Worker
<1>5. CP!Rest => CPP!Rest
  BY DEF CP!Rest, CPP!Rest, CP!vars, CPP!vars
<1>6. QED
  BY <1>1, <1>2, <1>3, <1>4, <1>5 DEF CP!Next, CPP!Next

LEMMA RingStays == UNCHANGED ringVars => UNCHANGED CPP!vars
BY DEF ringVars, CPP!vars, CPP!mainVars, CPP!tables

LEMMA RingSpec == PoolsSpec => CPP!Spec
<1>1. PoolsInit => CPP!Init
  BY DEF PoolsInit, CP!Init, CPP!Init, CP!Queries, CPP!Queries
<1>2. [PoolsNext]_allVars => [CPP!Next]_(CPP!vars)
  BY RingStep, RingStays DEF PoolsNext, allVars, RingNext
<1>3. QED
  BY <1>1, <1>2, PTL DEF PoolsSpec, CPP!Spec

LEMMA RingFits == ASSUME MaxWaiting < RingSize PROVE CPP!Fits
BY PoolsAssumption
DEF CPP!Fits, CPP!Assumptions, CP!Assumptions, CP!Queries, CPP!Queries

(***************************************************************************)
(* The query that the backup thread points at stays in its slot, if a slot *)
(* of the ring is always left over (connection_pool.cpp:214).              *)
(***************************************************************************)
THEOREM PointerAlwaysLive ==
  ASSUME MaxWaiting < RingSize
  PROVE  PoolsSpec => []PointerIsLive
<1>1. CPP!Spec => []CPP!PointerIsLive
  BY RingFits, CPP!PointerAlwaysLive
<1>2. CPP!PointerIsLive => PointerIsLive
  BY DEF CPP!PointerIsLive, PointerIsLive, CP!PointerIsLive
<1>3. QED
  BY <1>1, <1>2, RingSpec, PTL

(***************************************************************************)
(* A write that a database has is never lost again                         *)
(* (connection_pool.cpp:181-185).                                          *)
(***************************************************************************)
THEOREM WritesAreKept ==
  ASSUME MaxWaiting < RingSize
  PROVE  PoolsSpec => NothingLost
<1>1. CPP!Spec => CPP!NothingLost
  BY RingFits, CPP!WritesAreKept
<1>2. [CPP!Kept \subseteq CPP!Kept']_(CPP!vars) => [CP!Kept \subseteq CP!Kept']_(CP!vars)
  BY DEF CPP!Kept, CP!Kept, CP!vars, CPP!vars, CP!mainVars, CPP!mainVars,
         CP!tables, CPP!tables
<1>3. QED
  BY <1>1, <1>2, RingSpec, PTL DEF NothingLost, CP!NothingLost, CPP!NothingLost

(***************************************************************************)
(* The ring, its semaphores and its indices are a FIFO queue of queries, if*)
(* a slot of the ring is always left over (connection_pool.cpp:146-330).   *)
(***************************************************************************)
THEOREM RingIsQueue ==
  ASSUME MaxWaiting < RingSize
  PROVE  PoolsSpec => RingIsFifo
<1> USE DEF CP!Cardinality, CPP!Cardinality, CP!Queries, CPP!Queries,
            CP!Waiting, CPP!Waiting, CP!Queue, CPP!Queue
<1>1. CPP!Spec => CPP!ImplementsFifo
  BY RingFits, CPP!RingIsQueue
<1>2. CPP!Fifo!Init => CP!Fifo!Init
  BY DEF CPP!Fifo!Init, CP!Fifo!Init
<1>3. [CPP!Fifo!Next]_(CPP!Queue) => [CP!Fifo!Next]_(CP!Queue)
  BY DEF CPP!Fifo!Next, CP!Fifo!Next, CPP!Fifo!Submit, CP!Fifo!Submit,
         CPP!Fifo!Serve, CP!Fifo!Serve
<1>4. QED
  BY <1>1, <1>2, <1>3, RingSpec, PTL
  DEF RingIsFifo, CP!ImplementsFifo, CPP!ImplementsFifo, CP!Fifo!Spec, CPP!Fifo!Spec

=============================================================================
