----------------------------- MODULE SnapIDPool -----------------------------
(***************************************************************************)
(* The pool of snap ids (CSnapIDPool of src/engine/server/server.cpp): an  *)
(* array of ids that two linked lists run through, both over the one field *)
(* m_Next.  The free list is a stack, the timed list a queue of ids in     *)
(* quarantine.  NewID first moves the ids whose quarantine is over to the  *)
(* free list; TimeoutIDs moves all.                                        *)
(*                                                                         *)
(* The pool is used by the server thread only.  The loops over the timed   *)
(* list are modelled step by step: `call` says which operation runs, and no*)
(* other operation starts before it has returned.                          *)
(*                                                                         *)
(* Abstractions.  Time counts in an arbitrary unit; m_Timeout wraps at     *)
(* IntLimit as the int of the code does at 2^31 nanoseconds.  In the code  *)
(* the quarantine, 5 * 10^9 nanoseconds, is more than twice IntLimit, so   *)
(* that no time of expiry is stored as it is; no relation of the two is    *)
(* assumed here.                                                           *)
(***************************************************************************)
EXTENDS Integers, FiniteSets

CONSTANTS
  MaxIds,      \* MAX_IDS, 32 * 1024 in the code
  Quarantine,  \* time_freq() * 5
  IntLimit,    \* an int is less than this
  MaxNow       \* bound: how long the server runs

\* What the constants are assumed to be.
Assumptions ==
  /\ MaxIds \in Nat \ {0}
  /\ Quarantine \in Nat /\ IntLimit \in Nat \ {0} /\ MaxNow \in Nat

Ids == 0 .. MaxIds - 1
NoId == -1

VARIABLES
  next,        \* m_aIDs[i].m_Next
  state,       \* m_aIDs[i].m_State
  timeout,     \* m_aIDs[i].m_Timeout
  firstFree,   \* m_FirstFree
  firstTimed,  \* m_FirstTimed
  lastTimed,   \* m_LastTimed
  usage,       \* m_Usage
  inUsage,     \* m_InUsage
  call,        \* the operation that runs: none, NewID or TimeoutIDs
  now,         \* time_get()
  heldUntil    \* history: when the quarantine of an id is to end

lists == <<next, state, firstFree, firstTimed, lastTimed>>
vars == <<lists, timeout, usage, inUsage, call, now, heldUntil>>

TypeOK ==
  /\ next \in [Ids -> Ids \cup {NoId}]
  /\ state \in [Ids -> {"free", "allocated", "timed"}]
  /\ timeout \in [Ids -> -IntLimit .. IntLimit - 1]
  /\ firstFree \in Ids \cup {NoId}
  /\ firstTimed \in Ids \cup {NoId}
  /\ lastTimed \in Ids \cup {NoId}
  /\ usage \in 0 .. MaxIds
  /\ inUsage \in 0 .. MaxIds
  /\ call \in {"none", "NewID", "TimeoutIDs"}
  /\ now \in Nat
  /\ heldUntil \in [Ids -> Nat]

\* What is left of a 64 bit time in an int.
ToInt(t) == ((t + IntLimit) % (2 * IntLimit)) - IntLimit

Init ==
  /\ next = [i \in Ids |-> IF i = MaxIds - 1 THEN NoId ELSE i + 1]
  /\ state = [i \in Ids |-> "free"]
  /\ timeout = [i \in Ids |-> 0]
  /\ firstFree = 0
  /\ firstTimed = NoId
  /\ lastTimed = NoId
  /\ usage = 0
  /\ inUsage = 0
  /\ call = "none"
  /\ now = 0
  /\ heldUntil = [i \in Ids |-> 0]

-----------------------------------------------------------------------------
\* From the timed list to the free list.
RemoveFirstTimeoutLists ==
  /\ next' = [next EXCEPT ![firstTimed] = firstFree]
  /\ state' = [state EXCEPT ![firstTimed] = "free"]
  /\ firstFree' = firstTimed
  /\ firstTimed' = next[firstTimed]
  /\ lastTimed' = IF next[firstTimed] = NoId THEN NoId ELSE lastTimed

RemoveFirstTimeout ==
  /\ RemoveFirstTimeoutLists
  /\ usage' = usage - 1
  /\ UNCHANGED <<timeout, inUsage, call, now>>

\* Mutant: the time of now is cut to an int, too.
HasExpiredCut == firstTimed # NoId /\ timeout[firstTimed] < ToInt(now)

HasExpired == firstTimed # NoId /\ timeout[firstTimed] < now

NewID ==
  /\ call = "none"
  /\ call' = "NewID"
  /\ UNCHANGED <<lists, timeout, usage, inUsage, now, heldUntil>>

NewIDExpires ==
  /\ call = "NewID"
  /\ HasExpired
  /\ RemoveFirstTimeout
  /\ UNCHANGED heldUntil

NewIDFails ==
  /\ call = "NewID"
  /\ ~HasExpired
  /\ firstFree = NoId
  /\ call' = "none"
  /\ UNCHANGED <<lists, timeout, usage, inUsage, now, heldUntil>>

NewIDReturns ==
  /\ call = "NewID"
  /\ ~HasExpired
  /\ firstFree # NoId
  /\ firstFree' = next[firstFree]
  /\ state' = [state EXCEPT ![firstFree] = "allocated"]
  /\ usage' = usage + 1
  /\ inUsage' = inUsage + 1
  /\ call' = "none"
  /\ heldUntil' = [heldUntil EXCEPT ![firstFree] = 0]
  /\ UNCHANGED <<next, firstTimed, lastTimed, timeout, now>>

\* Mutant: an id that is freed keeps its place in the list it was in.
LinkLastUncut(i) ==
  /\ next' = [next EXCEPT ![lastTimed] = i]
  /\ UNCHANGED firstTimed

LinkLast(i) ==
  /\ next' = [j \in Ids |-> IF j = i THEN NoId ELSE IF j = lastTimed THEN i ELSE next[j]]
  /\ firstTimed' = IF lastTimed = NoId THEN i ELSE firstTimed

FreeID(i) ==
  /\ call = "none"
  /\ state[i] = "allocated"
  /\ inUsage' = inUsage - 1
  /\ state' = [state EXCEPT ![i] = "timed"]
  /\ timeout' = [timeout EXCEPT ![i] = ToInt(now + Quarantine)]
  /\ LinkLast(i)
  /\ lastTimed' = i
  /\ heldUntil' = [heldUntil EXCEPT ![i] = now + Quarantine]
  /\ UNCHANGED <<firstFree, usage, call, now>>

\* LoadMap.
TimeoutIDs ==
  /\ call = "none"
  /\ call' = "TimeoutIDs"
  /\ UNCHANGED <<lists, timeout, usage, inUsage, now, heldUntil>>

TimeoutIDsExpires ==
  /\ call = "TimeoutIDs"
  /\ firstTimed # NoId
  /\ heldUntil' = [heldUntil EXCEPT ![firstTimed] = 0]
  /\ RemoveFirstTimeout

TimeoutIDsReturns ==
  /\ call = "TimeoutIDs"
  /\ firstTimed = NoId
  /\ call' = "none"
  /\ UNCHANGED <<lists, timeout, usage, inUsage, now, heldUntil>>

Advance ==
  /\ call = "none"
  /\ now < MaxNow
  /\ now' \in now + 1 .. MaxNow
  /\ UNCHANGED <<lists, timeout, usage, inUsage, call, heldUntil>>

Next ==
  \/ NewID \/ NewIDExpires \/ NewIDFails \/ NewIDReturns
  \/ \E i \in Ids : FreeID(i)
  \/ TimeoutIDs \/ TimeoutIDsExpires \/ TimeoutIDsReturns
  \/ Advance

Spec == Init /\ [][Next]_vars

-----------------------------------------------------------------------------
(***************************************************************************)
(* The two lists never mix, though they share m_Next: the free list runs   *)
(* through the free ids, the timed list through the ids in quarantine, each*)
(* through all of them and once, and m_LastTimed is the end of the latter. *)
(***************************************************************************)
\* s lists the n ids of a list that starts with first.
IsList(n, s, first) ==
  /\ \A j, k \in 1 .. n : s[j] = s[k] => j = k
  /\ first = IF n = 0 THEN NoId ELSE s[1]
  /\ \A j \in 1 .. n : next[s[j]] = IF j = n THEN NoId ELSE s[j + 1]

FreeListComplete ==
  \E n \in 0 .. MaxIds : \E s \in [1 .. n -> Ids] :
    /\ IsList(n, s, firstFree)
    /\ {s[j] : j \in 1 .. n} = {i \in Ids : state[i] = "free"}

TimedListComplete ==
  \E n \in 0 .. MaxIds : \E s \in [1 .. n -> Ids] :
    /\ IsList(n, s, firstTimed)
    /\ {s[j] : j \in 1 .. n} = {i \in Ids : state[i] = "timed"}
    /\ lastTimed = IF n = 0 THEN NoId ELSE s[n]

ListsComplete == FreeListComplete /\ TimedListComplete

(***************************************************************************)
(* The counters m_Usage and m_InUsage, which FreeID, NewID and             *)
(* RemoveFirstTimeout change apart from each other, count the ids that are *)
(* not free and the ids that are in use.                                   *)
(***************************************************************************)
CountersRight ==
  /\ usage = Cardinality({i \in Ids : state[i] # "free"})
  /\ inUsage = Cardinality({i \in Ids : state[i] = "allocated"})

(***************************************************************************)
(* An id is given to one user at a time, and NewID refuses only while every*)
(* id is in use or was freed less than the quarantine ago.  It looks at the*)
(* head of the timed list alone, and at times that are cut to an int: an id*)
(* that is withheld is withheld no longer than it should be, whatever the  *)
(* cut makes of the head (server.cpp:89-139).                              *)
(***************************************************************************)
Allocator == INSTANCE IdAllocator
               WITH used <- {i \in Ids : state[i] = "allocated"},
                    asked <- call = "NewID"

ImplementsAllocator == Allocator!Spec

(***************************************************************************)
(* The five seconds that FreeID gives an id (server.cpp:126) are over when *)
(* NewID gives it away.                                                    *)
(***************************************************************************)
QuarantineKept == [][ NewIDReturns => heldUntil[firstFree] <= now ]_vars

=============================================================================
