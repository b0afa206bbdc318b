----------------------------- MODULE IdAllocator -----------------------------
(***************************************************************************)
(* What the pool of snap ids promises the game: an id has one user at a    *)
(* time, and whoever asks for one is refused only while every id is in use *)
(* or was given back less than the quarantine ago.  The quarantine is the  *)
(* longest time that an id is withheld, and no more: nothing here says that*)
(* an id is withheld until it is over.  A map that is loaded ends it.      *)
(***************************************************************************)
EXTENDS Naturals

CONSTANTS
  Ids,
  Quarantine

VARIABLES
  used,       \* ids in use
  asked,      \* somebody waits for an id
  heldUntil,  \* end of the quarantine of each id
  now

vars == <<used, asked, heldUntil, now>>

Init ==
  /\ used = {}
  /\ asked = FALSE
  /\ heldUntil = [i \in Ids |-> 0]
  /\ now = 0

Ask ==
  /\ ~asked
  /\ asked' = TRUE
  /\ UNCHANGED <<used, heldUntil, now>>

Give(i) ==
  /\ asked
  /\ i \notin used
  /\ used' = used \cup {i}
  /\ asked' = FALSE
  /\ heldUntil' = [heldUntil EXCEPT ![i] = 0]
  /\ UNCHANGED now

Refuse ==
  /\ asked
  /\ \A i \in Ids : i \in used \/ heldUntil[i] >= now
  /\ asked' = FALSE
  /\ UNCHANGED <<used, heldUntil, now>>

GiveBack(i) ==
  /\ ~asked
  /\ i \in used
  /\ used' = used \ {i}
  /\ heldUntil' = [heldUntil EXCEPT ![i] = now + Quarantine]
  /\ UNCHANGED <<asked, now>>

Forgive(i) ==
  /\ ~asked
  /\ i \notin used
  /\ heldUntil' = [heldUntil EXCEPT ![i] = 0]
  /\ UNCHANGED <<used, asked, now>>

Advance ==
  /\ ~asked
  /\ now' \in Nat
  /\ now' > now
  /\ UNCHANGED <<used, asked, heldUntil>>

Next ==
  \/ Ask \/ Refuse \/ Advance
  \/ \E i \in Ids : Give(i) \/ GiveBack(i) \/ Forgive(i)

Spec == Init /\ [][Next]_vars

=============================================================================
