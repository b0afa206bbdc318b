--------------------------- MODULE MCClient_proofs ---------------------------
(***************************************************************************)
(* Proofs about the transfers that MCClient puts side by side.             *)
(*                                                                         *)
(* The client scripts (LuaFiles): the files of the client hold the chunks  *)
(* of their own in order, and the scripts are started once, with complete  *)
(* files.                                                                  *)
(*                                                                         *)
(* The maps (MapTransfer): what is downloaded in chunks is the map that was*)
(* announced, and the last map a client is told is that of its world.      *)
(***************************************************************************)
EXTENDS MCClient, FiniteSetTheorems, TLAPS

Piece == [file : Names, chunk : Nat]

Typed ==
  /\ files \in Seq(Names) /\ Len(First) <= Len(files)
  /\ \A i \in 1 .. Len(First) : files[i] = First[i]
  /\ current \in Nat /\ current < Len(files)
  /\ left \in Int /\ starts \in {0, 1}
  /\ next \in Nat
  /\ copy \in [Names -> Seq(Piece)]

\* The file that the server reads from.
File == files[current + 1]

\* The client writes file f, up to the chunk it asks for next.
Reading(f) == opened = f /\ Len(copy[f]) = next

\* The client has n files, and knows how many are left.
Got(n) ==
  /\ left = Len(First) - n
  /\ \A i \in 1 .. n : files[i] \in complete

(***************************************************************************)
(* The stages of the dialogue.  There is one message that asks for more, or*)
(* none when it is over.                                                   *)
(***************************************************************************)
Announced ==
  /\ down = <<Number(Len(First)), Info(File)>> /\ up = << >>
  /\ current = 0 /\ starts = 0

Opening == down = <<Info(File)>> /\ up = << >> /\ Got(current)

Requested == down = << >> /\ up = <<next>> /\ Reading(File) /\ Got(current)

Answered ==
  \E last \in BOOLEAN :
    /\ down = <<Chunk(File, next, last)>> /\ up = << >>
    /\ Reading(File) /\ Got(current)

FollowedByInfo ==
  /\ current > 0
  /\ down = <<Chunk(files[current], next, TRUE), Info(File)>> /\ up = << >>
  /\ Reading(files[current]) /\ Got(current - 1)

Over == down = << >> /\ up = << >>

Stages == Announced \/ Opening \/ Requested \/ Answered \/ FollowedByInfo \/ Over

StartsRight == Announced \/ starts = IF left > 0 THEN 0 ELSE 1

CompleteRight == starts = 1 => ToSet(First) \subseteq complete

IInv == Typed /\ CopiesInOrder /\ Stages /\ StartsRight /\ CompleteRight

-----------------------------------------------------------------------------
LEMMA FileKnown ==
  ASSUME Typed
  PROVE  /\ File \in Names
         /\ \A i \in 1 .. current + 1 : files[i] \in Names
         /\ Len(First) \in Nat \ {0}
BY FilesAssumption DEF Typed, File

LEMMA InitInv == Init => IInv
<1> SUFFICES ASSUME Init PROVE IInv
  OBVIOUS
<1> USE FilesAssumption DEF Init
<1>1. Typed
  BY DEF Typed
<1>2. Announced
  BY DEF Announced, File
<1>3. CopiesInOrder
  BY DEF CopiesInOrder
<1>4. QED
  BY <1>1, <1>2, <1>3 DEF IInv, Stages, StartsRight, CompleteRight

(* Edits of the disk and further files after those there are change nothing*)
(* for a transfer under way.                                               *)
LEMMA EditKeeps == ASSUME IInv, NEW f \in Names, Edit(f) PROVE IInv'
<1> USE DEF IInv, Edit, client
<1>1. Typed' /\ CopiesInOrder'
  BY DEF Typed, CopiesInOrder
<1>2. (Announced <=> Announced') /\ Stages'
  BY DEF Stages, Announced, Opening, Requested, Answered, FollowedByInfo, Over,
         File, Reading, Got
<1>3. StartsRight' /\ CompleteRight'
  BY <1>2 DEF StartsRight, CompleteRight
<1>4. QED
  BY <1>1, <1>2, <1>3

LEMMA LuaReloadKeeps == ASSUME IInv, LuaReload PROVE IInv'
<1> USE DEF IInv, LuaReload, client
<1>1. /\ files' \in Seq(Names) /\ Len(files) <= Len(files') /\ Len(files) \in Nat
      /\ \A i \in 1 .. Len(files) : files'[i] = files[i]
  BY FilesAssumption DEF Typed
<1>2. Len(First) \in Nat
  BY FilesAssumption
<1>3. Typed'
  BY <1>1, <1>2 DEF Typed
<1>4. CopiesInOrder'
  BY DEF CopiesInOrder
<1>5. \A i \in 1 .. current + 1 : files'[i] = files[i]
  BY <1>1 DEF Typed
<1>6. File' = File
  BY <1>5 DEF Typed, File
<1>7. Announced => Announced'
  BY <1>6 DEF Announced
<1>8. Stages'
  <2>1. ASSUME NEW n \in Nat, n <= current + 1, Got(n) PROVE Got(n)'
    BY <1>5, <2>1 DEF Got, Typed
  <2>2. Got(current) => Got(current)'
    BY <2>1 DEF Typed
  <2>3. Opening => Opening'
    BY <1>6, <2>2 DEF Opening
  <2>4. Requested => Requested'
    BY <1>6, <2>2 DEF Requested, Reading
  <2>5. Answered => Answered'
    BY <1>6, <2>2 DEF Answered, Reading
  <2>6. ASSUME FollowedByInfo PROVE FollowedByInfo'
    <3>1. current > 0 /\ current \in Nat
      BY <2>6 DEF FollowedByInfo, Typed
    <3>2. files'[current] = files[current]
      <4>1. current \in 1 .. current + 1
        BY <3>1
      <4>2. QED
        BY <1>5, <4>1, Zenon
    <3>3. Got(current - 1)'
      BY <1>5, <2>6, <3>1 DEF FollowedByInfo, Got, Typed
    <3>4. QED
      BY <1>6, <2>6, <3>1, <3>2, <3>3 DEF FollowedByInfo, Reading
  <2>7. Over => Over'
    BY DEF Over
  <2>8. QED
    BY <1>7, <2>3, <2>4, <2>5, <2>6, <2>7 DEF Stages
<1>9. StartsRight' /\ CompleteRight'
  BY <1>7 DEF StartsRight, CompleteRight
<1>10. QED
  BY <1>3, <1>4, <1>8, <1>9

LEMMA TwoSent == ASSUME NEW a, NEW b PROVE << >> \o <<a>> \o <<b>> = <<a, b>>
<1>1. << >> \o <<a>> = <<a>>
  OBVIOUS
<1>2. <<a>> \o <<b>> = <<a, b>>
  <2> DEFINE s == <<a>> \o <<b>>
  <2>1. <<a>> \in Seq({a, b}) /\ <<b>> \in Seq({a, b})
    OBVIOUS
  <2>2. s \in Seq({a, b}) /\ Len(s) = 2 /\ s[1] = a /\ s[2] = b
    BY <2>1
  <2> HIDE DEF s
  <2>3. s = <<a, b>>
    BY <2>2
  <2>4. QED
    BY <2>3 DEF s
<1>3. QED
  BY <1>1, <1>2, Zenon

LEMMA SendLuaFileChunkKeeps == ASSUME IInv, SendLuaFileChunk PROVE IInv'
<1> USE DEF IInv
<1>1. Requested /\ ~Announced
  BY DEF Stages, Announced, Opening, Answered, FollowedByInfo, Over, SendLuaFileChunk
<1>2. UNCHANGED <<files, left, opened, next, copy, complete, starts>>
  BY DEF SendLuaFileChunk, client
<1>3. CopiesInOrder' /\ StartsRight' /\ CompleteRight'
  BY <1>1, <1>2 DEF CopiesInOrder, StartsRight, CompleteRight
<1>4. CASE Kick
  <2>1. Over' /\ current' = current
    BY <1>4 DEF Kick, Over
  <2>2. QED
    BY <1>2, <1>3, <2>1 DEF Typed, Stages
<1> DEFINE last == IsLast(File, next)
<1>5. down = << >> /\ up = <<next>> /\ Head(up) = next /\ Tail(up) = << >>
  BY <1>1 DEF Requested
<1>6. CASE /\ down' = down \o <<Chunk(File, next, last)>> /\ up' = Tail(up)
           /\ current' = current
  <2>1. last \in BOOLEAN
    BY DEF IsLast
  <2> HIDE DEF last
  <2>2. down' = <<Chunk(File, next, last)>> /\ up' = << >>
    BY <1>5, <1>6
  <2>3. Answered'
    BY <1>1, <1>2, <1>6, <2>1, <2>2 DEF Answered, Requested, File, Reading, Got, Chunk
  <2>4. QED
    BY <1>2, <1>3, <1>6, <2>3 DEF Typed, Stages
<1>7. CASE /\ last /\ current' = current + 1 /\ current < Len(files) - 1
           /\ down' = down \o <<Chunk(File, next, last)>> \o <<Info(files[current + 2])>>
           /\ up' = Tail(up)
  <2>1. last = TRUE
    BY <1>7 DEF IsLast
  <2>2. files'[current'] = File /\ File' = files[current + 2]
    BY <1>2, <1>7 DEF Typed, File
  <2> HIDE DEF last
  <2>3. down' = <<Chunk(File, next, TRUE), Info(files[current + 2])>> /\ up' = << >>
    BY <1>5, <1>7, <2>1, TwoSent
  <2>4. current' \in Nat /\ current' > 0 /\ current' - 1 = current
    BY <1>7 DEF Typed
  <2>5. Reading(File) /\ Got(current)
    BY <1>1 DEF Requested
  <2>6. Got(current - 1)'
    BY <1>2, <2>4, <2>5 DEF Got
  <2>7. FollowedByInfo'
    BY <1>2, <2>2, <2>3, <2>4, <2>5, <2>6 DEF FollowedByInfo, Reading, Chunk, Info
  <2>8. Typed'
    BY <1>2, <1>7, <2>4 DEF Typed
  <2>9. QED
    BY <1>3, <2>7, <2>8 DEF Stages
<1>8. QED
  BY <1>4, <1>5, <1>6, <1>7 DEF SendLuaFileChunk, File, MoreFiles

-----------------------------------------------------------------------------
LEMMA HeadAndTail ==
  ASSUME NEW a, NEW b
  PROVE  /\ Head(<<a>>) = a /\ Tail(<<a>>) = << >>
         /\ Head(<<a, b>>) = a /\ Tail(<<a, b>>) = <<b>>
OBVIOUS

(* What the client takes next, at each stage.                              *)
LEMMA HeadOf ==
  ASSUME IInv
  PROVE  /\ Announced => /\ Head(down) = Number(Len(First))
                         /\ Tail(down) = <<Info(File)>>
         /\ Opening => Head(down) = Info(File) /\ Tail(down) = << >>
         /\ \A last \in BOOLEAN :
              down = <<Chunk(File, next, last)>> => /\ Head(down) = Chunk(File, next, last)
                                                   /\ Tail(down) = << >>
         /\ FollowedByInfo => /\ Head(down) = Chunk(files[current], next, TRUE)
                              /\ Tail(down) = <<Info(File)>>
<1>1. Announced => /\ Head(down) = Number(Len(First)) /\ Tail(down) = <<Info(File)>>
  BY HeadAndTail, Zenon DEF Announced
<1>2. Opening => Head(down) = Info(File) /\ Tail(down) = << >>
  BY HeadAndTail, Zenon DEF Opening
<1>3. ASSUME NEW last \in BOOLEAN, down = <<Chunk(File, next, last)>>
      PROVE  Head(down) = Chunk(File, next, last) /\ Tail(down) = << >>
  BY <1>3, HeadAndTail, Zenon
<1>4. FollowedByInfo => /\ Head(down) = Chunk(files[current], next, TRUE)
                        /\ Tail(down) = <<Info(File)>>
  BY HeadAndTail, Zenon DEF FollowedByInfo
<1>5. QED
  BY <1>1, <1>2, <1>3, <1>4

LEMMA TakeNumberKeeps == ASSUME IInv, TakeNumber PROVE IInv'
<1> USE DEF IInv
<1>1. Announced
  BY HeadOf DEF Stages, Opening, Requested, Answered, FollowedByInfo, Over, TakeNumber,
     Info, Chunk
<1>2. left' = Len(First) /\ down' = <<Info(File)>>
  BY <1>1, HeadOf DEF TakeNumber, Number
<1>3. UNCHANGED <<files, current, next, copy, complete, starts, up>>
  BY DEF TakeNumber
<1>4. current = 0 /\ starts = 0 /\ up = << >>
  BY <1>1 DEF Announced
<1>5. Len(First) \in Nat \ {0}
  BY FileKnown
<1>6. Opening'
  BY <1>2, <1>3, <1>4, <1>5 DEF Opening, File, Got, Info
<1>7. Typed' /\ CopiesInOrder'
  BY <1>2, <1>3, <1>5 DEF Typed, CopiesInOrder
<1>8. StartsRight' /\ CompleteRight'
  BY <1>2, <1>3, <1>4, <1>5 DEF StartsRight, CompleteRight
<1>9. QED
  BY <1>6, <1>7, <1>8 DEF Stages

LEMMA TakeInfoKeeps == ASSUME IInv, TakeInfo PROVE IInv'
<1> USE DEF IInv
<1>1. Opening /\ ~Announced
  BY HeadOf DEF Stages, Announced, Requested, Answered, FollowedByInfo, Over, TakeInfo,
     Number, Chunk, Opening, Info
<1>2. Head(down).file = File /\ Tail(down) = << >>
  BY <1>1, HeadOf DEF Info
<1>3. /\ opened' = File /\ copy' = [copy EXCEPT ![File] = << >>]
      /\ next' = 0 /\ down' = << >> /\ up' = Append(up, 0)
      /\ UNCHANGED <<files, current, left, complete, starts>>
  BY <1>2 DEF TakeInfo, FirstChunk
<1>4. up' = <<0>>
  BY <1>1, <1>3 DEF Opening
<1>5. File \in Names
  BY FileKnown
<1>6. Typed' /\ CopiesInOrder'
  <2>1. << >> \in Seq(Piece)
    OBVIOUS
  <2>2. QED
    BY <1>3, <1>5, <2>1 DEF Typed, CopiesInOrder
<1>7. Requested'
  BY <1>1, <1>3, <1>4, <1>5 DEF Requested, Opening, Reading, File, Got, Typed
<1>8. StartsRight' /\ CompleteRight'
  BY <1>1, <1>3 DEF StartsRight, CompleteRight
<1>9. QED
  BY <1>6, <1>7, <1>8 DEF Stages

(* A chunk is written to the end of the file that is open.                 *)
LEMMA PieceWritten ==
  ASSUME IInv, NEW f \in Names, Reading(f), NEW last \in BOOLEAN,
         copy' = Written(Chunk(f, next, last))
  PROVE  /\ copy' \in [Names -> Seq(Piece)]
         /\ Len(copy'[f]) = next + 1
         /\ \A g \in Names : \A i \in DOMAIN copy'[g] :
              copy'[g][i] = [file |-> g, chunk |-> i - 1]
<1> USE DEF IInv
<1> DEFINE piece == [file |-> f, chunk |-> next]
           new == Append(copy[f], piece)
<1>1. copy' = [copy EXCEPT ![f] = new]
  BY FilesAssumption DEF Written, Reading, Chunk
<1>2. copy \in [Names -> Seq(Piece)] /\ copy[f] \in Seq(Piece) /\ piece \in Piece
      /\ Len(copy[f]) = next /\ next \in Nat
  BY DEF Typed, Piece, Reading
<1> HIDE DEF piece
<1>3. new \in Seq(Piece) /\ Len(new) = next + 1
  BY <1>2
<1>4. \A i \in DOMAIN new : new[i] = [file |-> f, chunk |-> i - 1]
  <2>1. ASSUME NEW i \in DOMAIN new PROVE new[i] = [file |-> f, chunk |-> i - 1]
    <3>1. i \in 1 .. next + 1
      BY <1>3
    <3>2. CASE i = next + 1
      BY <1>2, <3>2 DEF piece
    <3>3. CASE i \in 1 .. next
      <4>1. new[i] = copy[f][i] /\ i \in DOMAIN copy[f]
        BY <1>2, <3>3
      <4>2. QED
        BY <4>1 DEF CopiesInOrder
    <3>4. QED
      BY <1>2, <3>1, <3>2, <3>3
  <2>2. QED
    BY <2>1
<1> HIDE DEF new
<1>5. QED
  BY <1>1, <1>2, <1>3, <1>4 DEF CopiesInOrder

LEMMA TakeChunkKeeps == ASSUME IInv, TakeChunk PROVE IInv'
<1> USE DEF IInv
<1>1. Answered \/ FollowedByInfo
  BY HeadOf DEF Stages, Announced, Requested, Opening, Over, TakeChunk, Number, Info
<1>2. ~Announced
  BY HeadOf DEF Announced, TakeChunk, Number
<1>3. UNCHANGED <<files, current>> /\ down' = Tail(down) /\ copy' = Written(Head(down))
  BY DEF TakeChunk
<1>4. File' = File /\ files'[current'] = files[current] /\ File \in Names
  BY <1>3, FileKnown DEF File
<1>5. current \in Nat /\ Len(First) \in Nat /\ left \in Int /\ next \in Nat
  BY FileKnown DEF Typed
(* One file is left less, and the one that was read is complete.           *)
<1>6. ASSUME NEW n \in Nat, n < Len(files), Got(n), opened = files[n + 1],
             opened \in Names,
             left' = left - 1, complete' = complete \cup ({opened} \ {Nil}),
             starts' = IF IsLastFile THEN starts + 1 ELSE starts
      PROVE  /\ left' \in Int /\ starts' \in {0, 1}
             /\ Got(n + 1)' /\ StartsRight' /\ CompleteRight'
  <2>1. complete' = complete \cup {opened}
    BY <1>6, FilesAssumption
  <2>2. left' = Len(First) - (n + 1)
    BY <1>5, <1>6 DEF Got
  <2>3. \A i \in 1 .. n + 1 : files[i] \in complete'
    BY <1>6, <2>1 DEF Got
  <2>4. starts = IF left > 0 THEN 0 ELSE 1
    BY <1>2 DEF StartsRight
  <2>5. starts' = IF left' > 0 THEN 0 ELSE 1
    BY <1>5, <1>6, <2>4 DEF IsLastFile
  <2>6. starts' = 1 => ToSet(First) \subseteq complete'
    <3>1. CASE left = 1
      <4>1. Len(First) = n + 1
        BY <1>5, <2>2, <1>6, <3>1
      <4>2. \A i \in 1 .. Len(First) : First[i] \in complete'
        BY <2>3, <4>1 DEF Typed
      <4>3. DOMAIN First = 1 .. Len(First)
        BY FilesAssumption
      <4>4. QED
        BY <4>2, <4>3 DEF ToSet
    <3>2. CASE left # 1
      BY <1>5, <1>6, <2>1, <3>2 DEF IsLastFile, CompleteRight
    <3>3. QED
      BY <3>1, <3>2
  <2>7. Got(n + 1)'
    BY <1>3, <2>2, <2>3 DEF Got
  <2>8. QED
    BY <1>5, <1>6, <2>5, <2>6, <2>7 DEF StartsRight, CompleteRight
<1>7. CASE FollowedByInfo
  <2>1. Head(down) = Chunk(files[current], next, TRUE) /\ down' = <<Info(File)>>
    BY <1>3, <1>7, HeadOf
  <2>2. /\ left' = left - 1 /\ opened' = Nil
        /\ complete' = complete \cup ({opened} \ {Nil})
        /\ starts' = IF IsLastFile THEN starts + 1 ELSE starts
        /\ UNCHANGED <<next, up>>
    BY <2>1 DEF TakeChunk, Chunk
  <2>3. /\ current > 0 /\ up = << >> /\ Reading(files[current])
        /\ Got(current - 1)
    BY <1>7 DEF FollowedByInfo
  <2>4. files[current] \in Names
    BY <1>5, <2>3, FileKnown
  <2>5. copy' \in [Names -> Seq(Piece)] /\ CopiesInOrder'
    BY <1>3, <2>1, <2>3, <2>4, PieceWritten DEF CopiesInOrder
  <2>6. PICK n \in Nat : n = current - 1
    BY <1>5, <2>3
  <2>7. n < Len(files) /\ Got(n) /\ opened = files[n + 1] /\ opened \in Names
    BY <1>5, <2>3, <2>4, <2>6 DEF Reading, Typed
  <2>8. /\ left' \in Int /\ starts' \in {0, 1}
        /\ Got(n + 1)' /\ StartsRight' /\ CompleteRight'
    BY <1>6, <2>2, <2>7
  <2>9. Typed'
    BY <1>3, <2>2, <2>5, <2>8 DEF Typed
  <2>10. Opening'
    <3>1. Got(current)'
      BY <1>3, <1>5, <2>6, <2>8 DEF Got
    <3>2. QED
      BY <1>4, <2>1, <2>2, <2>3, <3>1 DEF Opening, Info
  <2>11. QED
    BY <2>5, <2>8, <2>9, <2>10 DEF Stages
<1>8. CASE Answered
  <2>1. PICK last \in BOOLEAN : down = <<Chunk(File, next, last)>>
    BY <1>8 DEF Answered
  <2>2. up = << >> /\ Reading(File) /\ Got(current)
    BY <1>8 DEF Answered
  <2>3. Head(down) = Chunk(File, next, last) /\ down' = << >>
    BY <1>3, <2>1, HeadOf
  <2>4. /\ copy' \in [Names -> Seq(Piece)] /\ CopiesInOrder'
        /\ Len(copy'[File]) = next + 1
    BY <1>3, <1>4, <2>2, <2>3, PieceWritten DEF CopiesInOrder
  <2>5. CASE last
    <3>1. /\ left' = left - 1 /\ opened' = Nil
          /\ complete' = complete \cup ({opened} \ {Nil})
          /\ starts' = IF IsLastFile THEN starts + 1 ELSE starts
          /\ UNCHANGED <<next, up>>
      BY <2>3, <2>5 DEF TakeChunk, Chunk
    <3>2. current < Len(files) /\ opened = files[current + 1] /\ opened \in Names
      BY <1>4, <2>2 DEF Reading, Typed, File
    <3>3. left' \in Int /\ starts' \in {0, 1} /\ StartsRight' /\ CompleteRight'
      BY <1>5, <1>6, <2>2, <3>1, <3>2
    <3>4. Over' /\ Typed'
      BY <1>3, <2>2, <2>3, <2>4, <3>1, <3>3 DEF Over, Typed
    <3>5. QED
      BY <2>4, <3>3, <3>4 DEF Stages
  <2>6. CASE ~last
    <3>1. /\ next' = next + 1 /\ up' = Append(up, next + 1)
          /\ UNCHANGED <<left, opened, complete, starts>>
      BY <2>3, <2>6 DEF TakeChunk, Chunk
    <3>2. up' = <<next'>>
      BY <2>2, <3>1
    <3>3. Reading(File)' /\ Got(current)'
      BY <1>3, <1>4, <2>2, <2>4, <3>1 DEF Reading, Got
    <3>4. Requested'
      BY <2>3, <3>2, <3>3 DEF Requested
    <3>5. Typed' /\ StartsRight' /\ CompleteRight'
      BY <1>2, <1>3, <1>5, <2>4, <3>1 DEF Typed, StartsRight, CompleteRight
    <3>6. QED
      BY <2>4, <3>4, <3>5 DEF Stages
  <2>7. QED
    BY <2>5, <2>6
<1>9. QED
  BY <1>1, <1>7, <1>8

-----------------------------------------------------------------------------
LEMMA NextInv == IInv /\ [Next]_vars => IInv'
<1> SUFFICES ASSUME IInv, [Next]_vars PROVE IInv'
  OBVIOUS
<1>1. CASE UNCHANGED vars
  BY <1>1 DEF IInv, vars, client, Typed, CopiesInOrder, Stages, Announced, Opening,
     Requested, Answered, FollowedByInfo, Over, File, Reading, Got, StartsRight,
     CompleteRight
<1>2. CASE Next
  BY <1>2, EditKeeps, LuaReloadKeeps, SendLuaFileChunkKeeps, TakeNumberKeeps,
     TakeInfoKeeps, TakeChunkKeeps DEF Next, ClientSteps
<1>3. QED
  BY <1>1, <1>2

THEOREM FilesInvariant == Spec => []IInv
BY InitInv, NextInv, PTL DEF Spec

(***************************************************************************)
(* Whatever is edited, removed or added meanwhile, and however large the   *)
(* files are, each file of the client holds chunks of its own, in order.   *)
(***************************************************************************)
THEOREM CopiesAlwaysInOrder == Spec => []CopiesInOrder
<1>1. IInv => CopiesInOrder
  BY DEF IInv
<1>2. QED
  BY <1>1, FilesInvariant, PTL

(***************************************************************************)
(* The scripts are never started twice, nor before every file that was     *)
(* announced was written to its end.                                       *)
(***************************************************************************)
THEOREM StartedOnceComplete == Spec => []StartedComplete
<1>1. IInv => StartedComplete
  BY DEF IInv, Typed, CompleteRight, StartedComplete
<1>2. QED
  BY <1>1, FilesInvariant, PTL

(***************************************************************************)
(* The ends take turns: one chunk is asked for, or one message on its way  *)
(* makes the client ask for one, so that the server, which keeps no        *)
(* position of its own, is never asked about another file than the one it  *)
(* reads (mmo_gamecontext.cpp:86).                                         *)
(***************************************************************************)
THEOREM EndsTakeTurns == Spec => []OneOutstanding
<1>1. ASSUME IInv PROVE OneOutstanding
  <2>0. Cardinality({}) = 0 /\ Cardinality({1}) = 1 /\ Cardinality({2}) = 1
    BY FS_EmptySet, FS_Singleton, Zenon
  <2>1. CASE Announced
    <3>1. Asking = {2} /\ Len(up) = 0
      BY <2>1 DEF Announced, Asking, Number, Info
    <3>2. QED
      BY <2>0, <3>1 DEF OneOutstanding
  <2>2. CASE Opening
    <3>1. Asking = {1} /\ Len(up) = 0
      BY <2>2 DEF Opening, Asking, Info
    <3>2. QED
      BY <2>0, <3>1 DEF OneOutstanding
  <2>3. CASE Requested
    <3>1. Asking = {} /\ Len(up) = 1
      BY <2>3 DEF Requested, Asking
    <3>2. QED
      BY <2>0, <3>1 DEF OneOutstanding
  <2>4. CASE Answered
    <3>1. PICK last \in BOOLEAN : down = <<Chunk(File, next, last)>> /\ up = << >>
      BY <2>4 DEF Answered
    <3>2. Asking = (IF last THEN {} ELSE {1}) /\ Len(up) = 0
      BY <3>1 DEF Asking, Chunk
    <3>3. QED
      BY <2>0, <3>2 DEF OneOutstanding
  <2>5. CASE FollowedByInfo
    <3>1. Asking = {2} /\ Len(up) = 0
      BY <2>5 DEF FollowedByInfo, Asking, Chunk, Info
    <3>2. QED
      BY <2>0, <3>1 DEF OneOutstanding
  <2>6. CASE Over
    <3>1. Asking = {} /\ Len(up) = 0
      BY <2>6 DEF Over, Asking
    <3>2. QED
      BY <2>0, <3>1 DEF OneOutstanding
  <2>7. QED
    BY <1>1, <2>1, <2>2, <2>3, <2>4, <2>5, <2>6 DEF IInv, Stages
<1>2. QED
  BY <1>1, FilesInvariant, PTL

(* The transfer of the scripts is one of the parts of ClientSpec.          *)
LEMMA FilesSpec == ClientSpec => Spec
<1>1. ClientInit => Init
  BY DEF ClientInit
<1>2. [ClientNext]_allVars => [Next]_vars
  BY DEF ClientNext, allVars, FilesNext, fileVars
<1>3. QED
  BY <1>1, <1>2, PTL DEF ClientSpec, Spec

(***************************************************************************)
(* In the composition, too, the copies are in order and the scripts are    *)
(* started once, with complete files (mmo_gameclient.cpp:40-109).          *)
(***************************************************************************)
THEOREM FilesOfTheClient == ClientSpec => [](CopiesInOrder /\ StartedComplete)
BY FilesSpec, CopiesAlwaysInOrder, StartedOnceComplete, PTL

-----------------------------------------------------------------------------
(***************************************************************************)
(* The maps.  MT and HT are two instances of MapTransfer over the same     *)
(* variables: what HT does beyond MT is to end an HTTP download well.      *)
(***************************************************************************)
HttpEnds ==
  /\ download.how = "http" /\ download.world \in MT!Worlds
  /\ MT!Finish(download.world)
  /\ UNCHANGED <<mapServer, mapDown, changes, rejoins>>

LEMMA OffersAreMaps == HT!Next => MT!Next \/ HttpEnds
<1> SUFFICES ASSUME HT!Next PROVE MT!Next \/ HttpEnds
  OBVIOUS
<1> USE DEF MT!Next, MT!ClientSteps, MT!ServerSteps
<1>1. CASE \E w \in HT!Worlds : HT!ChangeWorld(w)
  BY <1>1 DEF HT!Worlds, MT!Worlds, HT!ChangeWorld, MT!ChangeWorld, HT!MapChange, MT!MapChange
<1>2. CASE HT!Rejoin
  BY <1>2 DEF HT!Rejoin, MT!Rejoin, HT!JustConnected, MT!JustConnected, HT!NoDownload,
     MT!NoDownload, HT!MapChange, MT!MapChange
<1>3. CASE HT!TakeMapChange
  BY <1>3 DEF HT!TakeMapChange, MT!TakeMapChange, HT!AfterLoad, MT!AfterLoad,
     HT!Message, MT!Message
<1>4. CASE HT!TakeMapData
  BY <1>4 DEF HT!TakeMapData, MT!TakeMapData, HT!Wanted, MT!Wanted, HT!IsLast, MT!IsLast,
     HT!Finish, MT!Finish, HT!AfterLoad, MT!AfterLoad, HT!Message, MT!Message,
     HT!NoDownload, MT!NoDownload, HT!Request, MT!Request
<1>5. CASE HT!TakeConReady \/ HT!TakeReadyToEnter \/ HT!TakeSnapshot
  BY <1>5 DEF HT!TakeConReady, MT!TakeConReady, HT!TakeReadyToEnter, MT!TakeReadyToEnter,
     HT!TakeSnapshot, MT!TakeSnapshot, HT!Message, MT!Message
<1>6. CASE HT!TakeRequest
  BY <1>6 DEF HT!TakeRequest, MT!TakeRequest, HT!ChunkOf, MT!ChunkOf, HT!MapData, MT!MapData
<1>7. CASE HT!TakeReady \/ HT!TakeStartInfo \/ HT!TakeEnterGame
  BY <1>7 DEF HT!TakeReady, MT!TakeReady, HT!TakeStartInfo, MT!TakeStartInfo,
     HT!TakeEnterGame, MT!TakeEnterGame, HT!Message, MT!Message, HT!MapChange, MT!MapChange
<1>8. CASE HT!HttpDone
  BY <1>8 DEF HT!HttpDone, HttpEnds, HT!Finish, MT!Finish, HT!AfterLoad, MT!AfterLoad,
     HT!Message, MT!Message, HT!NoDownload, MT!NoDownload, MT!Worlds
<1>9. CASE HT!HttpFails
  BY <1>9 DEF HT!HttpFails, MT!HttpFails, HT!Request, MT!Request
<1>10. QED
  BY <1>1, <1>2, <1>3, <1>4, <1>5, <1>6, <1>7, <1>8, <1>9
     DEF HT!Next, HT!ClientSteps, HT!ServerSteps

-----------------------------------------------------------------------------
(***************************************************************************)
(* The types of the maps.                                                  *)
(***************************************************************************)
ToClient ==
  [type : MT!Types] \cup [type : {"MAP_CHANGE"}, world : MT!Worlds] \cup
  [type : {"MAP_DATA"}, world : MT!Worlds, chunk : Nat]
ToServer == [type : MT!Types] \cup [type : {"REQUEST_MAP_DATA"}, chunk : Nat]
OfServer == [state : {"CONNECTING", "READY", "INGAME"}, ready : BOOLEAN, world : MT!Worlds]
OfClient ==
  [state : {"loading", "online"}, map : MT!Worlds \cup {Nil}, known : BOOLEAN,
   snaps : 0 .. 3]
OfDownload ==
  [world : MT!Worlds \cup {Nil}, chunk : 0 .. NumChunks - 1,
   how : {"none", "http", "chunks"}, data : Seq([world : MT!Worlds, chunk : Nat])]

LEMMA MapsFacts ==
  /\ \A w \in MT!Worlds : MT!MapChange(w) \in ToClient
  /\ \A w \in MT!Worlds, c \in Nat : MT!MapData(w, c) \in ToClient
  /\ MT!Message("CON_READY") \in ToClient /\ MT!Message("READYTOENTER") \in ToClient
  /\ MT!Message("READY") \in ToServer /\ MT!Message("STARTINFO") \in ToServer
  /\ MT!Message("ENTERGAME") \in ToServer
  /\ \A c \in Nat : MT!Request(c) \in ToServer
  /\ MT!NoDownload \in OfDownload /\ MT!JustConnected \in OfClient
  /\ 0 \in MT!Worlds /\ NumChunks \in Nat \ {0}
<1>1. NumChunks \in Nat \ {0} /\ NumWorlds \in Nat \ {0}
  BY ClientAssumption DEF MT!Assumptions
<1>2. QED
  BY <1>1 DEF MT!MapChange, MT!MapData, MT!Message, MT!Request, MT!NoDownload,
     MT!JustConnected, ToClient, ToServer, OfDownload, OfClient,
     MT!Types, MT!Worlds

\* The client with the map of world w.
LEMMA LoadTyped ==
  ASSUME mapClient \in OfClient, NEW w \in MT!Worlds
  PROVE  /\ [MT!AfterLoad(w) EXCEPT !.state = "loading"] \in OfClient
         /\ [MT!AfterLoad(w) EXCEPT !.state = "loading"].map = w
<1> DEFINE m1 == [mapClient EXCEPT !.map = w]
           m2 == [m1 EXCEPT !.known = FALSE]
           m3 == [m2 EXCEPT !.snaps = 0]
           m4 == [m3 EXCEPT !.state = "loading"]
<1>1. m1 \in OfClient /\ m1.map = w
  BY DEF OfClient
<1> HIDE DEF m1
<1>2. m2 \in OfClient /\ m2.map = w
  BY <1>1 DEF OfClient
<1> HIDE DEF m2
<1>3. m3 \in OfClient /\ m3.map = w
  BY <1>2 DEF OfClient
<1> HIDE DEF m3
<1>4. m4 \in OfClient /\ m4.map = w
  BY <1>3 DEF OfClient
<1>5. QED
  BY <1>4 DEF m1, m2, m3, MT!AfterLoad

LEMMA FinishTyped ==
  ASSUME MT!TypeOK, NEW w \in MT!Worlds, MT!Finish(w)
  PROVE  /\ mapClient' \in OfClient
         /\ download' = MT!NoDownload /\ disk' \subseteq MT!Worlds /\ mapUp' \in Seq(ToServer)
<1>1. mapClient \in OfClient /\ mapUp \in Seq(ToServer) /\ disk \subseteq MT!Worlds
  BY DEF MT!TypeOK, OfClient, ToServer
<1>2. QED
  BY <1>1, LoadTyped, MapsFacts DEF MT!Finish

LEMMA MapsTypesKept ==
  ASSUME MT!TypeOK, MT!Next \/ HttpEnds
  PROVE  MT!TypeOK'
<1> USE MapsFacts
<1>1. CASE \E w \in MT!Worlds : MT!ChangeWorld(w)
  <2>1. PICK w \in MT!Worlds : MT!ChangeWorld(w)
    BY <1>1
  <2>2. mapDown' \in Seq(ToClient)
    BY <2>1 DEF MT!TypeOK, MT!ChangeWorld, ToClient
  <2>3. changes' \in 0 .. MaxChanges
    BY <2>1, ClientAssumption DEF MT!TypeOK, MT!ChangeWorld, MT!Assumptions
  <2>4. QED
    BY <2>1, <2>2, <2>3 DEF MT!TypeOK, MT!ChangeWorld, ToClient
<1>2. CASE MT!Rejoin
  <2>1. mapDown' \in Seq(ToClient) /\ mapUp' \in Seq(ToServer)
    BY <1>2 DEF MT!Rejoin
  <2>2. rejoins' \in 0 .. MaxRejoins
    BY <1>2, ClientAssumption DEF MT!TypeOK, MT!Rejoin, MT!Assumptions
  <2>3. QED
    <3>1. mapServer' \in OfServer
      BY <1>2 DEF MT!Rejoin, MT!TypeOK, OfServer
    <3>2. /\ mapClient' \in OfClient /\ download' \in OfDownload
          /\ disk' = disk /\ changes' = changes
      BY <1>2 DEF MT!Rejoin
    <3>3. QED
      BY <2>1, <2>2, <3>1, <3>2
         DEF MT!TypeOK, ToClient, ToServer, OfServer, OfClient, OfDownload
<1>3. CASE MT!TakeMapChange
  <2> DEFINE w == Head(mapDown).world
  <2>1. /\ Head(mapDown) \in ToClient /\ mapDown' \in Seq(ToClient)
        /\ mapUp \in Seq(ToServer) /\ mapClient \in OfClient /\ download \in OfDownload
    BY <1>3 DEF MT!TypeOK, MT!TakeMapChange, ToClient, ToServer, OfClient, OfDownload
  <2>2. w \in MT!Worlds
    BY <1>3, <2>1 DEF MT!TakeMapChange, ToClient, MT!Types
  <2>3. mapUp' \in Seq(ToServer)
    <3>1. mapUp' = mapUp \/ mapUp' = Append(mapUp, MT!Message("READY"))
      BY <1>3 DEF MT!TakeMapChange
    <3>2. QED
      BY <2>1, <3>1
  <2>4. mapClient' \in OfClient /\ download' \in OfDownload
    <3>1. CASE w \in disk
      <4>1. mapClient' = [MT!AfterLoad(w) EXCEPT !.state = "loading"] /\ download' = download
        BY <1>3, <3>1 DEF MT!TakeMapChange
      <4>2. QED
        BY <2>1, <2>2, <4>1, LoadTyped
    <3>2. CASE w \notin disk
      <4>1. /\ mapClient' = [mapClient EXCEPT !.state = "loading"]
            /\ download' = [world |-> w, chunk |-> 0, how |-> "http", data |-> << >>]
        BY <1>3, <3>2 DEF MT!TakeMapChange
      <4>2. mapClient' \in OfClient
        BY <2>1, <4>1 DEF OfClient
      <4>3. 0 \in 0 .. NumChunks - 1
        OBVIOUS
      <4>4. QED
        BY <2>2, <4>1, <4>2, <4>3 DEF OfDownload
    <3>3. QED
      BY <3>1, <3>2
  <2>5. QED
    BY <1>3, <2>1, <2>3, <2>4 DEF MT!TypeOK, MT!TakeMapChange, ToClient, ToServer,
       OfClient, OfDownload
<1>4. CASE MT!TakeMapData
  <2> DEFINE msg == Head(mapDown)
  <2>1. msg \in ToClient /\ mapDown' \in Seq(ToClient) /\ mapUp \in Seq(ToServer)
    BY <1>4 DEF MT!TypeOK, MT!TakeMapData, ToClient, ToServer
  <2>2. msg.world \in MT!Worlds /\ msg.chunk \in Nat
    BY <1>4, <2>1 DEF MT!TakeMapData, ToClient, MT!Types
  <2>3. CASE MT!Wanted(msg) /\ MT!IsLast(msg.chunk)
    <3>1. MT!Finish(download.world) /\ download.world \in MT!Worlds
      BY <1>4, <2>2, <2>3 DEF MT!TakeMapData, MT!Wanted
    <3>2. QED
      BY <1>4, <2>1, <3>1, FinishTyped DEF MT!TypeOK, MT!TakeMapData, ToClient, ToServer,
         OfClient, OfDownload
  <2>4. CASE MT!Wanted(msg) /\ ~MT!IsLast(msg.chunk)
    <3> DEFINE piece == [world |-> msg.world, chunk |-> msg.chunk]
    <3>1. /\ download' = [download EXCEPT !.chunk = @ + 1, !.data = Append(download.data, piece)]
          /\ mapUp' = Append(mapUp, MT!Request(download.chunk + 1))
          /\ UNCHANGED <<mapServer, mapClient, disk, changes, rejoins>>
      BY <1>4, <2>4 DEF MT!TakeMapData
    <3>2. download.chunk \in 0 .. NumChunks - 1 /\ download.chunk # NumChunks - 1
      BY <2>4 DEF MT!TypeOK, MT!Wanted, MT!IsLast
    <3>3. download.chunk + 1 \in 0 .. NumChunks - 1 /\ download.chunk + 1 \in Nat
      BY <3>2
    <3>4. Append(download.data, piece) \in Seq([world : MT!Worlds, chunk : Nat])
      BY <2>2 DEF MT!TypeOK
    <3>5. download' \in [world : MT!Worlds \cup {Nil}, chunk : 0 .. NumChunks - 1,
                         how : {"none", "http", "chunks"},
                         data : Seq([world : MT!Worlds, chunk : Nat])]
      BY <3>1, <3>3, <3>4 DEF MT!TypeOK
    <3>6. mapUp' \in Seq(ToServer)
      BY <2>1, <3>1, <3>3
    <3>7. QED
      BY <2>1, <3>1, <3>5, <3>6 DEF MT!TypeOK, ToClient, ToServer
  <2>5. CASE ~MT!Wanted(msg)
    BY <1>4, <2>1, <2>5 DEF MT!TypeOK, MT!TakeMapData, ToClient
  <2>6. QED
    BY <2>3, <2>4, <2>5
<1>5. CASE MT!TakeConReady \/ MT!TakeReadyToEnter
  <2>1. mapDown \in Seq(ToClient) /\ mapUp \in Seq(ToServer) /\ mapClient \in OfClient
    BY DEF MT!TypeOK, ToClient, ToServer, OfClient
  <2>2. /\ mapDown # << >> /\ mapDown' = Tail(mapDown)
        /\ \/ mapUp' = Append(mapUp, MT!Message("STARTINFO"))
           \/ mapUp' = Append(mapUp, MT!Message("ENTERGAME"))
        /\ \/ mapClient' = [mapClient EXCEPT !.known = TRUE]
           \/ mapClient' = [mapClient EXCEPT !.snaps = 0]
        /\ UNCHANGED <<mapServer, download, disk, changes, rejoins>>
    BY <1>5 DEF MT!TakeConReady, MT!TakeReadyToEnter
  <2>3. mapDown' \in Seq(ToClient) /\ mapUp' \in Seq(ToServer)
    <3>1. Tail(mapDown) \in Seq(ToClient)
      BY <2>1, <2>2
    <3>2. /\ Append(mapUp, MT!Message("STARTINFO")) \in Seq(ToServer)
          /\ Append(mapUp, MT!Message("ENTERGAME")) \in Seq(ToServer)
      BY <2>1
    <3>3. QED
      BY <2>2, <3>1, <3>2
  <2>4. mapClient' \in OfClient
    <3>1. [mapClient EXCEPT !.known = TRUE] \in OfClient
      BY <2>1 DEF OfClient
    <3>2. [mapClient EXCEPT !.snaps = 0] \in OfClient
      BY <2>1 DEF OfClient
    <3>3. QED
      BY <2>2, <3>1, <3>2
  <2>5. QED
    BY <2>2, <2>3, <2>4 DEF MT!TypeOK, ToClient, ToServer, OfClient
<1>6. CASE MT!TakeRequest
  <2>1. Head(mapUp) \in ToServer /\ mapUp' \in Seq(ToServer) /\ mapDown \in Seq(ToClient)
    BY <1>6 DEF MT!TypeOK, MT!TakeRequest, ToClient, ToServer
  <2>2. Head(mapUp).chunk \in Nat
    BY <1>6, <2>1 DEF MT!TakeRequest, ToServer, MT!Types
  <2>3. MT!ChunkOf(mapServer.world, Head(mapUp).chunk) \in Seq(ToClient)
    BY <2>2 DEF MT!ChunkOf, MT!TypeOK
  <2>4. mapDown' \in Seq(ToClient)
    BY <1>6, <2>1, <2>3 DEF MT!TakeRequest
  <2>5. QED
    BY <1>6, <2>1, <2>4 DEF MT!TypeOK, MT!TakeRequest, ToClient, ToServer
<1>7. CASE MT!TakeReady \/ MT!TakeStartInfo \/ MT!TakeEnterGame
  <2>1. mapUp \in Seq(ToServer) /\ mapDown \in Seq(ToClient) /\ mapServer \in OfServer
    BY DEF MT!TypeOK, ToClient, ToServer, OfServer
  <2>2. /\ mapUp # << >> /\ mapUp' = Tail(mapUp)
        /\ UNCHANGED <<mapClient, download, disk, changes, rejoins>>
    BY <1>7 DEF MT!TakeReady, MT!TakeStartInfo, MT!TakeEnterGame
  <2>3. mapDown' \in Seq(ToClient)
    <3>1. <<MT!MapChange(0), MT!Message("CON_READY")>> \in Seq(ToClient)
      OBVIOUS
    <3>2. \/ mapDown' = mapDown \o <<MT!MapChange(0), MT!Message("CON_READY")>>
          \/ mapDown' = Append(mapDown, MT!Message("CON_READY"))
          \/ mapDown' = Append(mapDown, MT!Message("READYTOENTER"))
          \/ mapDown' = mapDown
      BY <1>7 DEF MT!TakeReady, MT!TakeStartInfo, MT!TakeEnterGame
    <3>3. /\ Append(mapDown, MT!Message("CON_READY")) \in Seq(ToClient)
          /\ Append(mapDown, MT!Message("READYTOENTER")) \in Seq(ToClient)
          /\ mapDown \o <<MT!MapChange(0), MT!Message("CON_READY")>> \in Seq(ToClient)
      BY <2>1, <3>1
    <3>4. QED
      BY <2>1, <3>2, <3>3
  <2>4. mapServer' \in OfServer
    <3>1. CASE MT!TakeReady
      <4>1. [state |-> "READY", ready |-> FALSE, world |-> 0] \in OfServer
        BY DEF OfServer
      <4>2. QED
        BY <2>1, <3>1, <4>1 DEF MT!TakeReady
    <3>2. CASE MT!TakeStartInfo
      BY <2>1, <3>2 DEF MT!TakeStartInfo, OfServer
    <3>3. CASE MT!TakeEnterGame
      BY <2>1, <3>3 DEF MT!TakeEnterGame, OfServer
    <3>4. QED
      BY <1>7, <3>1, <3>2, <3>3
  <2>5. mapUp' \in Seq(ToServer)
    BY <2>1, <2>2
  <2>6. QED
    BY <2>2, <2>3, <2>4, <2>5 DEF MT!TypeOK, ToClient, ToServer, OfServer
<1>8. CASE MT!TakeSnapshot
  <2>1. mapClient \in OfClient
    BY DEF MT!TypeOK, OfClient
  <2>2. /\ mapClient.snaps < 3
        /\ mapClient' = [mapClient EXCEPT !.snaps = @ + 1,
                           !.state = IF mapClient.snaps = 1 THEN "online" ELSE @]
        /\ UNCHANGED <<mapServer, download, disk, mapDown, mapUp, changes, rejoins>>
    BY <1>8 DEF MT!TakeSnapshot
  <2> DEFINE m1 == [mapClient EXCEPT !.snaps = @ + 1]
             m2 == [m1 EXCEPT !.state = IF mapClient.snaps = 1 THEN "online" ELSE @]
  <2>3. m1 \in OfClient
    BY <2>1, <2>2 DEF OfClient
  <2> HIDE DEF m1
  <2>4. m2 \in OfClient
    BY <2>3 DEF OfClient
  <2>5. mapClient' = m2
    BY <2>1, <2>2 DEF m1, OfClient
  <2>6. QED
    BY <2>2, <2>4, <2>5 DEF MT!TypeOK, OfClient
<1>9. CASE MT!HttpDone \/ HttpEnds
  <2>1. /\ download.world \in MT!Worlds /\ MT!Finish(download.world)
        /\ UNCHANGED <<mapServer, mapDown, changes, rejoins>>
    BY <1>9 DEF MT!HttpDone, HttpEnds
  <2>2. QED
    BY <2>1, FinishTyped DEF MT!TypeOK, ToServer, OfClient, OfDownload
<1>10. CASE MT!HttpFails
  <2>1. mapUp' \in Seq(ToServer)
    BY <1>10 DEF MT!TypeOK, MT!HttpFails, ToServer
  <2>2. QED
    BY <1>10, <2>1 DEF MT!TypeOK, MT!HttpFails, ToServer
<1>11. QED
  BY <1>1, <1>2, <1>3, <1>4, <1>5, <1>6, <1>7, <1>8, <1>9, <1>10
     DEF MT!Next, MT!ClientSteps, MT!ServerSteps

(***************************************************************************)
(* Messages, download and states of the transfer of maps keep their types, *)
(* for any worlds and chunks, with an HTTP server or without one           *)
(* (multiworld_manager.cpp, client.cpp:1355-1520).                         *)
(***************************************************************************)
THEOREM MapsTypeCorrect == ClientSpec => []MT!TypeOK
<1>1. ClientInit => MT!TypeOK
  <2>1. <<MT!MapChange(0)>> \in Seq(ToClient)
    BY MapsFacts
  <2>2. QED
    BY <2>1, MapsFacts, ClientAssumption DEF ClientInit, MT!Init, MT!TypeOK, ToClient,
       OfClient, OfDownload, MT!Assumptions
<1>2. MT!TypeOK /\ [ClientNext]_allVars => MT!TypeOK'
  <2> SUFFICES ASSUME MT!TypeOK, [ClientNext]_allVars PROVE MT!TypeOK'
    OBVIOUS
  <2>1. CASE UNCHANGED mapVars
    BY <2>1 DEF mapVars, MT!TypeOK
  <2>2. CASE MT!Next \/ HttpEnds
    BY <2>2, MapsTypesKept
  <2>3. QED
    BY <2>1, <2>2, OffersAreMaps DEF ClientNext, allVars, MapsNext, OffersNext
<1>3. QED
  BY <1>1, <1>2, PTL DEF ClientSpec

-----------------------------------------------------------------------------
(***************************************************************************)
(* The download of a map: a step makes one of four things of it.           *)
(***************************************************************************)
PieceOf(w, c) == [world |-> w, chunk |-> c]

DownloadTyped ==
  /\ DOMAIN download = {"world", "chunk", "how", "data"}
  /\ download = [world |-> download.world, chunk |-> download.chunk,
                 how |-> download.how, data |-> download.data]
  /\ download.chunk \in Nat
  /\ download.data \in Seq({PieceOf(download.world, c) : c \in Nat})

DownloadInv == DownloadTyped /\ MT!DownloadInOrder

\* Nothing of a map is there.
Empty == \E w, h : download' = [world |-> w, chunk |-> 0, how |-> h, data |-> << >>]

\* The server is asked instead of the HTTP job.
AsksServer == download' = [download EXCEPT !.how = "chunks"]

\* The chunk that is asked for arrives.
TakesNext ==
  download' = [download EXCEPT !.chunk = @ + 1,
                 !.data = Append(@, PieceOf(download.world, download.chunk))]

DownloadMoves == UNCHANGED download \/ Empty \/ AsksServer \/ TakesNext

LEMMA MapsMove == MT!Next \/ HttpEnds => DownloadMoves
<1> SUFFICES ASSUME MT!Next \/ HttpEnds PROVE DownloadMoves
  OBVIOUS
<1>1. CASE MT!Rejoin \/ MT!TakeMapChange \/ MT!HttpDone \/ MT!HttpFails \/ HttpEnds
  BY <1>1 DEF MT!Rejoin, MT!TakeMapChange, MT!HttpDone, MT!HttpFails, HttpEnds,
     MT!Finish, MT!NoDownload, DownloadMoves, Empty, AsksServer
<1>2. CASE MT!TakeMapData
  BY <1>2 DEF MT!TakeMapData, MT!Wanted, MT!Finish, MT!NoDownload, DownloadMoves,
     Empty, TakesNext, PieceOf
<1>3. CASE \/ \E w \in MT!Worlds : MT!ChangeWorld(w)
           \/ MT!TakeConReady \/ MT!TakeReadyToEnter \/ MT!ServerSteps \/ MT!TakeSnapshot
  BY <1>3 DEF MT!ChangeWorld, MT!TakeConReady, MT!TakeReadyToEnter, MT!ServerSteps,
     MT!TakeSnapshot, MT!TakeRequest, MT!TakeReady, MT!TakeStartInfo,
     MT!TakeEnterGame, DownloadMoves
<1>4. QED
  BY <1>1, <1>2, <1>3 DEF MT!Next, MT!ClientSteps

LEMMA DownloadMovesKeep == ASSUME DownloadInv, DownloadMoves PROVE DownloadInv'
<1> USE DEF DownloadInv, DownloadTyped, MT!DownloadInOrder
<1>1. CASE UNCHANGED download
  BY <1>1
<1>2. CASE Empty
  BY <1>2 DEF Empty
<1>3. CASE AsksServer
  BY <1>3 DEF AsksServer
<1>4. CASE TakesNext
  <2> DEFINE piece == PieceOf(download.world, download.chunk)
  <2>1. /\ download'.world = download.world /\ download'.chunk = download.chunk + 1
        /\ download'.data = Append(download.data, piece)
        /\ DOMAIN download' = {"world", "chunk", "how", "data"}
        /\ download' = [world |-> download'.world, chunk |-> download'.chunk,
                        how |-> download'.how, data |-> download'.data]
    BY <1>4 DEF TakesNext
  <2>2. piece \in {PieceOf(download.world, c) : c \in Nat}
    OBVIOUS
  <2>3. /\ download'.data \in Seq({PieceOf(download.world, c) : c \in Nat})
        /\ Len(download'.data) = Len(download.data) + 1
        /\ DOMAIN download'.data = 1 .. Len(download.data) + 1
        /\ \A i \in 1 .. Len(download.data) : download'.data[i] = download.data[i]
        /\ download'.data[Len(download.data) + 1] = piece
    BY <2>1, <2>2
  <2>4. ASSUME NEW i \in DOMAIN download'.data
        PROVE  download'.data[i] = PieceOf(download.world, i - 1)
    <3>1. i \in 1 .. Len(download.data) + 1 /\ Len(download.data) = download.chunk
      BY <2>3
    <3>2. CASE i = Len(download.data) + 1
      <4>1. i - 1 = download.chunk
        BY <3>1, <3>2
      <4>2. download'.data[i] = piece
        BY <2>3, <3>2
      <4>3. QED
        BY <4>1, <4>2
    <3>3. CASE i # Len(download.data) + 1
      <4>1. i \in 1 .. Len(download.data) /\ i \in DOMAIN download.data
        BY <3>1, <3>3
      <4>2. download'.data[i] = download.data[i]
        BY <2>3, <4>1
      <4>3. download.data[i] = PieceOf(download.world, i - 1)
        BY <4>1 DEF PieceOf
      <4>4. QED
        BY <4>2, <4>3
    <3>4. QED
      BY <3>2, <3>3
  <2>5. QED
    BY <2>1, <2>3, <2>4 DEF PieceOf
<1>5. QED
  BY <1>1, <1>2, <1>3, <1>4 DEF DownloadMoves

(***************************************************************************)
(* A download in chunks never mixes maps: whatever worlds the client is    *)
(* sent to meanwhile, and however often it connects again, what it has is  *)
(* the beginning of the map that was announced (multiworld_manager.cpp:110,*)
(* client.cpp:1590-1660).                                                  *)
(***************************************************************************)
THEOREM DownloadAlwaysInOrder == ClientSpec => []MT!DownloadInOrder
<1>1. ClientInit => DownloadInv
  BY DEF ClientInit, MT!Init, MT!NoDownload, DownloadInv, DownloadTyped,
     MT!DownloadInOrder
<1>2. [ClientNext]_allVars => DownloadMoves
  BY MapsMove, OffersAreMaps DEF ClientNext, allVars, mapVars, MapsNext, OffersNext, DownloadMoves
<1>3. DownloadInv /\ [ClientNext]_allVars => DownloadInv'
  BY <1>2, DownloadMovesKeep
<1>4. DownloadInv => MT!DownloadInOrder
  BY DEF DownloadInv
<1>5. QED
  BY <1>1, <1>3, <1>4, PTL DEF ClientSpec

-----------------------------------------------------------------------------
(***************************************************************************)
(* The last map.  The messages s to a client of world w: those of a map    *)
(* that come after the last announcement, it included, are of that world.  *)
(***************************************************************************)
AboutMap(m) == m.type \in {"MAP_CHANGE", "MAP_DATA"}
Untold(s) == \A i \in 1 .. Len(s) : s[i].type # "MAP_CHANGE"
UntoldAfter(s, i) == \A j \in i + 1 .. Len(s) : s[j].type # "MAP_CHANGE"
Own(s, w) ==
  \A i \in 1 .. Len(s) : AboutMap(s[i]) /\ UntoldAfter(s, i) => s[i].world = w

\* The client has loaded or is loading map w.
Sees(w) == mapClient.map = w \/ (download.how # "none" /\ download.world = w)

MapInv == Own(mapDown, mapServer.world) /\ (Untold(mapDown) => Sees(mapServer.world))

LEMMA OwnTail ==
  ASSUME NEW s \in Seq(ToClient), s # << >>, NEW w, Own(s, w)
  PROVE  /\ Own(Tail(s), w)
         /\ Untold(Tail(s)) /\ AboutMap(Head(s)) => Head(s).world = w
         /\ Untold(Tail(s)) /\ Head(s).type # "MAP_CHANGE" => Untold(s)
<1>1. /\ Len(s) \in Nat /\ Len(s) >= 1 /\ Len(Tail(s)) = Len(s) - 1 /\ Head(s) = s[1]
      /\ \A i \in 1 .. Len(s) - 1 : Tail(s)[i] = s[i + 1]
  OBVIOUS
<1>2. ASSUME NEW i \in 1 .. Len(Tail(s)), AboutMap(Tail(s)[i]), UntoldAfter(Tail(s), i)
      PROVE  Tail(s)[i].world = w
  <2>1. i + 1 \in 1 .. Len(s) /\ Tail(s)[i] = s[i + 1]
    BY <1>1
  <2>2. ASSUME NEW j \in (i + 1) + 1 .. Len(s) PROVE s[j].type # "MAP_CHANGE"
    <3>1. j - 1 \in i + 1 .. Len(Tail(s)) /\ (j - 1) + 1 = j
      BY <1>1
    <3>2. j - 1 \in 1 .. Len(s) - 1
      BY <1>1, <3>1
    <3>3. QED
      BY <1>1, <1>2, <3>1, <3>2 DEF UntoldAfter
  <2>3. QED
    BY <1>2, <2>1, <2>2 DEF Own, UntoldAfter
<1>3. ASSUME Untold(Tail(s)) PROVE UntoldAfter(s, 1)
  <2>1. ASSUME NEW j \in 1 + 1 .. Len(s) PROVE s[j].type # "MAP_CHANGE"
    <3>1. j - 1 \in 1 .. Len(Tail(s)) /\ (j - 1) + 1 = j /\ j - 1 \in 1 .. Len(s) - 1
      BY <1>1
    <3>2. QED
      BY <1>1, <1>3, <3>1 DEF Untold
  <2>2. QED
    BY <2>1 DEF UntoldAfter
<1>4. Untold(Tail(s)) /\ AboutMap(Head(s)) => Head(s).world = w
  BY <1>1, <1>3 DEF Own
<1>5. Untold(Tail(s)) /\ Head(s).type # "MAP_CHANGE" => Untold(s)
  BY <1>1, <1>3 DEF Untold, UntoldAfter
<1>6. QED
  BY <1>2, <1>4, <1>5 DEF Own

\* The announcement of the new world makes the messages before it history.
LEMMA OwnAnnounced ==
  ASSUME NEW s \in Seq(ToClient), NEW w \in MT!Worlds
  PROVE  Own(Append(s, MT!MapChange(w)), w) /\ ~Untold(Append(s, MT!MapChange(w)))
<1> DEFINE t == Append(s, MT!MapChange(w))
<1>1. /\ Len(t) = Len(s) + 1 /\ t[Len(s) + 1] = MT!MapChange(w) /\ Len(s) \in Nat
  OBVIOUS
<1> HIDE DEF t
<1>2. t[Len(s) + 1].type = "MAP_CHANGE" /\ t[Len(s) + 1].world = w
  BY <1>1 DEF MT!MapChange
<1>3. ASSUME NEW i \in 1 .. Len(t), UntoldAfter(t, i) PROVE i = Len(s) + 1
  BY <1>1, <1>2, <1>3 DEF UntoldAfter
<1>4. Own(t, w)
  BY <1>2, <1>3 DEF Own
<1>5. ~Untold(t)
  <2>1. Len(s) + 1 \in 1 .. Len(t)
    BY <1>1
  <2>2. QED
    BY <1>2, <2>1 DEF Untold
<1>6. QED
  BY <1>4, <1>5 DEF t

LEMMA OwnAppended ==
  ASSUME NEW s \in Seq(ToClient), NEW w, Own(s, w),
         NEW m \in ToClient, m.type # "MAP_CHANGE", m.type = "MAP_DATA" => m.world = w
  PROVE  Own(Append(s, m), w) /\ (Untold(Append(s, m)) => Untold(s))
<1> DEFINE t == Append(s, m)
<1>1. /\ Len(t) = Len(s) + 1 /\ t[Len(s) + 1] = m /\ Len(s) \in Nat
      /\ \A i \in 1 .. Len(s) : t[i] = s[i]
  OBVIOUS
<1> HIDE DEF t
<1>2. ASSUME NEW i \in 1 .. Len(t), AboutMap(t[i]), UntoldAfter(t, i)
      PROVE  t[i].world = w
  <2>1. CASE i = Len(s) + 1
    BY <1>1, <1>2, <2>1 DEF AboutMap
  <2>2. CASE i # Len(s) + 1
    <3>1. i \in 1 .. Len(s) /\ t[i] = s[i]
      BY <1>1, <2>2
    <3>2. ASSUME NEW j \in i + 1 .. Len(s) PROVE s[j].type # "MAP_CHANGE"
      <4>1. j \in i + 1 .. Len(t) /\ j \in 1 .. Len(s)
        BY <1>1, <3>1
      <4>2. QED
        BY <1>1, <1>2, <4>1 DEF UntoldAfter
    <3>3. QED
      BY <1>2, <3>1, <3>2 DEF Own, UntoldAfter
  <2>3. QED
    BY <2>1, <2>2
<1>3. Untold(t) => Untold(s)
  <2>1. \A i \in 1 .. Len(s) : i \in 1 .. Len(t)
    BY <1>1
  <2>2. QED
    BY <1>1, <2>1 DEF Untold
<1>4. QED
  BY <1>2, <1>3 DEF Own, t

LEMMA LastMapKept ==
  ASSUME MT!TypeOK, MapInv, MT!Next
  PROVE  MapInv'
<1>1. /\ mapDown \in Seq(ToClient) /\ mapServer \in OfServer /\ mapClient \in OfClient
      /\ download \in OfDownload /\ mapServer.world \in MT!Worlds
      /\ Own(mapDown, mapServer.world)
      /\ Untold(mapDown) => Sees(mapServer.world)
  BY DEF MT!TypeOK, MapInv, ToClient, OfServer, OfClient, OfDownload
<1>2. CASE \E w \in MT!Worlds : MT!ChangeWorld(w)
  <2>1. PICK w \in MT!Worlds : MT!ChangeWorld(w)
    BY <1>2
  <2>2. mapServer'.world = w /\ mapDown' = Append(mapDown, MT!MapChange(w))
    BY <1>1, <2>1 DEF MT!ChangeWorld, OfServer
  <2>3. QED
    BY <1>1, <2>2, OwnAnnounced DEF MapInv
<1>3. CASE MT!Rejoin
  <2>1. mapServer'.world = 0 /\ mapDown' = Append(<< >>, MT!MapChange(0))
    BY <1>1, <1>3 DEF MT!Rejoin, OfServer
  <2>2. << >> \in Seq(ToClient)
    OBVIOUS
  <2>3. QED
    BY <2>1, <2>2, OwnAnnounced, MapsFacts DEF MapInv
<1>4. CASE MT!TakeMapChange
  <2> DEFINE w == Head(mapDown).world
  <2>1. /\ mapDown # << >> /\ mapDown' = Tail(mapDown) /\ mapServer' = mapServer
        /\ Head(mapDown).type = "MAP_CHANGE"
    BY <1>4 DEF MT!TakeMapChange
  <2>2. w \in MT!Worlds
    <3>1. Head(mapDown) \in ToClient
      BY <1>1, <2>1
    <3>2. QED
      BY <2>1, <3>1 DEF ToClient, MT!Types
  <2>3. mapClient'.map = w \/ (download'.how # "none" /\ download'.world = w)
    <3>1. CASE w \in disk
      <4>1. mapClient' = [MT!AfterLoad(w) EXCEPT !.state = "loading"]
        BY <1>4, <3>1 DEF MT!TakeMapChange
      <4>2. QED
        BY <1>1, <2>2, <4>1, LoadTyped
    <3>2. CASE w \notin disk
      <4>1. download' = [world |-> w, chunk |-> 0, how |-> "http", data |-> << >>]
        BY <1>4, <3>2 DEF MT!TakeMapChange
      <4>2. QED
        BY <4>1
    <3>3. QED
      BY <3>1, <3>2
  <2>4. Untold(mapDown') => w = mapServer.world
    BY <1>1, <2>1, OwnTail DEF AboutMap
  <2>5. Own(mapDown', mapServer.world)
    BY <1>1, <2>1, OwnTail
  <2>6. Untold(mapDown') => Sees(mapServer.world)'
    BY <2>1, <2>3, <2>4 DEF Sees
  <2>7. QED
    BY <2>1, <2>5, <2>6 DEF MapInv, Sees
<1>5. CASE MT!TakeMapData
  <2> DEFINE msg == Head(mapDown)
  <2>1. /\ mapDown # << >> /\ mapDown' = Tail(mapDown) /\ mapServer' = mapServer
        /\ msg.type = "MAP_DATA"
    BY <1>5 DEF MT!TakeMapData
  <2>2. /\ Own(mapDown', mapServer.world)
        /\ Untold(mapDown') => msg.world = mapServer.world /\ Untold(mapDown)
    BY <1>1, <2>1, OwnTail DEF AboutMap
  <2>3. CASE MT!Wanted(msg) /\ MT!IsLast(msg.chunk)
    <3>1. mapClient' = [MT!AfterLoad(download.world) EXCEPT !.state = "loading"]
      BY <1>5, <2>3 DEF MT!TakeMapData, MT!Wanted, MT!Finish
    <3>2. download.world = msg.world
      BY <2>3 DEF MT!Wanted
    <3>3. Untold(mapDown') => mapClient'.map = mapServer.world
      BY <1>1, <2>2, <3>1, <3>2, LoadTyped
    <3>4. QED
      BY <2>1, <2>2, <3>3 DEF MapInv, Sees
  <2>4. CASE MT!Wanted(msg) /\ ~MT!IsLast(msg.chunk)
    <3>1. /\ download' = [download EXCEPT !.chunk = @ + 1,
                            !.data = Append(download.data, [world |-> msg.world,
                                                            chunk |-> msg.chunk])]
          /\ mapClient' = mapClient
      BY <1>5, <2>4 DEF MT!TakeMapData
    <3>2. download'.how = download.how /\ download'.world = download.world
      BY <1>1, <3>1 DEF OfDownload
    <3>3. QED
      BY <1>1, <2>1, <2>2, <3>1, <3>2 DEF MapInv, Sees
  <2>5. CASE ~MT!Wanted(msg)
    <3>1. download' = download /\ mapClient' = mapClient
      BY <1>5, <2>5 DEF MT!TakeMapData
    <3>2. QED
      BY <1>1, <2>1, <2>2, <3>1 DEF MapInv, Sees
  <2>6. QED
    BY <2>3, <2>4, <2>5
<1>6. CASE MT!TakeConReady \/ MT!TakeReadyToEnter
  <2>1. /\ mapDown # << >> /\ mapDown' = Tail(mapDown) /\ mapServer' = mapServer
        /\ Head(mapDown).type # "MAP_CHANGE" /\ download' = download
        /\ \/ mapClient' = [mapClient EXCEPT !.known = TRUE]
           \/ mapClient' = [mapClient EXCEPT !.snaps = 0]
    BY <1>6 DEF MT!TakeConReady, MT!TakeReadyToEnter
  <2>2. mapClient'.map = mapClient.map
    BY <1>1, <2>1 DEF OfClient
  <2>3. Own(mapDown', mapServer.world) /\ (Untold(mapDown') => Untold(mapDown))
    BY <1>1, <2>1, OwnTail
  <2>4. QED
    BY <1>1, <2>1, <2>2, <2>3 DEF MapInv, Sees
<1>7. CASE MT!TakeRequest
  <2> DEFINE c == Head(mapUp).chunk
             m == MT!MapData(mapServer.world, c)
  <2>1. /\ mapUp # << >> /\ Head(mapUp).type = "REQUEST_MAP_DATA"
        /\ mapDown' = mapDown \o MT!ChunkOf(mapServer.world, c)
        /\ UNCHANGED <<mapServer, mapClient, download>>
    BY <1>7 DEF MT!TakeRequest
  <2>2. c \in Nat
    <3>1. mapUp \in Seq(ToServer)
      BY DEF MT!TypeOK, ToServer
    <3>2. Head(mapUp) \in ToServer
      BY <2>1, <3>1
    <3>3. QED
      BY <2>1, <3>2 DEF ToServer, MT!Types
  <2>3. m \in ToClient /\ m.type = "MAP_DATA" /\ m.world = mapServer.world
    BY <1>1, <2>2, MapsFacts DEF MT!MapData
  <2>4. mapDown' = mapDown \/ mapDown' = Append(mapDown, m)
    <3>1. mapDown \o << >> = mapDown /\ mapDown \o <<m>> = Append(mapDown, m)
      BY <1>1, <2>3
    <3>2. QED
      BY <2>1, <3>1 DEF MT!ChunkOf
  <2>5. Own(mapDown', mapServer.world) /\ (Untold(mapDown') => Untold(mapDown))
    BY <1>1, <2>3, <2>4, OwnAppended
  <2>6. QED
    BY <1>1, <2>1, <2>5 DEF MapInv, Sees
<1>8. CASE MT!TakeReady
  <2> DEFINE ready == MT!Message("CON_READY")
  <2>1. ready \in ToClient /\ ready.type = "CON_READY"
    BY MapsFacts DEF MT!Message
  <2>2. CASE mapServer.state = "CONNECTING"
    <3> DEFINE told == Append(mapDown, MT!MapChange(0))
    <3>1. /\ mapServer'.world = 0
          /\ mapDown' = mapDown \o <<MT!MapChange(0), ready>>
      <4>1. /\ mapServer' = [state |-> "READY", ready |-> FALSE, world |-> 0]
            /\ mapDown' = mapDown \o <<MT!MapChange(0), ready>>
        BY <1>8, <2>2, Zenon DEF MT!TakeReady
      <4>2. QED
        BY <4>1
    <3>2. told \in Seq(ToClient) /\ Own(told, 0) /\ ~Untold(told)
      BY <1>1, MapsFacts, OwnAnnounced
    <3>3. mapDown' = Append(told, ready)
      BY <1>1, <2>1, <3>1, MapsFacts
    <3> HIDE DEF told
    <3>4. Own(mapDown', 0) /\ ~Untold(mapDown')
      BY <2>1, <3>2, <3>3, OwnAppended
    <3>5. QED
      BY <3>1, <3>4 DEF MapInv
  <2>3. CASE mapServer.state # "CONNECTING"
    <3>1. mapDown' = Append(mapDown, ready) /\ UNCHANGED <<mapServer, mapClient, download>>
      BY <1>8, <2>3 DEF MT!TakeReady
    <3>2. Own(mapDown', mapServer.world) /\ (Untold(mapDown') => Untold(mapDown))
      BY <1>1, <2>1, <3>1, OwnAppended
    <3>3. QED
      BY <1>1, <3>1, <3>2 DEF MapInv, Sees
  <2>4. QED
    BY <2>2, <2>3
<1>9. CASE MT!TakeStartInfo \/ MT!TakeEnterGame
  <2> DEFINE ready == MT!Message("READYTOENTER")
  <2>1. ready \in ToClient /\ ready.type = "READYTOENTER"
    BY MapsFacts DEF MT!Message
  <2>2. /\ mapDown' = mapDown \/ mapDown' = Append(mapDown, ready)
        /\ UNCHANGED <<mapClient, download>>
    BY <1>9 DEF MT!TakeStartInfo, MT!TakeEnterGame
  <2>3. mapServer'.world = mapServer.world
    BY <1>1, <1>9 DEF MT!TakeStartInfo, MT!TakeEnterGame, OfServer
  <2>4. Own(mapDown', mapServer.world) /\ (Untold(mapDown') => Untold(mapDown))
    BY <1>1, <2>1, <2>2, OwnAppended
  <2>5. QED
    BY <1>1, <2>2, <2>3, <2>4 DEF MapInv, Sees
<1>10. CASE MT!TakeSnapshot \/ MT!HttpFails
  <2>1. mapClient'.map = mapClient.map
    BY <1>1, <1>10 DEF MT!TakeSnapshot, MT!HttpFails, OfClient
  <2>2. /\ download'.world = download.world
        /\ download.how # "none" => download'.how # "none"
        /\ UNCHANGED <<mapServer, mapDown>>
    BY <1>1, <1>10 DEF MT!TakeSnapshot, MT!HttpFails, OfDownload
  <2>3. QED
    BY <1>1, <2>1, <2>2 DEF MapInv, Sees
<1>11. ~MT!HttpDone
  BY DEF MT!HttpDone
<1>12. QED
  BY <1>2, <1>3, <1>4, <1>5, <1>6, <1>7, <1>8, <1>9, <1>10, <1>11
     DEF MT!Next, MT!ClientSteps, MT!ServerSteps

(***************************************************************************)
(* A download never mixes maps, and without an HTTP server the last map    *)
(* that is announced is that of the client's world, and a client that is   *)
(* told nothing more has loaded it or is downloading it, however often it  *)
(* is sent elsewhere in the middle of a download                           *)
(* (multiworld_manager.cpp:63-133, client.cpp:1375-1508).                  *)
(***************************************************************************)
THEOREM MapsAlwaysOwn == ClientSpec => []MapsAreOwn
<1>1. ClientInit => (part = "maps" => MapInv)
  <2> SUFFICES ASSUME ClientInit PROVE MapInv
    OBVIOUS
  <2>1. mapServer.world = 0 /\ mapDown = Append(<< >>, MT!MapChange(0))
    BY DEF ClientInit, MT!Init
  <2>2. << >> \in Seq(ToClient)
    OBVIOUS
  <2>3. QED
    BY <2>1, <2>2, OwnAnnounced, MapsFacts DEF MapInv
<1>2. MT!TypeOK /\ (part = "maps" => MapInv) /\ [ClientNext]_allVars
      => (part = "maps" => MapInv)'
  <2> SUFFICES ASSUME MT!TypeOK, part = "maps" => MapInv, [ClientNext]_allVars,
                      part' = "maps"
               PROVE  MapInv'
    OBVIOUS
  <2>1. part = "maps" /\ (UNCHANGED mapVars \/ MT!Next)
    BY DEF ClientNext, allVars, SlotsNext, FilesNext, MapsNext, OffersNext, SnapshotsNext
  <2>2. CASE UNCHANGED mapVars
    BY <2>1, <2>2 DEF mapVars, MapInv, Sees
  <2>3. CASE MT!Next
    BY <2>1, <2>3, LastMapKept
  <2>4. QED
    BY <2>1, <2>2, <2>3
<1>3. ASSUME MT!TypeOK, part = "maps" => MapInv PROVE part = "maps" => MT!LastMapIsOwn
  <2> SUFFICES ASSUME part = "maps" PROVE MT!LastMapIsOwn
    OBVIOUS
  <2> DEFINE announced == {i \in DOMAIN mapDown : mapDown[i].type = "MAP_CHANGE"}
  <2>1. mapDown \in Seq(ToClient) /\ DOMAIN mapDown = 1 .. Len(mapDown) /\ Len(mapDown) \in Nat
    BY <1>3 DEF MT!TypeOK, ToClient
  <2>2. ASSUME NEW i \in announced, \A j \in announced : j <= i
        PROVE  mapDown[i].world = mapServer.world
    <3>1. ASSUME NEW j \in i + 1 .. Len(mapDown) PROVE mapDown[j].type # "MAP_CHANGE"
      <4>1. i \in 1 .. Len(mapDown)
        BY <2>1
      <4>2. j \in DOMAIN mapDown /\ ~(j <= i)
        BY <2>1, <4>1
      <4>3. QED
        BY <2>2, <4>2
    <3>2. QED
      BY <1>3, <2>1, <3>1 DEF MapInv, Own, UntoldAfter, AboutMap
  <2>3. announced = {} => Untold(mapDown)
    BY <2>1 DEF Untold
  <2>4. announced = {} => mapServer.world \in {mapClient.map, download.world}
    BY <1>3, <2>3 DEF MapInv, Sees
  <2>5. QED
    BY <2>2, <2>4 DEF MT!LastMapIsOwn
<1>4. QED
  BY <1>1, <1>2, <1>3, MapsTypeCorrect, DownloadAlwaysInOrder, PTL DEF ClientSpec, MapsAreOwn

=============================================================================
