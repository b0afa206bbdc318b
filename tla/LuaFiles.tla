------------------------------ MODULE LuaFiles ------------------------------
(***************************************************************************)
(* The transfer of the client scripts: the server announces how many files *)
(* there are and opens the first one, the client asks for one chunk after  *)
(* the other, and the last chunk of a file is followed by the next file    *)
(* (CGameContext::SendLuaFiles and its callees,                            *)
(* src/game/server/mmo/mmo_gamecontext.cpp, CGameClient::OnMMOMessage,     *)
(* src/game/client/mmo/mmo_gameclient.cpp).  Meanwhile the files are edited*)
(* and removed on the disk of the server, where every chunk is read anew,  *)
(* and lua_reload runs sv_init.lua again, which adds every file once more. *)
(*                                                                         *)
(* The messages are vital: they arrive once and in order (NetConn).        *)
(***************************************************************************)
EXTENDS Integers, Sequences, SequencesExt, FiniteSets

CONSTANTS
  Names,      \* the names of files
  First,      \* m_vClientFiles when the server starts, a sequence of names
  MaxSize,    \* bound: how many whole chunks a file may have
  MaxEdits,   \* bound: how often a file is edited or removed
  MaxReloads, \* bound: how often lua_reload is used
  Nil

ASSUME FilesAssumption ==
  /\ First \in Seq(Names) /\ First # << >>   \* cl_init.lua is always added
  /\ MaxSize \in Nat /\ MaxEdits \in Nat /\ MaxReloads \in Nat
  /\ Nil \notin Names

VARIABLES
  files,     \* m_vClientFiles
  size,      \* external: whole chunks of each file on the server's disk, or Nil
  current,   \* CClient::m_CurrentFileID
  kicked,    \* the client was kicked because a file could not be opened
  left,      \* m_FilesToDownload
  opened,    \* the file behind m_CurrentFile
  next,      \* m_NextChunk of the client
  copy,      \* the files in lua_cli: the chunks that were written
  complete,  \* history: the files whose last chunk was written
  starts,    \* how often RunLua was called
  down, up,  \* messages on the way to the client, chunks it asks for
  edits, reloads

client == <<left, opened, next, copy, complete, starts>>
vars == <<files, size, current, kicked, client, down, up, edits, reloads>>

Number(n) == [type |-> "NUMBER_OF_LUA_FILES", n |-> n]
Info(f) == [type |-> "LUA_FILE_INFO", file |-> f]
Chunk(f, c, last) == [type |-> "LUA_FILE_CHUNK", file |-> f, chunk |-> c, last |-> last]

TypeOK ==
  /\ files \in Seq(Names)
  /\ size \in [Names -> 0 .. MaxSize \cup {Nil}]
  /\ current \in 0 .. Len(files) - 1
  /\ kicked \in BOOLEAN
  /\ left \in Int
  /\ opened \in Names \cup {Nil}
  /\ next \in 0 .. MaxSize
  /\ copy \in [Names -> Seq([file : Names, chunk : Nat])]
  /\ complete \subseteq Names
  /\ starts \in Nat
  /\ down \in Seq([type : {"NUMBER_OF_LUA_FILES"}, n : Nat] \cup
                  [type : {"LUA_FILE_INFO"}, file : Names] \cup
                  [type : {"LUA_FILE_CHUNK"}, file : Names, chunk : Nat, last : BOOLEAN])
  /\ up \in Seq(Nat)
  /\ edits \in 0 .. MaxEdits /\ reloads \in 0 .. MaxReloads

\* OnClientConnected has called SendLuaFiles, and the first file could be opened.
Init ==
  /\ files = First
  /\ size \in [Names -> 0 .. MaxSize]
  /\ current = 0
  /\ kicked = FALSE
  /\ left = 0 /\ opened = Nil /\ next = 0
  /\ copy = [f \in Names |-> << >>]
  /\ complete = {}
  /\ starts = 0
  /\ down = <<Number(Len(First)), Info(First[1])>>
  /\ up = << >>
  /\ edits = 0 /\ reloads = 0

-----------------------------------------------------------------------------
\* External: somebody edits a file of the server, or removes it.
Edit(f) ==
  /\ edits < MaxEdits /\ edits' = edits + 1
  /\ \E s \in 0 .. MaxSize \cup {Nil} : size' = [size EXCEPT ![f] = s]
  /\ UNCHANGED <<files, current, kicked, client, down, up, reloads>>

\* lua_reload: ReloadAll closes the states and opens sv_init.lua again.
LuaReload ==
  /\ reloads < MaxReloads /\ reloads' = reloads + 1
  /\ files' = files \o First
  /\ UNCHANGED <<size, current, kicked, client, down, up, edits>>

-----------------------------------------------------------------------------
\* Server()->Kick, when a file cannot be opened.
Kick ==
  /\ kicked' = TRUE
  /\ down' = << >> /\ up' = << >>
  /\ UNCHANGED current

\* Mutant: the last file is not sent.
MoreFilesButOne == current + 1 < Len(files) - 1

\* Whether there is a file after the current one.
MoreFiles == current < Len(files) - 1

\* The read of the chunk came to the end of the file: a file of whole chunks
\* has an empty one at its end.
IsLast(f, c) == c >= size[f]

\* NETMSG_LUA_FILE_CHUNK_REQUEST: SendLuaFileChunk, which opens the next file.
SendLuaFileChunk ==
  /\ up # << >>
  /\ LET f == files[current + 1]
         c == Head(up)
         reply == <<Chunk(f, c, IsLast(f, c))>>
         g == files[current + 2]
     IN \/ /\ size[f] = Nil
           /\ Kick
        \/ /\ size[f] # Nil /\ ~(IsLast(f, c) /\ MoreFiles)
           /\ down' = down \o reply /\ up' = Tail(up)
           /\ UNCHANGED <<current, kicked>>
        \/ /\ size[f] # Nil /\ IsLast(f, c) /\ MoreFiles /\ size[g] # Nil
           /\ current' = current + 1
           /\ down' = down \o reply \o <<Info(g)>> /\ up' = Tail(up)
           /\ UNCHANGED kicked
        \/ /\ size[f] # Nil /\ IsLast(f, c) /\ MoreFiles /\ size[g] = Nil
           /\ Kick
  /\ UNCHANGED <<files, size, client, edits, reloads>>

-----------------------------------------------------------------------------
TakeNumber ==
  /\ down # << >> /\ Head(down).type = "NUMBER_OF_LUA_FILES"
  /\ left' = Head(down).n
  /\ opened' = Nil
  /\ down' = Tail(down)
  /\ UNCHANGED <<files, size, current, kicked, next, copy, complete, starts, up,
                 edits, reloads>>

\* Mutant: the count of chunks goes on from the file before.
FirstChunkKept == next

\* m_NextChunk when a file begins.
FirstChunk == 0

\* A file is opened, which empties it, and its first chunk is asked for.
TakeInfo ==
  /\ down # << >> /\ Head(down).type = "LUA_FILE_INFO"
  /\ opened' = Head(down).file
  /\ copy' = [copy EXCEPT ![Head(down).file] = << >>]
  /\ next' = FirstChunk
  /\ up' = Append(up, FirstChunk)
  /\ down' = Tail(down)
  /\ UNCHANGED <<files, size, current, kicked, left, complete, starts, edits, reloads>>

\* What the file holds when the chunk was written to it.
Written(msg) ==
  IF opened = Nil THEN copy
  ELSE [copy EXCEPT ![opened] = Append(@, [file |-> msg.file, chunk |-> msg.chunk])]

\* Mutant: the scripts are started with the last file under way.
IsLastFileEarly == left = 2

\* Whether no file is left when this one has ended.
IsLastFile == left - 1 = 0

TakeChunk ==
  /\ down # << >> /\ Head(down).type = "LUA_FILE_CHUNK"
  /\ copy' = Written(Head(down))
  /\ \/ /\ Head(down).last
        /\ left' = left - 1
        /\ opened' = Nil
        /\ complete' = complete \cup ({opened} \ {Nil})
        /\ starts' = IF IsLastFile THEN starts + 1 ELSE starts
        /\ UNCHANGED <<next, up>>
     \/ /\ ~Head(down).last
        /\ next' = next + 1
        /\ up' = Append(up, next + 1)
        /\ UNCHANGED <<left, opened, complete, starts>>
  /\ down' = Tail(down)
  /\ UNCHANGED <<files, size, current, kicked, edits, reloads>>

-----------------------------------------------------------------------------
ClientSteps == TakeNumber \/ TakeInfo \/ TakeChunk

Next ==
  \/ \E f \in Names : Edit(f)
  \/ LuaReload
  \/ SendLuaFileChunk
  \/ ClientSteps

Spec == Init /\ [][Next]_vars

\* Vital messages arrive (NetConn), and both ends handle them.
FairSpec == Spec /\ WF_vars(SendLuaFileChunk) /\ WF_vars(ClientSteps)

-----------------------------------------------------------------------------
\* The messages to the client that make it ask for a chunk.
Asking ==
  {i \in DOMAIN down : \/ down[i].type = "LUA_FILE_INFO"
                       \/ down[i].type = "LUA_FILE_CHUNK" /\ ~down[i].last}

(***************************************************************************)
(* The two ends take turns: there is one request, one file to open or one  *)
(* chunk to go on from at a time.  The server keeps no position of its own *)
(* (m_NextChunk is only reset), so a second request would move the transfer*)
(* of another file (mmo_gamecontext.cpp:86).                               *)
(***************************************************************************)
OneOutstanding == Len(up) + Cardinality(Asking) <= 1

(***************************************************************************)
(* Each file of the client holds chunks of the file of that name, in order *)
(* from the first one, whatever is edited, removed or added meanwhile.     *)
(***************************************************************************)
CopiesInOrder ==
  \A f \in Names : \A i \in DOMAIN copy[f] :
    copy[f][i] = [file |-> f, chunk |-> i - 1]

(***************************************************************************)
(* The scripts are started once, and only when every file that the server  *)
(* announced was written to its end, although lua_reload adds files to a   *)
(* transfer under way (mmo_gameclient.cpp:58).                             *)
(***************************************************************************)
StartedComplete ==
  /\ starts <= 1
  /\ starts = 1 => ToSet(First) \subseteq complete

(***************************************************************************)
(* In the end the scripts are started, or the client was kicked: no file,  *)
(* empty or of whole chunks, edited or not, ends the dialogue early.       *)
(***************************************************************************)
ScriptsStart == <>(starts = 1 \/ kicked)

=============================================================================
