----------------------------- MODULE MapTransfer -----------------------------
(***************************************************************************)
(* The worlds of the server (CMultiWorldManager,                           *)
(* src/game/server/mmo/multiworld_manager.cpp) as one client gets to know  *)
(* them: the server announces the map of a world, the client loads it from *)
(* its disk, downloads it over HTTP or asks the server for its chunks, and *)
(* says that it is ready, while the client may be sent to another world at *)
(* any time and snapshots go on.                                           *)
(*                                                                         *)
(* Vital messages arrive once and in order (NetConn); snapshots may arrive *)
(* whenever the client is in the game.  A map is known by its world: name, *)
(* CRC and SHA-256 of two worlds differ.                                   *)
(***************************************************************************)
EXTENDS Naturals, Sequences

CONSTANTS
  NumWorlds,    \* how many worlds are loaded
  NumChunks,    \* how many chunks the map of a world has
  Offered,      \* external: the worlds whose maps the HTTP server has
  MaxChanges,   \* bound: how often the client is sent to another world
  MaxRejoins,   \* bound: how often it connects again to its live slot
  Nil

Worlds == 0 .. NumWorlds - 1

\* What the constants are assumed to be.
Assumptions ==
  /\ NumWorlds \in Nat \ {0} /\ NumChunks \in Nat \ {0}
  /\ Offered \subseteq Worlds
  /\ MaxChanges \in Nat /\ MaxRejoins \in Nat

VARIABLES
  server,    \* state of the client, its player and its world (m_WorldID)
  client,    \* state, loaded map, whether OnConnected saw it, snapshots since
  download,  \* m_aMapdownload..., m_pMapdownloadTask and the file
  disk,      \* the worlds whose maps the client has on disk
  down, up,  \* vital messages on the way to the client and to the server
  changes, rejoins

vars == <<server, client, download, disk, down, up, changes, rejoins>>

Message(type) == [type |-> type]
MapChange(w) == [type |-> "MAP_CHANGE", world |-> w]
MapData(w, c) == [type |-> "MAP_DATA", world |-> w, chunk |-> c]
Request(c) == [type |-> "REQUEST_MAP_DATA", chunk |-> c]

Types == {"READY", "CON_READY", "STARTINFO", "READYTOENTER", "ENTERGAME"}

NoDownload == [world |-> Nil, chunk |-> 0, how |-> "none", data |-> << >>]
JustConnected == [state |-> "loading", map |-> Nil, known |-> FALSE, snaps |-> 0]

TypeOK ==
  /\ server \in [state : {"CONNECTING", "READY", "INGAME"}, ready : BOOLEAN,
                 world : Worlds]
  /\ client \in [state : {"loading", "online"}, map : Worlds \cup {Nil},
                 known : BOOLEAN, snaps : 0 .. 3]
  /\ download \in [world : Worlds \cup {Nil}, chunk : 0 .. NumChunks - 1,
                   how : {"none", "http", "chunks"},
                   data : Seq([world : Worlds, chunk : Nat])]
  /\ disk \subseteq Worlds
  /\ down \in Seq([type : Types] \cup [type : {"MAP_CHANGE"}, world : Worlds] \cup
                  [type : {"MAP_DATA"}, world : Worlds, chunk : Nat])
  /\ up \in Seq([type : Types] \cup [type : {"REQUEST_MAP_DATA"}, chunk : Nat])
  /\ changes \in 0 .. MaxChanges /\ rejoins \in 0 .. MaxRejoins

\* The INFO of the client has been taken: it is told the map of world 0.
Init ==
  /\ server = [state |-> "CONNECTING", ready |-> FALSE, world |-> 0]
  /\ client = JustConnected
  /\ download = NoDownload
  /\ disk \in SUBSET Worlds
  /\ down = <<MapChange(0)>> /\ up = << >>
  /\ changes = 0 /\ rejoins = 0

-----------------------------------------------------------------------------
\* ChangeWorld, by a tile, by an operator or by a script.
ChangeWorld(w) ==
  /\ server.state # "CONNECTING"
  /\ changes < MaxChanges /\ changes' = changes + 1
  /\ server' = [server EXCEPT !.world = w]
  /\ down' = Append(down, MapChange(w))
  /\ UNCHANGED <<client, download, disk, up, rejoins>>

\* The person behind the client connects again: ClientRejoinCallback resets the
\* client, m_WorldID with it, and sends the map of world 0.
Rejoin ==
  /\ rejoins < MaxRejoins /\ rejoins' = rejoins + 1
  /\ server' = [server EXCEPT !.world = 0]
  /\ client' = JustConnected
  /\ download' = NoDownload
  /\ down' = <<MapChange(0)>> /\ up' = << >>
  /\ UNCHANGED <<disk, changes>>

-----------------------------------------------------------------------------
\* Mutant: the chunks are those of the first map.
ChunkOfFirst(w, c) == <<MapData(0, c)>>

\* SendMapData: nothing is sent for a chunk behind the end.
ChunkOf(w, c) == IF c < NumChunks THEN <<MapData(w, c)>> ELSE << >>

TakeRequest ==
  /\ up # << >> /\ Head(up).type = "REQUEST_MAP_DATA"
  /\ down' = down \o ChunkOf(server.world, Head(up).chunk)
  /\ up' = Tail(up)
  /\ UNCHANGED <<server, client, download, disk, changes, rejoins>>

\* NETMSG_READY: OnClientConnected puts a new player into world 0.
TakeReady ==
  /\ up # << >> /\ Head(up).type = "READY"
  /\ IF server.state = "CONNECTING"
     THEN /\ server' = [state |-> "READY", ready |-> FALSE, world |-> 0]
          /\ down' = down \o <<MapChange(0), Message("CON_READY")>>
     ELSE /\ down' = Append(down, Message("CON_READY"))
          /\ UNCHANGED server
  /\ up' = Tail(up)
  /\ UNCHANGED <<client, download, disk, changes, rejoins>>

TakeStartInfo ==
  /\ up # << >> /\ Head(up).type = "STARTINFO"
  /\ IF server.state # "CONNECTING" /\ ~server.ready
     THEN /\ server' = [server EXCEPT !.ready = TRUE]
          /\ down' = Append(down, Message("READYTOENTER"))
     ELSE UNCHANGED <<server, down>>
  /\ up' = Tail(up)
  /\ UNCHANGED <<client, download, disk, changes, rejoins>>

TakeEnterGame ==
  /\ up # << >> /\ Head(up).type = "ENTERGAME"
  /\ server' = [server EXCEPT !.state =
                  IF @ = "READY" /\ server.ready THEN "INGAME" ELSE @]
  /\ up' = Tail(up)
  /\ UNCHANGED <<client, download, disk, down, changes, rejoins>>

-----------------------------------------------------------------------------
\* LoadMap closes the map that was loaded, which OnConnected still points into.
AfterLoad(w) == [client EXCEPT !.map = w, !.known = FALSE, !.snaps = 0]

\* NETMSG_MAP_CHANGE: the map is searched on the disk, or a download starts.
TakeMapChange ==
  /\ down # << >> /\ Head(down).type = "MAP_CHANGE"
  /\ LET w == Head(down).world
     IN \/ /\ w \in disk
           /\ client' = [AfterLoad(w) EXCEPT !.state = "loading"]
           /\ up' = Append(up, Message("READY"))
           /\ UNCHANGED download
        \/ /\ w \notin disk
           /\ client' = [client EXCEPT !.state = "loading"]
           /\ download' = [world |-> w, chunk |-> 0, how |-> "http", data |-> << >>]
           /\ UNCHANGED up
  /\ down' = Tail(down)
  /\ UNCHANGED <<server, disk, changes, rejoins>>

\* FinishMapDownload, with a file that is the map of world w.
Finish(w) ==
  /\ disk' = disk \cup {w}
  /\ client' = [AfterLoad(w) EXCEPT !.state = "loading"]
  /\ up' = Append(up, Message("READY"))
  /\ download' = NoDownload

\* The HTTP job has ended well, with the SHA-256 that was announced.
HttpDone ==
  /\ download.how = "http" /\ download.world \in Offered
  /\ Finish(download.world)
  /\ UNCHANGED <<server, down, changes, rejoins>>

\* The HTTP job has failed: the game server is asked instead.
HttpFails ==
  /\ download.how = "http"
  /\ download' = [download EXCEPT !.how = "chunks"]
  /\ up' = Append(up, Request(download.chunk))
  /\ UNCHANGED <<server, client, disk, down, changes, rejoins>>

\* The chunk that SendMapData marks as the last one.
IsLast(c) == c = NumChunks - 1

\* Mutant: whose chunk it is is not asked.
WantedByNumber(msg) == download.how = "chunks" /\ msg.chunk = download.chunk

\* A chunk of another map, another chunk, or no file to write to: it is ignored.
Wanted(msg) ==
  download.how = "chunks" /\ msg.world = download.world /\ msg.chunk = download.chunk

TakeMapData ==
  /\ down # << >> /\ Head(down).type = "MAP_DATA"
  /\ LET msg == Head(down)
         data == Append(download.data, [world |-> msg.world, chunk |-> msg.chunk])
     IN \/ /\ Wanted(msg) /\ IsLast(msg.chunk)
           /\ Finish(download.world)
        \/ /\ Wanted(msg) /\ ~IsLast(msg.chunk)
           /\ download' = [download EXCEPT !.chunk = @ + 1, !.data = data]
           /\ up' = Append(up, Request(download.chunk + 1))
           /\ UNCHANGED <<client, disk>>
        \/ /\ ~Wanted(msg)
           /\ UNCHANGED <<client, download, disk, up>>
  /\ down' = Tail(down)
  /\ UNCHANGED <<server, changes, rejoins>>

\* NETMSG_CON_READY: OnConnected initialises the map logic and sends its info.
TakeConReady ==
  /\ down # << >> /\ Head(down).type = "CON_READY"
  /\ client' = [client EXCEPT !.known = TRUE]
  /\ up' = Append(up, Message("STARTINFO"))
  /\ down' = Tail(down)
  /\ UNCHANGED <<server, download, disk, changes, rejoins>>

TakeReadyToEnter ==
  /\ down # << >> /\ Head(down).type = "READYTOENTER"
  /\ client' = [client EXCEPT !.snaps = 0]
  /\ up' = Append(up, Message("ENTERGAME"))
  /\ down' = Tail(down)
  /\ UNCHANGED <<server, download, disk, changes, rejoins>>

\* A snapshot arrives: with the second one since it was reset the client is online.
TakeSnapshot ==
  /\ server.state = "INGAME"
  /\ client.snaps < 3
  /\ client' = [client EXCEPT !.snaps = @ + 1,
                              !.state = IF client.snaps = 1 THEN "online" ELSE @]
  /\ UNCHANGED <<server, download, disk, down, up, changes, rejoins>>

-----------------------------------------------------------------------------
ClientSteps ==
  TakeMapChange \/ TakeMapData \/ TakeConReady \/ TakeReadyToEnter
ServerSteps == TakeRequest \/ TakeReady \/ TakeStartInfo \/ TakeEnterGame

Next ==
  \/ \E w \in Worlds : ChangeWorld(w)
  \/ Rejoin
  \/ ClientSteps \/ ServerSteps \/ TakeSnapshot
  \/ HttpDone \/ HttpFails

Spec == Init /\ [][Next]_vars

(***************************************************************************)
(* Vital messages arrive (NetConn), snapshots now and then, and an HTTP job*)
(* ends, for it has a timeout.  Nobody has to change the world or rejoin.  *)
(***************************************************************************)
FairSpec ==
  /\ Spec
  /\ WF_vars(ClientSteps) /\ WF_vars(ServerSteps) /\ WF_vars(TakeSnapshot)
  /\ WF_vars(HttpDone \/ HttpFails)

-----------------------------------------------------------------------------
(***************************************************************************)
(* What is downloaded in chunks is the map that was announced, chunk by    *)
(* chunk, although the server answers a request from the world the client  *)
(* is in by then (multiworld_manager.cpp:110): a finished download is never*)
(* refused by the check of its SHA-256.                                    *)
(***************************************************************************)
DownloadInOrder ==
  /\ \A i \in DOMAIN download.data :
       download.data[i] = [world |-> download.world, chunk |-> i - 1]
  /\ Len(download.data) = download.chunk

(***************************************************************************)
(* The last map on its way to the client is the map of its world: a client *)
(* that is told nothing more has loaded that map or is downloading it.     *)
(***************************************************************************)
LastMapIsOwn ==
  LET announced == {i \in DOMAIN down : down[i].type = "MAP_CHANGE"}
  IN /\ \A i \in announced :
          (\A j \in announced : j <= i) => down[i].world = server.world
     /\ announced = {} => server.world \in {client.map, download.world}

(***************************************************************************)
(* When the world no longer changes, the client gets to see it: it has the *)
(* map of its world, the map logic knows it, and the client is online.     *)
(***************************************************************************)
SeesItsWorld ==
  <>[](/\ client.map = server.world /\ client.known
       /\ server.state = "INGAME" => client.state = "online")

(***************************************************************************)
(* "STATE_LOADING - The client has connected to a server and is loading    *)
(* resources. STATE_ONLINE - The client is connected to a server and       *)
(* running the game." (engine/client.h:39-40): a client that is online has *)
(* initialised the map logic for the map it has loaded, and downloads none.*)
(***************************************************************************)
OnlineIsLoaded == client.state = "online" => client.known /\ download.how = "none"

=============================================================================
