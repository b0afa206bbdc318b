------------------------------ MODULE MCClient ------------------------------
(***************************************************************************)
(* What one client comes to in the end, on small instances: its connection *)
(* and its slot, the files of the client scripts, the maps of its worlds   *)
(* and its snapshots.  In each behaviour one of these moves, and the others*)
(* stay as they were set up.                                               *)
(***************************************************************************)
EXTENDS LuaFiles

CONSTANTS
  util, init,
  NumWorlds, NumChunks, MaxChanges, MaxRejoins,
  Bob, NumSlots, MaxConnects,
  Contents, MaxParts, Keep, InitEvery, RecoverEvery, MaxErrors, MaxDelay, MaxResets,
  None

VARIABLES
  part,         \* the one that moves
  slotClient, slot, slotServer, player, network, gameReloads, connects,
  mapServer, mapClient, download, disk, mapDown, mapUp, changes, rejoins,
  snapServer, snapClient, snapDown, snapUp, tick, resets

\* A shared file and cl_init.lua, which is added last.
TwoFiles == <<util, init>>

\* The maps, when no HTTP server has them and when it has all of them.
MT == INSTANCE MapTransfer
        WITH Offered <- {}, server <- mapServer, client <- mapClient,
             down <- mapDown, up <- mapUp
HT == INSTANCE MapTransfer
        WITH Offered <- 0 .. NumWorlds - 1, server <- mapServer, client <- mapClient,
             down <- mapDown, up <- mapUp
SS == INSTANCE ServerSlots
        WITH Persons <- {{Bob}}, MaxReloads <- 0, client <- slotClient,
             server <- slotServer, reloads <- gameReloads
ST == INSTANCE Snapshots
        WITH Takeovers <- TRUE, server <- snapServer, client <- snapClient,
             down <- snapDown, up <- snapUp

ASSUME ClientAssumption == MT!Assumptions /\ HT!Assumptions

fileVars == vars
mapVars == <<mapServer, mapClient, download, disk, mapDown, mapUp, changes, rejoins>>
slotVars == <<slotClient, slot, slotServer, player, network, gameReloads, connects>>
snapVars == <<snapServer, snapClient, snapDown, snapUp, tick, resets>>
allVars == <<part, fileVars, mapVars, slotVars, snapVars>>

\* What is drawn at the start is drawn for the part that moves only.
ClientInit ==
  /\ part \in {"slots", "files", "maps", "offers", "snapshots"}
  /\ Init /\ MT!Init /\ SS!Init /\ ST!Init
  /\ part = "files" \/ size = [f \in Names |-> 0]
  /\ part \in {"maps", "offers"} \/ disk = {}

SlotsNext == part = "slots" /\ SS!Next
FilesNext == part = "files" /\ Next
MapsNext == part = "maps" /\ MT!Next
OffersNext == part = "offers" /\ HT!Next
SnapshotsNext == part = "snapshots" /\ ST!Next

ClientNext ==
  /\ \/ SlotsNext /\ UNCHANGED <<fileVars, mapVars, snapVars>>
     \/ FilesNext /\ UNCHANGED <<mapVars, slotVars, snapVars>>
     \/ MapsNext /\ UNCHANGED <<fileVars, slotVars, snapVars>>
     \/ OffersNext /\ UNCHANGED <<fileVars, slotVars, snapVars>>
     \/ SnapshotsNext /\ UNCHANGED <<fileVars, mapVars, slotVars>>
  /\ UNCHANGED part

\* The fairness of ServerSlots.
SlotsFairness ==
  /\ WF_slotVars(part = "slots" /\ SS!FeedConnectAccept(Bob))
  /\ WF_slotVars(part = "slots" /\ SS!OutOfStep(Bob) /\ SS!ClientTimeout(Bob))
  /\ WF_slotVars(part = "slots" /\ \E s \in SS!Slots : SS!TakeUp(Bob, s))
  /\ WF_slotVars(part = "slots" /\ \E s \in SS!Slots : SS!TakeDown(Bob, s))
  /\ \A s \in 0 .. NumSlots - 1 :
       /\ WF_slotVars(part = "slots" /\ ~SS!InStep(Bob, s) /\ SS!SlotTimeout(s))
       /\ WF_slotVars(part = "slots" /\ SS!UpdateError(s))
       /\ WF_slotVars(part = "slots" /\ SS!UpdateOnline(s))
       /\ WF_slotVars(part = "slots" /\ SS!ProtectionOver(s))

\* And that of LuaFiles, MapTransfer and Snapshots.
ClientSpec ==
  /\ ClientInit /\ [][ClientNext]_allVars
  /\ SlotsFairness
  /\ WF_fileVars(part = "files" /\ SendLuaFileChunk)
  /\ WF_fileVars(part = "files" /\ ClientSteps)
  /\ WF_mapVars(part = "maps" /\ MT!ClientSteps)
  /\ WF_mapVars(part = "maps" /\ MT!ServerSteps)
  /\ WF_mapVars(part = "maps" /\ MT!TakeSnapshot)
  /\ WF_mapVars(part = "maps" /\ MT!HttpFails)
  /\ WF_snapVars(part = "snapshots" /\ ST!Tick)
  /\ WF_snapVars(part = "snapshots" /\ ST!SendInput)
  /\ SF_snapVars(part = "snapshots" /\ \E m \in snapDown :
                   m.age = 0 /\ ST!TakeSnapshot(m))
  /\ SF_snapVars(part = "snapshots" /\ \E i \in snapUp :
                   i.ack = snapClient.ackTick /\ ST!TakeInput(i))

-----------------------------------------------------------------------------
(***************************************************************************)
(* A client that went online with its ACCEPT, which is never repeated, gets*)
(* in step with a slot or learns that it has none (network_conn.cpp:401).  *)
(***************************************************************************)
Resolves == SS!Resolves

(***************************************************************************)
(* A slot whose peer is gone is given back or gets in step again, also when*)
(* it is protected (network_server.cpp:112-125).                           *)
(***************************************************************************)
SlotsFreed == SS!SlotsFreed

(***************************************************************************)
(* The scripts are started in the end, or the client was kicked            *)
(* (mmo_gamecontext.cpp:82-108).                                           *)
(***************************************************************************)
FilesEnd == part = "files" => ScriptsStart

(***************************************************************************)
(* What is downloaded in chunks is the map that was announced, chunk by    *)
(* chunk, and, where no HTTP server has the maps, a client that is told    *)
(* nothing more has loaded or downloads the map of its world               *)
(* (multiworld_manager.cpp:110, client.cpp:1375-1508).                     *)
(***************************************************************************)
MapsAreOwn == MT!DownloadInOrder /\ (part = "maps" => MT!LastMapIsOwn)

(***************************************************************************)
(* When its world no longer changes, the client gets to see it             *)
(* (client.cpp:1545-1700).                                                 *)
(***************************************************************************)
SeesItsWorld == part = "maps" => MT!SeesItsWorld

(***************************************************************************)
(* The client takes snapshots of the tick it is, again and again           *)
(* (server.cpp:903, client.cpp:1860).                                      *)
(***************************************************************************)
KeepsUp == part = "snapshots" => ST!KeepsUp

=============================================================================
