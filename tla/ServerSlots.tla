----------------------------- MODULE ServerSlots -----------------------------
(***************************************************************************)
(* The slots of the server (CNetServer, src/engine/shared/                 *)
(* network_server.cpp), the states of their clients (CServer,              *)
(* src/engine/server/server.cpp), their players (CGameContext), and the    *)
(* clients at the other end: handshake, rejoin of a live slot, the way     *)
(* into the game, timeouts, timeout protection and the takeover of a slot. *)
(*                                                                         *)
(* Sequence numbers are modelled by NetConn.  Here the two ends of a       *)
(* session understand each other when neither has exchanged a chunk since  *)
(* it was reset, or both have, with each other (bound).  A control packet  *)
(* may arrive never, late and more than once; chunks of a session arrive in*)
(* order.  A client is a person at an address; CONNECT is repeated and     *)
(* answered from the address alone, so it is not kept.                     *)
(***************************************************************************)
EXTENDS Naturals, Sequences, FiniteSetsExt

CONSTANTS
  Persons,      \* sets of addresses, those that one person plays from
  NumSlots,     \* MaxClients()
  MaxConnects,  \* bound: how often anybody connects
  MaxReloads,   \* bound: how often the game server is loaded again
  Nil

Clients == UNION Persons
Slots == 0 .. NumSlots - 1

ASSUME NumSlotsAssumption ==
  NumSlots \in Nat \ {0} /\ MaxConnects \in Nat /\ MaxReloads \in Nat

\* A player: whether its start info has come, and its timeout code, if any: the
\* code of a person, who tells it to nobody.
Player == [ready : BOOLEAN, code : Persons \cup {Nil}]

ASSUME NilAssumption == Nil \notin Persons \cup Clients \cup Player

PersonOf(c) == CHOOSE p \in Persons : c \in p

VARIABLES
  client,     \* each client: state of its connection, bound, chunks on the way
  slot,       \* m_aSlots: the connections of the server
  server,     \* CServer::m_aClients[].m_State; PREAUTH stands for AUTH as well
  player,     \* CGameContext::m_apPlayers
  network,    \* external: control packets that were sent and may arrive
  reloads,    \* how often the game server was loaded again
  connects    \* how often somebody connected

vars == <<client, slot, server, player, network, reloads, connects>>

Messages == {"MAP", "CON_READY", "READYTOENTER", "overwritten"}

TypeOK ==
  /\ client \in [Clients -> [state : {"offline", "connect", "online"},
                             bound : BOOLEAN,
                             up : Seq({"INFO", "READY", "STARTINFO", "ENTERGAME"})]]
  /\ slot \in [Slots -> [state : {"offline", "online", "error"},
                         addr : Clients \cup {Nil}, bound : BOOLEAN,
                         down : Seq([msg : Messages, home : Slots]),
                         protected : BOOLEAN, timedOut : BOOLEAN,
                         remoteClosed : BOOLEAN]]
  /\ server \in [Slots -> {"EMPTY", "PREAUTH", "CONNECTING", "READY", "INGAME"}]
  /\ player \in [Slots -> Player \cup {Nil}]
  /\ network \subseteq [type : {"ACCEPT", "CLOSE", "CLOSED"}, peer : Clients]
  /\ reloads \in 0 .. MaxReloads /\ connects \in 0 .. MaxConnects

OfflineSlot ==
  [state |-> "offline", addr |-> Nil, bound |-> FALSE, down |-> << >>,
   protected |-> FALSE, timedOut |-> FALSE, remoteClosed |-> FALSE]

Init ==
  /\ client = [c \in Clients |-> [state |-> "offline", bound |-> FALSE, up |-> << >>]]
  /\ slot = [s \in Slots |-> OfflineSlot]
  /\ server = [s \in Slots |-> "EMPTY"]
  /\ player = [s \in Slots |-> Nil]
  /\ network = {}
  /\ reloads = 0 /\ connects = 0

\* Mutant: a slot under takeover counts as no slot.
SlotsOfUnprotected(c) ==
  {s \in Slots : slot[s].state = "online" /\ slot[s].addr = c /\ ~slot[s].protected}

\* GetClientSlot looks at these; the last one is the slot of the client.
SlotsOf(c) == {s \in Slots : slot[s].state = "online" /\ slot[s].addr = c}

InStep(c, s) ==
  /\ client[c].state = "online"
  /\ s \in SlotsOf(c)
  /\ client[c].bound = slot[s].bound

Packet(type, c) == [type |-> type, peer |-> c]

-----------------------------------------------------------------------------
\* CNetClient: the user connects, and a CONNECT is answered in the end.
Connect(c) ==
  /\ client[c].state = "offline"
  /\ connects < MaxConnects /\ connects' = connects + 1
  /\ client' = [client EXCEPT ![c] = [state |-> "connect", bound |-> FALSE, up |-> << >>]]
  /\ UNCHANGED <<slot, server, player, network, reloads>>

\* CONNECTACCEPT arrives: the client accepts, once, and sends its info.
FeedConnectAccept(c) ==
  /\ client[c].state = "connect"
  /\ client' = [client EXCEPT ![c].state = "online", ![c].up = <<"INFO">>]
  /\ network' = network \cup {Packet("ACCEPT", c)}
  /\ UNCHANGED <<slot, server, player, reloads, connects>>

\* The user disconnects; a client that still connects has no peer to tell.
Disconnect(c) ==
  /\ client[c].state # "offline"
  /\ network' = IF client[c].state = "online"
                THEN network \cup {Packet("CLOSE", c)} ELSE network
  /\ client' = [client EXCEPT ![c] = [state |-> "offline", bound |-> FALSE, up |-> << >>]]
  /\ UNCHANGED <<slot, server, player, reloads, connects>>

\* The client is closed by the server or hears nothing for a while.
ClientEnds(c) ==
  /\ client' = [client EXCEPT ![c] = [state |-> "offline", bound |-> FALSE, up |-> << >>]]
  /\ UNCHANGED <<slot, server, player, network, reloads, connects>>

ClientClosed(c) ==
  /\ Packet("CLOSED", c) \in network /\ client[c].state # "offline"
  /\ ClientEnds(c)

\* Mutant: the time of silence counts only before the first chunk.
ClientTimeoutEarly(c) ==
  /\ client[c].state = "online" /\ ~client[c].bound
  /\ ClientEnds(c)

ClientTimeout(c) ==
  /\ client[c].state = "online"
  /\ ClientEnds(c)

-----------------------------------------------------------------------------
\* The chunks of slot s after it queued messages.  They live in the ring buffer
\* of the slot, where they may overwrite what another slot still points at.
Queued(s, messages) ==
  LET own == [i \in DOMAIN messages |-> [msg |-> messages[i], home |-> s]]
      Overwritten(t) == [i \in DOMAIN slot[t].down |->
        IF slot[t].down[i].home = s /\ t # s
        THEN [slot[t].down[i] EXCEPT !.msg = "overwritten"] ELSE slot[t].down[i]]
  IN [t \in Slots |-> IF t = s THEN slot[s].down \o own ELSE Overwritten(t)]

\* The slots after slot s has taken a chunk and queued messages.
Answered(s, messages) ==
  [t \in Slots |-> [slot[t] EXCEPT !.down = Queued(s, messages)[t],
                                   !.bound = @ \/ t = s]]

\* TryAcceptClient and NewClientCallback.
AcceptClient(c) ==
  LET free == {s \in Slots : slot[s].state = "offline"}
  IN \/ /\ free # {}
        /\ slot' = [slot EXCEPT ![Min(free)] =
                      [OfflineSlot EXCEPT !.state = "online", !.addr = c]]
        /\ server' = [server EXCEPT ![Min(free)] = "PREAUTH"]
        /\ UNCHANGED network
     \/ /\ network' = network \cup {Packet("CLOSED", c)}
        /\ UNCHANGED <<slot, server>>

\* OnConnCtrlMsg: the connection is reset, and ClientRejoinCallback sends the map.
Rejoin(s) ==
  /\ slot' = [t \in Slots |->
                IF t = s
                THEN [slot[s] EXCEPT !.bound = FALSE, !.remoteClosed = FALSE,
                                     !.down = <<[msg |-> "MAP", home |-> s]>>]
                ELSE [slot[t] EXCEPT !.down = Queued(s, <<"MAP">>)[t]]]
  /\ UNCHANGED <<server, network>>

\* An ACCEPT arrives: from the client of a slot, or from a new one, whom the
\* limits of TryAcceptClient may refuse.
RecvAccept(c) ==
  /\ Packet("ACCEPT", c) \in network
  /\ IF SlotsOf(c) # {} THEN Rejoin(Max(SlotsOf(c))) ELSE AcceptClient(c)
  /\ UNCHANGED <<client, player, reloads, connects>>

\* Nothing is sent from a slot in error: its chunks are as good as gone.
RecvClose(c) ==
  /\ Packet("CLOSE", c) \in network /\ SlotsOf(c) # {}
  /\ slot' = [slot EXCEPT ![Max(SlotsOf(c))] = [@ EXCEPT !.state = "error",
                               !.remoteClosed = TRUE, !.down = << >>]]
  /\ UNCHANGED <<client, server, player, network, reloads, connects>>

-----------------------------------------------------------------------------
\* CServer::ProcessClientPacket, one operator for each message.
OnInfo(s) ==
  /\ server' = [server EXCEPT ![s] = IF @ = "PREAUTH" THEN "CONNECTING" ELSE @]
  /\ slot' = Answered(s, IF server[s] = "PREAUTH" THEN <<"MAP">> ELSE << >>)
  /\ UNCHANGED player

\* A player is made when the client was connecting; its world is sent as a map.
OnReady(s) ==
  \/ /\ server[s] = "CONNECTING"
     /\ server' = [server EXCEPT ![s] = "READY"]
     /\ player' = [player EXCEPT ![s] = [ready |-> FALSE, code |-> Nil]]
     /\ slot' = Answered(s, <<"MAP", "CON_READY">>)
  \/ /\ server[s] # "CONNECTING"
     /\ slot' = Answered(s, <<"CON_READY">>)
     /\ UNCHANGED <<server, player>>

\* OnStartInfoNetMessage, for a client that is at least ready.
OnStartInfo(s) ==
  LET new == server[s] \in {"READY", "INGAME"} /\ ~player[s].ready
  IN /\ player' = IF new THEN [player EXCEPT ![s].ready = TRUE] ELSE player
     /\ slot' = Answered(s, IF new THEN <<"READYTOENTER">> ELSE << >>)
     /\ UNCHANGED server

OnEnterGame(s) ==
  /\ server' = [server EXCEPT ![s] =
                  IF @ = "READY" /\ player[s].ready THEN "INGAME" ELSE @]
  /\ slot' = Answered(s, << >>)
  /\ UNCHANGED player

\* The server takes the next chunk of client c.
TakeUp(c, s) ==
  /\ InStep(c, s) /\ client[c].up # << >>
  /\ client' = [client EXCEPT ![c].up = Tail(@), ![c].bound = TRUE]
  /\ CASE Head(client[c].up) = "INFO" -> OnInfo(s)
       [] Head(client[c].up) = "READY" -> OnReady(s)
       [] Head(client[c].up) = "STARTINFO" -> OnStartInfo(s)
       [] Head(client[c].up) = "ENTERGAME" -> OnEnterGame(s)
  /\ UNCHANGED <<network, reloads, connects>>

\* What the client sends when it has taken a message: a loaded map is ready.
AnswerTo(msg) ==
  CASE msg = "MAP" -> <<"READY">>
    [] msg = "CON_READY" -> <<"STARTINFO">>
    [] msg = "READYTOENTER" -> <<"ENTERGAME">>
    [] OTHER -> << >>

\* Client c takes the next chunk of the server.
TakeDown(c, s) ==
  /\ InStep(c, s) /\ slot[s].down # << >>
  /\ slot' = [slot EXCEPT ![s].down = Tail(@), ![s].bound = TRUE]
  /\ client' = [client EXCEPT ![c].bound = TRUE,
                              ![c].up = @ \o AnswerTo(Head(slot[s].down).msg)]
  /\ UNCHANGED <<server, player, network, reloads, connects>>

-----------------------------------------------------------------------------
\* Mutant: only the player of a client in the game is dropped.
PlayersInGameWithout(s) ==
  IF server[s] = "INGAME" THEN [player EXCEPT ![s] = Nil] ELSE player

\* The players after OnClientDrop, which DelClientCallback calls.
PlayersWithout(s) ==
  IF server[s] \in {"READY", "INGAME"} THEN [player EXCEPT ![s] = Nil] ELSE player

\* CNetServer::Drop: DelClientCallback, then Disconnect, silent or not.
Drop(s, silent) ==
  /\ player' = PlayersWithout(s)
  /\ server' = [server EXCEPT ![s] = "EMPTY"]
  /\ slot' = [slot EXCEPT ![s] = OfflineSlot]
  /\ network' = IF silent \/ slot[s].remoteClosed THEN network
                ELSE network \cup {Packet("CLOSED", slot[s].addr)}
  /\ UNCHANGED <<client, reloads, connects>>

\* Mutant: whether the slot timed out is not asked.
UpdateErrorUnprotected(s) ==
  /\ slot[s].state = "error" /\ ~slot[s].protected
  /\ Drop(s, slot[s].timedOut)

\* CNetServer::Update drops a slot in error that is not kept for its player.
UpdateError(s) ==
  /\ slot[s].state = "error" /\ ~(slot[s].protected /\ slot[s].timedOut)
  /\ Drop(s, slot[s].timedOut)

\* CNetConnection::Update, when the slot has heard nothing for a while: an
\* unprotected slot is dropped at once.
SlotTimeout(s) ==
  /\ slot[s].state = "online"
  /\ \/ /\ slot[s].protected
        /\ slot' = [slot EXCEPT ![s] = [@ EXCEPT !.state = "error",
                               !.timedOut = TRUE, !.down = << >>]]
        /\ UNCHANGED <<client, server, player, network, reloads, connects>>
     \/ ~slot[s].protected /\ Drop(s, TRUE)

\* CNetConnection::Update on a slot that hears its peer.
UpdateOnline(s) ==
  /\ slot[s].state = "online" /\ slot[s].timedOut
  /\ slot' = [slot EXCEPT ![s].timedOut = FALSE]
  /\ UNCHANGED <<client, server, player, network, reloads, connects>>

\* "Timeout Protection over", in CNetConnection::Update.
ProtectionOver(s) ==
  /\ slot[s].state = "error" /\ slot[s].protected /\ slot[s].timedOut
  /\ Drop(s, FALSE)

\* An operator or the game server kicks a client.
Kick(s) ==
  /\ server[s] # "EMPTY"
  /\ Drop(s, slot[s].timedOut)

-----------------------------------------------------------------------------
\* Mutant: the codes are not compared.
AnyInError(s, code) ==
  {t \in Slots \ {s} : player[t] # Nil /\ slot[t].state = "error"}

\* The slots that ConTimeout finds for a code; two codes that are not set are equal.
Reclaimable(s, code) ==
  {t \in Slots \ {s} : /\ player[t] # Nil /\ player[t].code = code
                       /\ slot[t].state = "error"}

\* CServer::SetTimedOut: slot t gets the connection of slot s, and its chunks,
\* and slot s is emptied.
SetTimedOut(t, s) ==
  /\ slot' = [slot EXCEPT ![t] = [@ EXCEPT !.state = "online", !.addr = slot[s].addr,
                                           !.bound = slot[s].bound,
                                           !.down = slot[s].down,
                                           !.remoteClosed = FALSE],
                          ![s] = OfflineSlot]
  /\ player' = PlayersWithout(s)
  /\ server' = [server EXCEPT ![s] = "EMPTY"]

\* The chat command /timeout: with the code of the person or an empty one, or
\* without, when it asks with the code of the player but clears it all the same.
ConTimeout(c, s) ==
  /\ InStep(c, s) /\ server[s] = "INGAME"
  /\ \E asked \in {PersonOf(c), Nil, player[s].code}, kept \in {PersonOf(c), Nil} :
       /\ kept = asked \/ (kept = Nil /\ asked = player[s].code)
       /\ \/ /\ Reclaimable(s, asked) # {}
             /\ SetTimedOut(Min(Reclaimable(s, asked)), s)
          \/ /\ Reclaimable(s, asked) = {}
             /\ slot' = [slot EXCEPT ![s].protected = TRUE]
             /\ player' = [player EXCEPT ![s].code = kept]
             /\ UNCHANGED server
  /\ UNCHANGED <<client, network, reloads, connects>>

\* CServer::Run loads the game server again, after MAX_TICK: everybody who is
\* not authenticating connects again.
Reload ==
  /\ reloads < MaxReloads
  /\ reloads' = reloads + 1
  /\ LET again == {s \in Slots : server[s] \in {"CONNECTING", "READY", "INGAME"}}
     IN /\ server' = [s \in Slots |-> IF s \in again THEN "CONNECTING" ELSE server[s]]
        /\ slot' = [s \in Slots |->
             IF s \in again /\ slot[s].state = "online"
             THEN [slot[s] EXCEPT !.down = Queued(s, <<"MAP">>)[s]] ELSE slot[s]]
  /\ player' = [s \in Slots |-> Nil]
  /\ UNCHANGED <<client, network, connects>>

-----------------------------------------------------------------------------
Next ==
  \/ \E c \in Clients :
       \/ Connect(c) \/ FeedConnectAccept(c) \/ Disconnect(c)
       \/ ClientClosed(c) \/ ClientTimeout(c)
       \/ RecvAccept(c) \/ RecvClose(c)
       \/ \E s \in Slots : TakeUp(c, s) \/ TakeDown(c, s) \/ ConTimeout(c, s)
  \/ \E s \in Slots :
       \/ UpdateError(s) \/ SlotTimeout(s) \/ UpdateOnline(s)
       \/ ProtectionOver(s) \/ Kick(s)
  \/ Reload

Spec == Init /\ [][Next]_vars

OutOfStep(c) == \A s \in Slots : ~InStep(c, s)

(***************************************************************************)
(* CONNECT is repeated until it is answered; two ends in step deliver      *)
(* their chunks (NetConn); ends out of step refuse each other's packets    *)
(* until one of them times out; Update runs, and time passes.  Nobody has  *)
(* to connect, disconnect or be kicked.                                    *)
(***************************************************************************)
FairSpec ==
  /\ Spec
  /\ \A c \in Clients :
       /\ WF_vars(FeedConnectAccept(c))
       /\ WF_vars(OutOfStep(c) /\ ClientTimeout(c))
       /\ WF_vars(\E s \in Slots : TakeUp(c, s))
       /\ WF_vars(\E s \in Slots : TakeDown(c, s))
  /\ \A s \in Slots :
       /\ WF_vars((\A c \in Clients : ~InStep(c, s)) /\ SlotTimeout(s))
       /\ WF_vars(UpdateError(s)) /\ WF_vars(UpdateOnline(s))
       /\ WF_vars(ProtectionOver(s))

-----------------------------------------------------------------------------
(***************************************************************************)
(* An address has one live slot: neither an ACCEPT that arrives twice nor a*)
(* takeover leaves two connections to one peer, whose chunks would mix     *)
(* (network_server.cpp:579-595 picks the last).                            *)
(***************************************************************************)
OneSlot ==
  \A s, t \in Slots :
    slot[s].state = "online" /\ slot[t].state = "online" /\ slot[s].addr = slot[t].addr
      => s = t

(***************************************************************************)
(* The three layers agree about a slot: the connection is offline exactly  *)
(* when CServer calls it empty, a player is there exactly from READY on,   *)
(* and only a player that is ready is in the game.  OnClientDrop and the   *)
(* handlers of the game dereference the player without asking.             *)
(***************************************************************************)
LayersAgree ==
  \A s \in Slots :
    /\ slot[s].state = "offline" <=> server[s] = "EMPTY"
    /\ player[s] # Nil <=> server[s] \in {"READY", "INGAME"}
    /\ server[s] = "INGAME" => player[s].ready

(***************************************************************************)
(* Whoever gave a player a timeout code keeps the player: rejoins,         *)
(* takeovers and slots that change hands never leave somebody else at the  *)
(* other end, with the player and the account that is logged in.  A player *)
(* without a code has no such promise: when its connection is in error,    *)
(* /timeout without a code gives it to whoever is first                    *)
(* (ddracechat.cpp:328, 338).                                              *)
(***************************************************************************)
CodeIsPeers ==
  \A s \in Slots :
    player[s] # Nil => player[s].code \in {Nil, PersonOf(slot[s].addr)}

(***************************************************************************)
(* A client that went online with its ACCEPT, which is never repeated      *)
(* (network_conn.cpp:401), gets in step with a slot or learns that it has  *)
(* none.                                                                   *)
(***************************************************************************)
Resolves ==
  \A c \in Clients : (client[c].state = "online") ~>
    (client[c].state = "offline" \/ ~OutOfStep(c))

(***************************************************************************)
(* A slot whose peer is gone, or talks about another session, is given     *)
(* back or gets in step again, also when it is protected.                  *)
(***************************************************************************)
SlotsFreed ==
  \A s \in Slots :
    (slot[s].state # "offline" /\ \A c \in Clients : ~InStep(c, s)) ~>
      (slot[s].state = "offline" \/ \E c \in Clients : InStep(c, s))

(***************************************************************************)
(* "The client probably wants to reconnect ... process rejoin"             *)
(* (network_server.cpp:472-497): a client that stays in step with its slot *)
(* enters the game in the end, rejoined or not.                            *)
(***************************************************************************)
EveryoneEnters ==
  \A c \in Clients : client[c].state = "online" ~>
    \/ client[c].state = "offline"
    \/ OutOfStep(c)
    \/ \E s \in Slots : InStep(c, s) /\ server[s] = "INGAME"

(***************************************************************************)
(* "Copy resend buffer" (network_conn.cpp:520): the chunks that a takeover *)
(* moves to another slot are resent as they were sent.                     *)
(***************************************************************************)
ResentAsSent ==
  \A s \in Slots : \A i \in DOMAIN slot[s].down :
    slot[s].down[i].msg # "overwritten"

=============================================================================
