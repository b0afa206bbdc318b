------------------------------ MODULE MCConnCases ------------------------------
(***************************************************************************)
(* NetConn when the server sends a whole turn of sequence numbers, when    *)
(* both ends send, and when a packet carries two chunks.  In the last two  *)
(* the ends may go offline.  The constants of NetConn itself are the larger*)
(* of those of the cases.                                                  *)
(***************************************************************************)
EXTENDS MCNetConn

VARIABLE case

OneWay == INSTANCE NetConn
            WITH PacketChunks <- 1, MaxSent <- Sends(0, ServerSends), Endings <- FALSE
BothWays == INSTANCE NetConn
              WITH MaxSent <- Sends(ClientSends, ClientSends), MaxFlight <- 1
TwoInAPacket == INSTANCE NetConn
                  WITH MaxSent <- Sends(0, 2), MaxFlight <- 2

CasesInit == case \in {"one way", "both ways", "two in a packet"} /\ Init

CasesNext ==
  /\ \/ case = "one way" /\ OneWay!Next
     \/ case = "both ways" /\ BothWays!Next
     \/ case = "two in a packet" /\ TwoInAPacket!Next
  /\ UNCHANGED case

CasesSpec == CasesInit /\ [][CasesNext]_<<case, vars>>

=============================================================================
