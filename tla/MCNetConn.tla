------------------------------ MODULE MCNetConn ------------------------------
EXTENDS NetConn

CONSTANTS ClientSends, ServerSends

Sends(c, s) == [e \in Ends |-> IF e = "client" THEN c ELSE s]
MCMaxSent == Sends(ClientSends, ServerSends)

\* A connection that neither end leaves.
LiveSpec == Init /\ [][Next /\ UNCHANGED state]_vars /\ Fairness

=============================================================================
