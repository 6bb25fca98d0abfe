--------------------------- MODULE MCGatewaySession ---------------------------
EXTENDS GatewaySession
CONSTANTS w1
\* Every device hashes to the one worker of the instance.
OneShard == [m \in Msgs |-> w1]
=============================================================================
