------------------------------ MODULE MCTunnel ------------------------------
EXTENDS Tunnel
SourceBytes == [backend |-> 1, proxy |-> 3]
=============================================================================
