----------------------------- MODULE MCShutdown -----------------------------
EXTENDS Shutdown
CONSTANTS client1, client2
TwoClients == {client1, client2}
=============================================================================
