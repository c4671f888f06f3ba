----------------------------- MODULE MCShutdown -----------------------------
EXTENDS Shutdown

MCClients == Workers \cup {Net, Main}
MCCallbacks == NetCallbacks \cup SyncItems \cup {Best1, Best2}

=============================================================================
