-------------------------- MODULE MCWebSocketClient --------------------------
EXTENDS WebSocketClient, TLC

\* Sockets and calls are interchangeable where only an invariant is checked.
Symmetry == Permutations(Sockets) \cup Permutations(Calls)
=============================================================================
