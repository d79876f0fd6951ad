--------------------------- MODULE MCWebSocketHub ---------------------------
EXTENDS WebSocketHub, TLC

\* Connections are interchangeable.
Connections == Permutations(Client)
=============================================================================
