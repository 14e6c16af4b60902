------------------------------ MODULE MCGateway ------------------------------
(* Two calls, the second perhaps a retry of the first with the same id.    *)
EXTENDS Gateway

CONSTANTS first, second

MCPreferred == <<"webtransport", "websocket", "sse">>
=============================================================================
