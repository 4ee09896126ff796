----------------------------- MODULE MCWebSocket -----------------------------
(* A client that sends a text and says goodbye, and a server that sends a  *)
(* text with an extended length or pings. The client checks the answer for *)
(* one header more than the server gives.                                  *)
EXTENDS WebSocket

MCWanted    == [client |-> {"Upgrade", "Server"}, server |-> {"Upgrade"}]
MCSends     == [client |-> {<<"text", 1>>, <<"close", 0>>}, server |-> {<<"text", 2>>, <<"ping", 1>>}]
MCMaxQueued == [client |-> 2, server |-> 1]

=============================================================================
