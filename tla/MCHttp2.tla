------------------------------- MODULE MCHttp2 -------------------------------
(* A client whose calls may be split and begun in any order, its stream    *)
(* cut anywhere; one that sends other frames, is published to and takes    *)
(* its output in part; two clients that share the table; and one whose     *)
(* third call is of a stream the manager takes for the first.              *)
EXTENDS Http2

Idle == [calls |-> 0, controls |-> 0, published |-> 0, split |-> FALSE, cut |-> FALSE, partial |-> FALSE,
         messages |-> {<<1>>}, prefaces |-> {}, frames |-> {}]

Calling == [Idle EXCEPT !.calls = 2, !.split = TRUE, !.cut = TRUE, !.prefaces = {HTTP2_HDR}]

Mixing == [Idle EXCEPT !.calls = 1, !.controls = 1, !.published = 1, !.cut = TRUE, !.partial = TRUE,
                       !.prefaces = {HTTP2_HDR, <<9, 8>>},
                       !.frames = {<<PING, <<7>>>>, <<SETTINGS, <<3, 1>>>>, <<GOAWAY, <<0, 2, 5>>>>,
                                   <<WINDOW_UPDATE, <<1>>>>, <<RST_STREAM, <<8>>>>}]

Whole(n) == [Idle EXCEPT !.calls = n, !.prefaces = {HTTP2_HDR}]

MCLoads ==
  {[one |-> Calling, other |-> Idle], [one |-> Mixing, other |-> Idle], [one |-> Whole(2), other |-> Whole(1)],
   [one |-> Whole(3), other |-> Idle]}
=============================================================================
