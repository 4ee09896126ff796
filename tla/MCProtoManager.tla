---------------------------- MODULE MCProtoManager ----------------------------
(* A client whose stream is cut anywhere, with requests of no and of two   *)
(* fields, and one behind SSL with one field, answered in 6 bytes or in 7, *)
(* which fill the buffer.                                                  *)
EXTENDS ProtoManager

MCRequests == [plain |-> {<<>>, <<2, 1>>}, ssl |-> {<<1>>}]
MCMaxSent  == [plain |-> 2, ssl |-> 1]
=============================================================================
