------------------------------ MODULE MCTlsEcho ------------------------------
(* One client that sends two records; one whose records are larger than    *)
(* what is read for a receive; one that sends a record, with a receive     *)
(* that ends and a write that is cut short; and two clients that share the *)
(* buffers.                                                                *)
EXTENDS TlsEcho

MCLoads ==
  {[records |-> [one |-> 2], read |-> 2, ends |-> 0, shorts |-> 0],
   [records |-> [one |-> 2], read |-> 1, ends |-> 0, shorts |-> 0],
   [records |-> [one |-> 1], read |-> 2, ends |-> 1, shorts |-> 1],
   [records |-> [one |-> 1, other |-> 0], read |-> 2, ends |-> 0, shorts |-> 0]}
=============================================================================
