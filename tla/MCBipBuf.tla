------------------------------ MODULE MCBipBuf ------------------------------
(* BipBuf on a ring of a few slots, under every owner whose calls keep the *)
(* queue intact.                                                           *)
EXTENDS BipBuf

AllUses == {"httpBuf", "writeBuf", "protoIn", "protoOut", "pipe", "reader", "peeker"}

=============================================================================
