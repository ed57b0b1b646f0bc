----------------------------- MODULE MCBackend -----------------------------
(* The two units together, for every program over two registers. *)
EXTENDS Backend

MCVal == {0}
MCTag == 0 .. ROB_SIZE - 1

=============================================================================
