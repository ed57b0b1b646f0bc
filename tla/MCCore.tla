------------------------------- MODULE MCCore -------------------------------
(* The whole core, any program over two registers, any memory. *)
EXTENDS Core

MCVal == {0}
MCTag == ({"UNIT_RGU_ROB"} \X Slot) \cup ({"UNIT_LSU_LDU"} \X (0 .. LDU_SIZE - 1))
           \cup ({"UNIT_LSU_STU"} \X StuSlot)

MCKinds == {"alu", "load"}

\* Enabled, and a memory that takes loads and stores and answers at will.
MCInputs == {i \in Input : i.en /\ ~i.step /\ ~i.restart /\ i.wrdy /\ i.rrdy}

=============================================================================
