-------------------------------- MODULE Sys --------------------------------
(***************************************************************************)
(* The system unit, hw/src/sys.vhd: the program counter and what stops it. *)
(* An ebreak stops the processor until it is restarted or stepped, an      *)
(* ecall until it is reset.  The program counter is counted in             *)
(* instructions and wraps.  o_halt and o_debug only report and are left    *)
(* out.                                                                    *)
(***************************************************************************)
EXTENDS Integers

CONSTANT PC_SIZE   \* instruction addresses, 2**XLEN / 4

VARIABLES debug, service, pc

sysVars == <<debug, service, pc>>

\* full: some unit has no room; en: the processor is enabled.
pc_stall(en, step, is_full) == (debug /\ ~step) \/ service \/ is_full \/ ~en

SysInit == debug = FALSE /\ service = FALSE /\ pc = 0

\* A restart at the edge of an ebreak wins.  The pc goes on whether the
\* instruction memory had an instruction or not.
SysEdge(ebreak, ecall, en, step, restart, is_full) ==
  /\ debug' = ((debug \/ ebreak) /\ ~restart)
  /\ service' = (service \/ ecall)
  /\ pc' = IF pc_stall(en, step, is_full) THEN pc ELSE (pc + 1) % PC_SIZE

=============================================================================
