------------------------------ MODULE RegFile ------------------------------
(***************************************************************************)
(* The register file, hw/src/rgu/reg.vhd.  Beside its data every register  *)
(* has a ready bit and, when it is not ready, src: the re-order buffer     *)
(* slot whose instruction will produce its value.                          *)
(***************************************************************************)
EXTENDS CoreParams

VARIABLES
  x_data,    \* value of each register
  x_src,     \* slot of the instruction that writes it next
  x_ready    \* the value is the current one

regVars == <<x_data, x_src, x_ready>>

\* Reset clears the ready bits.  x0 is wired to zero and always ready; the
\* data and src of the others hold what the flip-flops hold.
RegInit ==
  /\ x_data \in {d \in [Reg -> Val] : d[0] = 0}
  /\ x_src \in {s \in [Reg -> Slot] : s[0] = 0}
  /\ x_ready = [r \in Reg |-> r = 0]

\* Mutants: the writer that makes a register ready is not compared with its
\* src, or is taken one slot off.
AwaitedBy_Any(r, qr)  == TRUE
AwaitedBy_Next(r, qr) == x_src[r] = Inc(qr)

\* The port en, rd addresses register r; x0 is kept as it is.
Selects(en, rd, r) == en /\ r = rd /\ r # 0

AwaitedBy(r, qr) == x_src[r] = qr

(***************************************************************************)
(* A clock edge: a retiring instruction writes its register and, if it is  *)
(* the one the register waits for, makes it ready; a dispatched one takes  *)
(* the register over.  The dispatch is assigned last and wins; x0 keeps    *)
(* its value whatever is written to it.                                    *)
(***************************************************************************)
RegEdge(disp_wb, disp_rd, disp_qr, wb_we, wb_rd, wb_qr, wb_data) ==
  LET renamed(r) == Selects(disp_wb, disp_rd, r)
      written(r) == Selects(wb_we, wb_rd, r)
      settled(r) == written(r) /\ AwaitedBy(r, wb_qr)
  IN  /\ x_data' = [r \in Reg |-> IF written(r) THEN wb_data ELSE x_data[r]]
      /\ x_src' = [r \in Reg |-> IF renamed(r) THEN disp_qr ELSE x_src[r]]
      /\ x_ready' = [r \in Reg |-> ~renamed(r) /\ (x_ready[r] \/ settled(r))]

=============================================================================
