------------------------------ MODULE InOrder ------------------------------
(***************************************************************************)
(* What the register and re-order unit promises: the architectural         *)
(* registers change only when the oldest instruction retires, and then as  *)
(* that instruction says.  Register 0 is always zero.                      *)
(***************************************************************************)
EXTENDS RetireQueue

VARIABLE regs

IInit ==
  /\ QInit
  /\ regs \in {f \in [Dest -> Word] : f[0] = 0}

IEdge(new, k, w) ==
  /\ QEdge(new, k, w)
  /\ regs' = IF Retires /\ Head(queue).rd # 0
             THEN [regs EXCEPT ![Head(queue).rd] = CHOOSE v \in Head(queue).result : TRUE]
             ELSE regs

INext ==
  \E new \in Newcomers, k \in {0} \cup Pending, w \in Word : IEdge(new, k, w)

ISpec == IInit /\ [][INext]_<<queue, regs>>

=============================================================================
