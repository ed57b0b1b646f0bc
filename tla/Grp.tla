-------------------------------- MODULE Grp --------------------------------
(***************************************************************************)
(* The groups of hw/src/lsu/grp.vhd: loads and stores are dispatched into  *)
(* the write group, a fence opens the next one, and only the read group    *)
(* may go to memory.  Group numbers are GRP_LEN bits wide and wrap.        *)
(***************************************************************************)
EXTENDS LsuParams

VARIABLES rd_grp, wr_grp

grpVars == <<rd_grp, wr_grp>>

NextGroup(g) == (g + 1) % 2^GRP_LEN

grp_full == rd_grp = NextGroup(wr_grp)

\* How many groups g comes after the read group.
Distance(g) == (g - rd_grp) % 2^GRP_LEN

GrpInit == rd_grp = 0 /\ wr_grp = 0

\* Mutant: one unit without an entry of the read group is enough.
ReadGroupIsOver_Either(stu_match, ldu_match) == ~(stu_match /\ ldu_match)

\* chg_rd_grp: neither unit has an entry of the read group.
ReadGroupIsOver(stu_match, ldu_match) == ~(stu_match \/ ldu_match)

GrpEdge(fence, stu_match, ldu_match) ==
  /\ rd_grp' = IF ReadGroupIsOver(stu_match, ldu_match) /\ rd_grp # wr_grp
               THEN NextGroup(rd_grp) ELSE rd_grp
  /\ wr_grp' = IF fence /\ ~grp_full THEN NextGroup(wr_grp) ELSE wr_grp

GrpTypeOK == rd_grp \in Group /\ wr_grp \in Group

=============================================================================
