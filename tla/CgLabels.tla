----------------------------- MODULE CgLabels -----------------------------
(***************************************************************************)
(* Emitting code and resolving its labels: the parts of codegen.c and      *)
(* x86_encode.c that the generation of statements (CgStmt) and that of     *)
(* expressions (CgExpr) share.                                             *)
(*                                                                         *)
(* An instruction is a record with its kind in i; "label" has a name, a    *)
(* jump the label it goes to.  g is what generation changes as it goes:    *)
(* code, the instructions so far, and count, cg->label_count.              *)
(***************************************************************************)
EXTENDS Integers, SequencesExt

Emit(g, instrs) == [g EXCEPT !.code = @ \o instrs]

\* cg_make_label, called n times.
Fresh(g, n) == [g EXCEPT !.count = @ + n]

Label(l) == <<[i |-> "label", name |-> l]>>

\* Where label l is defined.
DefsIn(code, l) == {n \in DOMAIN code : code[n].i = "label" /\ code[n].name = l}

\* label_offset finds the newest definition; a jump without one goes to the next
\* instruction, its displacement staying zero.
TargetIn(code, n) ==
  IF DefsIn(code, code[n].to) = {} THEN n + 1 ELSE Max(DefsIn(code, code[n].to))
=============================================================================
