------------------------------- MODULE CStmt -------------------------------
(***************************************************************************)
(* What the statements of a C function mean, as far as the order goes in   *)
(* which their expressions are evaluated.  This is what the code generator *)
(* (CgStmt) is held against; it is the language's, not the compiler's.     *)
(*                                                                         *)
(* A program is the tree the parser builds (include/ast.h): a function     *)
(* from paths to nodes.  The path of a function's body is <<f>>, the i-th  *)
(* statement inside statement p is p \o <<i>>.  Execution is a place in    *)
(* the tree: a statement about to be entered, one that has been left, the  *)
(* condition or the third clause of a loop.  What an expression computes   *)
(* is left open: any value may come out.                                   *)
(***************************************************************************)
EXTENDS Integers, SequencesExt

CONSTANT Vals   \* what a controlling expression may evaluate to; 0 is false

ASSUME ValsAssumption == Vals \subseteq Int /\ 0 \in Vals

VARIABLES
  prog,   \* prog[p]: [op, arg], the node at path p
  pos     \* [at, p]: the place execution has come to

Op(p)        == prog[p].op
Arg(p)       == prog[p].arg
Kid(p, i)    == Append(p, i)
HasKid(p, i) == Kid(p, i) \in DOMAIN prog

Loops     == {"while", "do", "for"}
Leaves    == {"expr", "null", "break", "continue", "goto", "return"}
Wrappers  == {"seq", "if", "switch", "case", "default", "label"}
Ops       == Leaves \cup Loops \cup Wrappers

\* The statements around p, in the same function.
Around(p) == {SubSeq(p, 1, n) : n \in 1..Len(p) - 1}

\* The innermost statement around p that is one of ops.
Innermost(p, ops) ==
  CHOOSE q \in Around(p) :
    /\ Op(q) \in ops
    /\ \A r \in Around(p) : Op(r) \in ops => Len(r) <= Len(q)

\* The case labels, or the default labels, that belong to the switch p.
LabelsOf(p, op) ==
  {q \in DOMAIN prog : Op(q) = op /\ p \in Around(q) /\ Innermost(q, {"switch"}) = p}

\* Where a goto of the function of p leads.
LabelAt(p, name) ==
  CHOOSE q \in DOMAIN prog : q # << >> /\ q[1] = p[1] /\ Op(q) = "label" /\ Arg(q) = name

(***************************************************************************)
(* Places.                                                                 *)
(***************************************************************************)
Enter(p) == [at |-> "enter", p |-> p]
Left(p)  == [at |-> "leave", p |-> p]
Test(p)  == [at |-> "test",  p |-> p]
First(p) == [at |-> "init",  p |-> p]
Third(p) == [at |-> "step",  p |-> p]
Done     == [at |-> "done",  p |-> << >>]

\* An expression is evaluated here.
Evaluates(x) ==
  \/ x.at = "enter" /\ Op(x.p) \in {"expr", "if", "switch"}
  \/ x.at = "enter" /\ Op(x.p) = "return" /\ Arg(x.p)
  \/ x.at \in {"test", "init", "step"} /\ (Op(x.p) = "for" => x.at \in Arg(x.p))

\* After statement p.
After(p) ==
  LET q == Front(p)
      i == Last(p)
  IN  CASE Len(p) = 1                           -> Done
        [] Len(p) > 1 /\ Op(q) = "seq" /\ HasKid(q, i + 1) -> Enter(Kid(q, i + 1))
        [] Len(p) > 1 /\ Op(q) \in {"while", "do"} -> Test(q)
        [] Len(p) > 1 /\ Op(q) = "for"          -> Third(q)
        [] OTHER                                -> Left(q)

\* Where a switch goes on value v.
Chosen(p, v) ==
  LET hits == {q \in LabelsOf(p, "case") : Arg(q) = v}
      dflt == LabelsOf(p, "default")
  IN  IF hits # {} THEN Enter(CHOOSE q \in hits : TRUE)
      ELSE IF dflt # {} THEN Enter(CHOOSE q \in dflt : TRUE)
      ELSE Left(p)

Into(p) == IF HasKid(p, 1) THEN Enter(Kid(p, 1)) ELSE Left(p)

\* The place after x, v being what was evaluated there.
Entered(p, v) ==
  CASE Op(p) \in {"expr", "null"}                 -> Left(p)
    [] Op(p) \in {"seq", "do", "case", "default", "label"} -> Into(p)
    [] Op(p) = "if"       -> IF v # 0 THEN Into(p)
                             ELSE IF HasKid(p, 2) THEN Enter(Kid(p, 2)) ELSE Left(p)
    [] Op(p) = "while"    -> Test(p)
    [] Op(p) = "for"      -> First(p)
    [] Op(p) = "switch"   -> Chosen(p, v)
    [] Op(p) = "break"    -> Left(Innermost(p, Loops \cup {"switch"}))
    [] Op(p) = "continue" -> Left(Kid(Innermost(p, Loops), 1))
    [] Op(p) = "goto"     -> Enter(LabelAt(p, Arg(p)))
    [] Op(p) = "return"   -> Done

Onward(x, v) ==
  CASE x.at = "enter" -> Entered(x.p, v)
    [] x.at = "leave" -> After(x.p)
    [] x.at \in {"init", "step"} -> Test(x.p)
    [] x.at = "test"  -> IF Evaluates(x) /\ v = 0 THEN Left(x.p) ELSE Into(x.p)

Silent(x) == x # Done /\ ~Evaluates(x)

(***************************************************************************)
(* The programs C allows.                                                  *)
(***************************************************************************)
Inside(p, ops) == \E q \in Around(p) : Op(q) \in ops

Legal ==
  \A p \in DOMAIN prog \ {<< >>} :
    /\ Op(p) = "break" => Inside(p, Loops \cup {"switch"})
    /\ Op(p) = "continue" => Inside(p, Loops)
    /\ Op(p) \in {"case", "default"} => Inside(p, {"switch"})
    /\ Op(p) = "switch" =>
         /\ \A q, r \in LabelsOf(p, "case") : Arg(q) = Arg(r) => q = r
         /\ \A q, r \in LabelsOf(p, "default") : q = r
    /\ Op(p) = "goto" =>
         \E q \in DOMAIN prog \ {<< >>} : q[1] = p[1] /\ Op(q) = "label" /\ Arg(q) = Arg(p)
    /\ Op(p) = "label" =>
         \A q \in DOMAIN prog \ {<< >>} :
           q[1] = p[1] /\ Op(q) = "label" /\ Arg(q) = Arg(p) => q = p
=============================================================================
