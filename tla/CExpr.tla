------------------------------- MODULE CExpr -------------------------------
(***************************************************************************)
(* C expressions: the tree the parser builds, the types the semantic       *)
(* analysis gives it (src/sema.c, src/types.c), and what it means.  The    *)
(* meaning is the language's and is what the code generator (CgExpr) is    *)
(* held against; only the order in which operands are evaluated, which C   *)
(* leaves open, is the generator's: binary operands from left to right,    *)
(* the right side of an assignment first, arguments from the last.         *)
(*                                                                         *)
(* A byte has ByteBits bits instead of 8; the sizes in bytes are the real  *)
(* ones, so that every width wraps, truncates and extends as it does.      *)
(***************************************************************************)
EXTENDS Integers, SequencesExt, Bitwise

CONSTANTS
  ByteBits,   \* bits of a byte
  Frame,      \* the variables: name -> [ty, at, local]
  Cells       \* the scalar objects: address -> type

(***************************************************************************)
(* Types: ptr points to int, arr is int[3], vec is int[2], pair is         *)
(* struct {int a; long b}, box is struct {int n}, pptr points to pair,     *)
(* fptr to a function that returns long.  An array or a struct may be as   *)
(* large as a scalar (vec, box) or not (arr, pair).                        *)
(***************************************************************************)
Size == [char |-> 1, int |-> 4, uint |-> 4, long |-> 8, ptr |-> 8, arr |-> 12,
         vec |-> 8, pair |-> 16, box |-> 4, pptr |-> 8, fptr |-> 8]

Base   == [ptr |-> "int", arr |-> "int", vec |-> "int", pptr |-> "pair"]
Fields == [a |-> [ty |-> "int", off |-> 0], b |-> [ty |-> "long", off |-> 8],
           n |-> [ty |-> "int", off |-> 0]]

Integer       == {"char", "int", "uint", "long"}
Pointer       == {"ptr", "pptr"}
Unsigned(t)   == t = "uint"
Bits(t)       == ByteBits * Size[t]
Array         == {"arr", "vec"}
Decay(t)      == IF t \in Array THEN "ptr" ELSE t
Promote(t)    == IF t = "char" THEN "int" ELSE t
PointerTo(t)  == CHOOSE p \in Pointer : Base[p] = t

\* type_usual_arith_conv.
Common(t, u) ==
  IF "long" \in {t, u} THEN "long" ELSE IF "uint" \in {t, u} THEN "uint" ELSE "int"

Arithmetic == {"add", "sub", "mul", "div", "mod", "and", "or", "xor"}
Shifts     == {"shl", "shr"}
Relations  == {"eq", "ne", "lt", "gt", "le", "ge"}
Steps      == {"preinc", "predec", "postinc", "postdec"}

\* The type analyze_expr gives to an operation on operands of types t and u.
BinaryType(op, t, u) ==
  LET l == Decay(t)
      r == Decay(u)
  IN  CASE op \in {"add", "sub"} /\ l \in Pointer /\ u \in Integer -> l
        [] op = "add" /\ r \in Pointer /\ t \in Integer            -> r
        [] op = "sub" /\ l \in Pointer /\ r \in Pointer            -> "long"
        [] op \in Arithmetic /\ {t, u} \subseteq Integer           -> Common(t, u)
        [] op \in Shifts -> Promote(t)
        [] op = "comma"  -> u
        [] op = "index"  -> Base[l]
        [] op \in Relations \cup {"land", "lor"} -> "int"

UnaryType(op, t) ==
  CASE op \in {"neg", "bitnot"} -> Promote(t)
    [] op = "not"               -> "int"
    [] op = "addr"              -> PointerTo(t)
    [] op = "deref"             -> Base[Decay(t)]
    [] op \in Steps             -> t

\* Nodes, with the type filled in as the semantic analysis does.
Node(op, ty, arg, kids) == [op |-> op, ty |-> ty, arg |-> arg, kids |-> kids]

Lit(v)           == Node("lit", "int", v, << >>)
Var(x)           == Node("var", Frame[x].ty, x, << >>)
Unary(op, k)     == Node(op, UnaryType(op, k.ty), "", <<k>>)
Binary(op, j, k) == Node(op, BinaryType(op, j.ty, k.ty), "", <<j, k>>)
Cast(t, k)       == Node("cast", t, t, <<k>>)
Assign(j, k)     == Node("assign", Decay(j.ty), "", <<j, k>>)
Compound(op, j, k) == Node("compound", Decay(j.ty), op, <<j, k>>)
Member(k, f)     == Node("member", Fields[f].ty, f, <<k>>)
Arrow(k, f)      == Node("arrow", Fields[f].ty, f, <<k>>)
Cond(i, j, k)    ==
  Node("cond", IF {j.ty, k.ty} \subseteq Integer THEN Common(j.ty, k.ty) ELSE Decay(j.ty),
       "", <<i, j, k>>)

\* analyze_call: every parameter is long; g returns int, the others long.
Call(f, args) ==
  Node("call", IF f = "g" THEN "int" ELSE "long", f,
       [k \in DOMAIN args |-> IF args[k].ty = "long" THEN args[k] ELSE Cast("long", args[k])])

(***************************************************************************)
(* Values.                                                                 *)
(***************************************************************************)
Wrap(v, bits) == v % (2 ^ bits)

\* v brought into bits bits, as a signed or an unsigned number.
Extend(v, bits, signed) ==
  LET u == Wrap(v, bits) IN IF signed /\ u >= 2 ^ (bits - 1) THEN u - 2 ^ bits ELSE u

Conv(v, t) == Extend(v, Bits(t), ~Unsigned(t))
Word(v)    == Conv(v, "long")

Abs(v)     == IF v < 0 THEN -v ELSE v
Quot(x, y) == (IF (x < 0) = (y < 0) THEN 1 ELSE -1) * (Abs(x) \div Abs(y))
Bitwise2(op, x, y) ==
  LET a == Wrap(x, Bits("long"))
      b == Wrap(y, Bits("long"))
  IN  Word(CASE op = "and" -> a & b [] op = "or" -> a | b [] op = "xor" -> a ^^ b)

Exact(op, x, y) ==
  CASE op = "add" -> x + y
    [] op = "sub" -> x - y
    [] op = "mul" -> x * y
    [] op = "div" -> IF y = 0 THEN 0 ELSE Quot(x, y)
    [] op = "mod" -> IF y = 0 THEN 0 ELSE x - y * Quot(x, y)
    [] op = "shl" -> IF y \in 0..Bits("int") THEN x * 2 ^ y ELSE 0
    [] op = "shr" -> IF y \in 0..Bits("int") THEN x \div 2 ^ y ELSE 0
    [] op \in {"and", "or", "xor"} -> Bitwise2(op, x, y)

Truth(b) == IF b THEN 1 ELSE 0

Holds(op, x, y) ==
  CASE op = "eq" -> x = y [] op = "ne" -> x # y [] op = "lt" -> x < y
    [] op = "gt" -> x > y [] op = "le" -> x <= y [] op = "ge" -> x >= y

(***************************************************************************)
(* Meaning: s is the value last computed, memory, the calls made with their*)
(* arguments, and odd, the names of the situations met in which C promises *)
(* nothing ("undefined") or the generator is known to stray:               *)
(*   unsigned   an unsigned int read through an address is sign-extended   *)
(*   mixed      operands are not converted to their common type            *)
(*   wrap       unsigned int arithmetic is not cut to 32 bits              *)
(*   narrow     an assignment's value is not converted to its left side    *)
(*   unscaled   ints and pointers are added, pointers stepped, by the byte *)
(*   twice      the left side of a compound assignment is evaluated again  *)
(*   remainder  %= stores the quotient                                     *)
(*   not        ! of anything is 1                                         *)
(*   result     the upper half of an int result is used as it is           *)
(*   small      an array as large as a scalar is loaded                    *)
(*   whole      of a struct larger than a scalar the address is assigned   *)
(***************************************************************************)
Is(s, v)          == [s EXCEPT !.v = v]
Odd(s, c, name)   == IF c THEN [s EXCEPT !.odd = @ \cup {name}] ELSE s
Object(a, t)      == a \in DOMAIN Cells /\ Size[Cells[a]] = Size[t]
Fetch(s, a, t)    == IF Object(a, t) THEN Conv(s.mem[a], t) ELSE 0
Load(s, a, t)     == Is(Odd(s, ~Object(a, t), "undefined"), Fetch(s, a, t))

\* Through an address: unsigned int is then sign-extended (load_ptr).
LoadAt(s, a, t)   == LET r == Load(s, a, t)
                     IN  Odd(r, Unsigned(t) /\ r.v >= 2 ^ (Bits(t) - 1), "unsigned")

Put(s, a, t, v)   == IF Object(a, t) THEN [s EXCEPT !.mem[a] = Wrap(v, Bits(t))]
                     ELSE Odd(s, TRUE, "undefined")

\* x op y, computed in type t from operands that are converted to t.
Compute(s, op, x, y, t) ==
  LET a == Conv(x, t)
      b == IF op \in Shifts THEN y ELSE Conv(y, t)
      r == Exact(op, a, b)
      u == Odd(Odd(s, a # x \/ (b # y), "mixed"), Conv(r, t) # r,
               IF Unsigned(t) THEN "wrap" ELSE "undefined")
  IN  Is(Odd(u, \/ op \in {"div", "mod"} /\ b = 0
                \/ op \in Shifts /\ b \notin 0..Bits(t) - 1, "undefined"), Conv(r, t))

\* A pointer p moved by i elements of type t stays in or just behind its array.
Moved(s, p, i, t) ==
  LET q == p + i * Size[t]
  IN  Is(Odd(s, \A a \in {q, q - Size[t]} : ~(a \in DOMAIN Cells /\ Cells[a] = t), "undefined"), q)

\* The object at address from is copied to address to.
Copied(s, to, from, t) ==
  [s EXCEPT !.mem = [x \in DOMAIN @ |-> IF x \in to..to + Size[t] - 1 THEN @[x - to + from]
                                         ELSE @[x]]]

\* What a function answers, the k-th time one is called.
Answer(s) == 2 - Len(s.calls)

\* The value computed is kept in a type narrower than it was computed in.
Kept(s, v, t) == Is(Odd(s, Conv(v, t) # v, "narrow"), Conv(v, t))

RECURSIVE Value(_, _)
RECURSIVE Place(_, _)

\* The address of the object that n names.
Place(n, s) ==
  CASE n.op = "var"    -> Is(s, Frame[n.arg].at)
    [] n.op = "deref"  -> Value(n.kids[1], s)
    [] n.op = "index"  -> LET b == IF n.kids[1].ty \in Array THEN Place(n.kids[1], s)
                                   ELSE Value(n.kids[1], s)
                              i == Value(n.kids[2], b)
                          IN  Moved(i, b.v, i.v, n.ty)
    [] n.op = "member" -> LET r == Place(n.kids[1], s) IN Is(r, r.v + Fields[n.arg].off)
    [] n.op = "arrow"  -> LET r == Value(n.kids[1], s) IN Is(r, r.v + Fields[n.arg].off)

\* An operation on two values, either of which may be an address.
Operate(s, op, x, t, y, u, ty) ==
  CASE op \in Relations -> LET c == IF {t, u} \subseteq Integer THEN Common(t, u) ELSE "long"
                           IN  Is(Odd(s, Conv(x, c) # x \/ Conv(y, c) # y \/ (Unsigned(t) /\ y < 0), "mixed"),
                                  Truth(Holds(op, Conv(x, c), Conv(y, c))))
    [] op = "add" /\ Decay(t) \in Pointer -> Moved(s, x, y, Base[Decay(t)])
    [] op = "add" /\ Decay(u) \in Pointer ->
         Odd(Moved(s, y, x, Base[Decay(u)]), x # 0, "unscaled")
    [] op = "sub" /\ Decay(u) \in Pointer ->
         Is(s, Quot(x - y, Size[Base[Decay(u)]]))
    [] op = "sub" /\ Decay(t) \in Pointer ->
         Odd(Moved(s, x, -y, Base[Decay(t)]), y # 0, "unscaled")
    [] OTHER -> Compute(s, op, x, y, ty)

\* Storing v to the object n whose address was a; the generator evaluates n anew.
StoreTo(n, s, a, v) ==
  LET again == Place(n, s)
  IN  Put(Odd(s, again.v # a \/ again.mem # s.mem \/ again.calls # s.calls, "twice"),
          a, n.ty, v)

Assigned(n, s) ==
  LET r == Value(n.kids[2], s)
      p == Place(n.kids[1], r)
  IN  IF n.ty = "pair" THEN Is(Odd(Copied(p, p.v, r.v, n.ty), TRUE, "whole"), r.v)
      ELSE Is(Put(p, p.v, n.ty, r.v), r.v)

\* The value of an array is its address; that of a pair stands for its contents.
ValueAt(n, s) ==
  LET p == Place(n, s)
  IN  CASE n.ty \in Array -> Odd(p, Size[n.ty] \in {1, 2, 4, 8}, "small")
        [] n.ty = "pair"  -> p
        [] n.op = "var" /\ Frame[n.arg].local -> Load(p, p.v, n.ty)
        [] OTHER          -> LoadAt(p, p.v, n.ty)

CompoundValue(n, s) ==
  LET p == Place(n.kids[1], s)
      x == LoadAt(p, p.v, n.ty)
      y == Value(n.kids[2], x)
      t == IF n.ty \in Integer
           THEN IF n.arg \in Shifts THEN Promote(n.ty) ELSE Common(n.ty, n.kids[2].ty)
           ELSE n.ty
      r == IF n.ty \in Integer THEN Compute(y, n.arg, x.v, y.v, t)
           ELSE Moved(y, x.v, IF n.arg = "add" THEN y.v ELSE -y.v, Base[n.ty])
      q == Odd(r, n.arg = "mod" /\ y.v # 0 /\ Exact("div", x.v, y.v) # r.v, "remainder")
  IN  Kept(StoreTo(n.kids[1], q, p.v, q.v), q.v, n.ty)

StepValue(n, s) ==
  LET k == n.kids[1]
      p == Place(k, s)
      x == LoadAt(p, p.v, n.ty)
      d == IF n.op \in {"preinc", "postinc"} THEN 1 ELSE -1
      r == IF n.ty \in Integer THEN Compute(x, "add", x.v, d, Promote(n.ty))
           ELSE Odd(Moved(x, x.v, d, Base[n.ty]), TRUE, "unscaled")
      t == StoreTo(k, r, p.v, r.v)
  IN  IF n.op \in {"preinc", "predec"} THEN Kept(t, r.v, n.ty) ELSE Is(t, x.v)

CallValue(n, s) ==
  LET m == Len(n.kids)
      e[k \in 0..m] == IF k = 0 THEN s ELSE Value(n.kids[m + 1 - k], e[k - 1])
      to == IF n.arg \in DOMAIN Frame THEN Fetch(e[m], Frame[n.arg].at, "fptr") ELSE n.arg
      t  == [e[m] EXCEPT !.calls = Append(@, [to |-> to, args |-> [k \in 1..m |-> e[m + 1 - k].v]])]
  IN  Is(Odd(t, n.ty = "int" /\ Answer(t) < 0, "result"), Answer(t))

Value(n, s) ==
  LET one      == Value(n.kids[1], s)
      second   == Value(n.kids[2], one)
      after(k) == Value(n.kids[k], one)
  IN  CASE n.op = "lit"      -> Is(s, n.arg)
        [] n.op \in {"var", "deref", "index", "member", "arrow"} -> ValueAt(n, s)
        [] n.op = "addr"     -> Place(n.kids[1], s)
        [] n.op \in Arithmetic \cup Shifts \cup Relations ->
             Operate(second, n.op, one.v, n.kids[1].ty, second.v, n.kids[2].ty, n.ty)
        [] n.op = "land"     -> IF one.v = 0 THEN one ELSE Is(second, Truth(second.v # 0))
        [] n.op = "lor"      -> IF one.v # 0 THEN Is(one, 1) ELSE Is(second, Truth(second.v # 0))
        [] n.op = "not"      -> Odd(Is(one, Truth(one.v = 0)), one.v # 0, "not")
        [] n.op = "neg"      -> Compute(one, "sub", 0, one.v, n.ty)
        [] n.op = "bitnot"   -> Compute(one, "sub", -1, one.v, n.ty)
        [] n.op = "cast"     -> Is(one, Conv(one.v, n.ty))
        [] n.op = "cond"     -> LET r == after(IF one.v # 0 THEN 2 ELSE 3)
                                IN  Is(Odd(r, Conv(r.v, n.ty) # r.v, "mixed"), Conv(r.v, n.ty))
        [] n.op = "comma"    -> Value(n.kids[2],
                                  IF n.kids[1].op = "assign" THEN Assigned(n.kids[1], s) ELSE one)
        [] n.op = "assign"   -> LET r == Assigned(n, s)
                                IN  IF n.ty = "pair" THEN r ELSE Kept(r, r.v, n.ty)
        [] n.op = "compound" -> CompoundValue(n, s)
        [] n.op \in Steps    -> StepValue(n, s)
        [] n.op = "call"     -> CallValue(n, s)

Meaning(n, memory) ==
  Value(n, [v |-> 0, mem |-> memory, calls |-> << >>, odd |-> {}])
=============================================================================
