------------------------------ MODULE MCCgExpr ------------------------------
(***************************************************************************)
(* CgExpr on the expressions with up to two operations around variables,   *)
(* constants, assignments and calls, and on some deeper ones.              *)
(***************************************************************************)
EXTENDS CgExpr

\* A byte of two bits: int has 8, long and addresses have 16.
MCByteBits == 2

In(t, a)    == [ty |-> t, at |-> a, local |-> TRUE]
MCFrame == [c |-> In("char", 100), i |-> In("int", 104), u |-> In("uint", 108),
            l |-> In("long", 112), p |-> In("ptr", 120), q |-> In("pptr", 128),
            fp |-> In("fptr", 136), a |-> In("arr", 144), s |-> In("pair", 160),
            v |-> In("vec", 176), r |-> In("box", 184), t |-> In("box", 188),
            gl |-> [ty |-> "int", at |-> 200, local |-> FALSE]]

MCCells == 100 :> "char" @@ 104 :> "int" @@ 108 :> "uint" @@ 112 :> "long" @@ 120 :> "ptr"
  @@ 128 :> "pptr" @@ 136 :> "fptr" @@ 144 :> "int" @@ 148 :> "int" @@ 152 :> "int"
  @@ 160 :> "int" @@ 168 :> "long" @@ 176 :> "int" @@ 180 :> "int" @@ 184 :> "box"
  @@ 188 :> "box" @@ 200 :> "int"

Memory(c, i, u, l) ==
  [x \in DOMAIN MCCells |->
     Wrap(CASE x = 100 -> c [] x = 104 -> i [] x = 108 -> u [] x = 112 -> l
            [] x = 120 -> 148 [] x = 128 -> 160 [] x = 136 -> 77
            [] x = 144 -> 5 [] x = 148 -> -3 [] x = 152 -> 0
            [] x = 160 -> 2 [] x = 168 -> -300 [] x = 176 -> 9 [] x = 180 -> -8
            [] x = 184 -> 11 [] x = 188 -> -12 [] x = 200 -> 6,
          Bits(MCCells[x]))]

MCMemories == {Memory(-1, 2, 200, -7), Memory(1, -2, 3, 300)}

i  == Var("i")
l  == Var("l")
f0 == Call("f", << >>)

Ints   == {Lit(2), Var("c"), i, Var("u"), l, Var("gl"), f0, Call("g", <<i>>)}
Ptrs   == {Var("p"), Var("a"), Var("v")}
Reads  == {Unary("deref", Var("p")), Binary("index", Var("a"), Lit(1)), Binary("index", Var("p"), Lit(1)),
           Member(Var("s"), "b"), Arrow(Var("q"), "a"), Binary("index", Var("v"), Lit(1)),
           Member(Var("t"), "n")}
Places == {Var("c"), i, Var("u"), l, Var("gl")} \cup Reads
Ops    == Arithmetic \cup Shifts \cup Relations \cup {"land", "lor", "comma"}

Writes == {Assign(x, y) : x \in Places, y \in {Lit(2), l, f0}}
   \cup {Compound(op, x, y) : op \in {"add", "mul", "div", "mod", "shl", "shr", "xor"},
                              x \in Places, y \in {Lit(3), i, f0}}
   \cup {Unary(op, x) : op \in Steps, x \in Places}
   \cup {Compound(op, Var("p"), y) : op \in {"add", "sub"}, y \in {Lit(1), Lit(-1)}}
   \cup {Assign(Var("p"), x) : x \in {Var("a"), Var("v"), Unary("addr", i)}
                                  \cup {Unary("addr", Binary("index", y, Lit(1))) : y \in Ptrs}}
   \cup {Assign(Var("r"), Var("t")), Assign(Var("s"), Unary("deref", Var("q")))}

Pures == {Unary(op, x) : op \in {"neg", "bitnot", "not"}, x \in Ints}
   \cup {Cast(t, x) : t \in Integer, x \in Ints}
   \cup {Binary(op, x, y) : op \in Ops, x, y \in Ints}
   \cup {Binary("add", x, y) : x \in Ptrs, y \in {Lit(0), Lit(1)}}
   \cup {Binary("add", y, x) : x \in Ptrs, y \in {Lit(0), Lit(1)}}
   \cup {Binary("sub", Var("p"), y) : y \in {Lit(0), Lit(1)}}
   \cup {Unary(op, Var("p")) : op \in Steps}
   \cup {Binary(op, Var("p"), x) : op \in {"sub", "eq", "gt"}, x \in {Var("a"), Var("v")}}

\* An operation inside another: what is pending while it is done.
Inner == {Binary("sub", i, f0), Binary("land", i, f0), Binary("lt", l, Lit(2)), Assign(i, f0),
          Binary("comma", Assign(Var("c"), Lit(7)), Var("c")), Unary("postinc", i),
          Cond(i, f0, Lit(4)), Unary("deref", Var("p")), Binary("lt", Call("g", <<l>>), Lit(0)), Binary("index", Var("a"), Lit(0)), Call("f", <<i, f0>>)}

Deep == {Binary(op, x, y) : op \in {"sub", "div", "shl", "lt", "land", "lor", "comma"}, x, y \in Inner}
   \cup {Cond(x, y, z) : x, y, z \in Inner}
   \cup {Assign(Binary("index", Var("a"), x), y) : x, y \in Inner}
   \cup {Compound("sub", Binary("index", Var("a"), x), y) : x, y \in Inner}
   \cup {Call("fp", <<x, y>>) : x, y \in Inner}

\* Calls with arguments on the stack.
Filled(n, x, k) == [j \in 1..n |-> IF j = k THEN x ELSE Lit(j)]
Calls == {Call("f", Filled(n, x, k)) : n \in 0..9, k \in {1, 4, 7}, x \in {i, f0, Call("f", Filled(7, l, 7))}}
   \cup {Binary("sub", l, Call("f", Filled(n, x, 2))) : n \in 6..8, x \in Inner}

MCTrees == Ints \cup Reads \cup Writes \cup Pures \cup Inner \cup Deep \cup Calls
MCJunk     == {9}
=============================================================================
