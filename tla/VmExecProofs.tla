---------------------------- MODULE VmExecProofs ----------------------------
(***************************************************************************)
(* Proofs about calls, captured variables and handlers, for stacks, call   *)
(* depths and numbers of upvalues of any size.  They assume that no        *)
(* variable declared inside a try block is captured (~CaptureInTry) and    *)
(* that no function returns inside a try block (~ReturnInTry): TLC shows   *)
(* that THROW leaves such a variable's upvalue dangling, and that RETURN   *)
(* leaves the handler of such a block on the try stack.                    *)
(***************************************************************************)
EXTENDS VmExec, TLAPS, SequenceTheorems

Frames == [base : Nat, up : Nat, locals : Nat]
Tries  == [depth : Nat, height : Nat, up : Nat]
Cells  == [loc : Nat \cup {Self}, closed : Value]

TypeOK ==
  /\ status \in {"idle", "running", "stopped"}
  /\ stack \in Seq(Value) /\ shadow \in Seq(Value)
  /\ frames \in Seq(Frames) /\ tries \in Seq(Tries)
  /\ upvals \in Seq(Cells) /\ open \in Seq(Nat)
  /\ Len(shadow) = Len(upvals) /\ Len(upvals) <= UpvalMax

\* Closures, frames and the list name upvalues that have been created.
Created(v) == UpvalOf(v) <= Len(upvals)
CreatedOK ==
  /\ \A i \in 1..Len(stack) : Created(stack[i])
  /\ \A u \in Upvals : Created(upvals[u].closed)
  /\ \A k \in 1..Len(frames) : frames[k].up <= Len(upvals)
  /\ \A i \in 1..Len(open) : open[i] \in Upvals

\* A frame ends below the callee of the next one; handlers nest, and the stack a
\* handler restores ends between its function's locals and the next callee.
FramesOK ==
  /\ status = "idle" => frames = << >>
  /\ status = "running" => frames # << >>
  /\ \A j, k \in 1..Len(frames) :
       j < k => frames[j].base + frames[j].locals < frames[k].base
  /\ \A i \in 1..Len(tries) :
       /\ tries[i].depth \in 1..Len(frames)
       /\ tries[i].up = frames[tries[i].depth].up
       /\ tries[i].height >= frames[tries[i].depth].base + frames[tries[i].depth].locals
       /\ tries[i].depth < Len(frames) => tries[i].height < frames[tries[i].depth + 1].base
  /\ \A i, j \in 1..Len(tries) :
       i < j => tries[i].depth <= tries[j].depth /\ tries[i].height <= tries[j].height

\* The stack holds the locals of the running function and what handlers restore.
TopOK ==
  /\ frames # << >> => Frame.base + Frame.locals <= Top
  /\ \A i \in 1..Len(tries) : tries[i].height <= Top

CalleesOK ==
  \A k \in 2..Len(frames) :
    /\ At(frames[k].base - 1) # Nil
    /\ UpvalOf(At(frames[k].base - 1)) = frames[k].up

\* Where an open upvalue may point: into some frame, to no callee, and not into
\* what a handler discards unless it closes it.
PlacesOK ==
  \A u \in Upvals : Location(u) # Self =>
    /\ frames # << >>
    /\ Location(u) >= frames[1].base
    /\ \A k \in 2..Len(frames) : Location(u) # frames[k].base - 1
    /\ \A i \in 1..Len(tries) :
         \/ Location(u) < tries[i].height
         \/ /\ tries[i].depth < Len(frames)
            /\ Location(u) >= frames[tries[i].depth + 1].base

IInv ==
  /\ TypeOK /\ CreatedOK /\ FramesOK /\ TopOK /\ CalleesOK
  /\ OpenListSorted /\ PlacesOK /\ CapturesHold

-----------------------------------------------------------------------------
(* Sequences. *)

LEMMA PrefixFacts ==
  ASSUME NEW S, NEW s \in Seq(S), NEW n \in 0..Len(s)
  PROVE  /\ SubSeq(s, 1, n) \in Seq(S)
         /\ Len(SubSeq(s, 1, n)) = n
         /\ \A i \in 1..n : SubSeq(s, 1, n)[i] = s[i]
BY SubSeqProperties, LenProperties, ElementOfSeq

LEMMA FrontFacts ==
  ASSUME NEW S, NEW s \in Seq(S), s # << >>
  PROVE  /\ Front(s) \in Seq(S)
         /\ Len(Front(s)) = Len(s) - 1
         /\ \A i \in 1..Len(s) - 1 : Front(s)[i] = s[i]
<1>1. Len(s) \in Nat \ {0}
  BY EmptySeq, LenProperties
<1>2. Len(s) - 1 \in 0..Len(s)
  BY <1>1
<1>3. QED
  BY <1>2, PrefixFacts DEF Front

LEMMA SuffixFacts ==
  ASSUME NEW S, NEW s \in Seq(S), NEW n \in 0..Len(s)
  PROVE  /\ SubSeq(s, n + 1, Len(s)) \in Seq(S)
         /\ Len(SubSeq(s, n + 1, Len(s))) = Len(s) - n
         /\ \A i \in 1..Len(s) - n : SubSeq(s, n + 1, Len(s))[i] = s[n + i]
BY SubSeqProperties, LenProperties, ElementOfSeq

LEMMA InsertFacts ==
  ASSUME NEW S, NEW s \in Seq(S), NEW p \in 1..Len(s) + 1, NEW e \in S
  PROVE  /\ InsertAt(s, p, e) \in Seq(S)
         /\ Len(InsertAt(s, p, e)) = Len(s) + 1
         /\ \A i \in 1..p - 1 : InsertAt(s, p, e)[i] = s[i]
         /\ InsertAt(s, p, e)[p] = e
         /\ \A i \in p + 1..Len(s) + 1 : InsertAt(s, p, e)[i] = s[i - 1]
<1> DEFINE n == p - 1
<1>0. n \in 0..Len(s) /\ p = n + 1 /\ n \in Nat
  BY LenProperties
<1> HIDE DEF n
<1> DEFINE a == SubSeq(s, 1, n)
           c == SubSeq(s, n + 1, Len(s))
<1>1. a \in Seq(S) /\ Len(a) = n /\ \A i \in 1..n : a[i] = s[i]
  BY <1>0, PrefixFacts
<1>2. c \in Seq(S) /\ Len(c) = Len(s) - n /\ \A i \in 1..Len(s) - n : c[i] = s[n + i]
  BY <1>0, SuffixFacts
<1>3. <<e>> \in Seq(S) /\ Len(<<e>>) = 1 /\ <<e>>[1] = e
  OBVIOUS
<1>4. /\ a \o <<e>> \in Seq(S)
      /\ Len(a \o <<e>>) = n + 1
      /\ \A i \in 1..n + 1 : (a \o <<e>>)[i] = IF i <= n THEN a[i] ELSE e
  <2> HIDE DEF a
  <2>1. /\ a \o <<e>> \in Seq(S) /\ Len(a \o <<e>>) = Len(a) + Len(<<e>>)
        /\ \A i \in 1..Len(a) + Len(<<e>>) :
             (a \o <<e>>)[i] = IF i <= Len(a) THEN a[i] ELSE <<e>>[i - Len(a)]
    BY <1>1, <1>3, ConcatProperties
  <2>2. \A i \in 1..n + 1 : i <= n \/ i - n = 1
    BY <1>0
  <2>3. QED
    BY <1>1, <1>3, <2>1, <2>2
<1>5. InsertAt(s, n + 1, e) = (a \o <<e>>) \o c
  <2>1. Len(s) \in Nat /\ (n + 1) - 1 = n
    BY <1>0, LenProperties
  <2>2. QED
    BY <2>1 DEF InsertAt
<1> DEFINE r == (a \o <<e>>) \o c
<1> HIDE DEF a, c
<1>6. /\ r \in Seq(S)
      /\ Len(r) = Len(a \o <<e>>) + Len(c)
      /\ \A i \in 1..Len(a \o <<e>>) + Len(c) :
           r[i] = IF i <= Len(a \o <<e>>) THEN (a \o <<e>>)[i] ELSE c[i - Len(a \o <<e>>)]
  BY <1>2, <1>4, ConcatProperties
<1> HIDE DEF r
<1>7. Len(s) \in Nat /\ n \in 0..Len(s)
  BY <1>0, LenProperties
<1>8. /\ r \in Seq(S) /\ Len(r) = Len(s) + 1
      /\ \A i \in 1..n : r[i] = s[i]
      /\ r[n + 1] = e
      /\ \A i \in n + 2..Len(s) + 1 : r[i] = s[i - 1]
  <2> HIDE DEF r
  <2> DEFINE ae == a \o <<e>>
  <2>0. Len(ae) = n + 1 /\ Len(c) = Len(s) - n /\ Len(r) = Len(ae) + Len(c)
    BY <1>2, <1>4, <1>6
  <2> HIDE DEF ae
  <2>1. Len(r) = Len(s) + 1
    BY <2>0, <1>7
  <2>2. \A i \in 1..Len(s) + 1 :
          r[i] = IF i <= n + 1 THEN (a \o <<e>>)[i] ELSE c[i - (n + 1)]
    <3>1. Len(a \o <<e>>) + Len(c) = Len(s) + 1 /\ Len(a \o <<e>>) = n + 1
      BY <1>6, <2>0, <2>1 DEF ae
    <3>2. QED
      BY <1>6, <3>1
  <2>3. ASSUME NEW i \in 1..n PROVE r[i] = s[i]
    <3>1. i \in 1..Len(s) + 1 /\ i \in 1..n + 1 /\ i <= n + 1 /\ i <= n
      BY <1>7
    <3>2. QED
      BY <1>1, <1>4, <2>2, <3>1
  <2>4. r[n + 1] = e
    <3>1. n + 1 \in 1..Len(s) + 1 /\ n + 1 \in 1..n + 1 /\ n + 1 <= n + 1 /\ ~(n + 1 <= n)
      BY <1>7
    <3>2. QED
      BY <1>4, <2>2, <3>1
  <2>5. ASSUME NEW i \in n + 2..Len(s) + 1 PROVE r[i] = s[i - 1]
    <3>1. /\ i \in 1..Len(s) + 1 /\ ~(i <= n + 1)
          /\ i - (n + 1) \in 1..Len(s) - n /\ n + (i - (n + 1)) = i - 1
      BY <1>7
    <3>2. QED
      BY <1>2, <2>2, <3>1
  <2>6. QED
    BY <1>6, <2>1, <2>3, <2>4, <2>5
<1>9. /\ \A i \in 1..p - 1 : i \in 1..n
      /\ \A i \in p + 1..Len(s) + 1 : i \in n + 2..Len(s) + 1
  BY <1>0, <1>7
<1>10. InsertAt(s, p, e) = r
  BY <1>0, <1>5 DEF r
<1>11. QED
  BY <1>0, <1>8, <1>9, <1>10

\* The slots reserved for locals.
LEMMA NilsFacts ==
  ASSUME NEW s \in Seq(Value), NEW n \in Nat
  PROVE  /\ s \o [i \in 1..n |-> Nil] \in Seq(Value)
         /\ Len(s \o [i \in 1..n |-> Nil]) = Len(s) + n
         /\ \A j \in 1..Len(s) : (s \o [i \in 1..n |-> Nil])[j] = s[j]
         /\ \A j \in Len(s) + 1..Len(s) + n : (s \o [i \in 1..n |-> Nil])[j] = Nil
<1> DEFINE z == [i \in 1..n |-> Nil]
<1>1. z \in Seq(Value) /\ Len(z) = n
  BY DEF Value
<1>2. \A i \in 1..n : z[i] = Nil
  OBVIOUS
<1> HIDE DEF z
<1>3. /\ s \o z \in Seq(Value)
      /\ Len(s \o z) = Len(s) + Len(z)
      /\ \A i \in 1..Len(s) + Len(z) : (s \o z)[i] = IF i <= Len(s) THEN s[i] ELSE z[i - Len(s)]
  BY <1>1, ConcatProperties
<1>4. Len(s) \in Nat
  BY LenProperties
<1>5. QED
  BY <1>1, <1>2, <1>3, <1>4 DEF z

LEMMA InitIInv == Init => IInv
<1> SUFFICES ASSUME Init PROVE IInv
  OBVIOUS
<1> USE DEF Init
<1>1. Len(<< >>) = 0
  OBVIOUS
<1>2. TypeOK
  BY <1>1, ExecAssumption, EmptySeq DEF TypeOK
<1>3. CreatedOK /\ FramesOK /\ TopOK /\ CalleesOK
  BY <1>1 DEF CreatedOK, FramesOK, TopOK, CalleesOK, Upvals, Top
<1>4. OpenListSorted /\ PlacesOK /\ CapturesHold
  BY <1>1 DEF OpenListSorted, PlacesOK, CapturesHold, Upvals
<1>5. QED
  BY <1>2, <1>3, <1>4 DEF IInv

-----------------------------------------------------------------------------
(* What the invariant says of the elements of the state. *)

LEMMA ElementTypes ==
  ASSUME TypeOK
  PROVE  /\ Top \in Nat /\ Len(frames) \in Nat /\ Len(tries) \in Nat
         /\ Len(upvals) \in Nat /\ Len(open) \in Nat /\ Len(shadow) \in Nat
         /\ \A i \in 1..Top : stack[i] \in Value
         /\ \A k \in 1..Len(frames) :
              frames[k].base \in Nat /\ frames[k].up \in Nat /\ frames[k].locals \in Nat
         /\ \A i \in 1..Len(tries) :
              tries[i].depth \in Nat /\ tries[i].height \in Nat /\ tries[i].up \in Nat
         /\ \A u \in Upvals : /\ upvals[u] \in Cells /\ upvals[u].closed \in Value
                              /\ Location(u) \in Nat \cup {Self}
                              /\ shadow[u] \in Value
         /\ \A i \in 1..Len(open) : open[i] \in Nat
<1>1. /\ Top \in Nat /\ Len(frames) \in Nat /\ Len(tries) \in Nat
      /\ Len(upvals) \in Nat /\ Len(open) \in Nat /\ Len(shadow) \in Nat
  BY LenProperties DEF TypeOK, Top
<1>2. \A i \in 1..Top : stack[i] \in Value
  BY ElementOfSeq DEF TypeOK, Top
<1>3. \A k \in 1..Len(frames) : frames[k] \in Frames
  BY ElementOfSeq DEF TypeOK
<1>4. \A i \in 1..Len(tries) : tries[i] \in Tries
  BY ElementOfSeq DEF TypeOK
<1>5. \A u \in Upvals : upvals[u] \in Cells /\ shadow[u] \in Value
  BY ElementOfSeq DEF TypeOK, Upvals
<1>6. \A i \in 1..Len(open) : open[i] \in Nat
  BY ElementOfSeq DEF TypeOK
<1>7. QED
  BY <1>1, <1>2, <1>3, <1>4, <1>5, <1>6 DEF Frames, Tries, Cells, Location

LEMMA Values ==
  ASSUME NEW v \in Value
  PROVE  /\ v \in Nat
         /\ UpvalOf(v) \in 0..UpvalMax
         /\ UpvalOf(v) # 0 => v = Closure(UpvalOf(v))
BY ExecAssumption DEF Value, Closures, Closure, UpvalOf, Nil, Datum

LEMMA ClosureIsValue ==
  ASSUME NEW u \in 1..UpvalMax
  PROVE  Closure(u) \in Value /\ UpvalOf(Closure(u)) = u
BY ExecAssumption DEF Value, Closures, Closure, UpvalOf

LEMMA DataIsValue == /\ Nil \in Value /\ UpvalOf(Nil) = 0
                     /\ Datum \in Value /\ UpvalOf(Datum) = 0
BY ExecAssumption DEF Value, Closures, Closure, UpvalOf, Nil, Datum

\* What an upvalue reads as is a value, and names upvalues that exist.
LEMMA ReadFacts ==
  ASSUME IInv, NEW u \in Upvals
  PROVE  Read(u) \in Value /\ Created(Read(u))
<1> USE DEF IInv
<1>1. Read(u) \in Value
  BY ElementTypes DEF CapturesHold
<1>2. CASE Location(u) = Self
  BY <1>1, <1>2 DEF Read, CreatedOK
<1>3. CASE Location(u) # Self
  <2>1. Location(u) \in Nat /\ Location(u) < Top
    BY <1>3, ElementTypes DEF OpenListSorted
  <2>2. Location(u) + 1 \in 1..Len(stack)
    BY <2>1, ElementTypes DEF Top
  <2>3. Read(u) = stack[Location(u) + 1]
    BY <1>3, <2>1 DEF Read, At
  <2>4. QED
    BY <1>1, <2>2, <2>3 DEF CreatedOK
<1>4. QED
  BY <1>2, <1>3

\* Frames lie above each other.
LEMMA FrameOrder ==
  ASSUME IInv, NEW k \in 1..Len(frames)
  PROVE  /\ Len(frames) \in 1..Len(frames)
         /\ Frame = frames[Len(frames)]
         /\ frames[k].base <= Frame.base
         /\ k < Len(frames) => frames[k].base + frames[k].locals < Frame.base
         /\ frames[1].base <= frames[k].base
         /\ k > 1 => frames[1].base + frames[1].locals < frames[k].base
<1>1. /\ Len(frames) \in 1..Len(frames) /\ 1 \in 1..Len(frames)
  BY ElementTypes DEF IInv
<1>2. \A i, j \in 1..Len(frames) :
        i < j => frames[i].base + frames[i].locals < frames[j].base
  BY DEF IInv, FramesOK
<1>3. \A j \in 1..Len(frames) : frames[j].base \in Nat /\ frames[j].locals \in Nat
  BY ElementTypes DEF IInv
<1>4. /\ k < Len(frames) => frames[k].base + frames[k].locals < frames[Len(frames)].base
      /\ 1 < k => frames[1].base + frames[1].locals < frames[k].base
  BY <1>1, <1>2
<1>5. QED
  BY <1>1, <1>3, <1>4 DEF Frame

\* The function that is running.
LEMMA RunningFrame ==
  ASSUME IInv, Running
  PROVE  /\ frames # << >> /\ Len(frames) \in Nat /\ Len(frames) \in 1..Len(frames)
         /\ Frame = frames[Len(frames)]
         /\ Frame.base \in Nat /\ Frame.locals \in Nat /\ Frame.up \in Nat
         /\ Frame.up # 0 => Frame.up \in Upvals
         /\ Top \in Nat /\ Frame.base + Frame.locals <= Top
<1>1. frames # << >> /\ Len(frames) \in Nat /\ Top \in Nat
  BY ElementTypes DEF IInv, FramesOK, Running
<1>2. Len(frames) # 0
  BY <1>1, EmptySeq DEF IInv, TypeOK
<1>3. Len(frames) \in 1..Len(frames) /\ Frame = frames[Len(frames)]
  BY <1>1, <1>2 DEF Frame
<1>4. /\ Frame.base \in Nat /\ Frame.locals \in Nat /\ Frame.up \in Nat
      /\ Frame.up <= Len(upvals) /\ Len(upvals) \in Nat
  BY <1>3, ElementTypes DEF IInv, CreatedOK
<1>5. QED
  BY <1>1, <1>3, <1>4 DEF IInv, TopOK, Upvals

\* Operands leave alone what belongs to the function and to its handlers.
LEMMA FloorFacts ==
  ASSUME IInv, Running
  PROVE  /\ Floor \in Nat
         /\ Frame.base + Frame.locals <= Floor
         /\ \A i \in 1..Len(tries) : tries[i].height <= Floor
<1>1. Len(frames) \in 1..Len(frames) /\ Frame = frames[Len(frames)]
  <2>1. frames # << >> /\ Len(frames) \in Nat
    BY ElementTypes DEF IInv, FramesOK, Running
  <2>2. Len(frames) # 0
    BY <2>1, EmptySeq DEF IInv, TypeOK
  <2>3. QED
    BY <2>1, <2>2 DEF Frame
<1>2. CASE OwnTries = {}
  <2>1. Floor = Frame.base + Frame.locals
    BY <1>2 DEF Floor
  <2>2. ASSUME NEW i \in 1..Len(tries) PROVE tries[i].height <= Frame.base
    <3>1. tries[i].depth \in 1..Len(frames) /\ tries[i].depth < Len(frames)
      BY <1>1, <1>2, ElementTypes DEF IInv, FramesOK, OwnTries
    <3>2. tries[i].height < frames[tries[i].depth + 1].base
      BY <3>1 DEF IInv, FramesOK
    <3>3. tries[i].depth + 1 \in 1..Len(frames)
      BY <1>1, <3>1
    <3>4. frames[tries[i].depth + 1].base <= Frame.base
      BY <3>3, FrameOrder
    <3>5. QED
      BY <1>1, <3>2, <3>3, <3>4, ElementTypes, SMTT(30) DEF IInv
  <2>3. QED
    BY <1>1, <2>1, <2>2, ElementTypes, SMTT(30) DEF IInv
<1>3. CASE OwnTries # {}
  <2> DEFINE l == Len(tries)
  <2>1. PICK i \in 1..Len(tries) : tries[i].depth = Len(frames)
    BY <1>3 DEF OwnTries
  <2>2. l \in 1..Len(tries)
    BY <2>1, ElementTypes DEF IInv
  <2>3. \A j \in 1..Len(tries) : tries[j].depth <= tries[l].depth /\ tries[j].height <= tries[l].height
    BY <2>2, ElementTypes DEF IInv, FramesOK
  <2>4. tries[l].depth = Len(frames)
    BY <1>1, <2>1, <2>2, <2>3, ElementTypes DEF IInv, FramesOK
  <2>5. tries[l].height >= Frame.base + Frame.locals
    BY <1>1, <2>2, <2>4 DEF IInv, FramesOK
  <2>6. Floor = tries[l].height
    BY <1>3 DEF Floor
  <2>7. QED
    BY <2>2, <2>3, <2>5, <2>6, ElementTypes DEF IInv
<1>4. QED
  BY <1>2, <1>3

-----------------------------------------------------------------------------
(* Closing upvalues. *)

\* The effect of closing the upvalues of the slots from s on.
ClosedFrom(s) ==
  /\ upvals' \in Seq(Cells) /\ Len(upvals') = Len(upvals)
  /\ \A u \in Upvals :
       upvals'[u] = IF Location(u) # Self /\ Location(u) >= s
                    THEN [loc |-> Self, closed |-> Read(u)]
                    ELSE upvals[u]
  /\ open' \in Seq(Nat)
  /\ \A i \in 1..Len(open') : open'[i] \in Upvals
  /\ \A u \in Upvals :
       Location(u) # Self /\ Location(u) < s <=> \E i \in 1..Len(open') : open'[i] = u
  /\ \A i, j \in 1..Len(open') : i < j => Location(open'[i]) > Location(open'[j])
  /\ shadow' = shadow

\* No two open upvalues are of the same slot.
LEMMA OnePerSlot ==
  ASSUME IInv, NEW u \in Upvals, NEW w \in Upvals,
         Location(u) # Self, Location(w) = Location(u)
  PROVE  w = u
<1>1. PICK i \in 1..Len(open) : open[i] = u
  BY DEF IInv, OpenListSorted
<1>2. PICK j \in 1..Len(open) : open[j] = w
  BY DEF IInv, OpenListSorted
<1>3. ~(i < j) /\ ~(j < i)
  <2>1. Location(u) \in Nat
    BY ElementTypes DEF IInv
  <2>2. QED
    BY <1>1, <1>2, <2>1 DEF IInv, OpenListSorted
<1>4. QED
  BY <1>1, <1>2, <1>3

LEMMA KeepIsClosed ==
  ASSUME IInv, KeepUpvals
  PROVE  ClosedFrom(Top)
<1>1. \A u \in Upvals : Location(u) # Self => Location(u) < Top
  BY DEF IInv, OpenListSorted
<1>2. \A u \in Upvals : Location(u) \in Nat \cup {Self}
  BY ElementTypes DEF IInv
<1>3. upvals' = upvals /\ open' = open /\ shadow' = shadow
  BY DEF KeepUpvals
<1>4. \A u \in Upvals : ~(Location(u) # Self /\ Location(u) >= Top)
  BY <1>1, <1>2, ElementTypes DEF IInv, Self
<1>5. QED
  BY <1>1, <1>3, <1>4 DEF ClosedFrom, IInv, TypeOK, CreatedOK, OpenListSorted

LEMMA CloseIsClosed ==
  ASSUME IInv, NEW s \in Nat, CloseFrom(s)
  PROVE  ClosedFrom(s)
<1>1. PICK n \in 0..Len(open) :
        /\ Closes(n, s)
        /\ upvals' = [u \in Upvals |->
                        IF \E i \in 1..n : open[i] = u THEN [loc |-> Self, closed |-> Read(u)]
                        ELSE upvals[u]]
        /\ open' = SubSeq(open, n + 1, Len(open))
        /\ UNCHANGED shadow
  BY DEF CloseFrom
<1>2. /\ \A u \in Upvals : Location(u) # Self <=> \E i \in 1..Len(open) : open[i] = u
      /\ \A i, j \in 1..Len(open) : i < j => Location(open[i]) > Location(open[j])
      /\ \A i \in 1..Len(open) : open[i] \in Upvals
  BY DEF IInv, OpenListSorted, CreatedOK
<1>3. /\ Len(open) \in Nat /\ Len(upvals) \in Nat
      /\ \A u \in Upvals : Location(u) \in Nat \cup {Self} /\ upvals[u] \in Cells
  BY ElementTypes DEF IInv
<1>4. \A i \in 1..Len(open) : Location(open[i]) \in Nat
  BY <1>2, <1>3
<1>5. \A i \in 1..Len(open) : Location(open[i]) >= s <=> i <= n
  <2>1. ASSUME NEW i \in 1..Len(open), i <= n PROVE Location(open[i]) >= s
    BY <1>1, <2>1 DEF Closes
  <2>2. ASSUME NEW i \in 1..Len(open), n < i PROVE Location(open[i]) < s
    <3>1. n + 1 \in 1..Len(open) /\ Location(open[n + 1]) < s
      BY <1>1, <1>3, <2>2 DEF Closes
    <3>2. n + 1 < i => Location(open[n + 1]) > Location(open[i])
      BY <1>2, <3>1
    <3>3. CASE i = n + 1
      BY <3>1, <3>3
    <3>4. CASE n + 1 < i
      BY <1>4, <3>1, <3>2, <3>4
    <3>5. QED
      BY <2>2, <3>3, <3>4
  <2>3. QED
    BY <1>3, <1>4, <2>1, <2>2
<1>6. ASSUME NEW u \in Upvals
      PROVE  (\E i \in 1..n : open[i] = u) <=> Location(u) # Self /\ Location(u) >= s
  <2>1. ASSUME NEW i \in 1..n, open[i] = u PROVE Location(u) # Self /\ Location(u) >= s
    <3>1. i \in 1..Len(open) /\ i <= n
      BY <1>3
    <3>2. QED
      BY <1>4, <1>5, <2>1, <3>1 DEF Self
  <2>2. ASSUME Location(u) # Self, Location(u) >= s PROVE \E i \in 1..n : open[i] = u
    <3>1. PICK i \in 1..Len(open) : open[i] = u
      BY <1>2, <2>2
    <3>2. i \in 1..n
      BY <1>5, <2>2, <3>1
    <3>3. QED
      BY <3>1, <3>2
  <2>3. QED
    BY <2>1, <2>2
<1>7. /\ \A u \in Upvals :
           upvals'[u] = IF Location(u) # Self /\ Location(u) >= s
                        THEN [loc |-> Self, closed |-> Read(u)]
                        ELSE upvals[u]
      /\ upvals' \in Seq(Cells) /\ Len(upvals') = Len(upvals)
  <2>1. \A u \in Upvals :
           upvals'[u] = IF Location(u) # Self /\ Location(u) >= s
                        THEN [loc |-> Self, closed |-> Read(u)]
                        ELSE upvals[u]
    BY <1>1, <1>6
  <2>2. ASSUME NEW u \in Upvals PROVE upvals'[u] \in Cells
    <3>1. [loc |-> Self, closed |-> Read(u)] \in Cells
      BY ReadFacts DEF Cells
    <3>2. QED
      BY <1>3, <2>1, <3>1
  <2>3. upvals' \in [Upvals -> Cells]
    BY <1>1, <2>2
  <2>4. QED
    BY <1>3, <2>1, <2>3 DEF Upvals
<1>8. /\ open' \in Seq(Nat) /\ Len(open') = Len(open) - n
      /\ \A i \in 1..Len(open) - n : open'[i] = open[n + i]
  BY <1>1, SuffixFacts DEF IInv, TypeOK
<1>9. \A i \in 1..Len(open') : n + i \in 1..Len(open) /\ n < n + i /\ open'[i] = open[n + i]
  BY <1>3, <1>8
<1>10. ASSUME NEW u \in Upvals
       PROVE  Location(u) # Self /\ Location(u) < s <=> \E i \in 1..Len(open') : open'[i] = u
  <2>1. ASSUME NEW i \in 1..Len(open'), open'[i] = u PROVE Location(u) # Self /\ Location(u) < s
    <3>1. ~(n + i <= n)
      BY <1>9
    <3>2. ~(Location(open[n + i]) >= s) /\ open[n + i] = u
      BY <1>5, <1>9, <2>1, <3>1
    <3>3. QED
      BY <1>4, <1>9, <3>2 DEF Self
  <2>2. ASSUME Location(u) # Self, Location(u) < s PROVE \E i \in 1..Len(open') : open'[i] = u
    <3>1. PICK i \in 1..Len(open) : open[i] = u
      BY <1>2, <2>2
    <3>2. ~(i <= n)
      BY <1>4, <1>5, <2>2, <3>1
    <3>3. i - n \in 1..Len(open') /\ n + (i - n) = i
      BY <1>3, <1>8, <3>2
    <3>4. QED
      BY <1>9, <3>1, <3>3
  <2>3. QED
    BY <2>1, <2>2
<1>11. \A i, j \in 1..Len(open') : i < j => Location(open'[i]) > Location(open'[j])
  <2>1. ASSUME NEW i \in 1..Len(open'), NEW j \in 1..Len(open'), i < j
        PROVE  Location(open'[i]) > Location(open'[j])
    <3>1. n + i < n + j
      BY <2>1
    <3>2. QED
      BY <1>2, <1>9, <3>1
  <2>2. QED
    BY <2>1
<1>12. QED
  BY <1>1, <1>2, <1>7, <1>8, <1>9, <1>10, <1>11 DEF ClosedFrom

-----------------------------------------------------------------------------
(***************************************************************************)
(* The steps that shorten or keep: the frames and handlers that stay are   *)
(* the first d and m, the slots below n stay as they are, and upvalues     *)
(* are closed from s on.  Pushing and popping are among them.              *)
(***************************************************************************)
Keeps(n, d, m, s) ==
  /\ frames' = SubSeq(frames, 1, d) /\ tries' = SubSeq(tries, 1, m) /\ ClosedFrom(s)
  /\ stack' \in Seq(Value) /\ n <= Len(stack')
  /\ \A i \in 1..n : stack'[i] = stack[i]
  /\ \A i \in 1..Len(stack') : Created(stack'[i])
  /\ status' \in {"idle", "running", "stopped"}
  /\ status' = "idle" => d = 0
  /\ status' = "running" => d # 0

\* What stays needs nothing of what goes.
Enough(n, d, m, s) ==
  /\ d # 0 => frames[d].base + frames[d].locals <= n
  /\ d # 0 => \A u \in Upvals : Location(u) # Self /\ Location(u) < s => Location(u) < n
  /\ d < Len(frames) => s <= frames[d + 1].base
  /\ \A i \in 1..m : tries[i].depth <= d /\ tries[i].height <= n

LEMMA CutStep ==
  ASSUME IInv,
         NEW n \in 0..Top, NEW d \in 0..Len(frames), NEW m \in 0..Len(tries), NEW s \in Nat,
         Keeps(n, d, m, s), Enough(n, d, m, s)
  PROVE  IInv'
<1>1. /\ frames' \in Seq(Frames) /\ Len(frames') = d
      /\ \A k \in 1..d : frames'[k] = frames[k] /\ k \in 1..Len(frames)
  <2>1. frames \in Seq(Frames) /\ Len(frames) \in Nat
    BY ElementTypes DEF IInv, TypeOK
  <2>2. QED
    BY <2>1, PrefixFacts DEF Keeps
<1>2. /\ tries' \in Seq(Tries) /\ Len(tries') = m
      /\ \A i \in 1..m : tries'[i] = tries[i] /\ i \in 1..Len(tries)
  <2>1. tries \in Seq(Tries) /\ Len(tries) \in Nat
    BY ElementTypes DEF IInv, TypeOK
  <2>2. QED
    BY <2>1, PrefixFacts DEF Keeps
<1>3. /\ Top \in Nat /\ Len(stack') \in Nat /\ n \in Nat /\ n <= Top /\ n <= Len(stack')
      /\ Len(upvals) \in Nat /\ Len(upvals') = Len(upvals)
      /\ Len(frames) \in Nat /\ Len(tries) \in Nat
      /\ d \in Nat /\ d <= Len(frames)
  BY ElementTypes, LenProperties DEF IInv, Keeps, ClosedFrom
<1>4. /\ \A k \in 1..Len(frames) : frames[k].base \in Nat /\ frames[k].locals \in Nat
      /\ \A i \in 1..Len(tries) : tries[i].depth \in Nat /\ tries[i].height \in Nat
      /\ \A u \in Upvals : Location(u) \in Nat \cup {Self}
  BY ElementTypes DEF IInv
<1>5. Upvals' = Upvals /\ \A v : Created(v)' <=> Created(v)
  BY <1>3 DEF Created, Upvals
<1>6. \A u \in Upvals :
        \/ /\ Location(u) # Self /\ Location(u) >= s
           /\ upvals'[u] = [loc |-> Self, closed |-> Read(u)]
        \/ /\ Location(u) = Self \/ Location(u) < s
           /\ upvals'[u] = upvals[u]
  BY <1>4 DEF Keeps, ClosedFrom
<1>7. TypeOK'
  <2>1. Len(shadow') = Len(shadow) /\ shadow' \in Seq(Value) /\ Len(upvals') <= UpvalMax
        /\ Len(shadow') = Len(upvals')
    BY <1>3 DEF IInv, TypeOK, Keeps, ClosedFrom
  <2>2. QED
    BY <1>1, <1>2, <2>1 DEF TypeOK, Keeps, ClosedFrom
<1>8. CreatedOK'
  <2>1. ASSUME NEW u \in Upvals PROVE Created(upvals'[u].closed)
    <3>1. Created(Read(u))
      BY ReadFacts
    <3>2. Created(upvals[u].closed)
      BY DEF IInv, CreatedOK
    <3>3. CASE upvals'[u] = [loc |-> Self, closed |-> Read(u)]
      <4>1. upvals'[u].closed = Read(u)
        BY <3>3
      <4>2. QED
        BY <3>1, <4>1
    <3>4. CASE upvals'[u] = upvals[u]
      BY <3>2, <3>4
    <3>5. QED
      BY <1>6, <3>3, <3>4
  <2>2. \A k \in 1..Len(frames') : frames'[k].up <= Len(upvals')
    BY <1>1, <1>3 DEF IInv, CreatedOK
  <2>3. \A i \in 1..Len(open') : open'[i] \in Upvals
    BY DEF Keeps, ClosedFrom
  <2>4. \A i \in 1..Len(stack') : Created(stack'[i])
    BY DEF Keeps
  <2>5. QED
    BY <1>5, <2>1, <2>2, <2>3, <2>4 DEF CreatedOK
<1>9. FramesOK'
  <2>1. (status' = "idle" => frames' = << >>) /\ (status' = "running" => frames' # << >>)
    <3>1. d = 0 <=> frames' = << >>
      BY <1>1, EmptySeq
    <3>2. QED
      BY <3>1 DEF Keeps
  <2>2. \A j, k \in 1..Len(frames') :
          j < k => frames'[j].base + frames'[j].locals < frames'[k].base
    BY <1>1 DEF IInv, FramesOK
  <2>3. ASSUME NEW i \in 1..Len(tries')
        PROVE  /\ tries'[i].depth \in 1..Len(frames')
               /\ tries'[i].up = frames'[tries'[i].depth].up
               /\ tries'[i].height >= frames'[tries'[i].depth].base + frames'[tries'[i].depth].locals
               /\ tries'[i].depth < Len(frames') =>
                    tries'[i].height < frames'[tries'[i].depth + 1].base
    <3>1. /\ i \in 1..Len(tries) /\ tries'[i] = tries[i]
          /\ tries[i].depth <= d /\ tries[i].depth \in Nat
      BY <1>2, <1>4 DEF Enough
    <3>2. /\ tries[i].depth \in 1..Len(frames)
          /\ tries[i].up = frames[tries[i].depth].up
          /\ tries[i].height >= frames[tries[i].depth].base + frames[tries[i].depth].locals
          /\ tries[i].depth < Len(frames) => tries[i].height < frames[tries[i].depth + 1].base
      BY <3>1 DEF IInv, FramesOK
    <3>3. /\ tries[i].depth \in 1..d
          /\ tries[i].depth < d => tries[i].depth + 1 \in 1..d /\ tries[i].depth < Len(frames)
      BY <1>3, <3>1, <3>2, SMTT(30)
    <3>4. QED
      BY <1>1, <3>1, <3>2, <3>3
  <2>4. \A i, j \in 1..Len(tries') :
          i < j => tries'[i].depth <= tries'[j].depth /\ tries'[i].height <= tries'[j].height
    BY <1>2 DEF IInv, FramesOK
  <2>5. QED
    BY <2>1, <2>2, <2>3, <2>4 DEF FramesOK
<1>10. TopOK'
  <2>1. ASSUME frames' # << >> PROVE (Frame.base + Frame.locals)' <= Len(stack')
    <3>1. d # 0 /\ d \in 1..d /\ d \in 1..Len(frames)
      BY <1>1, <1>3, <2>1, EmptySeq
    <3>2. Frame' = frames[d]
      BY <1>1, <3>1 DEF Frame
    <3>3. QED
      BY <1>3, <1>4, <3>1, <3>2 DEF Enough
  <2>2. ASSUME NEW i \in 1..Len(tries') PROVE tries'[i].height <= Len(stack')
    <3>1. tries'[i] = tries[i] /\ tries[i].height \in Nat /\ tries[i].height <= n
      BY <1>2, <1>4 DEF Enough
    <3>2. QED
      BY <1>3, <3>1
  <2>3. QED
    BY <2>1, <2>2 DEF TopOK, Top
<1>11. CalleesOK'
  <2>1. ASSUME NEW k \in 2..Len(frames')
        PROVE  /\ stack'[frames'[k].base - 1 + 1] # Nil
               /\ UpvalOf(stack'[frames'[k].base - 1 + 1]) = frames'[k].up
    <3>1. k \in 1..d /\ k \in 2..Len(frames) /\ d # 0 /\ frames'[k] = frames[k]
      BY <1>1, <1>3
    <3>2. frames[k].base <= frames[d].base /\ frames[1].base + frames[1].locals < frames[k].base
      <4>1. 1 \in 1..Len(frames) /\ k \in 1..Len(frames) /\ d \in 1..Len(frames) /\ 1 < k
        BY <1>3, <3>1
      <4>2. /\ 1 < k => frames[1].base + frames[1].locals < frames[k].base
            /\ k < d => frames[k].base + frames[k].locals < frames[d].base
        BY <4>1 DEF IInv, FramesOK
      <4>3. QED
        BY <1>4, <3>1, <4>1, <4>2, SMTT(30)
    <3>3. frames[k].base \in 1..n
      <4>1. 1 \in 1..Len(frames) /\ d \in 1..Len(frames) /\ k \in 1..Len(frames)
        BY <1>3, <3>1
      <4>2. frames[d].base + frames[d].locals <= n
        BY <3>1 DEF Enough
      <4>3. /\ frames[1].base \in Nat /\ frames[1].locals \in Nat
            /\ frames[d].base \in Nat /\ frames[d].locals \in Nat /\ frames[k].base \in Nat
        BY <1>4, <4>1
      <4>4. \A a, b, c, e, f \in Nat :
              a + b < c /\ c <= e /\ e + f <= n => c \in 1..n
        BY <1>3
      <4>5. QED
        BY <3>2, <4>2, <4>3, <4>4
    <3>4. stack'[frames[k].base - 1 + 1] = stack[frames[k].base - 1 + 1]
      BY <3>3, SMTT(30) DEF Keeps
    <3>5. QED
      BY <3>1, <3>4 DEF IInv, CalleesOK, At
  <2>2. QED
    BY <2>1 DEF CalleesOK, At
<1>12. \A u \in Upvals :
         upvals'[u].loc # Self =>
           /\ upvals'[u].loc = Location(u) /\ Location(u) \in Nat /\ Location(u) < s
           /\ d # 0 /\ Location(u) < n
  <2>1. ASSUME NEW u \in Upvals, upvals'[u].loc # Self
        PROVE  /\ upvals'[u].loc = Location(u) /\ Location(u) \in Nat /\ Location(u) < s
               /\ d # 0 /\ Location(u) < n
    <3>1. /\ upvals'[u].loc = Location(u) /\ Location(u) # Self
          /\ Location(u) \in Nat /\ Location(u) < s
      <4>1. upvals'[u] # [loc |-> Self, closed |-> Read(u)]
        BY <2>1
      <4>2. upvals'[u] = upvals[u] /\ (Location(u) = Self \/ Location(u) < s)
        BY <1>6, <4>1
      <4>3. upvals'[u].loc = Location(u)
        BY <4>2 DEF Location
      <4>4. QED
        BY <1>4, <2>1, <4>2, <4>3
    <3>2. d # 0
      <4>1. frames # << >> /\ Location(u) >= frames[1].base
        BY <3>1 DEF IInv, PlacesOK
      <4>2. Len(frames) # 0
        BY <4>1, EmptySeq DEF IInv, TypeOK
      <4>3. d = 0 => s <= frames[1].base /\ frames[1].base \in Nat
        BY <1>3, <1>4, <4>2 DEF Enough
      <4>4. QED
        BY <3>1, <4>1, <4>3
    <3>3. QED
      BY <3>1, <3>2 DEF Enough
  <2>2. QED
    BY <2>1
<1>13. OpenListSorted'
  <2>1. \A u \in Upvals : upvals'[u].loc # Self <=> Location(u) # Self /\ Location(u) < s
    <3>1. ASSUME NEW u \in Upvals, Location(u) # Self, Location(u) < s
          PROVE  upvals'[u].loc # Self
      <4>1. upvals'[u] = upvals[u]
        <5>1. Location(u) \in Nat /\ ~(Location(u) >= s)
          BY <1>4, <3>1
        <5>2. QED
          BY <1>6, <5>1
      <4>2. QED
        BY <3>1, <4>1 DEF Location
    <3>2. \A u \in Upvals : Location(u) \in Nat => Location(u) # Self
      BY DEF Self
    <3>3. QED
      BY <1>12, <3>1, <3>2
  <2>2. \A u \in Upvals : upvals'[u].loc # Self <=> \E i \in 1..Len(open') : open'[i] = u
    BY <2>1 DEF Keeps, ClosedFrom
  <2>3. \A i \in 1..Len(open') :
          /\ open'[i] \in Upvals
          /\ upvals'[open'[i]].loc = Location(open'[i])
          /\ Location(open'[i]) < Len(stack')
    <3>1. ASSUME NEW i \in 1..Len(open')
          PROVE  /\ open'[i] \in Upvals /\ upvals'[open'[i]].loc = Location(open'[i])
                 /\ Location(open'[i]) < Len(stack')
      <4>1. open'[i] \in Upvals
        BY DEF Keeps, ClosedFrom
      <4>2. upvals'[open'[i]].loc # Self
        BY <2>2, <4>1
      <4>3. QED
        BY <1>3, <1>12, <4>1, <4>2
    <3>2. QED
      BY <3>1
  <2>4. \A i, j \in 1..Len(open') : i < j => upvals'[open'[i]].loc > upvals'[open'[j]].loc
    BY <2>3 DEF Keeps, ClosedFrom
  <2>5. QED
    BY <1>5, <2>2, <2>3, <2>4 DEF OpenListSorted, Location, Top
<1>14. PlacesOK'
  <2>1. ASSUME NEW u \in Upvals, upvals'[u].loc # Self
        PROVE  /\ frames' # << >>
               /\ upvals'[u].loc >= frames'[1].base
               /\ \A k \in 2..Len(frames') : upvals'[u].loc # frames'[k].base - 1
               /\ \A i \in 1..Len(tries') :
                    \/ upvals'[u].loc < tries'[i].height
                    \/ /\ tries'[i].depth < Len(frames')
                       /\ upvals'[u].loc >= frames'[tries'[i].depth + 1].base
    <3>1. /\ upvals'[u].loc = Location(u) /\ Location(u) \in Nat /\ Location(u) < s
          /\ d # 0 /\ Location(u) # Self
      BY <1>12, <2>1 DEF Self
    <3>2. frames' # << >> /\ 1 \in 1..d
      BY <1>1, <1>3, <3>1, EmptySeq
    <3>3. /\ Location(u) >= frames[1].base
          /\ \A k \in 2..Len(frames) : Location(u) # frames[k].base - 1
          /\ \A i \in 1..Len(tries) :
               \/ Location(u) < tries[i].height
               \/ /\ tries[i].depth < Len(frames)
                  /\ Location(u) >= frames[tries[i].depth + 1].base
      BY <3>1 DEF IInv, PlacesOK
    <3>4. ASSUME NEW k \in 2..Len(frames') PROVE upvals'[u].loc # frames'[k].base - 1
      <4>1. k \in 2..Len(frames) /\ frames'[k] = frames[k]
        BY <1>1, <1>3
      <4>2. QED
        BY <3>1, <3>3, <4>1
    <3>5. ASSUME NEW i \in 1..Len(tries'), ~(upvals'[u].loc < tries'[i].height)
          PROVE  /\ tries'[i].depth < Len(frames')
                 /\ upvals'[u].loc >= frames'[tries'[i].depth + 1].base
      <4>1. /\ i \in 1..Len(tries) /\ tries'[i] = tries[i]
            /\ tries[i].depth <= d /\ tries[i].depth \in Nat
        BY <1>2, <1>4 DEF Enough
      <4>2. /\ tries[i].depth < Len(frames)
            /\ Location(u) >= frames[tries[i].depth + 1].base
        BY <3>1, <3>3, <3>5, <4>1
      <4>3. tries[i].depth # d
        <5>1. ASSUME tries[i].depth = d PROVE FALSE
          <6>1. d < Len(frames) /\ s <= frames[d + 1].base /\ Location(u) >= frames[d + 1].base
            BY <4>2, <5>1 DEF Enough
          <6>2. d + 1 \in 1..Len(frames)
            BY <1>3, <6>1
          <6>3. QED
            BY <1>4, <3>1, <6>1, <6>2
        <5>2. QED
          BY <5>1
      <4>4. tries[i].depth < d /\ tries[i].depth + 1 \in 1..d
        BY <1>3, <4>1, <4>3
      <4>5. QED
        BY <1>1, <3>1, <4>1, <4>2, <4>4
    <3>6. upvals'[u].loc >= frames'[1].base
      BY <1>1, <3>1, <3>2, <3>3
    <3>7. QED
      BY <3>2, <3>4, <3>5, <3>6
  <2>2. QED
    BY <1>5, <2>1 DEF PlacesOK, Location
<1>15. CapturesHold'
  <2>1. ASSUME NEW u \in Upvals PROVE Read(u)' = shadow'[u]
    <3>1. shadow'[u] = Read(u)
      BY DEF IInv, CapturesHold, Keeps, ClosedFrom
    <3>2. CASE upvals'[u].loc = Self /\ upvals'[u] = upvals[u]
      BY <3>1, <3>2 DEF Read, Location
    <3>3. CASE upvals'[u] = [loc |-> Self, closed |-> Read(u)]
      <4>1. upvals'[u].loc = Self /\ upvals'[u].closed = Read(u)
        BY <3>3
      <4>2. Read(u)' = upvals'[u].closed
        BY <4>1 DEF Read, Location
      <4>3. QED
        BY <3>1, <4>1, <4>2
    <3>4. CASE upvals'[u].loc # Self
      <4>1. /\ upvals'[u].loc = Location(u) /\ Location(u) \in Nat
            /\ Location(u) < n /\ Location(u) # Self
        BY <1>12, <3>4 DEF Self
      <4>2. /\ Location(u) < Top /\ Location(u) < Len(stack') /\ Location(u) + 1 \in 1..n
        BY <1>3, <4>1
      <4>3. stack'[Location(u) + 1] = stack[Location(u) + 1]
        BY <4>2 DEF Keeps
      <4>4. Read(u)' = stack'[Location(u) + 1]
        BY <3>4, <4>1, <4>2 DEF Read, Location, At, Top
      <4>5. Read(u) = stack[Location(u) + 1]
        BY <4>1, <4>2 DEF Read, At
      <4>6. QED
        BY <3>1, <4>3, <4>4, <4>5
    <3>5. QED
      BY <1>6, <3>2, <3>3, <3>4
  <2>2. QED
    BY <1>5, <2>1 DEF CapturesHold
<1>16. QED
  BY <1>7, <1>8, <1>9, <1>10, <1>11, <1>13, <1>14, <1>15 DEF IInv

-----------------------------------------------------------------------------
(* Steps that add a frame, a handler or an upvalue. *)

\* Slots below the top that keep their values keep what upvalues read.
LEMMA ReadKept ==
  ASSUME IInv, NEW u \in Upvals, upvals'[u] = upvals[u],
         Top <= Len(stack'), Len(stack') \in Nat,
         \A i \in 1..Top : stack'[i] = stack[i]
  PROVE  Read(u)' = Read(u)
<1>1. CASE Location(u) = Self
  BY <1>1 DEF Read, Location
<1>2. CASE Location(u) # Self
  <2>1. Location(u) \in Nat /\ Location(u) < Top /\ Top \in Nat
    BY <1>2, ElementTypes DEF IInv, OpenListSorted
  <2>2. Location(u) < Len(stack') /\ Location(u) + 1 \in 1..Top
    BY <2>1
  <2>3. upvals'[u].loc = Location(u)
    BY DEF Location
  <2>4. stack'[Location(u) + 1] = stack[Location(u) + 1]
    BY <2>2
  <2>5. Read(u)' = stack'[Location(u) + 1]
    BY <1>2, <2>2, <2>3 DEF Read, Location, At, Top
  <2>6. Read(u) = stack[Location(u) + 1]
    BY <1>2, <2>1 DEF Read, At
  <2>7. QED
    BY <2>4, <2>5, <2>6
<1>3. QED
  BY <1>1, <1>2

\* vm_run on an idle VM.
LEMMA RunStep ==
  ASSUME IInv, NEW n \in Nat, Run(n)
  PROVE  IInv'
<1> DEFINE f == [base |-> Top, up |-> 0, locals |-> n]
<1>1. /\ frames = << >> /\ Len(frames) = 0 /\ status' = "running" /\ frames' = <<f>>
      /\ tries' = tries /\ upvals' = upvals /\ open' = open /\ shadow' = shadow
  BY DEF IInv, FramesOK, Run, KeepUpvals
<1>2. /\ stack' \in Seq(Value) /\ Len(stack') = Top + n
      /\ \A i \in 1..Top : stack'[i] = stack[i]
      /\ \A i \in Top + 1..Top + n : stack'[i] = Nil
  BY NilsFacts DEF IInv, TypeOK, Run, Top
<1>3. /\ Top \in Nat /\ Len(tries) = 0 /\ Top <= Len(stack') /\ Len(stack') \in Nat
      /\ Len(upvals) \in Nat
  <2>1. Top \in Nat /\ Len(tries) \in Nat /\ Len(upvals) \in Nat
    BY ElementTypes DEF IInv
  <2>2. Len(tries) = 0
    <3>1. \A i \in 1..Len(tries) : tries[i].depth \in 1..0
      BY <1>1 DEF IInv, FramesOK
    <3>2. QED
      BY <2>1, <3>1
  <2>3. QED
    BY <1>2, <2>1, <2>2
<1>4. f \in Frames /\ Len(frames') = 1 /\ frames'[1] = f /\ frames' \in Seq(Frames)
  BY <1>1, <1>3 DEF Frames
<1> HIDE DEF f
<1>5. \A u \in Upvals : Location(u) = Self
  BY <1>1 DEF IInv, PlacesOK
<1>6. Upvals' = Upvals
  BY <1>1 DEF Upvals
<1>7. TypeOK'
  BY <1>1, <1>2, <1>4 DEF IInv, TypeOK
<1>8. CreatedOK'
  <2>1. \A i \in 1..Len(stack') : Created(stack'[i])
    <3>1. ASSUME NEW i \in 1..Len(stack') PROVE Created(stack'[i])
      <4>1. CASE i <= Top
        BY <1>2, <1>3, <4>1 DEF IInv, CreatedOK, Top
      <4>2. CASE i > Top
        BY <1>2, <1>3, <4>2, DataIsValue DEF Created
      <4>3. QED
        BY <1>3, <4>1, <4>2
    <3>2. QED
      BY <3>1
  <2>2. \A k \in 1..Len(frames') : frames'[k].up <= Len(upvals')
    BY <1>1, <1>3, <1>4 DEF f
  <2>3. QED
    BY <1>1, <1>6, <2>1, <2>2 DEF IInv, CreatedOK, Created
<1>9. FramesOK'
  <2>1. frames' # << >> /\ Len(tries') = 0
    BY <1>1, <1>3
  <2>2. QED
    BY <1>1, <1>4, <2>1 DEF FramesOK
<1>10. TopOK'
  <2>1. Frame' = f
    BY <1>4 DEF Frame
  <2>2. QED
    BY <1>1, <1>2, <1>3, <2>1 DEF TopOK, Top, f
<1>11. CalleesOK'
  BY <1>4 DEF CalleesOK
<1>12. Len(open) = 0
  <2>1. \A i \in 1..Len(open) : open[i] \in Upvals
    BY DEF IInv, CreatedOK
  <2>2. \A u \in Upvals : ~ \E i \in 1..Len(open) : open[i] = u
    BY <1>5 DEF IInv, OpenListSorted
  <2>3. Len(open) \in Nat
    BY ElementTypes DEF IInv
  <2>4. QED
    BY <2>1, <2>2, <2>3
<1>13. OpenListSorted'
  BY <1>1, <1>5, <1>6, <1>12 DEF OpenListSorted, Location
<1>14. PlacesOK'
  BY <1>1, <1>5, <1>6 DEF PlacesOK, Location
<1>15. CapturesHold'
  BY <1>1, <1>2, <1>3, <1>6, ReadKept DEF CapturesHold, IInv
<1>16. QED
  BY <1>7, <1>8, <1>9, <1>10, <1>11, <1>13, <1>14, <1>15 DEF IInv

\* A call of the closure in slot b - 1, with Top - b arguments.
LEMMA EnterStep ==
  ASSUME IInv, Running, NEW b \in 1..Top, NEW extra \in Nat,
         Floor < b, ~Captured(b - 1), stack[b] # Nil,
         frames' = Append(frames, [base |-> b, up |-> UpvalOf(stack[b]),
                                   locals |-> (Top - b) + extra]),
         stack' = stack \o [i \in 1..extra |-> Nil],
         UNCHANGED <<status, tries>>, KeepUpvals
  PROVE  IInv'
<1> DEFINE f == [base |-> b, up |-> UpvalOf(stack[b]), locals |-> (Top - b) + extra]
           l == Len(frames)
<1>1. /\ Top \in Nat /\ b \in Nat /\ b <= Top /\ b > 0
      /\ l \in 1..l /\ l \in Nat /\ Len(tries) \in Nat /\ Len(upvals) \in Nat
  <2>1. frames # << >> /\ l \in Nat /\ Top \in Nat /\ Len(tries) \in Nat /\ Len(upvals) \in Nat
    BY ElementTypes DEF IInv, FramesOK, Running
  <2>2. l # 0
    BY <2>1, EmptySeq DEF IInv, TypeOK
  <2>3. QED
    BY <2>1, <2>2
<1>2. stack[b] \in Value /\ UpvalOf(stack[b]) \in Nat /\ UpvalOf(stack[b]) <= Len(upvals)
  <2>1. b \in 1..Len(stack)
    BY DEF Top
  <2>2. stack[b] \in Value /\ Created(stack[b])
    BY <2>1, ElementOfSeq DEF IInv, TypeOK, CreatedOK
  <2>3. QED
    BY <2>2, Values DEF Created
<1>3. f \in Frames
  BY <1>1, <1>2 DEF Frames
<1>4. f.base = b /\ f.up = UpvalOf(stack[b]) /\ f.locals = (Top - b) + extra
  OBVIOUS
<1>5. frames' = Append(frames, f)
  OBVIOUS
<1> HIDE DEF f
<1>6. /\ frames' \in Seq(Frames) /\ Len(frames') = l + 1
      /\ frames'[l + 1] = f
      /\ \A k \in 1..l : frames'[k] = frames[k]
  BY <1>3, <1>5, AppendProperties DEF IInv, TypeOK
<1>7. /\ stack' \in Seq(Value) /\ Len(stack') = Top + extra
      /\ \A i \in 1..Top : stack'[i] = stack[i]
      /\ \A i \in Top + 1..Top + extra : stack'[i] = Nil
  BY NilsFacts DEF IInv, TypeOK, Top
<1>8. /\ upvals' = upvals /\ open' = open /\ shadow' = shadow /\ Upvals' = Upvals
      /\ status' = status /\ tries' = tries
  BY DEF KeepUpvals, Upvals
<1>9. Top <= Len(stack') /\ Len(stack') \in Nat
  BY <1>1, <1>7
<1>10. /\ \A k \in 1..l : frames[k].base \in Nat /\ frames[k].locals \in Nat
       /\ \A i \in 1..Len(tries) : tries[i].depth \in Nat /\ tries[i].height \in Nat
  BY ElementTypes DEF IInv
<1>11. Floor \in Nat /\ frames[l].base + frames[l].locals <= Floor
       /\ \A i \in 1..Len(tries) : tries[i].height <= Floor
  BY FloorFacts DEF Frame
<1>12. TypeOK'
  BY <1>6, <1>7, <1>8 DEF IInv, TypeOK
<1>13. CreatedOK'
  <2>1. ASSUME NEW i \in 1..Len(stack') PROVE Created(stack'[i])
    <3>1. CASE i <= Top
      BY <1>1, <1>7, <3>1 DEF IInv, CreatedOK, Top
    <3>2. CASE i > Top
      <4>1. stack'[i] = Nil
        BY <1>1, <1>7, <3>2
      <4>2. QED
        BY <1>1, <4>1, DataIsValue DEF Created
    <3>3. QED
      BY <1>1, <3>1, <3>2
  <2>2. ASSUME NEW k \in 1..Len(frames') PROVE frames'[k].up <= Len(upvals')
    <3>1. CASE k = l + 1
      BY <1>2, <1>4, <1>6, <1>8, <3>1
    <3>2. CASE k \in 1..l
      BY <1>6, <1>8, <3>2 DEF IInv, CreatedOK
    <3>3. QED
      BY <1>1, <1>6, <3>1, <3>2
  <2>3. QED
    BY <1>8, <2>1, <2>2 DEF IInv, CreatedOK, Created
<1>14. \A k \in 1..l : frames[k].base + frames[k].locals < b /\ frames[k].base < b
  <2>1. ASSUME NEW k \in 1..l PROVE frames[k].base + frames[k].locals < b /\ frames[k].base < b
    <3>1. k < l => frames[k].base + frames[k].locals < frames[l].base
      BY <1>1 DEF IInv, FramesOK
    <3>2. frames[l].base + frames[l].locals < b /\ frames[l].base < b
      <4>1. \A g, h, x \in Nat : g + h <= x /\ x < b => g + h < b /\ g < b
        BY <1>1
      <4>2. QED
        BY <1>1, <1>10, <1>11, <4>1
    <3>3. CASE k < l
      <4>1. \A c, e, g \in Nat : c + e < g /\ g < b => c + e < b /\ c < b
        BY <1>1
      <4>2. QED
        BY <1>1, <1>10, <3>1, <3>2, <3>3, <4>1
    <3>4. QED
      BY <1>1, <3>2, <3>3
  <2>2. QED
    BY <2>1
<1>15. FramesOK'
  <2>1. (status' = "idle" => frames' = << >>) /\ (status' = "running" => frames' # << >>)
    <3>1. frames' # << >>
      BY <1>3, <1>5, AppendProperties DEF IInv, TypeOK
    <3>2. QED
      BY <1>8, <3>1 DEF Running
  <2>2. ASSUME NEW j \in 1..Len(frames'), NEW k \in 1..Len(frames'), j < k
        PROVE  frames'[j].base + frames'[j].locals < frames'[k].base
    <3>1. j \in 1..l
      BY <1>1, <1>6, <2>2
    <3>2. CASE k = l + 1
      BY <1>4, <1>6, <1>14, <3>1, <3>2
    <3>3. CASE k \in 1..l
      BY <1>6, <2>2, <3>1, <3>3 DEF IInv, FramesOK
    <3>4. QED
      BY <1>1, <1>6, <3>2, <3>3
  <2>3. ASSUME NEW i \in 1..Len(tries')
        PROVE  /\ tries'[i].depth \in 1..Len(frames')
               /\ tries'[i].up = frames'[tries'[i].depth].up
               /\ tries'[i].height >= frames'[tries'[i].depth].base + frames'[tries'[i].depth].locals
               /\ tries'[i].depth < Len(frames') =>
                    tries'[i].height < frames'[tries'[i].depth + 1].base
    <3>1. i \in 1..Len(tries) /\ tries'[i] = tries[i]
      BY <1>8
    <3>2. /\ tries[i].depth \in 1..l
          /\ tries[i].up = frames[tries[i].depth].up
          /\ tries[i].height >= frames[tries[i].depth].base + frames[tries[i].depth].locals
          /\ tries[i].depth < l => tries[i].height < frames[tries[i].depth + 1].base
      BY <3>1 DEF IInv, FramesOK
    <3>3. tries[i].depth \in 1..Len(frames') /\ frames'[tries[i].depth] = frames[tries[i].depth]
      BY <1>1, <1>6, <3>2
    <3>4. CASE tries[i].depth < l
      <4>1. tries[i].depth + 1 \in 1..l
        BY <1>1, <3>2, <3>4, SMTT(30)
      <4>2. QED
        BY <1>6, <3>1, <3>2, <3>3, <3>4, <4>1
    <3>5. CASE tries[i].depth = l
      <4>1. tries[i].height < b
        BY <1>1, <1>10, <1>11, <3>1
      <4>2. QED
        BY <1>4, <1>6, <3>1, <3>2, <3>3, <3>5, <4>1
    <3>6. QED
      BY <1>1, <3>2, <3>4, <3>5, SMTT(30)
  <2>4. QED
    BY <1>8, <2>1, <2>2, <2>3 DEF IInv, FramesOK
<1>16. TopOK'
  <2>1. Frame' = f
    BY <1>6 DEF Frame
  <2>2. f.base + f.locals = Top + extra
    BY <1>1, <1>4
  <2>3. ASSUME NEW i \in 1..Len(tries) PROVE tries[i].height <= Top + extra
    <3>1. tries[i].height <= Top /\ tries[i].height \in Nat
      BY <1>10 DEF IInv, TopOK
    <3>2. QED
      BY <1>1, <3>1
  <2>4. QED
    BY <1>1, <1>7, <1>8, <2>1, <2>2, <2>3 DEF TopOK, Top
<1>17. CalleesOK'
  <2>1. ASSUME NEW k \in 2..Len(frames')
        PROVE  /\ stack'[frames'[k].base - 1 + 1] # Nil
               /\ UpvalOf(stack'[frames'[k].base - 1 + 1]) = frames'[k].up
    <3>1. CASE k = l + 1
      <4>1. frames'[k].base - 1 + 1 = b
        BY <1>1, <1>4, <1>6, <3>1
      <4>2. QED
        BY <1>4, <1>6, <1>7, <3>1, <4>1
    <3>2. CASE k \in 2..l
      <4>1. k \in 1..l /\ 1 \in 1..l /\ 1 < k
        BY <1>1, <3>2
      <4>2. frames[1].base + frames[1].locals < frames[k].base
        BY <4>1 DEF IInv, FramesOK
      <4>3. \A c, e, g \in Nat : c + e < g /\ g < b => g - 1 + 1 \in 1..Top
        BY <1>1
      <4>4. frames[k].base - 1 + 1 \in 1..Top
        BY <1>10, <1>14, <4>1, <4>2, <4>3
      <4>5. frames'[k] = frames[k]
        BY <1>6, <4>1
      <4>6. stack'[frames[k].base - 1 + 1] = stack[frames[k].base - 1 + 1]
        BY <1>7, <4>4, <4>5
      <4>7. /\ stack[frames[k].base - 1 + 1] # Nil
            /\ UpvalOf(stack[frames[k].base - 1 + 1]) = frames[k].up
        BY <3>2 DEF IInv, CalleesOK, At
      <4>8. QED
        BY <4>5, <4>6, <4>7
    <3>3. k = l + 1 \/ k \in 2..l
      BY <1>1, <1>6
    <3>4. QED
      BY <3>1, <3>2, <3>3
  <2>2. QED
    BY <2>1 DEF CalleesOK, At
<1>18. \A u \in Upvals : Location(u) \in Nat \cup {Self}
  BY ElementTypes DEF IInv
<1>19. OpenListSorted'
  <2>1. ASSUME NEW i \in 1..Len(open) PROVE Location(open[i]) < Len(stack')
    <3>1. open[i] \in Upvals /\ Location(open[i]) < Top
      BY DEF IInv, CreatedOK, OpenListSorted
    <3>2. Location(open[i]) \in Int
      BY <1>18, <3>1 DEF Self
    <3>3. QED
      BY <1>1, <1>9, <3>1, <3>2
  <2>2. QED
    BY <1>8, <2>1 DEF IInv, OpenListSorted, Location, Top
<1>20. PlacesOK'
  <2>1. ASSUME NEW u \in Upvals, upvals'[u].loc # Self
        PROVE  /\ frames' # << >>
               /\ upvals'[u].loc >= frames'[1].base
               /\ \A k \in 2..Len(frames') : upvals'[u].loc # frames'[k].base - 1
               /\ \A i \in 1..Len(tries') :
                    \/ upvals'[u].loc < tries'[i].height
                    \/ /\ tries'[i].depth < Len(frames')
                       /\ upvals'[u].loc >= frames'[tries'[i].depth + 1].base
    <3>1. upvals'[u].loc = Location(u) /\ Location(u) # Self
      BY <1>8, <2>1 DEF Location
    <3>2. /\ Location(u) >= frames[1].base
          /\ \A k \in 2..l : Location(u) # frames[k].base - 1
          /\ \A i \in 1..Len(tries) :
               \/ Location(u) < tries[i].height
               \/ /\ tries[i].depth < l
                  /\ Location(u) >= frames[tries[i].depth + 1].base
      BY <3>1 DEF IInv, PlacesOK
    <3>3. frames' # << >> /\ frames'[1] = frames[1]
      BY <1>1, <1>3, <1>5, <1>6, AppendProperties DEF IInv, TypeOK
    <3>4. ASSUME NEW k \in 2..Len(frames') PROVE Location(u) # frames'[k].base - 1
      <4>1. CASE k = l + 1
        <5>1. PICK i \in 1..Len(open) : open[i] = u
          BY <3>1 DEF IInv, OpenListSorted
        <5>2. Location(u) # b - 1
          BY <5>1 DEF Captured, Location
        <5>3. QED
          BY <1>4, <1>6, <4>1, <5>2
      <4>2. CASE k \in 2..l
        BY <1>6, <3>2, <4>2
      <4>3. QED
        BY <1>1, <1>6, <4>1, <4>2
    <3>5. ASSUME NEW i \in 1..Len(tries), ~(Location(u) < tries[i].height)
          PROVE  /\ tries[i].depth < Len(frames')
                 /\ Location(u) >= frames'[tries[i].depth + 1].base
      <4>1. /\ tries[i].depth < l /\ tries[i].depth \in Nat
            /\ Location(u) >= frames[tries[i].depth + 1].base
        BY <1>10, <3>2, <3>5
      <4>2. tries[i].depth + 1 \in 1..l /\ tries[i].depth < l + 1
        BY <1>1, <4>1, SMTT(30)
      <4>3. QED
        BY <1>6, <4>1, <4>2
    <3>6. QED
      BY <1>8, <3>1, <3>2, <3>3, <3>4, <3>5
  <2>2. QED
    BY <1>8, <2>1 DEF PlacesOK, Location
<1>21. CapturesHold'
  BY <1>7, <1>8, <1>9, ReadKept DEF CapturesHold, IInv
<1>22. QED
  BY <1>12, <1>13, <1>15, <1>16, <1>17, <1>19, <1>20, <1>21 DEF IInv

LEMMA TryBeginStep ==
  ASSUME IInv, Running,
         tries' = Append(tries, [depth |-> Len(frames), height |-> Top, up |-> Frame.up]),
         UNCHANGED <<status, stack, frames>>, KeepUpvals
  PROVE  IInv'
<1> DEFINE t == [depth |-> Len(frames), height |-> Top, up |-> Frame.up]
           l == Len(tries)
<1>1. /\ Top \in Nat /\ Len(frames) \in Nat /\ Len(frames) \in 1..Len(frames) /\ l \in Nat
      /\ frames # << >>
  <2>1. frames # << >> /\ Len(frames) \in Nat /\ Top \in Nat /\ l \in Nat
    BY ElementTypes DEF IInv, FramesOK, Running
  <2>2. Len(frames) # 0
    BY <2>1, EmptySeq DEF IInv, TypeOK
  <2>3. QED
    BY <2>1, <2>2
<1>2. t \in Tries
  BY <1>1, ElementTypes DEF IInv, Tries, Frame
<1>3. t.depth = Len(frames) /\ t.height = Top /\ t.up = Frame.up
  OBVIOUS
<1>4. tries' = Append(tries, t)
  OBVIOUS
<1> HIDE DEF t
<1>5. /\ tries' \in Seq(Tries) /\ Len(tries') = l + 1
      /\ tries'[l + 1] = t
      /\ \A i \in 1..l : tries'[i] = tries[i]
  BY <1>2, <1>4, AppendProperties DEF IInv, TypeOK
<1>6. /\ upvals' = upvals /\ open' = open /\ shadow' = shadow /\ Upvals' = Upvals
      /\ status' = status /\ frames' = frames /\ stack' = stack
  BY DEF KeepUpvals, Upvals
<1>7. \A i \in 1..Len(tries') : i = l + 1 \/ i \in 1..l
  BY <1>1, <1>5
<1>8. TypeOK'
  BY <1>5, <1>6 DEF IInv, TypeOK
<1>9. FramesOK'
  <2>1. ASSUME NEW i \in 1..Len(tries')
        PROVE  /\ tries'[i].depth \in 1..Len(frames)
               /\ tries'[i].up = frames[tries'[i].depth].up
               /\ tries'[i].height >= frames[tries'[i].depth].base + frames[tries'[i].depth].locals
               /\ tries'[i].depth < Len(frames) =>
                    tries'[i].height < frames[tries'[i].depth + 1].base
    <3>1. CASE i = l + 1
      <4>1. frames[Len(frames)].base + frames[Len(frames)].locals <= Top
        BY <1>1 DEF IInv, TopOK, Frame
      <4>2. frames[Len(frames)].base \in Nat /\ frames[Len(frames)].locals \in Nat
        BY <1>1, ElementTypes DEF IInv
      <4>3. QED
        BY <1>1, <1>3, <1>5, <3>1, <4>1, <4>2 DEF Frame
    <3>2. CASE i \in 1..l
      BY <1>5, <3>2 DEF IInv, FramesOK
    <3>3. QED
      BY <1>7, <3>1, <3>2
  <2>2. ASSUME NEW i \in 1..Len(tries'), NEW j \in 1..Len(tries'), i < j
        PROVE  tries'[i].depth <= tries'[j].depth /\ tries'[i].height <= tries'[j].height
    <3>1. i \in 1..l
      BY <1>1, <1>5, <2>2
    <3>2. CASE j = l + 1
      <4>1. /\ tries[i].depth \in Nat /\ tries[i].depth <= Len(frames)
            /\ tries[i].height \in Nat /\ tries[i].height <= Top
        BY <1>1, <3>1, ElementTypes DEF IInv, FramesOK, TopOK
      <4>2. QED
        BY <1>3, <1>5, <3>1, <3>2, <4>1
    <3>3. CASE j \in 1..l
      BY <1>5, <2>2, <3>1, <3>3 DEF IInv, FramesOK
    <3>4. QED
      BY <1>7, <3>2, <3>3
  <2>3. QED
    BY <1>6, <2>1, <2>2, SMTT(30) DEF IInv, FramesOK
<1>10. TopOK'
  <2>1. ASSUME NEW i \in 1..Len(tries') PROVE tries'[i].height <= Top
    BY <1>1, <1>3, <1>5, <1>7 DEF IInv, TopOK
  <2>2. QED
    BY <1>6, <2>1 DEF IInv, TopOK, Top, Frame
<1>11. PlacesOK'
  <2>1. ASSUME NEW u \in Upvals, Location(u) # Self, NEW i \in 1..Len(tries')
        PROVE  \/ Location(u) < tries'[i].height
               \/ /\ tries'[i].depth < Len(frames)
                  /\ Location(u) >= frames[tries'[i].depth + 1].base
    <3>1. CASE i = l + 1
      BY <1>3, <1>5, <2>1, <3>1 DEF IInv, OpenListSorted
    <3>2. CASE i \in 1..l
      BY <1>5, <2>1, <3>2 DEF IInv, PlacesOK
    <3>3. QED
      BY <1>7, <3>1, <3>2
  <2>2. QED
    BY <1>6, <2>1 DEF IInv, PlacesOK, Location
<1>12. CreatedOK' /\ CalleesOK' /\ OpenListSorted' /\ CapturesHold'
  BY <1>6 DEF IInv, CreatedOK, CalleesOK, OpenListSorted, CapturesHold, Created,
              Location, Read, At, Top
<1>13. QED
  BY <1>8, <1>9, <1>10, <1>11, <1>12 DEF IInv

-----------------------------------------------------------------------------
(* Assignments. *)

\* A variable's slot gets a value: what its upvalue stands for gets it too.
LEMMA WriteStep ==
  ASSUME IInv, NEW s \in 0..Top - 1, NEW v \in Value, Created(v),
         \A k \in 2..Len(frames) : s # frames[k].base - 1,
         stack' = [stack EXCEPT ![s + 1] = v],
         shadow' \in Seq(Value), Len(shadow') = Len(shadow),
         \A u \in Upvals : shadow'[u] = IF Location(u) = s THEN v ELSE shadow[u],
         UNCHANGED <<status, frames, tries, upvals, open>>
  PROVE  IInv'
<1>1. Top \in Nat /\ s \in Nat /\ s + 1 \in 1..Top /\ Len(upvals) \in Nat
  BY ElementTypes DEF IInv
<1>2. /\ stack' \in Seq(Value) /\ Len(stack') = Top
      /\ \A i \in 1..Top : stack'[i] = IF i = s + 1 THEN v ELSE stack[i]
  <2>1. stack \in Seq(Value) /\ s + 1 \in 1..Len(stack)
    BY <1>1 DEF IInv, TypeOK, Top
  <2>2. QED
    BY <2>1, ExceptSeq DEF Top
<1>3. /\ status' = status /\ frames' = frames /\ tries' = tries
      /\ upvals' = upvals /\ open' = open /\ Upvals' = Upvals /\ Top' = Top
  BY <1>2 DEF Upvals, Top
<1>4. TypeOK'
  BY <1>2, <1>3 DEF IInv, TypeOK
<1>5. CreatedOK'
  BY <1>2, <1>3 DEF IInv, CreatedOK, Created, Top
<1>6. FramesOK' /\ TopOK' /\ PlacesOK' /\ OpenListSorted'
  <2>1. FramesOK' /\ TopOK'
    BY <1>3 DEF IInv, FramesOK, TopOK, Frame
  <2>2. PlacesOK'
    BY <1>3 DEF IInv, PlacesOK, Location
  <2>3. OpenListSorted'
    BY <1>3 DEF IInv, OpenListSorted, Location
  <2>4. QED
    BY <2>1, <2>2, <2>3
<1>7. CalleesOK'
  <2>1. ASSUME NEW k \in 2..Len(frames)
        PROVE  stack'[frames[k].base - 1 + 1] = stack[frames[k].base - 1 + 1]
    <3>1. k \in 1..Len(frames) /\ 1 \in 1..Len(frames) /\ 1 < k
      BY ElementTypes DEF IInv
    <3>2. /\ frames[1].base + frames[1].locals < frames[k].base
          /\ frames[k].base <= Frame.base /\ Frame.base + Frame.locals <= Top
          /\ Len(frames) \in 1..Len(frames) /\ Frame = frames[Len(frames)]
      BY <3>1, FrameOrder, EmptySeq DEF IInv, TopOK, FramesOK
    <3>3. /\ frames[1].base \in Nat /\ frames[1].locals \in Nat /\ frames[k].base \in Nat
          /\ Frame.base \in Nat /\ Frame.locals \in Nat
      BY <3>1, <3>2, ElementTypes DEF IInv
    <3>4. \A a, b, c, e, f \in Nat : a + b < c /\ c <= e /\ e + f <= Top /\ s # c - 1 =>
            c - 1 + 1 \in 1..Top /\ c - 1 + 1 # s + 1
      BY <1>1, SMTT(30)
    <3>5. frames[k].base - 1 + 1 \in 1..Top /\ frames[k].base - 1 + 1 # s + 1
      BY <3>2, <3>3, <3>4
    <3>6. QED
      BY <1>2, <3>5
  <2>2. QED
    BY <1>3, <2>1 DEF IInv, CalleesOK, At
<1>8. CapturesHold'
  <2>1. ASSUME NEW u \in Upvals PROVE Read(u)' = shadow'[u]
    <3>1. CASE Location(u) = Self
      <4>1. Location(u) # s
        BY <1>1, <3>1 DEF Self
      <4>2. QED
        BY <1>3, <3>1, <4>1 DEF IInv, CapturesHold, Read, Location
    <3>2. CASE Location(u) # Self
      <4>1. Location(u) \in Nat /\ Location(u) < Top
        BY <3>2, ElementTypes DEF IInv, OpenListSorted
      <4>2. Location(u) + 1 \in 1..Top /\ (Location(u) + 1 = s + 1 <=> Location(u) = s)
        BY <1>1, <4>1
      <4>3. Read(u)' = stack'[Location(u) + 1]
        BY <1>3, <3>2, <4>1 DEF Read, Location, At, Top
      <4>4. Read(u) = stack[Location(u) + 1] /\ Read(u) = shadow[u]
        BY <3>2, <4>1 DEF Read, At, IInv, CapturesHold
      <4>5. QED
        BY <1>2, <4>2, <4>3, <4>4
    <3>3. QED
      BY <3>1, <3>2
  <2>2. QED
    BY <1>3, <2>1 DEF CapturesHold
<1>9. QED
  BY <1>4, <1>5, <1>6, <1>7, <1>8 DEF IInv

-----------------------------------------------------------------------------
(* Capturing a variable that has no open upvalue yet. *)

LEMMA NewUpvalStep ==
  ASSUME IInv, Running, ~CaptureInTry, NEW s \in 0..Top - 1, Variable(s),
         NEW n \in 0..Len(open), Passes(n, s),
         ~(n < Len(open) /\ Location(open[n + 1]) = s),
         NewUpval(n, s), UNCHANGED <<status, frames, tries>>
  PROVE  IInv'
<1> DEFINE m == Len(upvals)
           u0 == m + 1
           c == [loc |-> s, closed |-> Nil]
           l == Len(frames)
<1>1. /\ Top \in Nat /\ s \in Nat /\ s < Top /\ m \in Nat /\ m < UpvalMax /\ UpvalMax \in Nat
      /\ Len(open) \in Nat /\ n \in Nat /\ n <= Len(open) /\ l \in 1..l /\ l \in Nat
      /\ frames # << >>
  <2>1. frames # << >> /\ l \in Nat
    BY ElementTypes DEF IInv, FramesOK, Running
  <2>2. l # 0
    BY <2>1, EmptySeq DEF IInv, TypeOK
  <2>3. QED
    BY <2>1, <2>2, ElementTypes, ExecAssumption, SMTT(30) DEF IInv, NewUpval
<1>2. c \in Cells /\ c.loc = s /\ c.closed = Nil /\ s # Self
  BY <1>1, DataIsValue DEF Cells, Self
<1>3. upvals' = Append(upvals, c) /\ open' = InsertAt(open, n + 1, u0)
      /\ shadow' = Append(shadow, stack[s + 1]) /\ stack' = Append(stack, Closure(u0))
      /\ status' = status /\ frames' = frames /\ tries' = tries
  BY DEF NewUpval, At
<1> HIDE DEF c
<1>4. /\ upvals' \in Seq(Cells) /\ Len(upvals') = m + 1 /\ upvals'[m + 1] = c
      /\ \A u \in 1..m : upvals'[u] = upvals[u]
  BY <1>2, <1>3, AppendProperties DEF IInv, TypeOK
<1>5. s + 1 \in 1..Len(stack) /\ stack[s + 1] \in Value
  <2>1. s + 1 \in 1..Len(stack)
    BY <1>1 DEF Top
  <2>2. QED
    BY <2>1, ElementOfSeq DEF IInv, TypeOK
<1>6. /\ shadow' \in Seq(Value) /\ Len(shadow') = m + 1 /\ shadow'[m + 1] = stack[s + 1]
      /\ \A u \in 1..m : shadow'[u] = shadow[u]
  <2>1. shadow \in Seq(Value) /\ Len(shadow) = m /\ shadow' = Append(shadow, stack[s + 1])
    BY <1>3 DEF IInv, TypeOK
  <2>2. QED
    BY <1>5, <2>1, AppendProperties
<1>7. Closure(u0) \in Value /\ UpvalOf(Closure(u0)) = u0
  BY <1>1, ClosureIsValue
<1>8. /\ stack' \in Seq(Value) /\ Len(stack') = Top + 1 /\ stack'[Top + 1] = Closure(u0)
      /\ \A i \in 1..Top : stack'[i] = stack[i]
  BY <1>3, <1>7, AppendProperties DEF IInv, TypeOK, Top
<1>9. /\ open' \in Seq(Nat) /\ Len(open') = Len(open) + 1
      /\ \A i \in 1..n : open'[i] = open[i]
      /\ open'[n + 1] = u0
      /\ \A i \in n + 2..Len(open) + 1 : open'[i] = open[i - 1]
  <2>1. u0 \in Nat /\ open \in Seq(Nat)
    BY <1>1 DEF IInv, TypeOK
  <2> HIDE DEF u0
  <2>2. n + 1 \in 1..Len(open) + 1 /\ (n + 1) - 1 = n /\ (n + 1) + 1 = n + 2
    BY <1>1
  <2> DEFINE r == InsertAt(open, n + 1, u0)
  <2> DEFINE N == Nat
             p == n + 1
  <2>3. open \in Seq(N) /\ u0 \in N /\ p \in 1..Len(open) + 1
    BY <2>1, <2>2
  <2> HIDE DEF N, p
  <2>4. /\ InsertAt(open, p, u0) \in Seq(N) /\ Len(InsertAt(open, p, u0)) = Len(open) + 1
        /\ \A i \in 1..p - 1 : InsertAt(open, p, u0)[i] = open[i]
        /\ InsertAt(open, p, u0)[p] = u0
        /\ \A i \in p + 1..Len(open) + 1 : InsertAt(open, p, u0)[i] = open[i - 1]
    BY <2>3, InsertFacts
  <2>5. /\ r \in Seq(Nat) /\ Len(r) = Len(open) + 1
        /\ \A i \in 1..(n + 1) - 1 : r[i] = open[i]
        /\ r[n + 1] = u0
        /\ \A i \in (n + 1) + 1..Len(open) + 1 : r[i] = open[i - 1]
    BY <2>4 DEF N, p
  <2>6. open' = r
    BY <1>3
  <2> HIDE DEF r
  <2>7. QED
    BY <2>2, <2>5, <2>6
<1> DEFINE old(i) == IF i <= n THEN i ELSE i - 1
<1>10. \A i \in 1..Len(open') :
         \/ i = n + 1 /\ open'[i] = u0
         \/ i # n + 1 /\ old(i) \in 1..Len(open) /\ open'[i] = open[old(i)]
  <2>1. ASSUME NEW i \in 1..Len(open'), i # n + 1
        PROVE  old(i) \in 1..Len(open) /\ open'[i] = open[old(i)]
    <3>1. i \in 1..n \/ i \in n + 2..Len(open) + 1
      BY <1>1, <1>9, <2>1
    <3>2. QED
      BY <1>1, <1>9, <3>1, SMTT(30)
  <2>2. QED
    BY <1>9, <2>1
<1>11. Upvals = 1..m /\ Upvals' = 1..m + 1 /\ \A u \in Upvals' : u = m + 1 \/ u \in Upvals
  BY <1>1, <1>4 DEF Upvals
<1>12. \A v \in Value : Created(v) => UpvalOf(v) <= m + 1
  <2>1. \A a \in Nat : a <= m => a <= m + 1
    BY <1>1
  <2>2. \A v \in Value : UpvalOf(v) \in Nat
    BY Values
  <2>3. QED
    BY <2>1, <2>2 DEF Created
<1>13. TypeOK'
  <2>1. Len(upvals') <= UpvalMax
    BY <1>1, <1>4
  <2>2. QED
    BY <1>3, <1>4, <1>6, <1>8, <1>9, <2>1 DEF IInv, TypeOK
<1>14. CreatedOK'
  <2>1. ASSUME NEW i \in 1..Len(stack') PROVE UpvalOf(stack'[i]) <= m + 1
    <3>1. CASE i = Top + 1
      BY <1>1, <1>7, <1>8, <3>1
    <3>2. CASE i \in 1..Top
      <4>1. stack[i] \in Value /\ Created(stack[i])
        BY <3>2, ElementTypes DEF IInv, CreatedOK, Top
      <4>2. QED
        BY <1>8, <1>12, <3>2, <4>1
    <3>3. QED
      BY <1>1, <1>8, <3>1, <3>2
  <2>2. ASSUME NEW u \in Upvals' PROVE UpvalOf(upvals'[u].closed) <= m + 1
    <3>1. CASE u = m + 1
      BY <1>1, <1>2, <1>4, <3>1, DataIsValue
    <3>2. CASE u \in Upvals
      <4>1. upvals[u].closed \in Value /\ Created(upvals[u].closed)
        BY <3>2, ElementTypes DEF IInv, CreatedOK
      <4>2. QED
        BY <1>4, <1>11, <1>12, <3>2, <4>1
    <3>3. QED
      BY <1>11, <3>1, <3>2
  <2>3. ASSUME NEW k \in 1..Len(frames) PROVE frames[k].up <= m + 1
    <3>1. frames[k].up \in Nat /\ frames[k].up <= m
      BY ElementTypes DEF IInv, CreatedOK
    <3>2. QED
      BY <1>1, <3>1
  <2>4. ASSUME NEW i \in 1..Len(open') PROVE open'[i] \in Upvals'
    <3>1. CASE open'[i] = u0
      BY <1>1, <1>11, <3>1
    <3>2. CASE old(i) \in 1..Len(open) /\ open'[i] = open[old(i)]
      <4>1. open[old(i)] \in 1..m
        BY <1>11, <3>2 DEF IInv, CreatedOK
      <4>2. QED
        BY <1>1, <1>11, <3>2, <4>1
    <3>3. QED
      BY <1>10, <3>1, <3>2
  <2>5. QED
    BY <1>3, <1>4, <2>1, <2>2, <2>3, <2>4 DEF CreatedOK, Created
<1>15. FramesOK'
  BY <1>3 DEF IInv, FramesOK
<1>16. TopOK'
  <2>1. Frame.base + Frame.locals <= Top + 1
    <3>1. /\ Frame.base + Frame.locals <= Top /\ Frame.base \in Nat /\ Frame.locals \in Nat
      BY <1>1, ElementTypes DEF IInv, TopOK, Frame
    <3>2. QED
      BY <1>1, <3>1
  <2>2. ASSUME NEW i \in 1..Len(tries) PROVE tries[i].height <= Top + 1
    <3>1. tries[i].height <= Top /\ tries[i].height \in Nat
      BY ElementTypes DEF IInv, TopOK
    <3>2. QED
      BY <1>1, <3>1
  <2>3. QED
    BY <1>3, <1>8, <2>1, <2>2 DEF TopOK, Top, Frame
<1>17. CalleesOK'
  <2>1. ASSUME NEW k \in 2..Len(frames)
        PROVE  stack'[frames[k].base - 1 + 1] = stack[frames[k].base - 1 + 1]
    <3>1. k \in 1..Len(frames) /\ 1 \in 1..Len(frames) /\ 1 < k
      BY <1>1
    <3>2. /\ frames[1].base + frames[1].locals < frames[k].base
          /\ frames[k].base <= Frame.base /\ Frame.base + Frame.locals <= Top
      BY <1>1, <3>1, FrameOrder DEF IInv, TopOK
    <3>3. /\ frames[1].base \in Nat /\ frames[1].locals \in Nat /\ frames[k].base \in Nat
          /\ Frame.base \in Nat /\ Frame.locals \in Nat
      BY <1>1, <3>1, ElementTypes DEF IInv, Frame
    <3>4. \A a, b, d, e, f \in Nat : a + b < d /\ d <= e /\ e + f <= Top => d - 1 + 1 \in 1..Top
      BY <1>1
    <3>5. frames[k].base - 1 + 1 \in 1..Top
      BY <3>2, <3>3, <3>4
    <3>6. QED
      BY <1>8, <3>5
  <2>2. QED
    BY <1>3, <2>1 DEF IInv, CalleesOK, At
<1>18. /\ \A i \in 1..Len(open) : open[i] \in Upvals /\ Location(open[i]) \in Nat
       /\ \A i \in 1..Len(open) : Location(open[i]) < Top
       /\ \A i, j \in 1..Len(open) : i < j => Location(open[i]) > Location(open[j])
  <2>1. \A i \in 1..Len(open) : open[i] \in Upvals
    BY DEF IInv, CreatedOK
  <2>2. \A i \in 1..Len(open) : Location(open[i]) # Self
    BY <2>1 DEF IInv, OpenListSorted
  <2>3. \A i \in 1..Len(open) : Location(open[i]) \in Nat
    BY <2>1, <2>2, ElementTypes DEF IInv
  <2>4. QED
    BY <2>1, <2>3 DEF IInv, OpenListSorted
<1>19. \A i \in 1..Len(open) :
         (i <= n => Location(open[i]) > s) /\ (i > n => Location(open[i]) < s)
  <2>1. ASSUME NEW i \in 1..Len(open), i <= n PROVE Location(open[i]) > s
    BY <1>1, <2>1 DEF Passes
  <2>2. ASSUME NEW i \in 1..Len(open), i > n PROVE Location(open[i]) < s
    <3>1. n < Len(open) /\ n + 1 \in 1..Len(open)
      BY <1>1, <2>2
    <3>2. Location(open[n + 1]) <= s /\ Location(open[n + 1]) # s
      BY <3>1 DEF Passes
    <3>3. Location(open[n + 1]) \in Nat /\ Location(open[i]) \in Nat
      BY <1>18, <3>1
    <3>4. CASE i = n + 1
      BY <1>1, <3>2, <3>3, <3>4
    <3>5. CASE n + 1 < i
      <4>1. Location(open[n + 1]) > Location(open[i])
        BY <1>18, <3>1, <3>5
      <4>2. QED
        BY <1>1, <3>2, <3>3, <4>1
    <3>6. QED
      BY <1>1, <2>2, <3>4, <3>5
  <2>3. QED
    BY <2>1, <2>2
<1>20. /\ upvals'[u0].loc = s
       /\ \A u \in Upvals : upvals'[u] = upvals[u] /\ upvals'[u].loc = Location(u) /\ u # u0
  BY <1>1, <1>2, <1>4, <1>11 DEF Location
<1>21. OpenListSorted'
  <2>1. ASSUME NEW u \in Upvals'
        PROVE  upvals'[u].loc # Self <=> \E i \in 1..Len(open') : open'[i] = u
    <3>1. CASE u = u0
      <4>1. n + 1 \in 1..Len(open')
        BY <1>1, <1>9
      <4>2. QED
        BY <1>2, <1>9, <1>20, <3>1, <4>1
    <3>2. CASE u \in Upvals
      <4>1. ASSUME NEW i \in 1..Len(open'), open'[i] = u
            PROVE  \E j \in 1..Len(open) : open[j] = u
        BY <1>10, <1>20, <3>2, <4>1
      <4>2. ASSUME NEW j \in 1..Len(open), open[j] = u
            PROVE  \E i \in 1..Len(open') : open'[i] = u
        <5>1. CASE j <= n
          <6>1. j \in 1..Len(open') /\ j \in 1..n
            BY <1>1, <1>9, <5>1
          <6>2. QED
            BY <1>9, <4>2, <6>1
        <5>2. CASE j > n
          <6>1. j + 1 \in 1..Len(open') /\ j + 1 \in n + 2..Len(open) + 1 /\ (j + 1) - 1 = j
            BY <1>1, <1>9, <5>2
          <6>2. QED
            BY <1>9, <4>2, <6>1
        <5>3. QED
          BY <1>1, <5>1, <5>2
      <4>3. Location(u) # Self <=> \E j \in 1..Len(open) : open[j] = u
        BY <3>2 DEF IInv, OpenListSorted
      <4>4. QED
        BY <1>20, <3>2, <4>1, <4>2, <4>3
    <3>3. QED
      BY <1>11, <3>1, <3>2
  <2>2. ASSUME NEW i \in 1..Len(open'), NEW j \in 1..Len(open'), i < j
        PROVE  upvals'[open'[i]].loc > upvals'[open'[j]].loc
    <3>1. CASE i = n + 1
      <4>1. old(j) \in 1..Len(open) /\ open'[j] = open[old(j)] /\ old(j) > n
        BY <1>1, <1>10, <2>2, <3>1
      <4>2. PICK k \in 1..Len(open) : open'[j] = open[k] /\ k > n
        BY <4>1
      <4>3. upvals'[open'[j]].loc = Location(open[k]) /\ Location(open[k]) < s
        BY <1>18, <1>19, <1>20, <4>2
      <4>4. upvals'[open'[i]].loc = s /\ Location(open[k]) \in Nat
        BY <1>9, <1>18, <1>20, <3>1
      <4>5. QED
        BY <1>1, <4>3, <4>4
    <3>2. CASE j = n + 1
      <4>1. old(i) \in 1..Len(open) /\ open'[i] = open[old(i)] /\ old(i) <= n
        BY <1>1, <1>10, <2>2, <3>2
      <4>2. PICK k \in 1..Len(open) : open'[i] = open[k] /\ k <= n
        BY <4>1
      <4>3. upvals'[open'[i]].loc = Location(open[k]) /\ Location(open[k]) > s
        BY <1>18, <1>19, <1>20, <4>2
      <4>4. upvals'[open'[j]].loc = s /\ Location(open[k]) \in Nat
        BY <1>9, <1>18, <1>20, <3>2
      <4>5. QED
        BY <1>1, <4>3, <4>4
    <3>3. CASE i # n + 1 /\ j # n + 1
      <4>1. /\ old(i) \in 1..Len(open) /\ open'[i] = open[old(i)]
            /\ old(j) \in 1..Len(open) /\ open'[j] = open[old(j)]
            /\ old(i) < old(j)
        BY <1>1, <1>10, <2>2, <3>3
      <4>2. PICK k \in 1..Len(open), h \in 1..Len(open) :
              open'[i] = open[k] /\ open'[j] = open[h] /\ k < h
        BY <4>1
      <4>3. Location(open[k]) > Location(open[h])
        BY <1>18, <4>2
      <4>4. /\ upvals'[open'[i]].loc = Location(open[k])
            /\ upvals'[open'[j]].loc = Location(open[h])
        BY <1>18, <1>20, <4>2
      <4>5. QED
        BY <4>3, <4>4
    <3>4. QED
      BY <3>1, <3>2, <3>3
  <2>3. ASSUME NEW i \in 1..Len(open') PROVE upvals'[open'[i]].loc < Len(stack')
    <3>1. CASE i = n + 1
      BY <1>1, <1>8, <1>9, <1>20, <3>1
    <3>2. CASE i # n + 1
      <4>1. old(i) \in 1..Len(open) /\ open'[i] = open[old(i)]
        BY <1>10, <3>2
      <4>2. Location(open[old(i)]) < Top /\ Location(open[old(i)]) \in Nat
        BY <1>18, <4>1
      <4>3. QED
        BY <1>1, <1>8, <1>18, <1>20, <4>1, <4>2, SMTT(30)
    <3>3. QED
      BY <3>1, <3>2
  <2>4. QED
    BY <2>1, <2>2, <2>3 DEF OpenListSorted, Location, Top
<1>22. PlacesOK'
  <2>1. /\ Frame = frames[l] /\ Frame.base \in Nat /\ Frame.locals \in Nat /\ s >= Frame.base
    BY <1>1, ElementTypes DEF IInv, Frame, Variable
  <2>2. ASSUME NEW k \in 1..l PROVE frames[k].base \in Nat /\ frames[k].base <= s
    <3>1. frames[k].base \in Nat /\ frames[k].base <= Frame.base
      BY FrameOrder, ElementTypes DEF IInv
    <3>2. QED
      BY <1>1, <2>1, <3>1
  <2>3. s >= frames[1].base
    <3>1. 1 \in 1..l
      BY <1>1
    <3>2. QED
      BY <1>1, <2>2, <3>1
  <2>4. ASSUME NEW k \in 2..l PROVE s # frames[k].base - 1
    <3>1. k \in 1..l
      BY <1>1
    <3>2. \A b \in Nat : b <= s => s # b - 1
      BY <1>1
    <3>3. QED
      BY <2>2, <3>1, <3>2
  <2>5. ASSUME NEW i \in 1..Len(tries)
        PROVE  \/ s < tries[i].height
               \/ /\ tries[i].depth < l
                  /\ s >= frames[tries[i].depth + 1].base
    <3>1. /\ tries[i].depth \in 1..l /\ tries[i].height \in Nat
          /\ tries[i].height >= frames[tries[i].depth].base + frames[tries[i].depth].locals
      BY ElementTypes DEF IInv, FramesOK
    <3>2. CASE tries[i].depth < l
      <4>1. tries[i].depth + 1 \in 1..l
        BY <1>1, <3>1, <3>2, SMTT(30)
      <4>2. frames[tries[i].depth + 1].base \in Nat /\ frames[tries[i].depth + 1].base <= s
        BY <2>2, <4>1
      <4>3. QED
        BY <1>1, <3>2, <4>2
    <3>3. CASE tries[i].depth = l
      <4>1. i \in OwnTries
        BY <3>3 DEF OwnTries
      <4>2. s < Frame.base + Frame.locals \/ s < tries[i].height
        BY <4>1 DEF Variable
      <4>3. tries[i].height >= Frame.base + Frame.locals
        BY <2>1, <3>1, <3>3
      <4>4. \A b, q, h \in Nat : h >= b + q /\ (s < b + q \/ s < h) => s < h
        BY <1>1
      <4>5. QED
        BY <2>1, <3>1, <4>2, <4>3, <4>4
    <3>4. QED
      BY <1>1, <3>1, <3>2, <3>3
  <2>6. ASSUME NEW u \in Upvals', upvals'[u].loc # Self
        PROVE  /\ upvals'[u].loc >= frames[1].base
               /\ \A k \in 2..Len(frames) : upvals'[u].loc # frames[k].base - 1
               /\ \A i \in 1..Len(tries) :
                    \/ upvals'[u].loc < tries[i].height
                    \/ /\ tries[i].depth < Len(frames)
                       /\ upvals'[u].loc >= frames[tries[i].depth + 1].base
    <3>1. CASE u = u0
      BY <1>20, <2>3, <2>4, <2>5, <3>1
    <3>2. CASE u \in Upvals
      BY <1>20, <2>6, <3>2 DEF IInv, PlacesOK
    <3>3. QED
      BY <1>11, <3>1, <3>2
  <2>7. QED
    BY <1>1, <1>3, <2>6 DEF PlacesOK, Location
<1>23. CapturesHold'
  <2>1. ASSUME NEW u \in Upvals' PROVE Read(u)' = shadow'[u]
    <3>1. CASE u = u0
      <4>1. upvals'[u].loc = s /\ s # Self /\ s < Len(stack') /\ s + 1 \in 1..Top
        BY <1>1, <1>2, <1>8, <1>20, <3>1
      <4>2. Read(u)' = stack'[s + 1]
        BY <4>1 DEF Read, Location, At, Top
      <4>3. QED
        BY <1>6, <1>8, <3>1, <4>1, <4>2
    <3>2. CASE u \in Upvals
      <4>1. Top <= Len(stack') /\ Len(stack') \in Nat
        BY <1>1, <1>8
      <4>2. Read(u)' = Read(u)
        BY <1>8, <1>20, <3>2, <4>1, ReadKept
      <4>3. QED
        BY <1>6, <1>11, <3>2, <4>2 DEF IInv, CapturesHold
    <3>3. QED
      BY <1>11, <3>1, <3>2
  <2>2. QED
    BY <2>1 DEF CapturesHold
<1>24. QED
  BY <1>13, <1>14, <1>15, <1>16, <1>17, <1>21, <1>22, <1>23 DEF IInv

-----------------------------------------------------------------------------
(* The actions. *)

\* A step that leaves frames, handlers and upvalues alone, and the stack up to
\* slot n, above the operands' floor, with no captured slot above.
LEMMA OperandStep ==
  ASSUME IInv, Running, NEW n \in 0..Top, Floor <= n,
         \A s \in n..Top - 1 : ~Captured(s),
         stack' \in Seq(Value), n <= Len(stack'),
         \A i \in 1..n : stack'[i] = stack[i],
         \A i \in 1..Len(stack') : Created(stack'[i]),
         status' \in {"running", "stopped"},
         UNCHANGED <<frames, tries>>, KeepUpvals
  PROVE  IInv'
<1> DEFINE d == Len(frames)
           m == Len(tries)
<1>1. /\ frames # << >> /\ d \in Nat /\ m \in Nat /\ d # 0 /\ Top \in Nat /\ d \in 1..d
  <2>1. frames # << >> /\ d \in Nat /\ m \in Nat /\ Top \in Nat
    BY ElementTypes DEF IInv, FramesOK, Running
  <2>2. d # 0
    BY <2>1, EmptySeq DEF IInv, TypeOK
  <2>3. QED
    BY <2>1, <2>2
<1>2. ClosedFrom(Top)
  BY KeepIsClosed
<1>3. frames' = SubSeq(frames, 1, d) /\ tries' = SubSeq(tries, 1, m)
  BY SubSeqFull DEF IInv, TypeOK
<1>4. Keeps(n, d, m, Top)
  BY <1>1, <1>2, <1>3 DEF Keeps
<1>5. Enough(n, d, m, Top)
  <2>1. frames[d].base + frames[d].locals <= n /\ \A i \in 1..m : tries[i].height <= n
    <3>1. /\ Frame.base + Frame.locals <= Floor /\ Floor \in Nat
          /\ \A i \in 1..m : tries[i].height <= Floor
      BY FloorFacts
    <3>2. /\ Frame.base \in Nat /\ Frame.locals \in Nat
          /\ \A i \in 1..m : tries[i].height \in Nat
      BY <1>1, ElementTypes DEF IInv, Frame
    <3>3. \A a, b, x \in Nat : (a + b <= x /\ x <= n => a + b <= n) /\ (a <= x /\ x <= n => a <= n)
      BY <1>1
    <3>4. QED
      BY <3>1, <3>2, <3>3 DEF Frame
  <2>2. ASSUME NEW u \in Upvals, Location(u) # Self PROVE Location(u) < n
    <3>1. PICK i \in 1..Len(open) : open[i] = u
      BY <2>2 DEF IInv, OpenListSorted
    <3>2. Location(u) \in Nat /\ Location(u) < Top
      BY <2>2, ElementTypes DEF IInv, OpenListSorted
    <3>3. Captured(Location(u))
      BY <3>1 DEF Captured, Location
    <3>4. QED
      BY <1>1, <3>2, <3>3
  <2>3. \A i \in 1..m : tries[i].depth <= d
    BY <1>1 DEF IInv, FramesOK
  <2>4. ~(d < d)
    BY <1>1
  <2>5. QED
    BY <2>1, <2>2, <2>3, <2>4 DEF Enough
<1>6. d \in 0..Len(frames) /\ m \in 0..Len(tries)
  BY <1>1
<1>7. QED
  BY <1>1, <1>4, <1>5, <1>6, CutStep

\* Pushing a value that names existing upvalues.
LEMMA PushStep ==
  ASSUME IInv, Running, NEW v \in Value, Created(v), stack' = Append(stack, v),
         UNCHANGED <<status, frames, tries>>, KeepUpvals
  PROVE  IInv'
<1>1. Top \in Nat /\ stack \in Seq(Value)
  BY ElementTypes DEF IInv, TypeOK
<1>2. /\ stack' \in Seq(Value) /\ Len(stack') = Top + 1
      /\ \A i \in 1..Top : stack'[i] = stack[i]
      /\ stack'[Top + 1] = v
  BY <1>1, AppendProperties DEF Top
<1>3. \A i \in 1..Len(stack') : Created(stack'[i])
  <2>1. \A i \in 1..Len(stack') : i = Top + 1 \/ i \in 1..Top
    BY <1>1, <1>2
  <2>2. \A i \in 1..Top : Created(stack[i])
    BY DEF IInv, CreatedOK, Top
  <2>3. QED
    BY <1>2, <2>1, <2>2
<1>4. Floor <= Top
  <2>1. CASE OwnTries = {}
    BY <2>1 DEF IInv, TopOK, FramesOK, Running, Floor
  <2>2. CASE OwnTries # {}
    <3>1. Len(tries) \in 1..Len(tries)
      BY <2>2, ElementTypes DEF IInv, OwnTries
    <3>2. QED
      BY <2>2, <3>1 DEF IInv, TopOK, Floor
  <2>3. QED
    BY <2>1, <2>2
<1>5. Top \in 0..Top /\ Top <= Len(stack') /\ \A s \in Top..Top - 1 : ~Captured(s)
  BY <1>1, <1>2
<1>6. status' \in {"running", "stopped"}
  BY DEF Running
<1>7. QED
  BY <1>2, <1>3, <1>4, <1>5, <1>6, OperandStep

\* A step that only stops the VM, or none at all.
LEMMA StopStep ==
  ASSUME IInv, UNCHANGED <<stack, frames, tries>>, KeepUpvals,
         status' = "stopped" \/ status' = status
  PROVE  IInv'
<1>1. /\ upvals' = upvals /\ open' = open /\ shadow' = shadow
      /\ stack' = stack /\ frames' = frames /\ tries' = tries
  BY DEF KeepUpvals
<1>2. TypeOK' /\ FramesOK'
  BY <1>1 DEF IInv, TypeOK, FramesOK
<1>3. CreatedOK' /\ TopOK' /\ CalleesOK'
  BY <1>1 DEF IInv, CreatedOK, Created, TopOK, CalleesOK, At, Top, Frame, Upvals
<1>4. OpenListSorted' /\ PlacesOK' /\ CapturesHold'
  <2>1. OpenListSorted'
    BY <1>1 DEF IInv, OpenListSorted, Location, Upvals, Top
  <2>2. PlacesOK'
    BY <1>1 DEF IInv, PlacesOK, Location, Upvals, Top, At
  <2>3. CapturesHold'
    BY <1>1 DEF IInv, CapturesHold, Read, Location, At, Upvals, Top
  <2>4. QED
    BY <2>1, <2>2, <2>3
<1>5. QED
  BY <1>2, <1>3, <1>4 DEF IInv

LEMMA LoadIInv ==
  ASSUME IInv, LoadConst \/ (Running /\ LoadLocal) \/ (Running /\ LoadUpval)
  PROVE  IInv'
<1>1. CASE LoadConst
  <2>1. Created(Datum)
    BY DataIsValue, ElementTypes DEF IInv, Created
  <2>2. QED
    BY <1>1, <2>1, DataIsValue, PushStep DEF LoadConst, Push
<1>2. CASE Running /\ LoadLocal
  <2>1. PICK i \in 0..Frame.locals - 1 : Push(At(Frame.base + i))
    BY <1>2 DEF LoadLocal
  <2>2. Frame.base \in Nat /\ Frame.locals \in Nat /\ Frame.base + Frame.locals <= Top /\ Top \in Nat
    BY <1>2, RunningFrame
  <2>3. Frame.base + i + 1 \in 1..Top
    BY <2>2
  <2>4. At(Frame.base + i) \in Value /\ Created(At(Frame.base + i))
    BY <2>3, ElementTypes DEF IInv, CreatedOK, At, Top
  <2>5. QED
    BY <2>1, <2>4, PushStep DEF Push
<1>3. CASE Running /\ LoadUpval
  <2>1. Frame.up \in Upvals
    BY <1>3, RunningFrame DEF LoadUpval
  <2>2. QED
    BY <1>3, <2>1, ReadFacts, PushStep DEF LoadUpval, Push
<1>4. QED
  BY <1>1, <1>2, <1>3

LEMMA StoreLocalIInv ==
  ASSUME IInv, NEW i \in Nat, StoreLocal(i)
  PROVE  IInv'
<1> DEFINE s == Frame.base + i
           v == Peek(0)
<1>1. /\ frames # << >> /\ Len(frames) \in 1..Len(frames)
      /\ Frame.base \in Nat /\ Frame.locals \in Nat
      /\ Frame.base + Frame.locals <= Top /\ Top \in Nat /\ i < Frame.locals
  BY RunningFrame DEF StoreLocal
<1>2. s \in 0..Top - 1 /\ Top \in 1..Top /\ s \in Nat
  BY <1>1
<1>3. v \in Value /\ Created(v)
  <2>1. v = stack[Top]
    BY <1>1 DEF Peek
  <2>2. QED
    BY <1>2, <2>1, ElementTypes DEF IInv, CreatedOK, Top
<1>4. ASSUME NEW k \in 2..Len(frames) PROVE s # frames[k].base - 1
  <2>1. frames[k].base \in Nat /\ frames[k].base <= Frame.base
    BY <1>1, FrameOrder, ElementTypes DEF IInv
  <2>2. \A b \in Nat : b <= Frame.base => s # b - 1
    BY <1>1
  <2>3. QED
    BY <2>1, <2>2
<1>5. /\ stack' = [stack EXCEPT ![s + 1] = v]
      /\ shadow' = [u \in Upvals |-> IF Location(u) = s THEN v ELSE shadow[u]]
      /\ UNCHANGED <<status, frames, tries, upvals, open>>
  BY DEF StoreLocal
<1> HIDE DEF s, v
<1>6. shadow' \in Seq(Value) /\ Len(shadow') = Len(shadow)
  <2>1. shadow' \in [1..Len(shadow) -> Value] /\ Len(shadow) \in Nat
    BY <1>3, <1>5, ElementTypes DEF IInv, TypeOK, Upvals
  <2>2. QED
    BY <2>1
<1>7. \A u \in Upvals : shadow'[u] = IF Location(u) = s THEN v ELSE shadow[u]
  BY <1>5
<1>8. QED
  BY <1>2, <1>3, <1>4, <1>5, <1>6, <1>7, WriteStep

LEMMA StoreUpvalIInv ==
  ASSUME IInv, StoreUpval
  PROVE  IInv'
<1> DEFINE u0 == Frame.up
           s == Location(u0)
           v == Peek(0)
<1>1. /\ u0 \in Upvals /\ Top \in Nat /\ Top \in 1..Top /\ Len(shadow) = Len(upvals)
      /\ upvals[u0] \in Cells
  <2>2. u0 \in Upvals
    BY RunningFrame DEF StoreUpval
  <2>3. Floor \in Nat /\ Top > Floor /\ Top \in Nat
    BY FloorFacts, ElementTypes DEF IInv, StoreUpval
  <2>4. QED
    BY <2>2, <2>3, ElementTypes DEF IInv, TypeOK
<1>2. v \in Value /\ Created(v)
  <2>1. v = stack[Top]
    BY <1>1 DEF Peek
  <2>2. QED
    BY <1>1, <2>1, ElementTypes DEF IInv, CreatedOK, Top
<1>3. /\ shadow' = [shadow EXCEPT ![u0] = v]
      /\ IF s = Self
         THEN upvals' = [upvals EXCEPT ![u0].closed = v] /\ stack' = stack
         ELSE stack' = [stack EXCEPT ![s + 1] = v] /\ upvals' = upvals
      /\ UNCHANGED <<status, frames, tries, open>>
  BY DEF StoreUpval
<1> HIDE DEF u0, v
<1>4. /\ shadow' \in Seq(Value) /\ Len(shadow') = Len(shadow)
      /\ \A u \in Upvals : shadow'[u] = IF u = u0 THEN v ELSE shadow[u]
  BY <1>1, <1>2, <1>3, ExceptSeq DEF IInv, TypeOK, Upvals
<1>5. CASE s # Self
  <2>1. s \in Nat /\ s < Top
    BY <1>1, <1>5, ElementTypes DEF IInv, OpenListSorted
  <2>2. s \in 0..Top - 1
    BY <1>1, <2>1
  <2>3. \A k \in 2..Len(frames) : s # frames[k].base - 1
    BY <1>1, <1>5 DEF IInv, PlacesOK
  <2>4. \A u \in Upvals : u = u0 <=> Location(u) = s
    BY <1>1, <1>5, OnePerSlot
  <2>5. /\ stack' = [stack EXCEPT ![s + 1] = v]
        /\ UNCHANGED <<status, frames, tries, upvals, open>>
    BY <1>3, <1>5
  <2> HIDE DEF s
  <2>6. \A u \in Upvals : shadow'[u] = IF Location(u) = s THEN v ELSE shadow[u]
    BY <1>4, <2>4
  <2>7. QED
    BY <1>2, <1>4, <2>2, <2>3, <2>5, <2>6, WriteStep
<1>6. CASE s = Self
  <2> DEFINE c == [upvals[u0] EXCEPT !.closed = v]
  <2>1. /\ upvals' = [upvals EXCEPT ![u0] = c] /\ stack' = stack
        /\ status' = status /\ frames' = frames /\ tries' = tries /\ open' = open
    BY <1>3, <1>6
  <2>2. c \in Cells /\ c.loc = s /\ c.closed = v
    BY <1>1, <1>2, <1>6 DEF Cells, Location
  <2> HIDE DEF c
  <2>3. /\ upvals' \in Seq(Cells) /\ Len(upvals') = Len(upvals)
        /\ \A u \in Upvals : upvals'[u] = IF u = u0 THEN c ELSE upvals[u]
    BY <1>1, <2>1, <2>2, ExceptSeq DEF IInv, TypeOK, Upvals
  <2>4. Upvals' = Upvals /\ Top' = Top /\ \A u \in Upvals : Location(u)' = Location(u)
    BY <2>1, <2>2, <2>3 DEF Upvals, Top, Location
  <2>5. TypeOK'
    BY <1>4, <2>1, <2>3 DEF IInv, TypeOK
  <2>6. CreatedOK'
    BY <1>2, <2>1, <2>2, <2>3, <2>4 DEF IInv, CreatedOK, Created
  <2>7. FramesOK' /\ TopOK' /\ CalleesOK'
    BY <2>1 DEF IInv, FramesOK, TopOK, CalleesOK, At, Top, Frame
  <2>8. OpenListSorted'
    <3>1. \A i \in 1..Len(open) : Location(open[i])' = Location(open[i])
      BY <2>4, <2>1 DEF IInv, CreatedOK
    <3>2. QED
      BY <2>1, <2>4, <3>1 DEF IInv, OpenListSorted
  <2>9. PlacesOK'
    BY <2>1, <2>4 DEF IInv, PlacesOK
  <2>10. CapturesHold'
    <3>1. ASSUME NEW u \in Upvals PROVE Read(u)' = shadow'[u]
      <4>1. CASE u = u0
        <5>1. upvals'[u] = c
          BY <2>3, <4>1
        <5>2. Read(u)' = v
          BY <1>6, <2>2, <5>1 DEF Read, Location
        <5>3. QED
          BY <1>4, <4>1, <5>2
      <4>2. CASE u # u0
        <5>1. upvals'[u] = upvals[u]
          BY <2>3, <4>2
        <5>2. Read(u)' = Read(u)
          BY <2>1, <5>1 DEF Read, Location, At, Top
        <5>3. QED
          BY <1>4, <4>2, <5>2 DEF IInv, CapturesHold
      <4>3. QED
        BY <4>1, <4>2
    <3>2. QED
      BY <2>4, <3>1 DEF CapturesHold
  <2>11. QED
    BY <2>5, <2>6, <2>7, <2>8, <2>9, <2>10 DEF IInv
<1>7. QED
  BY <1>5, <1>6

LEMMA TemporaryFacts ==
  ASSUME IInv, Running, NEW k \in Nat, Temporary(k)
  PROVE  /\ Top - k \in 0..Top /\ Floor <= Top - k
         /\ \A s \in Top - k..Top - 1 : ~Captured(s)
<1>1. Floor \in Nat /\ Top \in Nat /\ Top - k >= Floor
  BY FloorFacts, RunningFrame DEF Temporary
<1>2. QED
  BY <1>1 DEF Temporary

LEMMA PopIInv ==
  ASSUME IInv, Pop
  PROVE  IInv'
<1> DEFINE n == Top - 1
<1>1. /\ Running /\ n \in 0..Top /\ Floor <= n /\ \A s \in n..Top - 1 : ~Captured(s)
  BY TemporaryFacts DEF Pop
<1>2. stack # << >> /\ Top \in Nat
  BY <1>1, RunningFrame DEF Top
<1>3. stack' \in Seq(Value) /\ Len(stack') = n /\ \A i \in 1..n : stack'[i] = stack[i]
  BY <1>2, FrontFacts DEF IInv, TypeOK, Pop, Top
<1>4. \A i \in 1..Len(stack') : Created(stack'[i])
  BY <1>2, <1>3 DEF IInv, CreatedOK, Top
<1>5. n <= Len(stack') /\ status' \in {"running", "stopped"}
  BY <1>1, <1>2, <1>3 DEF Pop, Running
<1>6. UNCHANGED <<frames, tries>> /\ KeepUpvals
  BY DEF Pop
<1> HIDE DEF n
<1>7. QED
  BY <1>1, <1>3, <1>4, <1>5, <1>6, OperandStep

LEMMA CloseUpvalIInv ==
  ASSUME IInv, CloseUpval
  PROVE  IInv'
<1> DEFINE n == Top - 1
           d == Len(frames)
           m == Len(tries)
<1>1. /\ Running /\ Floor \in Nat /\ Top > Floor /\ Top \in Nat /\ d \in Nat /\ d # 0
      /\ d \in 1..d /\ m \in Nat
  BY RunningFrame, FloorFacts, ElementTypes DEF CloseUpval, IInv
<1>2. n \in Nat /\ n \in 0..Top /\ Floor <= n /\ n < Top
  BY <1>1
<1>3. stack # << >>
  BY <1>1 DEF Top
<1>4. stack' \in Seq(Value) /\ Len(stack') = n /\ \A i \in 1..n : stack'[i] = stack[i]
  BY <1>3, FrontFacts DEF IInv, TypeOK, CloseUpval, Top
<1>5. \A i \in 1..Len(stack') : Created(stack'[i])
  BY <1>1, <1>4 DEF IInv, CreatedOK, Top
<1>6. ClosedFrom(n)
  BY <1>2, CloseIsClosed DEF CloseUpval
<1>7. frames' = SubSeq(frames, 1, d) /\ tries' = SubSeq(tries, 1, m)
  BY SubSeqFull DEF IInv, TypeOK, CloseUpval
<1>8. Keeps(n, d, m, n)
  BY <1>1, <1>2, <1>4, <1>5, <1>6, <1>7 DEF Keeps, CloseUpval, Running
<1>9. Enough(n, d, m, n)
  <2>1. frames[d].base + frames[d].locals <= n /\ \A i \in 1..m : tries[i].height <= n
    <3>1. /\ Frame.base + Frame.locals <= Floor
          /\ \A i \in 1..m : tries[i].height <= Floor
      BY <1>1, FloorFacts
    <3>2. /\ Frame.base \in Nat /\ Frame.locals \in Nat /\ Frame = frames[d]
          /\ \A i \in 1..m : tries[i].height \in Nat
      BY <1>1, RunningFrame, ElementTypes DEF IInv
    <3>3. \A a, b \in Nat : (a + b <= Floor => a + b <= n) /\ (a <= Floor => a <= n)
      BY <1>1, <1>2
    <3>4. QED
      BY <3>1, <3>2, <3>3
  <2>2. \A i \in 1..m : tries[i].depth <= d
    BY <1>1 DEF IInv, FramesOK
  <2>3. ~(d < d)
    BY <1>1
  <2>4. QED
    BY <2>1, <2>2, <2>3 DEF Enough
<1>10. d \in 0..Len(frames) /\ m \in 0..Len(tries)
  BY <1>1
<1>11. QED
  BY <1>2, <1>8, <1>9, <1>10, CutStep

LEMMA MakeClosureIInv ==
  ASSUME IInv, ~CaptureInTry, MakeClosure
  PROVE  IInv'
<1>1. Running /\ UNCHANGED <<status, frames, tries>>
  BY DEF MakeClosure
<1>2. CASE stack' = Append(stack, Datum) /\ KeepUpvals
  <2>1. Created(Datum)
    BY DataIsValue, ElementTypes DEF IInv, Created
  <2>2. QED
    BY <1>1, <1>2, <2>1, DataIsValue, PushStep
<1>3. \A u \in Upvals : Closure(u) \in Value /\ Created(Closure(u))
  <2>1. \A u \in Upvals : u \in 1..UpvalMax /\ u <= Len(upvals)
    BY ElementTypes, ExecAssumption DEF IInv, TypeOK, Upvals
  <2>2. QED
    BY <2>1, ClosureIsValue DEF Created
<1>4. CASE Frame.up # 0 /\ stack' = Append(stack, Closure(Frame.up)) /\ KeepUpvals
  <2>1. Frame.up \in Upvals
    BY <1>1, <1>4, RunningFrame
  <2>2. QED
    BY <1>1, <1>3, <1>4, <2>1, PushStep
<1>5. CASE \E s \in 0..Top - 1 : Variable(s) /\ Capture(s)
  <2>1. PICK s \in 0..Top - 1 : Variable(s) /\ Capture(s)
    BY <1>5
  <2>2. PICK n \in 0..Len(open) :
          /\ Passes(n, s)
          /\ IF n < Len(open) /\ Location(open[n + 1]) = s
             THEN stack' = Append(stack, Closure(open[n + 1])) /\ KeepUpvals
             ELSE NewUpval(n, s)
    BY <2>1 DEF Capture
  <2>3. CASE n < Len(open) /\ Location(open[n + 1]) = s
    <3>1. open[n + 1] \in Upvals
      BY <2>3, ElementTypes DEF IInv, CreatedOK
    <3>2. QED
      BY <1>1, <1>3, <2>2, <2>3, <3>1, PushStep
  <2>4. CASE ~(n < Len(open) /\ Location(open[n + 1]) = s)
    BY <1>1, <2>1, <2>2, <2>4, NewUpvalStep
  <2>5. QED
    BY <2>3, <2>4
<1>6. QED
  BY <1>2, <1>4, <1>5 DEF MakeClosure

LEMMA EnterIInv ==
  ASSUME IInv, Running, NEW nargs \in Nat, NEW extra \in Nat,
         Temporary(nargs + 1), Peek(nargs) # Nil, Enter(Peek(nargs), nargs, extra)
  PROVE  IInv'
<1> DEFINE b == Top - nargs
<1>1. /\ Top \in Nat /\ b \in 1..Top /\ Floor < b /\ ~Captured(b - 1) /\ Top - b = nargs
  <2>1. /\ Top - (nargs + 1) \in 0..Top /\ Floor <= Top - (nargs + 1)
        /\ \A s \in Top - (nargs + 1)..Top - 1 : ~Captured(s)
    BY TemporaryFacts
  <2>2. Top \in Nat /\ Floor \in Nat
    BY RunningFrame, FloorFacts
  <2>3. b - 1 \in Top - (nargs + 1)..Top - 1
    BY <2>2
  <2>4. QED
    BY <2>1, <2>2, <2>3
<1>2. Peek(nargs) = stack[b]
  BY DEF Peek
<1>3. /\ frames' = Append(frames, [base |-> b, up |-> UpvalOf(stack[b]),
                                   locals |-> (Top - b) + extra])
      /\ stack' = stack \o [i \in 1..extra |-> Nil]
      /\ UNCHANGED <<status, tries>> /\ KeepUpvals
  BY <1>1, <1>2 DEF Enter
<1> HIDE DEF b
<1>4. QED
  BY <1>1, <1>2, <1>3, EnterStep

LEMMA CallIInv ==
  ASSUME IInv, NEW nargs \in Nat, NEW extra \in Nat,
         Call(nargs, extra) \/ CallMethod(nargs, extra)
  PROVE  IInv'
<1>1. CASE CallMethod(nargs, extra)
  BY <1>1, EnterIInv DEF CallMethod
<1>2. CASE Call(nargs, extra) /\ Len(frames) < FrameMax
  BY <1>2, EnterIInv DEF Call
<1>3. CASE Call(nargs, extra) /\ ~(Len(frames) < FrameMax)
  BY <1>3, StopStep DEF Call, Stop
<1>4. QED
  BY <1>1, <1>2, <1>3

LEMMA CallNativeIInv ==
  ASSUME IInv, NEW nargs \in Nat, CallNative(nargs)
  PROVE  IInv'
<1> DEFINE n == Top - nargs - 1
<1>1. /\ Running /\ Top \in Nat /\ n \in 0..Top /\ n \in 0..Len(stack) /\ Floor <= n
      /\ \A s \in n..Top - 1 : ~Captured(s)
  <2>1. Running /\ Top \in Nat /\ Temporary(nargs + 1)
    BY RunningFrame DEF CallNative
  <2>2. n = Top - (nargs + 1)
    BY <2>1
  <2>3. QED
    BY <2>1, <2>2, TemporaryFacts DEF Top
<1>2. /\ stack' = Append(SubSeq(stack, 1, n), Datum)
      /\ KeepUpvals /\ UNCHANGED <<status, frames, tries>>
  BY DEF CallNative
<1> HIDE DEF n
<1> DEFINE p == SubSeq(stack, 1, n)
<1>3. p \in Seq(Value) /\ Len(p) = n /\ \A i \in 1..n : p[i] = stack[i]
  BY <1>1, PrefixFacts DEF IInv, TypeOK
<1>4. stack' = Append(p, Datum)
  BY <1>2
<1> HIDE DEF p
<1>5. /\ stack' \in Seq(Value) /\ Len(stack') = n + 1
      /\ \A i \in 1..n : stack'[i] = stack[i]
      /\ stack'[n + 1] = Datum
  BY <1>3, <1>4, AppendProperties, DataIsValue
<1>6. \A i \in 1..Len(stack') : Created(stack'[i])
  <2>1. \A i \in 1..Len(stack') : i = n + 1 \/ (i \in 1..n /\ i \in 1..Len(stack))
    BY <1>1, <1>5
  <2>2. Created(Datum)
    BY DataIsValue, ElementTypes DEF IInv, Created
  <2>3. QED
    BY <1>5, <2>1, <2>2 DEF IInv, CreatedOK
<1>7. n <= Len(stack') /\ status' \in {"running", "stopped"}
  BY <1>1, <1>2, <1>5 DEF Running
<1>8. QED
  BY <1>1, <1>2, <1>5, <1>6, <1>7, OperandStep

\* A prefix of the stack with a value on top.
LEMMA ResultOnPrefix ==
  ASSUME IInv, NEW n \in 0..Top, NEW v \in Value, Created(v),
         stack' = Append(SubSeq(stack, 1, n), v)
  PROVE  /\ stack' \in Seq(Value) /\ n <= Len(stack')
         /\ \A i \in 1..n : stack'[i] = stack[i]
         /\ \A i \in 1..Len(stack') : Created(stack'[i])
<1> DEFINE p == SubSeq(stack, 1, n)
<1>1. p \in Seq(Value) /\ Len(p) = n /\ \A i \in 1..n : p[i] = stack[i]
  BY PrefixFacts DEF IInv, TypeOK, Top
<1>2. stack' = Append(p, v)
  OBVIOUS
<1> HIDE DEF p
<1>3. /\ stack' \in Seq(Value) /\ Len(stack') = n + 1
      /\ \A i \in 1..n : stack'[i] = stack[i]
      /\ stack'[n + 1] = v
  BY <1>1, <1>2, AppendProperties
<1>4. \A i \in 1..Len(stack') : i = n + 1 \/ (i \in 1..n /\ i \in 1..Top)
  BY <1>3, ElementTypes DEF IInv
<1>5. \A i \in 1..Len(stack') : Created(stack'[i])
  BY <1>3, <1>4 DEF IInv, CreatedOK, Top
<1>6. QED
  BY <1>3, <1>5

LEMMA LeaveIInv ==
  ASSUME IInv, ~ReturnInTry, Running, NEW result \in Value, Created(result), Leave(result)
  PROVE  IInv'
<1> DEFINE d == Len(frames) - 1
           m == Len(tries)
           s == Frame.base
           n == IF d = 0 THEN 0 ELSE s - 1
<1>1. /\ frames # << >> /\ Len(frames) \in Nat /\ Len(frames) \in 1..Len(frames)
      /\ d \in Nat /\ d + 1 = Len(frames) /\ d \in 0..Len(frames) /\ m \in Nat /\ m \in 0..m
      /\ s \in Nat /\ Frame = frames[d + 1] /\ Top \in Nat /\ s <= Top /\ Frame.locals \in Nat
  <2>1. m \in Nat
    BY ElementTypes DEF IInv
  <2>2. QED
    BY <2>1, RunningFrame
<1>2. d # 0 => /\ frames[d].base + frames[d].locals < s
               /\ frames[d].base \in Nat /\ frames[d].locals \in Nat
  <2>1. ASSUME d # 0 PROVE d \in 1..Len(frames) /\ d + 1 \in 1..Len(frames) /\ d < d + 1
    BY <1>1, <2>1
  <2>2. QED
    BY <1>1, <2>1, ElementTypes DEF IInv, FramesOK
<1>3. n \in 0..Top /\ n \in Nat
  BY <1>1, <1>2, SMTT(30)
<1>4. frames' = SubSeq(frames, 1, d) /\ tries' = SubSeq(tries, 1, m)
  BY SubSeqFull DEF IInv, TypeOK, Leave, Front
<1>5. ClosedFrom(s)
  BY <1>1, CloseIsClosed DEF Leave
<1>6. /\ stack' \in Seq(Value) /\ n <= Len(stack')
      /\ \A i \in 1..n : stack'[i] = stack[i]
      /\ \A i \in 1..Len(stack') : Created(stack'[i])
  <2>1. CASE d = 0
    <3>1. stack' = <<result>> /\ n = 0
      BY <1>1, <2>1 DEF Leave
    <3>2. Len(<<result>>) = 1 /\ <<result>> \in Seq(Value) /\ <<result>>[1] = result
      OBVIOUS
    <3>3. QED
      BY <3>1, <3>2
  <2>2. CASE d # 0
    <3>1. stack' = Append(SubSeq(stack, 1, n), result)
      BY <1>1, <2>2 DEF Leave
    <3>2. QED
      BY <1>3, <3>1, ResultOnPrefix
  <2>3. QED
    BY <2>1, <2>2
<1>7. /\ status' \in {"idle", "running", "stopped"}
      /\ status' = "idle" => d = 0
      /\ status' = "running" => d # 0
  BY <1>1 DEF Leave, Running
<1>8. Keeps(n, d, m, s)
  BY <1>4, <1>5, <1>6, <1>7 DEF Keeps
<1>9. Enough(n, d, m, s)
  <2>1. d # 0 => frames[d].base + frames[d].locals <= n
    BY <1>1, <1>2
  <2>2. ASSUME d # 0, NEW u \in Upvals, Location(u) # Self, Location(u) < s
        PROVE  Location(u) < n
    <3>1. d + 1 \in 2..Len(frames)
      BY <1>1, <2>2
    <3>2. Location(u) # s - 1 /\ Location(u) \in Nat
      BY <1>1, <2>2, <3>1, ElementTypes DEF IInv, PlacesOK
    <3>3. QED
      BY <1>1, <2>2, <3>2
  <2>3. d < Len(frames) => s <= frames[d + 1].base
    BY <1>1
  <2>4. ASSUME NEW i \in 1..m PROVE tries[i].depth <= d /\ tries[i].height <= n
    <3>1. i \notin OwnTries
      BY DEF Leave
    <3>2. tries[i].depth \in 1..d
      BY <1>1, <3>1 DEF OwnTries, IInv, FramesOK
    <3>3. d # 0 /\ tries[i].depth < Len(frames) /\ tries[i].depth + 1 \in 1..Len(frames)
      BY <1>1, <3>2, SMTT(30)
    <3>4. tries[i].height < frames[tries[i].depth + 1].base
      BY <3>3 DEF IInv, FramesOK
    <3>5. /\ frames[tries[i].depth + 1].base <= s /\ frames[tries[i].depth + 1].base \in Nat
          /\ tries[i].height \in Nat
      BY <3>3, FrameOrder, ElementTypes DEF IInv
    <3>6. \A h, a \in Nat : h < a /\ a <= s => h <= s - 1
      BY <1>1
    <3>7. tries[i].height <= s - 1
      BY <3>4, <3>5, <3>6
    <3>8. tries[i].depth <= d /\ n = s - 1
      BY <1>1, <3>2, <3>3
    <3>9. QED
      BY <3>7, <3>8
  <2>5. QED
    BY <2>1, <2>2, <2>3, <2>4 DEF Enough
<1> HIDE DEF d, m, s, n
<1>10. m \in 0..Len(tries)
  BY <1>1 DEF m
<1>11. QED
  BY <1>1, <1>3, <1>8, <1>9, <1>10, CutStep

LEMMA ReturnIInv ==
  ASSUME IInv, ~ReturnInTry, Return \/ ReturnNil
  PROVE  IInv'
<1>1. CASE Return
  <2>1. Running /\ Top > Floor /\ Floor \in Nat /\ Top \in Nat /\ Leave(Peek(0))
    BY <1>1, FloorFacts, RunningFrame DEF Return
  <2>2. Top \in 1..Top /\ Peek(0) = stack[Top]
    BY <2>1 DEF Peek
  <2>3. Peek(0) \in Value /\ Created(Peek(0))
    BY <2>2, ElementTypes DEF IInv, CreatedOK, Top
  <2>4. QED
    BY <2>1, <2>3, LeaveIInv
<1>2. CASE ReturnNil
  <2>1. Created(Nil)
    BY DataIsValue, ElementTypes DEF IInv, Created
  <2>2. QED
    BY <1>2, <2>1, DataIsValue, LeaveIInv DEF ReturnNil
<1>3. QED
  BY <1>1, <1>2

LEMMA TryIInv ==
  ASSUME IInv, TryBegin \/ TryEnd
  PROVE  IInv'
<1>1. CASE TryBegin /\ Len(tries) < TryMax
  BY <1>1, TryBeginStep DEF TryBegin
<1>2. CASE TryBegin /\ ~(Len(tries) < TryMax)
  BY <1>2, StopStep DEF TryBegin, Stop
<1>3. CASE TryEnd
  <2> DEFINE d == Len(frames)
             m == Len(tries) - 1
  <2>1. /\ Running /\ Top \in Nat /\ d \in Nat /\ d # 0 /\ d \in 1..d
        /\ Len(tries) \in Nat /\ OwnTries # {}
    BY <1>3, RunningFrame, ElementTypes DEF TryEnd, IInv
  <2>2. m \in 0..Len(tries)
    BY <2>1 DEF OwnTries
  <2>3. /\ stack' = stack /\ frames' = SubSeq(frames, 1, d) /\ tries' = SubSeq(tries, 1, m)
        /\ status' = "running"
    BY <1>3, SubSeqFull DEF TryEnd, Front, Running, IInv, TypeOK
  <2>4. ClosedFrom(Top)
    BY <1>3, KeepIsClosed DEF TryEnd
  <2>5. Keeps(Top, d, m, Top)
    BY <2>1, <2>3, <2>4 DEF Keeps, IInv, TypeOK, CreatedOK, Top
  <2>6. Enough(Top, d, m, Top)
    <3>1. frames[d].base + frames[d].locals <= Top
      BY <2>1, RunningFrame
    <3>2. \A i \in 1..m : tries[i].depth <= d /\ tries[i].height <= Top
      <4>1. \A i \in 1..m : i \in 1..Len(tries)
        BY <2>1
      <4>2. QED
        BY <2>1, <4>1 DEF IInv, FramesOK, TopOK
    <3>3. ~(d < d)
      BY <2>1
    <3>4. QED
      BY <3>1, <3>2, <3>3 DEF Enough
  <2>7. d \in 0..Len(frames) /\ Top \in 0..Top
    BY <2>1
  <2>8. QED
    BY <2>1, <2>2, <2>5, <2>6, <2>7, CutStep
<1>4. QED
  BY <1>1, <1>2, <1>3

LEMMA ThrowIInv ==
  ASSUME IInv, Throw
  PROVE  IInv'
<1>1. /\ Running /\ Top \in Nat /\ Floor \in Nat /\ Top - 1 \in 0..Top /\ Floor <= Top - 1
      /\ \A s \in Top - 1..Top - 1 : ~Captured(s)
  BY TemporaryFacts, RunningFrame, FloorFacts DEF Throw
<1>2. CASE tries = << >>
  <2> DEFINE n == Top - 1
  <2>1. /\ stack' = Front(stack) /\ status' = "stopped"
        /\ UNCHANGED <<frames, tries>> /\ KeepUpvals
    BY <1>2 DEF Throw
  <2>2. stack # << >>
    BY <1>1 DEF Top
  <2>3. stack' \in Seq(Value) /\ Len(stack') = n /\ \A i \in 1..n : stack'[i] = stack[i]
    BY <2>1, <2>2, FrontFacts DEF IInv, TypeOK, Top
  <2>4. \A i \in 1..Len(stack') : Created(stack'[i])
    BY <1>1, <2>3 DEF IInv, CreatedOK, Top
  <2>5. n <= Len(stack')
    BY <1>1, <2>3
  <2>6. n \in 0..Top /\ Floor <= n /\ \A s \in n..Top - 1 : ~Captured(s)
    BY <1>1
  <2> HIDE DEF n
  <2>7. QED
    BY <1>1, <2>1, <2>3, <2>4, <2>5, <2>6, OperandStep
<1>3. CASE tries # << >>
  <2> DEFINE l == Len(tries)
             m == l - 1
             t == tries[l]
             d == t.depth
             n == t.height
             s == IF d < Len(frames) THEN frames[d + 1].base ELSE Top
  <2>1. l \in Nat /\ l \in 1..l /\ m \in 0..l /\ m \in Nat /\ l = m + 1
    <3>1. l \in Nat /\ l # 0
      BY <1>3, ElementTypes, EmptySeq DEF IInv, TypeOK
    <3>2. QED
      BY <3>1
  <2>2. Unwind(t, Peek(0))
    BY <1>3 DEF Throw, Last
  <2>3. /\ d \in Nat /\ n \in Nat /\ d \in 1..Len(frames) /\ n <= Top /\ Len(frames) \in Nat
        /\ frames[d].base + frames[d].locals <= n
    BY <2>1, ElementTypes DEF IInv, FramesOK, TopOK
  <2>4. d \in 0..Len(frames) /\ d # 0 /\ n \in 0..Top /\ m \in 0..Len(tries)
    BY <1>1, <2>1, <2>3
  <2>5. s \in Nat
    <3>1. d < Len(frames) => d + 1 \in 1..Len(frames)
      BY <2>3
    <3>2. QED
      BY <1>1, <3>1, ElementTypes DEF IInv
  <2>6. /\ frames' = SubSeq(frames, 1, d) /\ tries' = SubSeq(tries, 1, m)
        /\ stack' = Append(SubSeq(stack, 1, n), Peek(0))
        /\ status' \in {"running", "stopped"}
    BY <2>2 DEF Unwind, Front
  <2>7. ClosedFrom(s)
    <3>1. CASE d < Len(frames)
      BY <2>2, <2>5, <3>1, CloseIsClosed DEF Unwind
    <3>2. CASE ~(d < Len(frames))
      BY <2>2, <3>2, KeepIsClosed DEF Unwind
    <3>3. QED
      BY <3>1, <3>2
  <2>8. Peek(0) \in Value /\ Created(Peek(0))
    <3>1. Top \in 1..Top /\ Peek(0) = stack[Top]
      BY <1>1 DEF Peek
    <3>2. QED
      BY <3>1, ElementTypes DEF IInv, CreatedOK, Top
  <2>9. /\ stack' \in Seq(Value) /\ n <= Len(stack')
        /\ \A i \in 1..n : stack'[i] = stack[i]
        /\ \A i \in 1..Len(stack') : Created(stack'[i])
    BY <2>4, <2>6, <2>8, ResultOnPrefix
  <2>10. Keeps(n, d, m, s)
    BY <2>4, <2>6, <2>7, <2>9 DEF Keeps
  <2>11. Enough(n, d, m, s)
    <3>1. ASSUME NEW u \in Upvals, Location(u) # Self, Location(u) < s PROVE Location(u) < n
      <4>1. \/ Location(u) < n
            \/ d < Len(frames) /\ Location(u) >= frames[d + 1].base
        BY <2>1, <3>1 DEF IInv, PlacesOK
      <4>2. Location(u) \in Nat
        BY <3>1, ElementTypes DEF IInv
      <4>3. QED
        BY <2>5, <3>1, <4>1, <4>2
    <3>2. d < Len(frames) => s <= frames[d + 1].base
      BY <2>5
    <3>3. ASSUME NEW i \in 1..m PROVE tries[i].depth <= d /\ tries[i].height <= n
      <4>1. i \in 1..l /\ i < l
        BY <2>1
      <4>2. QED
        BY <2>1, <4>1 DEF IInv, FramesOK
    <3>4. QED
      BY <2>3, <3>1, <3>2, <3>3 DEF Enough
  <2> HIDE DEF l, m, t, d, n, s
  <2>12. QED
    BY <2>4, <2>5, <2>10, <2>11, CutStep
<1>4. QED
  BY <1>2, <1>3

\* No step breaks the invariant.
LEMMA NextIInv ==
  ASSUME IInv, ~CaptureInTry, ~ReturnInTry, [Next]_vars
  PROVE  IInv'
<1>1. \A n \in 0..LocalMax : n \in Nat /\ \A k \in 0..LocalMax - n : k \in Nat
  BY ExecAssumption
<1>2. CASE \E n \in 0..LocalMax : Run(n)
  BY <1>1, <1>2, RunStep
<1>3. CASE LoadConst \/ (Running /\ LoadLocal) \/ (Running /\ LoadUpval)
  BY <1>3, LoadIInv
<1>4. CASE \E i \in 0..LocalMax : StoreLocal(i)
  BY <1>1, <1>4, StoreLocalIInv
<1>5. CASE StoreUpval
  BY <1>5, StoreUpvalIInv
<1>6. CASE Pop
  BY <1>6, PopIInv
<1>7. CASE CloseUpval
  BY <1>7, CloseUpvalIInv
<1>8. CASE MakeClosure
  BY <1>8, MakeClosureIInv
<1>9. CASE \E nargs \in 0..LocalMax : \E extra \in 0..LocalMax - nargs :
             Call(nargs, extra) \/ CallMethod(nargs, extra)
  BY <1>1, <1>9, CallIInv
<1>10. CASE \E nargs \in 0..LocalMax : CallNative(nargs)
  BY <1>1, <1>10, CallNativeIInv
<1>11. CASE (\E nargs \in 0..LocalMax : CallError(nargs)) \/ Halt
  BY <1>11, StopStep DEF CallError, Halt, Stop
<1>12. CASE Return \/ ReturnNil
  BY <1>12, ReturnIInv
<1>13. CASE TryBegin \/ TryEnd
  BY <1>13, TryIInv
<1>14. CASE Throw
  BY <1>14, ThrowIInv
<1>15. CASE UNCHANGED vars
  BY <1>15, StopStep DEF vars, KeepUpvals
<1>16. QED
  BY <1>2, <1>3, <1>4, <1>5, <1>6, <1>7, <1>8, <1>9, <1>10, <1>11, <1>12, <1>13, <1>14,
     <1>15 DEF Next

-----------------------------------------------------------------------------
(* Theorems. *)

\* What RETURN and THROW rely on follows from the invariant.
LEMMA IInvImplies ==
  ASSUME IInv
  PROVE  CalleeBelowFrame /\ HandlersInContext
<1>1. CalleeBelowFrame
  <2>1. ASSUME NEW k \in 2..Len(frames)
        PROVE  frames[k].base - 1 >= frames[k - 1].base + frames[k - 1].locals
    <3>1. k \in 1..Len(frames) /\ k - 1 \in 1..Len(frames) /\ k - 1 < k
      BY ElementTypes
    <3>2. frames[k - 1].base + frames[k - 1].locals < frames[k].base
      BY <3>1 DEF IInv, FramesOK
    <3>3. \A a, b, c \in Nat : a + b < c => c - 1 >= a + b
      OBVIOUS
    <3>4. QED
      BY <3>1, <3>2, <3>3, ElementTypes DEF IInv
  <2>2. QED
    BY <2>1 DEF CalleeBelowFrame, IInv, CalleesOK
<1>2. HandlersInContext
  <2>1. ASSUME status = "running", NEW i \in 1..Len(tries)
        PROVE  /\ tries[i].depth \in 1..Len(frames)
               /\ tries[i].up = frames[tries[i].depth].up
               /\ tries[i].height >= frames[tries[i].depth].base + frames[tries[i].depth].locals
               /\ tries[i].height <= IF tries[i].depth = Len(frames) THEN Top
                                     ELSE frames[tries[i].depth + 1].base - 1
               /\ i > 1 => /\ tries[i - 1].depth <= tries[i].depth
                           /\ tries[i - 1].height <= tries[i].height
    <3>1. /\ tries[i].depth \in 1..Len(frames)
          /\ tries[i].up = frames[tries[i].depth].up
          /\ tries[i].height >= frames[tries[i].depth].base + frames[tries[i].depth].locals
          /\ tries[i].depth < Len(frames) => tries[i].height < frames[tries[i].depth + 1].base
          /\ tries[i].height <= Top
      BY DEF IInv, FramesOK, TopOK
    <3>2. ASSUME tries[i].depth # Len(frames)
          PROVE  tries[i].height <= frames[tries[i].depth + 1].base - 1
      <4>1. tries[i].depth < Len(frames) /\ tries[i].depth + 1 \in 1..Len(frames)
        BY <3>1, <3>2, ElementTypes DEF IInv
      <4>2. frames[tries[i].depth + 1].base \in Nat /\ tries[i].height \in Nat
        BY <4>1, ElementTypes DEF IInv
      <4>3. QED
        BY <3>1, <4>1, <4>2
    <3>3. ASSUME i > 1
          PROVE  tries[i - 1].depth <= tries[i].depth /\ tries[i - 1].height <= tries[i].height
      <4>1. i - 1 \in 1..Len(tries) /\ i - 1 < i
        BY <3>3
      <4>2. QED
        BY <4>1 DEF IInv, FramesOK
    <3>4. QED
      BY <3>1, <3>2, <3>3
  <2>2. QED
    BY <2>1 DEF HandlersInContext
<1>3. QED
  BY <1>1, <1>2

\* In every reachable state the stack, the frames, the handlers and the upvalues
\* are laid out as IInv says.
THEOREM Layout ==
  ASSUME ~CaptureInTry, ~ReturnInTry
  PROVE  Spec => []IInv
<1>1. Init => IInv
  BY InitIInv
<1>2. IInv /\ [Next]_vars => IInv'
  BY NextIInv
<1>3. QED
  BY <1>1, <1>2, PTL DEF Spec

\* A captured variable keeps the value last assigned to it, whether through its
\* slot or through a closure, across returns, the ends of blocks and exceptions.
THEOREM CapturesAlwaysHold ==
  ASSUME ~CaptureInTry, ~ReturnInTry
  PROVE  Spec => []CapturesHold
<1>1. IInv => CapturesHold
  BY DEF IInv
<1>2. QED
  BY <1>1, Layout, PTL

\* vm->open_upvalues stays sorted, with one upvalue per slot and none of a slot
\* above the top of the stack.
THEOREM OpenListAlwaysSorted ==
  ASSUME ~CaptureInTry, ~ReturnInTry
  PROVE  Spec => []OpenListSorted
<1>1. IInv => OpenListSorted
  BY DEF IInv
<1>2. QED
  BY <1>1, Layout, PTL

\* Below every called function's frame lies the closure that runs in it.
THEOREM CalleeAlwaysBelowFrame ==
  ASSUME ~CaptureInTry, ~ReturnInTry
  PROVE  Spec => []CalleeBelowFrame
<1>1. IInv => CalleeBelowFrame
  BY IInvImplies
<1>2. QED
  BY <1>1, Layout, PTL

\* A handler on vm->try_stack is one of a function that is still running, and
\* unwinding to it restores that function's stack.
THEOREM HandlersAlwaysInContext ==
  ASSUME ~CaptureInTry, ~ReturnInTry
  PROVE  Spec => []HandlersInContext
<1>1. IInv => HandlersInContext
  BY IInvImplies
<1>2. QED
  BY <1>1, Layout, PTL
=============================================================================
