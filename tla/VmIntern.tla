------------------------------ MODULE VmIntern ------------------------------
(***************************************************************************)
(* String interning in vm_alloc_string (vm/src/vm_gc.c) and what the       *)
(* collector does to the strings of the table.                             *)
(*                                                                         *)
(* vm->string_table is an open-addressing table of pointers, probed        *)
(* linearly, doubled when it would be more than three quarters full.  It   *)
(* is not a root of the collector and sweep does not clear its entries, so *)
(* an entry may point to a freed string.  Reading such an entry is reading *)
(* freed memory: the model lets it compare and hash as anything.           *)
(***************************************************************************)
EXTENDS Integers, FiniteSetsExt

CONSTANTS
  Contents,   \* what strings may hold
  Hash,       \* the FNV-1a hash of each content, reduced to a small number
  InitCap,    \* 16 in the code
  MaxStr      \* bound of the model: strings allocated in one run

ASSUME InternAssumption ==
  /\ Hash \in [Contents -> Nat]
  /\ InitCap \in Nat /\ InitCap >= 2
  /\ MaxStr \in Nat

VARIABLES
  text,    \* text[s]: the content of string s, one entry per string allocated
  heap,    \* strings that are allocated
  held,    \* strings the VM can reach
  table,   \* vm->string_table
  cap,     \* vm->string_cap
  count    \* vm->string_count

vars == <<text, heap, held, table, cap, count>>

Null     == 0
Strings  == DOMAIN text
Latest   == Cardinality(Strings)
Entries  == {table[i] : i \in 0..cap - 1} \ {Null}
Freed    == Entries \ heap

Init ==
  /\ text  = << >>
  /\ heap  = {}
  /\ held  = {}
  /\ table = << >>
  /\ cap   = 0
  /\ count = 0

(***************************************************************************)
(* Probing.                                                                *)
(***************************************************************************)
\* The k-th slot of the probe sequence of hash h in a table of n slots, k < n:
\* from the home slot upwards, then from slot 0.
Slot(h, k, n) == LET i == (h % n) + k IN IF i < n THEN i ELSE i - n

\* How far a probe for hash h goes before the first empty slot of t.
ProbeLength(t, n, h) == Min({k \in 0..n - 1 : t[Slot(h, k, n)] = Null})

\* s is put in the first empty slot.
Place(t, n, h, s) == [t EXCEPT ![Slot(h, ProbeLength(t, n, h), n)] = s]

\* Mutant: only the home slot is compared.
ComparedAtHome(c) ==
  IF cap = 0 THEN {} ELSE {0} \cap 0..ProbeLength(table, cap, Hash[c]) - 1

\* The probe positions a search for c goes through: up to the first empty slot.
Compared(c) == IF cap = 0 THEN {} ELSE 0..ProbeLength(table, cap, Hash[c]) - 1

Probed(c, k) == table[Slot(Hash[c], k, cap)]

Equal(c, s) == s \in heap /\ text[s] = c

\* Where a search for c may end: at the first allocated equal string, or before
\* it at a freed entry, which may compare equal or not.
Matches(c) ==
  {k \in Compared(c) :
     /\ Probed(c, k) \notin heap \/ Equal(c, Probed(c, k))
     /\ \A j \in 0..k - 1 : ~Equal(c, Probed(c, j))}

(***************************************************************************)
(* Growing: every entry moves to where its hash field says; that of a      *)
(* freed entry reads as junk.                                              *)
(***************************************************************************)
\* The entries, slot by slot, placed in an empty table of n slots by the hashes h.
Moved(n, h) ==
  LET moved[i \in 0..cap] ==
        IF i = 0 THEN [j \in 0..n - 1 |-> Null]
        ELSE IF table[i - 1] = Null THEN moved[i - 1]
        ELSE Place(moved[i - 1], n, h[table[i - 1]], table[i - 1])
  IN  moved[cap]

\* Mutant: entries keep the slots they had.
RehashInPlace(n, alive, junk) ==
  [i \in 0..n - 1 |-> IF i < cap THEN table[i] ELSE Null]

Rehash(n, alive, junk) ==
  Moved(n, [s \in Entries |-> IF s \in alive THEN Hash[text[s]] ELSE junk[s]])

\* Mutant: the table may fill up.
MustGrowLate == count + 1 > cap

MustGrow == count + 1 > (cap * 3) \div 4

NewCap == IF MustGrow THEN IF cap = 0 THEN InitCap ELSE 2 * cap ELSE cap

(***************************************************************************)
(* vm_alloc_string.                                                        *)
(***************************************************************************)
\* An equal string is found and returned as it is.
InternHit(c) ==
  /\ \E k \in Matches(c) : held' = held \cup {Probed(c, k)}
  /\ UNCHANGED <<text, heap, table, cap, count>>

\* None is found: a string is allocated (gc_alloc may collect first, it keeps
\* the strings in kept) and entered in the table, which may grow.
InternMiss(c) ==
  /\ \A k \in Compared(c) : ~Equal(c, Probed(c, k))
  /\ Latest < MaxStr
  /\ \E kept \in {heap, heap \cap held} :
     \E junk \in [(IF MustGrow THEN Entries \ kept ELSE {}) -> 0..NewCap - 1] :
       LET s == Latest + 1
           t == IF MustGrow THEN Rehash(NewCap, kept, junk) ELSE table
       IN  /\ text'  = [x \in Strings \cup {s} |-> IF x = s THEN c ELSE text[x]]
           /\ heap'  = kept \cup {s}
           /\ held'  = held \cup {s}
           /\ table' = Place(t, NewCap, Hash[c], s)
           /\ cap'   = NewCap
           /\ count' = count + 1

\* The program lets go of a string.
Release(s) ==
  /\ held' = held \ {s}
  /\ UNCHANGED <<text, heap, table, cap, count>>

\* vm_gc: strings nobody holds are freed, the table keeps pointing to them.
Collect ==
  /\ heap' = heap \cap held
  /\ UNCHANGED <<text, held, table, cap, count>>

Next ==
  \/ \E c \in Contents : InternHit(c) \/ InternMiss(c)
  \/ \E s \in held : Release(s)
  \/ Collect

Spec == Init /\ [][Next]_vars

(***************************************************************************)
(* Properties.                                                             *)
(***************************************************************************)
\* Every probe ends: neither the search nor the two insertion loops have another
\* exit than an empty slot, and freed strings go on filling the table.
ProbesEnd == cap > 0 => \E i \in 0..cap - 1 : table[i] = Null

\* An allocated string is found where it is looked for: no empty slot comes
\* between its home slot and its place, whatever the table grew through.
Findable ==
  \A s \in Entries \cap heap : \E k \in Compared(text[s]) : Probed(text[s], k) = s

\* vm.h: there is one string per content, so that comparing pointers compares
\* strings.  True of the allocated ones.
OnePerContent == \A s, t \in heap : text[s] = text[t] => s = t
=============================================================================
