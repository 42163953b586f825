------------------------------ MODULE Preproc ------------------------------
(* The preprocessor's line loop and its directives (preprocessor.c:           *)
(* pp_process_string, pp_process_directive): the macro table, the stack of    *)
(* conditional frames, the files being read and the output each of them       *)
(* collects.  Beside it runs C's meaning of the same lines: the groups of     *)
(* every #if, the macros defined in the selected ones and the text that       *)
(* results.                                                                   *)
(*                                                                            *)
(* The main file is written line by line as it is read; a header is written   *)
(* when it is read for the first time and read as written afterwards.         *)
EXTENDS Integers, SequencesExt, Functions

CONSTANTS
  Names,          \* macro names used by the directives
  Definitions,    \* pairs <<name, definition>> a #define may give
  Conditions,     \* what may stand after #if and #elif
  Texts,          \* lines that are no directive
  Headers,        \* files that can be included
  IncludeLimit,   \* include_depth beyond which #include is refused
  MaxLines,       \* bound: lines written in all files
  MaxTexts,       \* bound: text lines read
  Expand(_, _),   \* expand_text on a line under a macro table
  EvalIf(_, _),   \* pp_eval_if on a condition
  Holds(_, _),    \* C's truth of a condition
  Covered(_, _)   \* the conditions both are compared on

ASSUME BoundsAssumption == {IncludeLimit, MaxLines, MaxTexts} \subseteq Nat

(* The macro tables the directives can build. *)
MacroTables == UNION {[D -> {m[2] : m \in Definitions}] : D \in SUBSET {m[1] : m \in Definitions}}

(* On the conditions that are compared pp_eval_if decides as C does. *)
ASSUME ConditionAssumption ==
  \A e \in Conditions, tab \in MacroTables :
    /\ {EvalIf(e, tab), Holds(e, tab), Covered(e, tab)} \subseteq BOOLEAN
    /\ Covered(e, tab) => (EvalIf(e, tab) <=> Holds(e, tab))

Main == "main"
NoFile == "nofile"     \* an #include that finds no file

VARIABLES
  macros,     \* the macro table
  cond,       \* cond_stack, innermost last: [active, done]
  readers,    \* files being read, innermost last: [file, pos, out, base]
  depth,      \* include_depth
  errors,     \* error_count # 0
  text,       \* lines of the headers written so far
  closed,     \* headers whose end has been reached
  written,    \* lines written
  groups,     \* C: open groups, innermost last: [vals, elsed]
  table,      \* C: the macro table
  flat,       \* C: the text that results
  legal       \* C: the lines read so far keep C's rules on conditionals

pp == <<macros, cond, readers, depth, errors>>
source == <<text, closed, written>>
lang == <<groups, table, flat, legal>>
vars == <<pp, source, lang>>

Line == [d : {"ifdef", "ifndef"}, n : Names] \cup [d : {"if", "elif"}, e : Conditions]
          \cup [d : {"else", "endif", "other"}] \cup [d : {"define"}, m : Definitions]
          \cup [d : {"undef"}, n : Names] \cup [d : {"include"}, f : Headers \cup {NoFile}]
          \cup [d : {"text"}, t : Texts]

Reader == Last(readers)

-----------------------------------------------------------------------------
(* pp_is_active; pp_push_cond; the branches of pp_process_directive. *)

Frame(a) == [active |-> a, done |-> a]
Active == \A i \in DOMAIN cond : cond[i].active
ParentActive == \A i \in 1..(Len(cond) - 1) : cond[i].active

Enters(l) == CASE l.d = "ifdef" -> l.n \in DOMAIN macros
               [] l.d = "ifndef" -> l.n \notin DOMAIN macros
               [] OTHER -> EvalIf(l.e, macros)

AfterIf(l) == Append(cond, Frame(Active /\ Enters(l)))
(* Mutant of AfterElif: a group selected before does not count. *)
AfterElifAnyway(l) == Front(cond) \o <<Frame(ParentActive /\ EvalIf(l.e, macros))>>

AfterElif(l) == LET f == Last(cond)
                    enters == ParentActive /\ EvalIf(l.e, macros)
                IN Front(cond) \o <<IF f.done THEN [f EXCEPT !.active = FALSE] ELSE Frame(enters)>>

AfterElse == Front(cond) \o <<[Last(cond) EXCEPT !.active = ~Last(cond).done]>>
AfterEndif == Front(cond)

(* pp_define_macro replaces a definition, pp_undef removes it. *)
Defined(tab, m) == [n \in DOMAIN tab \cup {m[1]} |-> IF n = m[1] THEN m[2] ELSE tab[n]]
Undefined(tab, n) == Restrict(tab, DOMAIN tab \ {n})

DoIf(l) == /\ l.d \in {"ifdef", "ifndef", "if"}
           /\ cond' = AfterIf(l)
           /\ UNCHANGED <<macros, depth, errors>>

DoElif(l) == /\ l.d = "elif"
             /\ IF cond = <<>> THEN errors' = TRUE /\ UNCHANGED cond
                ELSE cond' = AfterElif(l) /\ UNCHANGED errors
             /\ UNCHANGED <<macros, depth>>

DoElse(l) == /\ l.d = "else"
             /\ IF cond = <<>> THEN errors' = TRUE /\ UNCHANGED cond
                ELSE cond' = AfterElse /\ UNCHANGED errors
             /\ UNCHANGED <<macros, depth>>

DoEndif(l) == /\ l.d = "endif"
              /\ IF cond = <<>> THEN errors' = TRUE /\ UNCHANGED cond
                 ELSE cond' = AfterEndif /\ UNCHANGED errors
              /\ UNCHANGED <<macros, depth>>

DoDefine(l) == /\ l.d = "define"
               /\ macros' = IF Active THEN Defined(macros, l.m) ELSE macros
               /\ UNCHANGED <<cond, depth, errors>>

DoUndef(l) == /\ l.d = "undef"
              /\ macros' = IF Active THEN Undefined(macros, l.n) ELSE macros
              /\ UNCHANGED <<cond, depth, errors>>

(* #include: refused too deep, a warning for a file that is not found, else   *)
(* pp_process_string starts on it with an empty output of its own.            *)
Opens(l) == l.d = "include" /\ Active /\ depth <= IncludeLimit /\ l.f # NoFile
DoInclude(l) ==
  /\ l.d = "include"
  /\ errors' = (errors \/ (Active /\ depth > IncludeLimit))
  /\ depth' = IF Opens(l) THEN depth + 1 ELSE depth
  /\ UNCHANGED <<macros, cond>>

(* #pragma, #line, #error, #warning and unknown directives do nothing. *)
DoOther(l) == l.d \in {"other", "text"} /\ UNCHANGED <<macros, cond, depth, errors>>

Output(l) == IF l.d = "text" /\ Active THEN <<Expand(l.t, macros)>> ELSE <<>>

-----------------------------------------------------------------------------
(* C's meaning of the same lines.                                             *)

Selected(g) == Last(g.vals) /\ \A i \in 1..(Len(g.vals) - 1) : ~g.vals[i]
Live == \A i \in DOMAIN groups : Selected(groups[i])

CHolds(l) == CASE l.d = "ifdef" -> l.n \in DOMAIN table
               [] l.d = "ifndef" -> l.n \notin DOMAIN table
               [] OTHER -> Holds(l.e, table)

(* Groups are balanced within a file, #else comes once and last, a condition  *)
(* that decides something is one of those compared, and an #include that is   *)
(* reached finds its file within the limit.                                   *)
CAllows(l) ==
  LET own == Len(groups) > Reader.base
      wanted == /\ ~\E i \in DOMAIN Last(groups).vals : Last(groups).vals[i]
                /\ \A i \in 1..(Len(groups) - 1) : Selected(groups[i])
  IN CASE l.d = "if" -> Live => Covered(l.e, table)
       [] l.d = "elif" -> own /\ ~Last(groups).elsed /\ (wanted => Covered(l.e, table))
       [] l.d = "else" -> own /\ ~Last(groups).elsed
       [] l.d = "endif" -> own
       [] l.d = "include" -> Live => l.f # NoFile /\ Len(readers) - 1 <= IncludeLimit
       [] OTHER -> TRUE

NextGroups(l) ==
  CASE l.d \in {"ifdef", "ifndef", "if"} -> Append(groups, [vals |-> <<CHolds(l)>>, elsed |-> FALSE])
    [] l.d = "elif" -> [groups EXCEPT ![Len(groups)].vals = Append(@, CHolds(l))]
    [] l.d = "else" -> [groups EXCEPT ![Len(groups)] = [vals |-> Append(@.vals, TRUE), elsed |-> TRUE]]
    [] l.d = "endif" -> Front(groups)
    [] OTHER -> groups

Means(l) ==
  /\ legal' = (legal /\ CAllows(l))
  /\ IF ~legal' THEN groups' = <<>> /\ table' = <<>> /\ flat' = <<>>
     ELSE /\ groups' = NextGroups(l)
          /\ table' = CASE l.d = "define" /\ Live -> Defined(table, l.m)
                        [] l.d = "undef" /\ Live -> Undefined(table, l.n)
                        [] OTHER -> table
          /\ flat' = IF l.d = "text" /\ Live THEN Append(flat, Expand(l.t, table)) ELSE flat

-----------------------------------------------------------------------------
(* The loop of pp_process_string.                                             *)

AtEnd == Reader.file # Main /\ Reader.pos > Len(text[Reader.file])

(* l is the next line of the innermost file, and is read. *)
Reads(l) ==
  LET fresh == Reader.file = Main \/ (AtEnd /\ Reader.file \notin closed)
  IN /\ IF fresh
        THEN /\ written < MaxLines
             /\ written' = written + 1
             /\ text' = IF Reader.file = Main THEN text
                        ELSE [text EXCEPT ![Reader.file] = Append(@, l)]
        ELSE /\ ~AtEnd
             /\ l = text[Reader.file][Reader.pos]
             /\ UNCHANGED <<text, written>>
     /\ UNCHANGED closed

(* A reader behind line l; the main file has no lines to go back to. *)
ReadOn(r, l) == [r EXCEPT !.pos = IF @ = 0 THEN 0 ELSE @ + 1, !.out = @ \o Output(l)]

Step(l) ==
  /\ readers # <<>>
  /\ Reads(l)
  /\ l.d = "text" => Len(FlattenSeq([i \in DOMAIN readers |-> readers[i].out])) < MaxTexts
  /\ LET read == [readers EXCEPT ![Len(readers)] = ReadOn(Reader, l)]
     IN readers' = IF Opens(l)
                   THEN Append(read, [file |-> l.f, pos |-> 1, out |-> <<>>, base |-> Len(groups)])
                   ELSE read
  /\ Means(l)

ReadIf == \E l \in Line : DoIf(l) /\ Step(l)
ReadElif == \E l \in Line : DoElif(l) /\ Step(l)
ReadElse == \E l \in Line : DoElse(l) /\ Step(l)
ReadEndif == \E l \in Line : DoEndif(l) /\ Step(l)
ReadDefine == \E l \in Line : DoDefine(l) /\ Step(l)
ReadUndef == \E l \in Line : DoUndef(l) /\ Step(l)
ReadInclude == \E l \in Line : DoInclude(l) /\ Step(l)
ReadOther == \E l \in Line : DoOther(l) /\ Step(l)

(* Mutant of DepthAfter: an included file is counted for good. *)
DepthAfterKept == depth

DepthAfter == depth - 1

(* The end of a header: its output is appended to that of the including file. *)
(* Frames it leaves open stay on the stack, where C wants none.               *)
EndHeader ==
  /\ Len(readers) > 1
  /\ AtEnd
  /\ closed' = closed \cup {Reader.file}
  /\ depth' = DepthAfter
  /\ LET below == Front(readers)
     IN readers' = [below EXCEPT ![Len(below)].out = @ \o Reader.out]
  /\ legal' = (legal /\ Len(groups) = Reader.base)
  /\ IF legal' THEN UNCHANGED <<groups, table, flat>>
     ELSE groups' = <<>> /\ table' = <<>> /\ flat' = <<>>
  /\ UNCHANGED <<macros, cond, errors, text, written>>

Init ==
  /\ macros = <<>> /\ table = <<>>
  /\ cond = <<>> /\ groups = <<>>
  /\ readers = <<[file |-> Main, pos |-> 0, out |-> <<>>, base |-> 0]>>
  /\ depth = 0
  /\ errors = FALSE
  /\ text = [f \in Headers |-> <<>>]
  /\ closed = {}
  /\ written = 0
  /\ flat = <<>>
  /\ legal = TRUE

Next == \/ ReadIf \/ ReadElif \/ ReadElse \/ ReadEndif
        \/ ReadDefine \/ ReadUndef \/ ReadInclude \/ ReadOther \/ EndHeader

Spec == Init /\ [][Next]_vars

-----------------------------------------------------------------------------
(* The lines that are read are those of C's selected groups: the stack of     *)
(* frames, one for all files, is active exactly where every open group is the *)
(* selected one, and the macro table holds what the selected lines defined    *)
(* (pp_is_active, and the active/done flags of #elif and #else).              *)
GroupsAsC == legal => /\ Active <=> Live
                      /\ macros = table

(* The outputs of the files being read, from the outermost to the innermost,  *)
(* are the text C's inclusion of the headers in place gives: a header's lines *)
(* come after the lines before its #include and before those after it.  No    *)
(* line that keeps the rules is counted as an error, so no inclusion within   *)
(* the limit is refused (the saved output buffer and include_depth).          *)
OutputAsC == legal => /\ FlattenSeq([i \in DOMAIN readers |-> readers[i].out]) = flat
                      /\ ~errors

=============================================================================
