# A verification project for the C compiler and its bytecode VM

The repository holds two programs. `src/src` and `src/include` are a compiler from C to
x86-64 (preprocessor, lexer, parser, semantic analysis, code generator, ELF writer, with an IR
on the side). `src/vm` is a bytecode virtual machine with closures, exceptions, a mark-and-sweep
collector, a string intern table and an interpreter that specializes its own code. They share no
code. Everything is single-threaded: what is hard here is not concurrency but *protocols that a
long sequence of legal operations must keep*: a collection that may fall into the middle of any
allocating operation, pointers into a stack that is cut by returns and exceptions, code that
rewrites itself, labels and scopes that are matched by name or by position.

Modelled so far: the VM, and of the compiler the passes every translation goes through except the
lexer: preprocessor, parser, scopes and symbol table, the types of expressions, code generation, and
the layout of the object file and of the image run in memory. Each compiler module runs the code
beside the meaning C gives to the same input and asks that the two agree; where they are known not to,
the situation has a name, and the property holds outside the named situations (section 4).

## 1. Inventory

### The VM (`src/vm`)

| Component | State | Operations | What is hard | What makes it correct |
|---|---|---|---|---|
| Collector (`vm_gc.c`, map part of `vm_native.c`) | `all_objects`, `marked` bits, `gray_stack`, `bytes_allocated`, `next_gc_threshold` | `vm_gc`, `mark_roots`, `trace_references`, `sweep`, `gc_alloc` and the allocators, `vm_map_set` | any allocation may collect; the set of roots must be complete; `sweep` reads objects it may already have freed | nothing reachable is freed; garbage goes; marks are reset; the byte count covers all that sweep takes off it; a collection ends |
| Intern table (`vm_gc.c`) | `string_table`, `string_cap`, `string_count` | `vm_alloc_string` | sweep does not clear entries, so they dangle; probing has no exit but an empty slot | one string per content; each is findable; a returned string is allocated |
| Calls, closures, exceptions (`vm_exec.c`, `vm_closure.c`) | `value_stack`, `frame_stack`, `try_stack`, `open_upvalues` | `vm_run` and the instructions, `vm_capture_upval`, `vm_close_upvals` | four stacks that return and throw must cut consistently; upvalues point into the value stack | captured variables keep their value; the open list is sorted and points to live slots; handlers belong to running functions |
| `MAKE_CLOSURE` over the collector | the C local `cl` | one instruction, several allocations | the closure is not a root while it is filled in | it is not freed before it is pushed |
| Specializing interpreter (`vm_exec.c`) | `code[]`, `spec_counters`, `stats` | `SAI_COUNTDOWN`, specialize, guard, `SAI_GUARD_FAIL` | what an instruction does depends on operands seen long before | specialization is invisible; it does not flip back and forth; statistics balance |
| Bytecode emission (`vm_bytecode.c`) | `code`, `constants`, `lines` | `emit_*`, `emit_jump`, `patch_jump`, `add_constant` | a jump is patched after the code moved on | every jump lands where it was patched to |
| Natives, maps, globals, inline caches (`vm_native.c`, `vm_exec.c`) | `globals`, `ic_pool` | natives, `vm_map_get/set`, `GET/SET_FIELD` | natives allocate too | seen from the collector and the stack they are in the models above |
| Fibers (`vm_value.h`) | `ObjFiber` | none: declared and marked, never created | | |

The instructions share the value stack; the collector reads it, the frames, the globals and the
open upvalues as roots; closures point to upvalues, which point into the value stack while open;
the intern table points to strings without being a root; the specializing interpreter writes
the bytecode the frames are executing.

### The compiler (`src/src`)

| Component | State | Operations | What is hard | What would make it correct |
|---|---|---|---|---|
| Driver (`main.c`) | options, the results of each pass | the sequence of passes | what runs after a pass has failed: the errors of sema do not stop code generation | no output file after an error |
| Preprocessor (`preprocessor.c`) | macro table, condition stack, include depth, output buffer | `#if` … `#endif`, `#define`, `#include`, expansion | conditional groups nested across include files; `#else` after a taken `#elif`; self-referential macros; a fixed line buffer | one group of a conditional is taken at most; expansion ends |
| Lexer | position | `lexer_next` | | |
| Parser, AST | a token of lookahead, typedef scopes, the AST arena | `parse_*`, `scope_push`, `scope_pop`, `typedef_register`, `typedef_lookup` | precedence; declarators read inside out; what is a type name in which scope; how nested `case` labels are attached | every tree is read back as written |
| Types | type objects | `type_*`, layout, conversions | promotion and the usual conversions at equal ranks; padding | the C conversions; fields aligned, disjoint |
| Symbol table, sema | scope chain, loop and switch depth, types of nodes | `symtable_*`, `analyze_*`, `process_var_decl`, `resolve_type` | tags and ordinary names in one list; tentative definitions; declarations hidden inside specifiers; errors stop nothing | the innermost declaration is found, redeclarations and stray jumps are refused and nothing else |
| IR (`ir.c`) | arena, functions, blocks | construction, constant folding, dead code elimination, dump | the arena grows by `realloc` under pointers; passes must keep the meaning | folding computes what execution would. The IR is dumped and never compiled |
| Code generator (`codegen.c`) | label counter, loop stack, switch stack, locals and their offsets, sections, symbols, relocations | `gen_expr`, `gen_stmt`, `gen_function`, `gen_global`, `codegen_jit_run` | locals that blocks do not cut back; a name with several symbols; `break` and `continue` in nested loops and switches; case labels found by position; frame patched afterwards; pushes around calls | the code does what the statements say; push and pop balance; `rsp` aligned at calls; a name reaches its object; locals lie apart |
| x86-64 encoder (`x86_encode.c`) | code buffer, labels, fixups | `enc_label`, `jmp/jcc/call`, `enc_resolve_fixups` | forward references; labels of several functions under one name | every fixup gets the label it names |
| ELF writer (`elf_writer.c`) | none of its own | `codegen_emit_elf` | local symbols before global ones; indices counted again for relocations | what a reference is linked to is where its object is; parts of the file lie apart |
| Arena (`arena.c`) | | | not in the Makefile; `ast.c` has its own copy | |

## 2. Modules

| Module | Models | Role |
|---|---|---|
| `ObjGraph` | `vm_value.h`: heap objects, pointers, roots, and what instructions do to them between collections | shared base |
| `GcAbstract` | what a collector promises: garbage vanishes in one step, nothing else changes | abstract specification |
| `VmGc`, `MCVmGc` | `vm_gc`, `mark_roots`, `vm_mark_object`, `vm_blacken_object`, `trace_references`, `sweep`, `gc_alloc`, `obj_link`, the unchecked allocators, the growth of a map | component, refines `GcAbstract` |
| `VmGcProofs` | | theorems on `VmGc` |
| `VmMakeClosure`, `MCVmMakeClosure` | `OP_MAKE_CLOSURE`, split at its allocations, composed with `VmGc` | composition |
| `VmIntern`, `MCVmIntern`, `VmInternProofs` | `vm_alloc_string`: search, insertion, growth; sweep's effect on strings | component, theorems |
| `VmExec`, `VmExecProofs` | calls, returns, locals, upvalues, exceptions | component, theorems |
| `VmSai`, `MCVmSai`, `VmSaiProofs` | the nine specializable opcodes and their specialized forms | component, theorems |
| `CStmt` | the meaning of C statements: in which order expressions are evaluated | reference |
| `CgLabels` | `cg_make_label`, the encoder's buffer, labels and fixups | shared base |
| `CgStmt`, `MCCgStmt` | `gen_stmt`, `gen_function`, `codegen_gen`; the code runs beside its meaning | component, composed with `CStmt` |
| `CExpr` | the types `analyze_expr` and `analyze_call` give, with the conversions of `types.c`; the meaning of typed expressions | types are translated, the meaning is a reference |
| `CgExpr`, `MCCgExpr` | `gen_expr`, `gen_lvalue`, `gen_assign`, `gen_compound_assign`, and what the integer instructions do | component, composed with `CExpr` |
| `CgCall`, `MCCgCall` | argument classification and passing in `ND_CALL`, the prologue and the frame of `gen_function` | both ends of a call, composed |
| `Scopes`, `MCScopes` | `symtable_*`, `process_var_decl`, `analyze_func_def`, the scopes and contexts of `analyze_stmt`, `local_alloc`, `local_find` | symbol table, sema and code generator composed over one stream of declarations, beside C's scopes |
| `ScopesProofs` | | theorems on `Scopes` |
| `CgImage`, `MCCgImage` | `gen_global`, `static_local_alloc`, literals, `sym_add`, `reloc_add`, `codegen_gen`; `codegen_emit_elf`; `codegen_jit_run` | code generator composed with both of its consumers |
| `CgProofs` | | theorems on `CgImage` and `CgCall` |
| `PpText` | `collect_args`, `subst_params`, `expand_text`, the `eval_*` functions | pure functions |
| `CMacro` | what C's macro replacement and `#if` expressions mean (hide sets, rescanning) | reference |
| `Preproc`, `MCPreproc`, `PreprocProofs` | `pp_process_string`, `pp_process_directive`, the condition stack, includes | component, beside C's groups; what is done to the text of a line is a parameter, which `MCPreproc` sets to `PpText`; theorems |
| `Parser`, `ParserStmt` | the parse functions, from tokens to trees | pure functions |
| `CSyntax` | how trees, types and declarators are written in C | reference |
| `ParserRun`, `MCParser` | the parser over a unit: typedef scopes, what is read under them | component, over `ParserStmt` and beside C's name spaces |
| `BasicLemmas` | | the least-number principle and what `FlattenSeq` does, for the proofs |

**ObjGraph, VmGc.** An object is a number given in allocation order. `obj_link` puts an object at
the head of `all_objects`, so the list runs from the highest number down and needs no state of its
own; `AtLink` is sweep's `*link`. `refs[o]` is the set of objects reached from `o` through arrays,
upvalues, constants, fields, keys and values; `func[o]` is kept apart because sweep *reads* it when
it frees a closure. `roots` is the union of everything `mark_roots` scans. One step is one pop of
`gray_stack` or one iteration of sweep, so the intermediate states of a collection are states of
the model; the mutator is enabled only in phase "run", since `vm_gc` is one C call. `gray_stack` is
a set, which leaves the order of its pops open. `gc_alloc` charges, tests the threshold, perhaps
collects, and only then allocates: `GcAlloc`, then the collection, then `Link`. An object has a shape, its kind and the
number of its elements, and is charged in two places: `Prepaid` is the argument of `gc_alloc` (the characters of a string included),
`Postpaid` what the allocator adds once the object is linked (`vm_gc.c:327`, `345`: the elements of an array, the upvalues of a
closure). `Refund` is what sweep recomputes from the fields as they are then, those of the function included. `GrowMap` stores the
new `cap` before it takes the difference (`vm_native.c:66-70`), so that half of the new arrays is charged, and sweep gives none of it back.
Code, constants and names of a function are never charged and have no size here. `upval_count` is set when the function is made; nothing in
the repository changes it after the first closure.

**VmMakeClosure** holds a closure in `making` (the C local `cl`), which is not in `roots`.
`AllocClosure`, `LinkClosure`, then for each captured variable `CaptureShared` or
`AllocUpval`/`LinkUpval`, then `PushClosure`.

**VmIntern.** The table is a function from slots to string numbers, `Rehash` and `Place` are the
two insertion loops, `Compared` the positions a search visits. An entry whose string was swept is a
pointer to freed memory: reading it may compare equal or unequal and may hash to anything
(`Matches`, `junk`).

**VmExec.** One step is one instruction. The program is not fixed: any instruction may follow that
a compiler could have put there. That bytecode contract is in `Floor` (operands do not eat into
locals or into what a handler restores), `Temporary` (a captured slot is closed with
`CLOSE_UPVAL`, not popped), `Leave` (a function leaves its try blocks with `TRY_END` before it
returns, unless `ReturnInTry`) and `CallMethod` (never past `FRAME_MAX`, which that instruction does not check).
`shadow` is a history variable: the value last assigned to the variable an upvalue
stands for. Jumps, arithmetic and `DUP`/`SWAP` move operands as `LoadConst` and `Pop` do and have no
action of their own. `vm_bytecode.h:37` says `STORE_LOCAL` pops; `vm_exec.c:369` peeks, and
the model follows the code.

**VmSai.** The nine opcodes form four families that differ in what they specialize to and in what
their guards fall back to. A value is a kind and a number in halves, so that int 1, float 1.0 and
float 0.5 are distinct and ordered. `runs` and `last` are history variables.

**CStmt, CgStmt.** A program is the parser's tree, a function from paths to nodes. `CStmt` says what
it means, a place in the tree at a time: `Onward` goes from a place to the next, given the
value of the expression evaluated there, if any (`Evaluates`). Values are left open, so both outcomes of every
condition and every branch of every switch are explored. `Gen` is `gen_stmt`, one operator per node
kind; it threads what generation changes (`code`, the label counter, the case index of the
innermost switch) and passes down what it stacks (`loops`, `switches`). Labels are compared by name over the whole
program and the newest definition wins, as `label_offset` does. The code of an expression is
one instruction. `Move` takes both sides past what has no expression, `Evaluate` lets both evaluate
the next one with one outcome. `Legal` holds the constraints of the language (`sema.c` checks some
of them); `Handled` leaves out three shapes of programs the generator does not compile as meant, each by name,
and `Admit` lets them in one by one.

**CExpr, CgExpr.** A tree is a node with its type, as sema leaves it. `Gen` is `gen_expr` with one
operator per kind of node and yields instructions; `GenPlace` is `gen_lvalue`. The code is then run
one instruction a step on registers, flags, the stack, and memory in which an access must be to an
object with its own size. The instructions of the processor and the convention for a called function are external to the repository
and marked so in the map. A called function leaves anything in the registers it need not preserve, and
logs its arguments. `Value` says what the tree means: it follows C, in the order of evaluation the generator chose, and collects in
`odd` the names of the situations in which the generator is known to stray. A byte has two bits (`ByteBits`) while sizes in
bytes are the real ones: `int` has 8 bits and `long` 16, so every load, store, cast and
extension still has a width that is too narrow for some of the values.

**CgCall.** `Classify`, `PushSlot` and `PopSlot` are the three loops of `ND_CALL`, `Enter`, `BindInt`, `BindFlt`,
`BindStack`, `BindStruct` the prologue, `Body` the locals of the body. Memory is counted in units of four bytes and holds
tags, unit `n` of argument `i`, so that a parameter has arrived when its tags are where the body reads them. In a variadic function
the parameters after the first are those that `va_arg` reads (`preprocessor.c:30`). `SlotsAssumption` leaves out calls that fill the
array `slots[64]` (`codegen.c:1130`): the loop stops at 62 and passes no argument beyond.

**Scopes.** Three parties follow the same declarations: C (`cscopes`), the symbol table (`scopes`, `loop`, `sw`) and the
generator's list of locals (`vars`, `next`). In the program sema has finished before generation starts; since neither reads
anything of the other's for a later declaration and sema's errors stop nothing (`main.c:209`), the model lets them go
through the unit together. An action is one declaration or one bracket of a construct: `DeclareGlobal`, `DeclareLocal`,
`DeclareWith` (a specifier that declares a tag or an enumerator on the side), `DeclareTypeOnly`, `BeginFunction`, `Open`,
`OpenFor`, `Close`. An object is the number of its declaration, 0 what the linker finds. Programs are those C allows
(`CAllows`), so that every refusal by the code is a deviation.

**CgImage.** `pass` is where `codegen_gen` stands. `homes` is a history variable: for each name the places in which storage was
set aside for it. The object file and the image in memory are functions of the final state (`ElfIndex`, `ElfSection`,
`FileOff`; `JitAddress`); `Linked`, what a linker makes of a relocation, is external.

**PpText, CMacro, Preproc.** Text is a sequence of tokens, and a token the sequence of atoms it is spelled with, so that `##`
and `#` make new tokens by concatenation. `Preproc` reads a line a step: `Reads` takes the next line of the innermost file
(a header is written while it is read first and reread as written), one action per directive changes the
preprocessor's state, `Means` the state of C beside it. A reader keeps the output buffer of its file, as
`pp_process_string` does on its stack, until `EndHeader` hands it to the including file. `legal` becomes false when a line breaks C's
rules on conditionals, after which nothing is compared. `CMacro` is C's algorithm with a hide set a token. `TameText` and
`TameCondition` leave out the texts and conditions of the deviations below.

**Parser, ParserStmt, CSyntax, ParserRun.** Each parse function is an operator from tokens and the typedef table to a result
`[n, rest, bad]`; the global token stream of the code is threaded through `rest`. The functions
call each other through `Parse` (of `ParserStmt`: `Read`), the one recursive operator: it takes the name of a rule. The evaluator of
`#if` in `PpText` is built the same way, `Eval` by the level of precedence. `expect` consumes a wrong token as the code does. `CSyntax` goes
the other way: `Written` puts a tree into tokens with the parentheses C needs, `Spell` a type around a name. `ParserRun` keeps the
typedef scopes and C's names, lets scopes open and close and names be declared, and reads items under them. A grouped declarator is read
around a placeholder, `Hole`, which `Reconnect` fills in; an array or a function made of the hole itself keeps what was computed of it,
the size or the `return_ty` of an `int`, and the model marks its type with `OfInt`. `SpellWith` writes declarators with the parentheses C needs or with
parentheses everywhere.

## 3. Runs

| Run | Bounds | Shows |
|---|---|---|
| `vm_gc` | 3 objects, of which the first is a function with an upvalue, the second a string, an array or a closure, the third a map or a closure; 4 units, first collection above the first unit | every graph (cycles, self-references, shared children, closures), collected at every allocation, by the host, and again afterwards: memory safety, tri-colour invariant, sweep order, marks reset, accounting; every collection ends; refinement of `GcAbstract` |
| `vm_intern` | 4 strings, 3 contents, tables of 2, 4, 8 slots | colliding and wrapping probe sequences, two growths, collections between any two calls, freed entries |
| `vm_make_closure` | 3 objects: a function, a closure, the upvalue it captures | **violated**: the closure is freed under `MAKE_CLOSURE` |
| `vm_exec` | stack 4, 3 frames, 2 handlers, 2 upvalues, 1 local | calls, shared captures, handlers in callers, returns, throws, errors in every order |
| `vm_sai` | a site per family, threshold 2, 4 specializations | every operand sequence: specialize, fall back, specialize again |
| `cg_stmt` | some 1,800 programs: two nested statements of every kind around every leaf, labels before, after and inside; values 0 to 2 | the code evaluates the expressions of the program in their order, no jump leaves its function, neither side spins alone |
| `cg_expr` | some 4,000 expressions: all operators on eight kinds of operands of four integer types, pointers, arrays and structs as large as a scalar and not; assignments and steps of ten places; two levels of operators around calls and side effects; up to 9 arguments; two memories | value, memory, calls and stack are as the language says; calls not under a pending operand are aligned; no fault |
| `cg_call` | lists of up to 4 out of ten types and up to 6 out of three scalars; `NInt = NFlt = 2` | every parameter is found whole, the frame keeps `rbp`, the locals and the alignment |
| `scopes` | 4 declarations of 2 names, 3 constructs deep, of `char`, `long` or an array without a length | an identifier reaches its object through sema and generator; symbol table and C agree on ordinary names and tags; only redeclarations are refused; jumps are accepted where C has them; slots lie apart |
| `cg_image` | 2 variables, 2 functions, 3 declarations, 2 definitions in functions, 2 references; types `char`, a struct named by its tag, an array without a length | references of the object file and of the image in memory reach the storage of their names; places in sections, in memory and in the file lie apart |
| `pp` | 5 lines over a main file and a header, 2 text lines; 8 macro definitions; some 2,800 texts and 1,200 conditions under each macro table | groups, output, expansion and conditions are C's |
| `parser` | some 1,700 expressions, 1,200 statements, 130 types (those of pointers, and of arrays and functions of `int`, in redundant parentheses too), 420 lists of specifiers; 2 typedef names in scopes 4 deep | every tree and type is read back; the typedef table is C's |

*Why the bounds suffice.* Three objects give a root, a child that only it reaches, and garbage or
a cycle; the sweep hazard needs a closure and its function, and so does the refund that is read from a function; what is charged
before linking, after linking and while growing each has a kind of object. One capture is enough to lose a closure: the allocation of its
upvalue collects it. In `VmExec` the hazards
need two functions with a handler in the outer one; three frames add a function in between
whose captures a throw must close; a stack of four slots holds callee, argument, operand and
exception. In `VmIntern` an eighth slot is reached by the fourth string, after two rehashes. In
`VmSai` the opcodes at two sites do not interact except through `stats`, and one site of each family
shows that sum.
In `CgStmt` each node kind's code depends on the loops and switches around it and on the labels drawn before
it; two levels give every pair of kinds, with a statement before and after each, which a
stacked label, a swapped target or a label number out of step would show.
In `CgExpr` the code of an operator does not look into its operands, only at their types, so what can go wrong is what one operator
does to another pending on the stack or in a register: two levels. In `CgCall` the register counts matter
by whether they are used up; two of each kind leave lists of six scalars with four of them on the stack, and structs
that take one, both or neither of the last registers.
In `Scopes` a name has an outer and an inner declaration, a closed one before them and one of another kind: four declarations;
two names show that one does not disturb the other. In `CgImage` a name needs at most a declaration and two definitions to have every combination of
symbols, and a neighbour in each section to be displaced. In `Preproc` `#if`, `#elif`, `#else`, a text and one more line (a definition, an
include) reach every pair of flags of a frame; a header is read twice with an inclusion limit of 0 in place of 32, which a count that does not come
back exceeds at once. In `Parser` a function looks at one operator and its operands: two operators in every position give every pair of levels.

`CHECK_DEADLOCK FALSE` stands where a program may really stop (`HALT`, a runtime error, the return from a function) or where a
bound (strings, declarations, lines) ends the run.

*Fairness.* `CgExpr` assumes weak fairness of its steps: the processor goes on as long as the next instruction does not fault. `CgStmt` assumes weak fairness of `Move`: the processor goes on to the next instruction.
No outcome of a condition is assumed to come up. `VmGc` assumes weak fairness of `GcStep`, the steps of a
collection and of the allocation that contains it. `vm_gc` and `gc_alloc` are straight C code without waiting; once
entered nothing but their own steps happens, so they run on. No fairness is assumed of
the program the VM runs.

## 4. Findings and deviations

**A run of its own** has the one that corrupts memory: `MAKE_CLOSURE` loses its closure (`vm_make_closure`).
`vm_exec.c:728-741` keeps the closure in a C local while `vm_capture_upval` allocates. `vm_native.c:107`
pushes such objects to keep them alive.

Everything else in which the code strays from the language or from its own comments is a *named
deviation*: the name stands in a module, the properties hold outside of it, and where the table says so it can be let in by the
cfg, upon which the run fails. The deviations are left out where they change the outcome and only there, so that the runs still say
that nothing else is wrong.

*VM.*

| Name | Where | What the code does |
|---|---|---|
| `Matches`, `junk` (`VmIntern`) | `vm_gc.c:286` | sweep leaves freed strings in `string_table`, and a later search may return one; the properties are stated for what such a search finds |
| `KnownMiss` (`VmSai`) | `vm_exec.c:963` | a comparison specialized to ints answers false for an int and a float, where the generic opcode compares them as floats; equality and arithmetic fall back correctly. `TransparentElsewhere` says that it is the only miss |
| `CaptureInTry` (`MCVmExec.cfg`) | `vm_exec.c:791` | `THROW` to a handler in the same function leaves upvalues of the try block open, and their slots are reused |
| `ReturnInTry` (`MCVmExec.cfg`) | `vm_exec.c:682`, `784` | a function that returns inside a try block leaves its handler on the try stack: a later throw goes to it and restores a frame that is gone. With it let in, `HandlersInContext` fails |
| sizes (`VmGc`) | `vm_native.c:66`, `vm_gc.c:327` | `bytes_allocated` is less than what is allocated (half of a map's arrays, the code, constants and names of functions), and keeps growing with maps that are gone: the threshold is met late or early. `RefundsCovered` says only that it does not wrap around |

`VmGc` roots a new object at once, as every allocator's caller but `MAKE_CLOSURE` does.

*Statements* (`Handled` in `CgStmt`, let in by `Admit` in `MCCgStmt.cfg`).

| Name | Where | What the code does |
|---|---|---|
| `break` | `codegen.c:1588` | `break` in a `switch` inside a loop ends the loop: the loop stack is asked first |
| `case` | `codegen.c:1674` | in `case 1: case 2: s` the parser nests the second label in the first, the generator counts only the elements of the compound: 2 is not dispatched and its label takes the next case's |
| `label` | `x86_encode.c:120` | two functions with a label of one name: all jumps to it go to the newest definition |

*Expressions and calls* (let in by `Admit` in `MCCgExpr.cfg` and `MCCgCall.cfg`).

| Name | Where | What the code does |
|---|---|---|
| `unsigned` | `codegen.c:374` | `load_ptr` sign-extends `unsigned int`; `load_local` does not |
| `mixed` | `codegen.c:749` | operands are not converted to their common type: sema puts its casts into `node->rhs`, the generator reads `binary.right`; a comparison takes the signedness of its left operand |
| `wrap` | `codegen.c:749` | `unsigned int` arithmetic is done and kept in 64 bits |
| `narrow` | `codegen.c:523` | the value of an assignment is not converted to the type of its left side |
| `unscaled` | `codegen.c:749`, `1010` | `1 + p`, `p - 1`, `p++` move by bytes, `p + 1` and `p += 1` by elements |
| `twice` | `codegen.c:650` | compound assignments and `++`, `--` evaluate their left side twice |
| `remainder` | `codegen.c:609` | `%=` leaves the remainder in `rcx` and stores the quotient in `rax` |
| `not` | `codegen.c:992` | `!x` clears `rax` between `test` and `setz`, and the clearing sets the flag: always 1 |
| `small` | `codegen.c:328`, `374` | an array of 1, 2, 4 or 8 bytes is loaded as a scalar of that size instead of its address (`int a[2]; p = a;`), and so `a[0]` goes astray; a struct of such a size is copied by its contents, which is right |
| `whole` | `codegen.c:541`, `374` | of a struct larger than a scalar it is the address that is assigned, and into the first word |
| `result` | `codegen.c:1275` | the upper half of `rax` is taken as part of an `int` result |
| `large` | `codegen.c:1137` | of a struct above 16 bytes one word is passed, and none is read |
| `spilled` | `codegen.c:1818` | a struct for which registers are short is read as zeros |
| `mixed` (`CgCall`) | `codegen.c:1842` | a stack parameter behind a floating-point one is looked for at the wrong index |
| `half` | `codegen.c:1834` | a 4-byte float, or the end of a struct of 12 bytes, is stored with 8 and hits what lies above, `rbp` too |
| `variadic` | `codegen.c:1775` | a variadic function saves no SSE registers and does not see stack arguments |
| `wide` | `codegen.c:1916` | a frame of 128 bytes or more is never reserved; the comment says "wastes 4 bytes but is correct" |

Besides, a call made while an operand waits on the stack is not aligned (`Plain` in `CgExpr` says which are not made so),
though the comment at `codegen.c:1116` says that `rsp` must be.

*Names* (`odd` declarations and `Stale` in `Scopes`).

| Name | Where | What the code does |
|---|---|---|
| `Stale` | `codegen.c:138` | after a block that declared a name again, the name still finds the inner variable |
| `fn = "skipped"` | `sema.c:400` | a function whose prototype came before is reported as redeclared and its body is not analysed, though `symtable.c:164` means to upgrade it; its enumerators are then names of the linker |
| `Hides` | `sema.c:150` | an inner enumerator or tag of a visible name keeps the outer one's value or layout |
| type only | `parser.c:1228` | `enum {A};` or `struct S {...};` in a block is lost, as is a tag declared by a typedef at file scope |
| `extern`, `proto` | `codegen.c:1445` | a block-scope `extern` or a block-scope prototype, `int g(int);`, makes an automatic variable |
| `Short` | `codegen.c:184`, `1379` | `int a[] = {1, 2, 3};` in a block has a slot of 8 bytes, and its initializer writes all 12: into the variable declared before it, or the saved `rbp` |
| `for` with a list | `sema.c:574` | `for (int i, j; ...)`: the names are out of scope for sema before the condition |
| `param` | `sema.c:439` | a body may redeclare a parameter |
| `continue` | `sema.c:604` | `continue` is accepted in a switch outside all loops |
| file scope | `sema.c:282` | `extern int z; int z = 4;` is refused, and so is a tag between two tentative definitions; being errors of sema they stop nothing |

*Object file and image* (`LostInFile`, `LostInMemory` in `CgImage`).

| Where | What the code does |
|---|---|
| `elf_writer.c:194`, `224` | a symbol in `.bss` is written as one in `.data` |
| `codegen.c:171` | the symbol of a static local says offset 0, whatever the place it was given |
| `codegen.c:1966` | two tentative definitions of a name are two symbols, which a linker refuses |
| `codegen.c:2198` | in memory the latest symbol of a name is taken: a definition that an `extern` declaration follows is not found, and after `int x = 4; int x;` the name reaches an empty copy in `.bss` and reads 0 |
| `codegen.c:1946`, `158` | `Short`: `gen_global` takes the size of the type as it was parsed, so that `struct S x;` by its tag has 8 bytes with the alignment 1, and `int a[] = {...};` none; a static local of such an array has 4 |
| `codegen.c:1981` | a pointer of file scope that is initialized with a string is 0 (not in the model: contents are left out) |

*Preprocessor* (`TameText`, `TameCondition` in `CMacro`; `legal` in `Preproc`).

| Where | What the code does |
|---|---|
| `preprocessor.c:470` | `defined(X)` of an object-like macro is false: `X` has been expanded before |
| `preprocessor.c:357` | arguments are not replaced before they are put in: `#x` and `x##y` behave as in C, but a macro in an argument is rescanned with the called name hidden, and one level of indirection does not help `#` |
| `preprocessor.c:230` | `F()` with one parameter has no argument, and the parameter's name stays; a list left open loses its last argument |
| `preprocessor.c:296` | `##` is not processed in object-like macros, and next to an empty argument it joins the wrong tokens |
| `preprocessor.c:402` | a name is taken to begin at any letter, also inside a number: with `#define F(x) x##B` and `#define B A B`, `F(1)` becomes `1A B` instead of `1B`; `0xA` and `10L` are expanded in the same way where `xA` or `L` is a macro. `preprocessor.c:329` puts arguments into numbers and literals of a body likewise |
| `preprocessor.c:406` | what replaces a macro is put next to the text around it without white space: `-A` with `A` defined as `-1` becomes `--1` (not in the model: white space is left out) |
| `preprocessor.c:311` | `#__VA_ARGS__` is always an empty string |
| `preprocessor.c:357` | a function-like name at the end of a replacement is not called with the `(` that follows it |
| `preprocessor.c:499` | octal numbers are read as decimal, character constants are 0, `#if F` of a function-like macro takes the number its body starts with |
| `preprocessor.c:743` | a second `#else`, or `#elif` after `#else`, is accepted; an unterminated `#if` is never reported, and frames left open by a header stay for the including file |
| `preprocessor.c:834`, `865` | a missing header is a warning; `#error` is not counted |

*Parser* (`TameStatement`, `TameType` in `CSyntax`; `NothingHidden` in `ParserRun`).

| Where | What the code does |
|---|---|
| `parser.c:1525` | an expression statement that starts with an identifier takes its binary operators in the order written, whatever their precedence, and refuses `x = 1, y = 2;` |
| `parser.c:522` | the dimensions of an array of arrays are nested the other way round; `f(void *p)` loses the `*` |
| `parser.c:635` | the type behind a group is reconnected as `base` only: `char *(f(void))` declares a function whose `return_ty` is the `int` of the placeholder (and `sema.c:206` makes that its `base` again), `char *(a[3])` an array of 12 bytes until sema resolves it (`OfInt`, `TameGroups`) |
| `parser.c:121` | an object never hides a typedef name, though `parser.h:26` calls the table scope-aware |
| `parser.c:1391` | `case` takes an integer literal only: an enumerator is silently 0, `-1` an error |
| `parser.c:433` | an enumerator's value is a literal or a negated one; other expressions are skipped one token wide |
| `parser.c:218` | a qualifier behind a struct, enum or typedef name is a syntax error; bit-fields and compound literals are not known |
| `parser.h:20` | promises panic-mode synchronisation after an error; there is none |

## 5. Proofs

The theorems hold for every value of the constants, from the assumptions that the modules name. TLAPS checks them to the last leaf;
PROJECT.json lists them. None of the properties is inductive as it stands: each module has an inductive invariant (`IInv`; in
`ScopesProofs` `FrameInv` and `NamesInv`; for `CgCall` `CallInv`, and `FrameInv` and `ArriveInv` on top of it), a lemma for each
action that keeps it, and one for each property that follows from it. Every
strengthening was first checked by TLC on the bounds of its run.

| Module | Proved (besides its invariant) | Assumptions |
|---|---|---|
| `VmGcProofs` | `TypeOK`, `NoDangling`, `TriColor`, `SweepReadsLiveFunc`, `MarksReset`, `RefundsCovered`, the refinement of `GcAbstract` | `MaxObj` positive, thresholds natural, `ShapesAssumption` |
| `VmInternProofs` | `ProbesEnd`, `Findable`, `OnePerContent` | `Hash` into the natural numbers, an initial capacity of 2 or more (16 in the code) |
| `VmExecProofs` | `CapturesHold`, `OpenListSorted`, `CalleeBelowFrame`, `HandlersInContext` | natural bounds, and `~CaptureInTry` and `~ReturnInTry` as hypotheses of each theorem |
| `VmSaiProofs` | `TypeOK`, `TransparentElsewhere`, `Hysteresis`, `StatsBalance` | finitely many sites, a positive threshold |
| `PreprocProofs` | `GroupsAsC`, `OutputAsC` | `ConditionAssumption` |
| `ScopesProofs` | `LocalsApart`, `UsesReachTheirObject`, `NamesAgree`, `RefusesOnlyRedeclaration`, `JumpsAccepted` | sizes, alignments and extents natural |
| `CgProofs`, of `CgImage` | `StorageApart`, `MemoryReferencesResolve`, `FileReferencesResolve` | the sizes of C positive, those stored in types natural (`ImageAssumption`), `LabelsAssumption` |
| `CgProofs`, of `CgCall` | `ParamsArrive`, `FrameHolds` | `NumbersAssumption`, `TypesAssumption` (a scalar fits a word, no type is empty); as hypotheses, that `Admit` lets in nothing but `"wide"` for `ParamsArrive`, and neither `"half"` nor `"wide"` for `FrameHolds` |

*Collector.* `NoDangling` holds during marking only
because nothing has been freed, and during sweep only because what sweep frees is unmarked and what
is live is marked; that in turn follows from the tri-colour invariant when the gray set is empty
(`LiveLeast`: `Live` is the least closed set over the roots, so a closed set of marked objects
that holds the roots contains it). The inductive invariant `IInv` adds what ties the phases
together: live objects not yet visited by sweep are marked, visited ones are unmarked and
live, an unlinked number is referred to by nobody (`FreshInv`), a closure's function is older
than the closure, and the function of a closure being allocated is live (`PendInv`).
`SweepReadsLiveFunc` follows from the age of functions: sweep goes from young to old.
`RefundsCovered` is inductive together with `PendInv`, which says when an object is under way, and `ShapeInv`: a closure's function is a function and has been
there before it, so that what sweep recomputes for a closure is what was charged for it, whatever happened to the function since. That an action takes off the sum what it
takes off one object, or puts on it, is `TotalChange`.
`Refinement` maps marking to stuttering, its end to `Collect` in one step (the unmarked objects that
sweep has yet to visit stop counting then, `Survivors`), sweep to stuttering, `Link` to `New`.

*Intern table.* `IInv` says that `string_count` is the number of filled slots, dangling ones included, and at most three quarters of the
capacity, so that an empty slot is left and every probe ends; and that every allocated string is reached by the probe for its hash through
filled slots only (`Placed`). Insertion keeps this because slots are filled and never emptied, sweep because it leaves them filled. Growth builds a
new table one slot of the old one after the other; `Moved` is a recursive function, and an induction over it is the claim that
the set of counterexamples has no least member (`LeastOf` in `BasicLemmas`). That the table never holds two allocated strings of one content follows from
`Findable`: a search that misses has seen all of them.

*Calls, upvalues, exceptions.* `IInv` is the layout of the stack: a frame ends below the callee of the next, the heights that
handlers restore lie between their function's locals and the next callee (`FramesOK`, `TopOK`), the slot below a frame
holds the closure running in it (`CalleesOK`), and an open upvalue points into a frame, to no callee, and not into what
a handler discards without closing it (`PlacesOK`). The last part is what `CaptureInTry` breaks (section 4), and `FramesOK` what `ReturnInTry` breaks, hence the hypotheses of the theorems: a program
in which no variable of a `try` block is captured and no function returns inside one. Everything else of the bytecode contract is in the guards of `VmExec`.

*Specializing interpreter.* The strengthening `FloatOnlyAdd` says that only `ADD` specializes to
floats; without it a specialized comparison on floats would be a second miss. `OneMore` counts the
specialized sites across a step for `StatsBalance`.

*Preprocessor.* `ConditionAssumption` says of each condition that it is evaluated as C does unless it is one of the deviations; that
is `ConditionsAsC`, which TLC checks (it evaluates the assumption too, on the conditions of the run), and it is all the theorems need of the expansion of
lines. `IInv`: as long as the input is legal there is a frame for every open group; the
frames down to any depth are all active exactly when the groups down to it are all selected; and a frame has `done` set exactly when one of its groups was
selected, but only in a frame whose surroundings are selected and which is not past its `#else`. The exceptions are real: `#else` inside a group left out
may set `active`, and a taken `#else` does not set `done`; neither shows, as an outer frame is inactive in the first case and no other branch may follow in the second.
`OutputAsC` also needs that the outputs of nested files, put together, grow at their end as C's text does, and that `EndHeader` moves text from one to the next without
changing the whole (lemmas on `FlattenSeq`).

*Frame.* `LocalsApart` is not inductive by itself: a new slot is below the others because none of them, save the short ones, reaches below
`next`. `FrameInv` says so of the list as it is (`Apart`), `AllocApart` that a further local keeps it
(`SlotBelow`; `CeilUp` and `Multiple` are the arithmetic of the rounding), and every action either leaves the list alone, empties it or allocates.

*Names.* `NamesInv` relates three structures that are cut in different places. The symbol table has one scope more than C in a function
(`Lang` takes one to the other) and stops at file scope in a function that sema gave up (`Shape`, which also counts what is open
in `loop` and `sw`). `Matching`: a symbol is of the object that C's scope declares under that name, tag or not, and what C's scope declares has a symbol, in both cases unless
the name is odd in that scope *or further out*, since an odd outer declaration changes what `resolve_type` does in an inner one. `Local`: C's scopes declare a name once, objects further in are
younger; the list of locals is sorted by age and has every object of the function, so that the first entry of a name is
the innermost living one or a dead one, which is what `Stale` asks. `OddTo`, `Declared`, `Listed` and `Owned` are those parts. Each of the ways in which a step changes a scope
(`Declares`, `Pushes`, `Pops`; `Touches`, `Enters`, `Leaves`; `Lists`) has lemmas of its own that keep them, and an action is a composition
of these.

*Object file and image.* `IInv`: storage is within the size of its section, and the rooms of two objects of a section lie apart (sections only grow, and `Reserve` rounds up from their
end), which keeps the objects apart that are no larger than their room (`SizesBeside`); two relocations patch different bytes; a symbol that is defined says where one of the homes of its name is; what has a home or is referred to has a symbol. The references
then resolve because the last symbol of a name with a place is found (`JitAddress`), and because the index that `codegen_emit_elf`
counts again is the position of the symbol in the order written, locals before globals (`SymsWith`). `FileOff` and `SymsWith` are recursive functions and take
`LeastOf` again. `LabelsAssumption` says that the labels of static locals and literals, which start with a dot, are no identifiers.

*Parameters.* The two ends of a call agree because both count in the order of the arguments. `CallInv` says that the slots are `SlotsTo` of the
arguments dealt with, that what lies on the stack is what has been pushed and not yet popped (`Pushed`, `Popped`: `PushOrder` is the reverse
of the order of popping followed by the slots that stay, `Layers`), so that in the end each register holds the word of its slot and
the stack the rest (`Handed`), and that the callee's counts, capped at the number of registers, are the caller's (`Counted`; the callee
goes on counting where the caller has stopped). `ArriveInv` adds that every parameter bound so far is in the frame or on the
stack (`Arrived`), and that what the callee has counted beyond the registers is the number of slots on the stack before this one
(`Spilled`): that makes `StackIndex` right unless a floating-point argument has gone to the stack first and the integer registers run out as well, which is `"mixed"`. A new parameter overwrites none because it lies
below `next`, and an SSE register stored as a whole stays below it unless the type is `"half"`. In a variadic function every argument is one word in an integer register, the
`i`-th in the `i`-th. `FrameInv` is the saved `rbp` and the limit of the one byte that is patched. What is said of `SlotsTo`, `Of` and
`FlattenSeq` is proved with `LeastOf`, by the number of arguments.

*Only model-checked.* `CollectionEnds`, `KeepsPace` and `Finishes`: liveness is out of the prover's
reach. `InStep` and `JumpsStay` of `CgStmt`, `ComputesMeaning` and `CallsAligned` of `CgExpr`, `TextAsC` and
`ConditionsAsC` of `MCPreproc` and the three properties of `ParserRun` rest on recursive operators over trees or token lists, about which nothing can be proved here. The violation stays a run.

## 6. Not modelled, and why

*VM.* Arithmetic beyond addition, subtraction and order, and formatting and printing, are data no property is about.
The natives are seen as calls that leave a value. `vm_run` entered again after a runtime error or by a native is not modelled: its
callers in the repository start it again only after a normal end. Fibers are never created. `ic_pool` is never filled. `STACK_MAX` is never
checked by the code, so `StackMax` is a bound of the model. `MAKE_ARRAY` and the hash function are data. Bytecode emission appends to
buffers and patches an offset; it is the next component to take up.

*Compiler.* The lexer is character classes. The driver is a fixed sequence of passes; what it does about their errors is used in the modules. The IR
is dumped and never compiled, and it lowers no variable: the parser makes `ND_VAR`, `ir.c:171` and `261` ask for `ND_IDENT`.
`arena.c` is not built. `symtable_alloc_local` and the label table of the symbol table are not used by the code generator, which has its own.
`CgStmt` takes the code of an expression as one instruction, `CgExpr` the body of a function
called as an answer. Floating-point arithmetic, initializer lists, struct layout, constant evaluation in sema, the assembly text of `-S`, and the bytes
of encodings and ELF headers are not modelled. `char` stands for the types narrower than `int`. Comments, continuation lines, white space and built-in macros of the
preprocessor are left out, and in `#if` unary plus, suffixes and the bases of numbers (a number is its value).
A declarator is read without qualifiers (`parser.c:311-314`) and without `long long` (`parser.c:330`).

## 7. Plan

1. *VM* (done but for bytecode emission): `VmGc` with its refinement and proofs, `VmMakeClosure`, `VmIntern`, `VmExec`, `VmSai`.
2. *Code generator* (done): `CgStmt`, `CgExpr`, `CgCall`, `Scopes`, `CgImage`.
3. *Front end* (done but for the lexer): `Preproc`, `ParserRun`, `Scopes`.
4. *Proofs* (done): what is left to the model checker is what section 5 says the prover cannot reach.
5. *Types*: struct layout against its definition; *bytecode emission*.
