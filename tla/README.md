# A TLA+ model of ruruby

ruruby is a Ruby interpreter written in Rust. A lexer and a recursive-descent
parser build a syntax tree, a code generator turns it into instruction
sequences, and a stack-based virtual machine executes them over a mark-and-sweep
heap, with fibers that run on native stacks of their own. There is one operating
system thread; what makes the run-time hard is that raw pointers to stack frames,
heap cells and machine stacks are shared between parts that each believe they own
them: contexts move from the native stack to the heap while calls are in
progress, a collection runs in the middle of anything, fibers leave native calls
unfinished, caches are keyed by addresses.

This directory holds the TLA+ modules that model those parts, the TLC
configurations that check them on small instances, and proofs, checked by TLAPS,
that hold for every value of the constants. Paths below are relative to the root
of the repository.

## 1. The system's parts

| Part | State | Operations | Module |
|---|---|---|---|
| Heap and collector (`src/alloc.rs`, `src/builtin/gc.rs`) | pages, free list, bump cursor, mark bits, request flag | `alloc`, `gc`, GC.enable/disable/start/print_mark | Allocator |
| Fibers and enumerators (`src/coroutine*`, `src/builtin/fiber.rs`, `enumerator.rs`) | FiberContext: state, stack, rsp, main_rsp; the store of native stacks | new, resume, yield, end, each/map/with_index, drop, mark | Fiber |
| Contexts and closures (`src/vm/context.rs`, part of `src/vm/executor.rs`) | contexts on stack or heap, `exec_context`, procs | calls of methods, blocks and procs, move to the heap, local variables | Closures |
| Classes and method lookup (`src/value/class.rs`, `src/vm/method.rs`, `src/builtin/module.rs`) | links between classes, method tables, global and inline caches, class version | define, include, prepend, lookup | Hierarchy, MethodCache |
| Calls and unwinding (`src/vm/executor.rs`, `src/vm/executor/opt_core.rs`) | `exec_stack`, `temp_stack`, `class_context`, the error on its way | call, return, break, return from a block, raise, rescue | RunContext |
| Constants (`src/globals.rs`, parts of `src/vm/executor.rs`) | tables of constants, inline cache with its version, `class_defined`, `class_context` | look up, assign, open classes, include, module_eval | Constants |
| Loading (`src/loader.rs`, `src/builtin/kernel.rs`) | `source_files` | require, load | Constants |
| Arguments (`src/vm/args.rs`, `src/vm/context.rs`) | none: a function of parameters and arguments | bind, refill the frame of an iteration | Arguments |
| Code generator (`src/parse/codegen.rs`, `src/vm/iseq.rs`) | stacks of loops, contexts and exception tables | compile each node, rewrite jumps | Codegen, CodeRun |
| Arithmetic (`src/vm/executor.rs`, `src/value/value.rs`, `src/builtin/integer.rs`) | none; numbers packed into words | operators, comparisons, loops | Numbers |
| Arrays, hashes, ranges (`src/value`, `src/builtin`) | elements, tables, what a method in progress has collected | mutation, slices, iteration with blocks | Iteration, IterationProofs, Collections |
| Lexer (`src/parse/lexer.rs`) | position | tokens from characters | Lexer |
| Parser (`src/parse/parser.rs`) | lookahead, scopes of local variables, flags that suppress assignment | nodes from tokens | Tokens, ParserState, Parser |
| Names, strings, regular expressions, files, time, shell, profiling | see PROJECT.json | | not modelled, section 9 |

How they interact: `VM::run_context` executes instructions and asks the method
caches for the method of a call; it enters `VM::gc` when a run of a context or a
round of its main loop begins, where a requested collection is made. The
collection starts at the globals and the VM of the main execution and follows
contexts, procs, classes and fibers, so a pointer that any part forgets to mark
or to redirect is found freed, or stale, by another part. A builtin calls blocks
back through `eval_block`; a block may make a closure, which moves contexts the
builtin still refers to; a fiber runs the same code on a VM of its own.

What makes each modelled part correct:

* Allocator: an object that can be reached is never freed or given out again;
  one that cannot is freed by the next collection; no cell or page is in two
  places; memory nobody wrote is never dropped; collections are requested and end.
* Fibers: a yield goes back to the latest resumer; a suspended fiber finds its
  native frames intact; no native stack serves two fibers, and none is lost but by
  the drop of a fiber suspended inside an `each`; no fiber that will be used is freed.
* Closures: whatever was moved, every access reaches the variable that lexical
  scoping means, and no pointer leads into a dropped frame.
* Method lookup: a cached lookup answers like a search; ancestors are kept.
* Code generator: on every path an instruction finds its operands, a normal end leaves
  one result, and the code does what the tree means.
* Lexer and parser: a text written from a tree, with no more parentheses than Ruby
  needs, is read as that tree; a name is a variable exactly where Ruby makes it one.
* Constants: a cached reference finds what a search would find; a search finds what
  Ruby's scoping says; a file required twice runs once.
* Arguments: each parameter gets the value that Ruby's rules give it.
* Collections and iteration: whatever blocks do, a method returns what Ruby says for
  what its block returned, and what it has collected survives a collection.
* Arithmetic: operators and comparisons agree with the integers, and with each other
  over packed and boxed integers and floats.
* Unwinding: after any end of a call the operand stack, the temporaries and the
  class context are what the caller expects, and a jump ends where it should.

## 2. Modules and how they correspond to the code

PROJECT.json maps every definition to the lines it stands for.

### Heap, Allocator, AllocatorInv, AllocatorTrigger, MCAllocator

*Heap* is the abstract specification: a set of live cells, their references and
the program's roots. Cells go out of use only while unreachable (`Reclaim`).

*Allocator* has the fields of `Allocator` as variables. `alloc` is the three
actions AllocFromFreeList, AllocBump and AllocNewPage, in the order of its
branches; a new page holds arbitrary mark bits and unwritten cells ("Uninit"),
a page from `free_pages` whatever was left in it. A collection is one call in
the code. Here it is spread over its loops: BeginMark is `clear_mark` and the
call of `root.mark`, MarkPtr one `gc_mark`, DeallocPage one iteration of
`dealloc_empty_pages` (from the last page to the first), SweepCell and
SweepNextPage those of `sweep`, EndSweep the assignments after it. No mutator
action is enabled meanwhile, as in the code; the steps exist so that what one
loop leaves to the next can be stated. `mark_bits` is a set of cells rather
than words of 64 bits, and the order in which the recursion marks is left open.
The counters that only GC.stat reports (`allocated`, `count`) are left out.

*AllocatorInv* states the inductive invariant, *AllocatorTrigger* adds a history
variable that counts fresh cells taken since the last request.

### Coroutines, Fiber

*Coroutines* is control flow only: who runs, whom each running fiber goes back
to, which fibers are over. *Fiber* models native stacks as sequences of native
calls. A context switch saves registers, which is pushing a frame, and jumps to
a depth of another stack, which cuts what is above it (EnterFiber for
`invoke_context` and `switch_context`, LeaveFiber for `yield_context`): a stale
`rsp` or `main_rsp` therefore really leads to a wrong frame. Stacks come from a
store (Popped) and are returned by the guard of an ended fiber and by `Drop`, the
second time with the null pointer. Enumerator#each, map and with_index make an
inner fiber that is a Box of the native call (EachStart, EachNext, EachAbort).
The collector's view is Refs and MarkedBy: contexts and stacks of a VM
(`hold`), the block or receiver in its FiberKind (`info`), and the receivers that
`invoke_native` keeps on `temp_stack`. Values are fibers or nothing. An address
is not used again after a drop. `ControlSpec` says Fiber implements Coroutines.

### Environments, Closures

*Environments* is lexical scoping with no stack and no heap. *Closures* has
contexts at addresses `<<n, "stack">>` and `<<n, "heap">>`; `ctl` is the sequence
of native calls, whose Run entries are `exec_context` followed by `cur_context`.
MakeProc is `create_proc` and `create_lambda` with the whole of
`move_outer_to_heap`: which contexts are copied (Moving), the single search
through `exec_context` (Found), the pointers redirected (Redirected, OuterMoved).
The blocks of builtins in progress and of method contexts are not redirected,
and later uses go through `get_current` (OuterOf, Reused), as in the code. A
context has one variable; parameters are not filled. `LexicalScoping` says Closures
implements Environments: the environment of a context has its number, the value is that of
its current copy, those running are the numbers of the Run entries (Ran), and
those captured are the moved ones.

### Hierarchy, MethodCache, MCMethodCache

*Hierarchy* holds operators on the graph of classes: `append_include` and
`append_prepend` splice copies of a module's chain, `upper` passes over a class
with something prepended to it. *MethodCache* adds tables, `class_version`, the
global cache (`MethodCache::get_method`) and the inline cache of call sites, and
a collection that frees classes nothing can reach while the caches keep their
addresses. Ids of methods are numbered in the order of their definition.

### RunContext

Frames are calls in progress: the program, methods, class bodies and blocks, and
builtins. Of `exec_stack` only the length is kept; each frame has the number of
operands its code has pushed (`depth`), what was on the stack below it (`base`)
and the operands a `begin` was entered with (`handler`). An error is first
"thrown" (the code of a frame has failed: the loop of `run_context` handles it)
and then "received" by the frame below (`try_push`, or a builtin). NativeFails
is any builtin passing an error on; NativeCatches is `loop`, which takes
StopIteration for its end. `parent` and `home` of an error are ghosts: they
record where a break or a return should lead, and no guard reads them. A program is
compiled as a method (ISeqKind::Method), so it takes a return as a method does. A break, a next
or a return may leave a `begin` with rescue clauses: these get exceptions only.

### Syntax, Instructions, Codegen, Meaning, CodeRun, Regular, MCCodeRun

*Codegen* is a function from a tree to code: `Gen` has a case for each kind of node,
with the value used or not. Offsets that the code patches later (`write_disp`) are
either sizes of pieces put together by `++`, or, for `break`, `next` and `return`,
instructions "escape" that the enclosing construct resolves, as its list of
escapes does. *Instructions* gives the effect of each instruction on the operand
stack; instructions that differ only in what they compute share one. Each has length
1. `Optimize` is `ISeq::optimize`. Left out are the encoding, slots of local
variables, and the code inside methods, blocks and classes defined in the
program, which are compiled separately.

*CodeRun* executes the code of one method or block: `pc`, the operand stack, and the
trace of calls and assignments. Values are terms, the truth of an unknown value is
a choice, and calls of a method in `Risky` may raise; `tape` records the choices.
*Meaning* evaluates the tree with the same choices, without code, and MeansTree
compares trace, result and ending. It evaluates in ruruby's order (arguments before
the receiver, multiple assignment from right to left, the end of a range
before its start), so MeansTree does not say that this order is Ruby's.

*Regular* states for which trees the generated code is right, one condition per
pattern for which it is not. It reads like a list of what a program must avoid.

### Tokens, ParserState, Parser, Grammar, Readable, Parsing, MCParser

*Parser* has one definition for each parse function, in continuation style: `Then` is
the operator `?`. *Tokens* is the lexer as the parser sees it: a stream of lexemes
with blanks and line ends, a position, and the two tokens buffered for peeking, which
`restore_state` leaves behind. *ParserState* has the stack of contexts with their
local variables and the flags that suppress assignments. *Grammar* does not follow
the code: it writes a tree as text (Written), says which trees need no more
parentheses than they have (Printable), and which tree Ruby means, names resolved by
Ruby's scoping (Meant). *Parsing* writes a tree, reads the text, and compares.
*Readable* lists, one condition each, the patterns that the code reads otherwise.

### Lexer, Lexicon

*Lexer* reads tokens from a sequence of characters, one definition per function of
the code, the nesting of delimiters and interpolations included. *Lexicon* is the
reference: each kind of word is a set of texts, a text is cut into the longest words,
and literals are written from items that say how they are spelled and what they stand
for. Its last part lists the texts that the code takes for others.

### Arguments, Binding

*Arguments* is `from_args` with all it calls: a parameter list is a record of
numbers, a frame a sequence of values; lengths are unsigned, so that a negative one
is a panic. Iterations is `invoke_method_iter1`, which fills one frame anew for each
round. *Binding* says how Ruby binds: from both ends, then the optional parameters
from the left, then the rest.

### Collections, CollectionLaws, Iteration

*Collections* has the methods that run no block, as functions that give the result
and what becomes of the receiver; *CollectionLaws* states what Ruby promises of them,
by positions and by what one method undoes of another. HashEach walks the memory of
the table while the block removes keys.

*Iteration* is a state machine: methods in progress, each waiting for its block
(`frames`), over one array (`cells`, of which `len` are elements, as a Vec keeps what
was popped), and `temp_stack`. Call, GoOn, Finish are native code up to the next call
of the block; Store, Push, Pop, Shift are what a block does to the array; Raise leaves
any number of methods. `calls` and `start` are history, for the properties.

### Constants

Pieces of code in progress (files, class bodies, methods, module_eval of blocks and
strings) form a stack; `class_defined` and `class_context` are the code's. Refer is
GET_CONST with its cache, Assign SET_CONST, DefClass `define_class` and the body,
LoadExec `load_exec`. One constant X is referred to at one place of each piece of
code; A and M name classes. Entries of an older `const_version` are dropped rather
than kept with their number. `scope`, `plain` and `begun` are history.

### Numbers

Integers at a small width: packed (`Fix`) or an object (`Box`), and the operators with
their overflow; floats only as far as they are whole numbers, for comparisons, before
which `AsFloat` rounds an integer to `Mantissa` bits (53 in the code, 2 in the run, so
that 5 and 7 are no floats). The second part states Ruby's operators for integers without bounds.

### Algorithms, MCAlgorithms

Lexer, Arguments, Collections and Numbers keep no state. *Algorithms* lets an input
grow step by step and evaluates all four on each.

## 3. Runs

| Run | Instance | What it shows |
|---|---|---|
| allocator | 2 pages of 2 cells, 1 reference per object, 2 roots, symmetric pages | TypeOK, NoInvalidMarked, CollectionExact, Accounting, IInv, RequestedInTime; Allocator implements Heap (HeapSpec); FreeInitialised |
| allocator_live | the same with 1 root, WF(Collector) | CollectionEnds |
| fiber | 3 fibers besides the main execution | StackExclusive, ReturnsToResumer, SuspendedIntact, NoDangling, NoStackLost; Fiber implements Coroutines (ControlSpec) |
| closures | 3 contexts, 6 nested native calls | NoDangling, MoveFinds; Closures implements Environments (LexicalScoping) |
| method_cache | 4 classes, 1 name, 1 site, 3 versions | CachesTransparent |
| method_graph | 6 cells, 3 changes, collections | ChainsAllocated, AncestorsKept, ModuleReachesSubclasses |
| run_context | 6 nested calls | OperandsFound, StacksOfCallsInProgress, JumpsLeadHome |
| code_run | about 30,000 programs, 4 choices and 14 events each | OperandsThere, MeansTree |
| parser | every construct around every construct | ParsesAsWritten, LocalsAsScoped |
| functions | 374,000 inputs | LexesAsWritten, CallsBindAsRuby, CollectionsAsRuby, NumbersAsRuby |
| iteration | an array of up to 4 elements, 2 methods in progress | ResultsRooted, ReturnsAsRuby, RetainKeepsAll |
| constants | 1 file, 1 class besides Object and a module, 4 pieces of code in progress | CacheTransparent, SearchesAsRuby, RequiredOnce |

The type invariants TypeOK of Fiber, Closures, MethodCache, RunContext and CodeRun are
conjuncts of SuspendedIntact, MoveFinds, CachesTransparent, OperandsFound and
OperandsThere.

Why these bounds are enough to be interesting:

* Two pages let the current page, a full page and a released one take turns, and
  a page be released, reused and released again; two cells per page are the
  least for which a page is partly dead. DATA_LEN, THRESHOLD and Page are
  arbitrary in the proofs; MaxKids and MaxRoots only bound the graph of objects.
* Three fibers give a chain of resumes with a sibling, two inner fibers of
  nested iterations, and stacks that are released and reused by another fiber.
* Three contexts give a method, a block in it and a closure in that block, and
  an iteration whose context is moved between two rounds; six nested calls let
  each of them be called through a builtin.
* Four classes and three versions: a cache filled, the class changed, the cache
  filled again, the class changed back. Six cells hold a class, a subclass and
  two modules with their copies.
* Six frames: a method calls a builtin, which calls a block, which calls a
  method with a block of its own, and so on; errors pass over all of them.

* The programs of code_run put each of about a hundred constructs into every place of
  every other one, and constructs that change the flow of control three deep; each tree
  is the end of a method, a statement of a block, the body of a loop or a default
  of a parameter. What a construct does depends on its context only through
  `cx` and whether the value is used, which these nestings vary. Four choices let a
  loop go round twice with a choice in it, and one call raise and be rescued.

* Texts of up to five characters over four alphabets (numbers, names, operators,
  lines), and literals of up to three items, reach every branch of the lexer; a rule
  that needs more characters than these is a repetition. Integers of 8 bits in literals
  and 4 bits in arithmetic have every pair of operands, with all overflows.
* Parameter lists have up to two of each kind, calls up to four arguments: too few,
  enough and too many for most lists, and arrays to be spread of none to three elements.
* Arrays of up to three elements, tables of up to four entries, and positions from -5 to 5
  that cross both ends. In iteration, arrays of up to four elements; two methods
  in progress, one in the block of the other, are the least that share an array; objects
  do not run out (`Ids`).
* Four pieces of code in progress: a file, a module, a class in it and a method, a string
  evaluated in it, or a file run from it. The class can lie in Object or in the module.
  The proofs hold for any number.

Deadlock is not checked in fiber, closures, run_context, code_run, parser and functions: a
program or an input may end, and a bounded supply of fibers may run out.
Every bound is a constant and named as one in its module.

## 4. Gates

Some modules have Boolean constants that admit a pattern of programs for which
the code is known to break a property. Passing runs keep them shut; with a gate
open TLC shows the breakage. They say what a program must avoid.

| Module | Gate | What it admits |
|---|---|---|
| Fiber | InnerFibers | the method that an `each` iterates with makes or receives fibers |
| Fiber | NextAndEach | one enumerator used with `next` and with `each` |
| Fiber | Reenter | resume of a fiber that has not yielded |
| Closures | Enumerators | enumerators made in contexts that are on the stack |
| Closures | CapturedBlocks | closures made in a method that was given a block literal |
| MethodCache | Anonymous | the program loses its last reference to a class |
| RunContext | Yields | break and return in a block that a method yields to |
| RunContext | Nested | a call, begin or jump in mid-expression that ends early |
| MCCodeRun | Irregular | trees that Regular excludes |
| Parsing | Irregular | programs that Readable excludes |
| Lexicon | IrregularTexts | texts that the code takes for others |
| Binding | IrregularCalls | calls that the code binds otherwise |
| CollectionLaws | IrregularCollections | calls that the code answers otherwise |
| Numbers | IrregularNumbers | operands for which the code differs |

The first eight are gates of single actions or guards, the others of inputs; the rest of
the model is the same. Iteration and Constants have no gates: their properties name what
they except. In method_graph Anonymous is open: the graph itself survives collections.

## 5. Disagreements between the code and what it says

Each can be seen by changing the constant of the cfg that its entry begins with; TLC
then ends with a violation.

* InnerFibers = TRUE in Fiber.cfg (`src/builtin/enumerator.rs:102`): the inner fiber of
  `each` is a Box, and nothing marks its VM. An object only it refers to is freed, and
  marking it later panics ("Invalid rvalue. (maybe GC problem)").
* CapturedBlocks = TRUE in Closures.cfg (`src/vm/executor.rs:1791`): a method's context that is
  moved to the heap keeps its block as a reference to the caller's stack frame.
* Yields = TRUE in RunContext.cfg (`src/vm/executor/opt_core.rs:19`): a `break` in a block
  that a method yields to ends the yield only, and a `return` in it ends the yielding method.
* NextAndEach: a fiber that is Dead marks nothing (`src/coroutine.rs:87`), but `each`
  of an exhausted enumerator still uses its receiver.
* Reenter: `resume` (`src/coroutine.rs:191`) switches to a fiber that is running or
  waiting and overwrites its `main_rsp`.
* Enumerators: `create_enumerator` (`src/vm/executor.rs:1781`) stores the current stack
  context, which a later closure moves; marking it panics ("ref to stack").
* Anonymous: keys of the global method cache are addresses, and the marking of
  the cache is commented out (`src/globals.rs:36`): a class made in the cell of a
  collected one gets its methods until the version changes.
* Nested: a return taken in mid-expression leaves operands on the stack
  (`src/vm/executor/opt_core.rs:20`); the debug assertion at `src/vm/executor.rs:408` fails.
* Irregular, all in `src/parse/codegen.rs`: `next` as a used value in a `while` leaks an
  operand per round (1986); `break`, `next` and `return` leave pending operands behind,
  and a rescue in an operand drops them; a return runs the ensure clause of the
  innermost begin only, break and next run none, and an error reaches a clause
  only if the begin has rescue clauses and the error comes from its body
  (1438-1475); `a&.m(x)` on nil leaves receiver and arguments, and with keyword, block or
  splat arguments `&.` calls anyway (1781-1834); a block argument next to keyword arguments is
  taken for them, and of several `**h` the first wins; in a `case` without
  subject, `when a, b` needs both (1594), and of equal literals in a table the
  last branch is taken (1522).

* Parsing, Irregular, all in `src/parse/parser.rs`:
  - calls: `a&.m x` without parentheses loses `&.`; `f **x` is an operand, `f !x` and `f ~x`
    are no commands; `a.m (x; y)` and `yield (x), y` take the parenthesis for that of the
    arguments; nothing may follow `yield(...)`; a `do` block goes to the last argument
    (`f a do`), or to the condition of a loop;
  - operators: `-1 ** 2` is `(-1) ** 2`; `2 ** -x`, `!-x` and `~-x` panic; `!a = 1` and
    `a ** b = 1` assign to the result of the operator; `<=>` is grouped like a comparison;
  - assignments: one in a list of arguments, a hash or a default takes the items after it;
    a multiple one in parentheses fails inside a right side, an array, an index or a `when`;
    in `x ||= ... x ...` and `x, a = a, b` the names are variables only after the
    right side (915); variables of a block are visible after it, and those of a
    method in all that follows (286);
  - others: a hash key that begins with a name and `-`, `+`, `!` or `~`, or with `yield` or
    `defined?`, is misread, from a buffer that restore_state leaves (`src/parse/lexer.rs:228`);
    `rescue => a.m` is not accepted; a path of a class has names only; `class <<` is
    rejected in a method.
* IrregularTexts, all in `src/parse/lexer.rs`: `C?` and `C!` are constants (510); `$_a` is
  `$_` and `a` (444); `**=` is no operator; integers too large are 0, or wrap in
  hexadecimal and binary (577); digits after `0` are decimal, `0x1i` and `1if` are misread;
  `a?=` is `a?` and `=`; delimiters that open before an interpolation do not close
  after a new one has opened (684); in `%q`, `\)` keeps its backslash and `\'`
  loses it; `\2` to `\7` in a regular expression are octal (799), and only one letter of
  options is read (773); `%w` has empty words around blanks; a here document
  drops the rest of its first line, and knows no escapes.
* IrregularCalls, all in `src/vm/context.rs` but the last two: keywords for
  required parameters only are an error (198), a hash beyond the last parameter panics or
  takes another one's place (292); keywords beside a nameless rest go to the next slot
  (`src/parse/codegen.rs:712`); one array is spread over a block only if it has several required
  parameters (270); blocks with post parameters panic on few arguments; a block with
  optional or rest parameters called without arguments leaves required ones
  uninitialized; a missing required keyword is no error; `*nil` passes nil and `**{}` a
  hash (`src/vm/executor.rs:1703`); in an iteration the other variables of the block keep
  their values from round to round, defaults included, and closures share them
  (`src/vm/executor.rs:1503`).
* IrregularCollections: `a[i, n]` outside the array is `[]`, a range that begins before
  it too, or panics (`src/value/array.rs:128`, `150`); the three-argument `[]=` beyond the end does not
  pad (201); in `src/builtin/array.rs`, `shift(n)` and `drop(n)` with n beyond the length
  return nothing or fail (219, 781), `rotate!` of `[]` and `slice!` beyond the end panic (494, 701),
  `transpose` believes an empty first row (555), `join` forgets separators after empty
  strings (758); `Hash#delete` puts the last entry into the place of the removed one
  (`src/value/hash.rs:290`), so a block that removes other keys may be given an entry twice.
* IrregularNumbers: overflow wraps (`src/vm/executor.rs:686`); `/` rounds to zero and does not exist
  for an integer on the heap (726); `div` is Euclidean (`src/builtin/integer.rs:97`); `%`
  by zero panics, and so do `%` and `div` of the smallest integer by -1 (734); shifts
  count modulo the width (783); `[]` beyond the width is 0 for negative integers; `step` wraps
  beyond the largest integer and goes on (`src/builtin/integer.rs:249`), and `upto` the
  largest integer does nothing (243); an integer on the heap is never
  `==` a float, though `<=>` says 0 (941), and `Float` has no `<` for one
  (`src/builtin/float.rs:6`). An integer is rounded to a float before it is compared with one
  (`src/vm/executor.rs:892`, `910`, `949`, `952`, `1081`, `src/builtin/integer.rs:116`, `170`),
  so `9007199254740993 == 9007199254740992.0` holds here and not in Ruby: only of such
  integers is the outcome excepted, not that `==`, `<=>` and the orders agree.

Excepted in the properties themselves:

* Iteration.Unrooted: `uniq` with a block does not root what the block returned, and
  `flat_map` of an array roots the array but moves its elements out of it, which also empties the
  program's array (`src/builtin/array.rs:393`, `651`). select, reject and partition keep elements in a Rust vector;
  they are safe only while the array has them. After a block has resized the array,
  each and the others walk freed or stale memory (424): undefined behaviour.
* Constants.CacheTransparent: `include` does not renew the cache (`src/globals.rs:160`), a reference in a
  method finds what the first caller's class context made it find, and entries made
  while the method evaluates a string stay.
* Constants.SearchesAsRuby: the second search begins at the class of the dynamic
  context (`src/vm/executor/opt_core.rs:434`), so a method called from outside its class does not see
  constants that class inherits; module_eval of a string shows its class to every
  activation of the method (`src/builtin/module.rs:331`); a file required in the body of a class
  defines its constants there (`src/vm/executor.rs:304`).
* Constants.RequiredOnce: `load` notes its file too, and so does an attempt that
  failed (`src/loader.rs:36`): require does not run it again. A require in
  mid-expression panics on the assertion at `src/vm/executor.rs:309`; here requires are statements.
* MethodCache: lookup begins with the table of the class itself even when a module is
  prepended to it (`src/value/class.rs:145`); the test at `src/builtin/module.rs:777` looks at a
  subclass, for which it is right. Resolve is the code's, so no property shows it.


* Fiber.NoStackLost: a fiber suspended inside an `each` that is dropped, by the collector or
  with the Box of another `each`, gives back its own stack only (`src/coroutine.rs:77`). Nothing
  returns from its native calls, so the Box of its `each`
  (`src/builtin/enumerator.rs:102`) and the native stack that Box owns are never freed. The model
  reaches this; the property excepts just these stacks, and says that no other is lost.

Modelled as it is, with no property about it: `VM::gc` (`src/vm/executor.rs:367`) does not look at
`gc_enabled`: a collection requested before GC.disable is made after it;
Safepoint models the code as it is.

## 6. Fairness

Only allocator_live assumes fairness: `WF(Collector)`. A collection is a loop in
one call of a single thread; once begun, it runs. Nothing is assumed of the program,
and so nothing is claimed about when a collection it requested is made: `VM::gc` is called
at the entry of `run_context_main` and by JMP_BACK only (`opt_core.rs:9`, `:603`), and a
program may stay away from both for ever, in a builtin or in a loop that never executes its
JMP_BACK (`next` is a plain JMP to the condition, and where a branch of the body would
jump to the JMP_BACK, `ISeq::optimize` makes it a JMP to the start of the loop).

## 7. Proofs

TLAPS checks these for every value of the constants that satisfies the assumption of
the module: any number of cells and pages, fibers, contexts, nested calls, classes, names,
array elements. The assumptions say what kind of value a constant is, and
besides that only:

* AllocatorAssumption: a page has a cell, and the threshold is one before its last.
* FiberAssumption: there are finitely many fibers, and MAIN is none of them and no number.
* HierarchyAssumption: classes are numbered, finitely many, BasicObject is 1 and 0 is none.
* ClosuresAssumption: `Uninit` is not a value of a program.
* ConstantsAssumption: there are finitely many classes, Object, Mixin and "absent" are none
  of them, and the program is none of the files.
* RunContextAssumption, MethodCacheAssumption, IterationAssumption: types of the bounds.

Theorems that need a gate of section 4 shut say so as a hypothesis; section 5
shows what an open one breaks, so the hypothesis cannot be left out. Each inductive
invariant was first checked by TLC, and none of them is implied by the property it proves.

**SequenceFacts.** What Tail, Append, Front and RemoveAt do to elements and repetition,
what FlattenSeq does with one more sequence (Flattening), and induction. The library's induction theorems take an operator for a parameter, which
none of the provers can instantiate; here induction is said of a set: one that has 0, and
n + 1 with each n, has every number (Induction, InductionTo, from the least
element of a set of numbers). Counting says that what a recursion on numbers
asks for, some function does; with it `LET f[k \in 0 .. n] == ...` can be reasoned about.
Recursion is its twin for functions that are recursive along links without cycles.

**AllocatorProofs.** The inductive invariant IInv (AllocatorInv) strengthens the
checked properties with what the loops of a collection leave to each other:

* Cells, NoDangling: live cells are handed out, written, and refer to live cells
  while nothing is being freed. Accounting alone is not inductive: popping the
  free list needs to know that its cells are not live and refer to nothing.
* Marking, MarkingExact: what is marked or on the stack is live, contains the
  roots, is closed under references and is reachable; `mark_counter` is the
  number of bits.
* Pruned: pages that the walk of `dealloc_empty_pages` has passed hold a mark.
* Sweeping: each cell the sweep has passed is marked or on the new list, once.

One lemma per action shows IInv kept (`...Inv`), StepInv puts them together, and
Invariance is `Spec => []IInv`. From it follow TypeCorrect, PagesStayDisjoint,
CellsAccounted, MarkNeverPanics, CollectionIsExact and FreesInitialised. ImplementsHeap
shows that every step is a step of Heap or a stutter (StepRefines): the
interesting case is that cells freed by DeallocPage and SweepCell are unmarked at a
time when everything reachable is marked, and that the allocation returns a
cell not in use (AllocReturnsUnused).

RequestsInTime is about the threshold. Only one cell of a page raises the request, so
the number of cells since the last one depends on where the cursor is (TakenSince):
past the threshold, those taken since; before it, those of this page and the end of
the one before.

**FiberProofs.** StacksExclusive, no native stack belongs to two fibers or lies in
the store twice, holds with every gate open; the strengthening numbers stacks
by their allocation. The others take InnerFibers, NextAndEach and Reenter FALSE and rest
on FiberInv, which has four parts:

* Stacks: a fiber has a stack exactly when it runs or waits, also one that nothing can
  resume any more, and each stack made is in the store or that of such a fiber (StacksAccounted).
* Control: each native call that waits belongs to its execution, and a resume that waits is
  where `main_rsp` of its fiber leads (CallsOK); each inner fiber has one `each` that
  owns it (Owners, OneEach); whoever is active was resumed by exactly one waiting
  call (Resumed), so only the execution in control waits for nobody (InControl), and all
  were resumed from MAIN, step by step (Chain, said with closed sets).
* Kinds: inner fibers have no receivers of their own and never end as a fiber does.
* References: nothing that an execution still works with was dropped. This is
  NoDangling for executions that may go on, rather than for what a collection marks.

From it follow FibersReturn (ReturnsToResumer), FibersIntact (SuspendedIntact), StacksKept
(NoStackLost), FibersSound (NoDangling) and FibersAreCoroutines: each step is a step of
Coroutines or a stutter. ChainEnds is a theorem about Coroutines alone: giving control
back over and over arrives at the main execution, said with closed sets instead of
paths. FibersLeadBack inherits it for Fiber through the refinement.

NoStackLost relates a state to the next. InHand leaves out the fibers of an `each` whose native
call was cut off, so the proof shows which fibers keep a way to the program: the calls of each
that wait in a fiber not dropped still do after a step (EachesKept), so one that is
reached before and not after hangs below a fiber the step drops (Within(Gone)). The
stacks of all others are where StacksAccounted says.

**ClosuresProofs.** For programs that make no enumerator in a stack context and no closure
in a method with a block literal (Enumerators and CapturedBlocks FALSE). ContextInv is
TypeOK and

* Contexts: a context refers to older ones, and a block's context has no block of its own;
  one that was moved has a copy on the heap with the same outer context by number, and
  copies refer to copies only. The stale original may still refer to the stack,
  so the invariant relates the two by number.
* Frames: a call in progress runs a context where it is now, and a builtin was called by
  the context that its block refers to, which may have moved.
* Ordered: calls run contexts in the order of their making, but for an iteration and its
  block, which share one. The single pass of `move_outer_to_heap` relies on it.
* Below: whatever a context on the stack refers to is in progress or on the heap.
* Nested: the contexts in progress between one and its outer one have outer ones in
  between, and there are none between a method and the context of its block. A move
  that passes over some contexts therefore leaves none behind that refer to moved ones.

PointersLive is NoDangling, MovesFind is MoveFinds, and Lexical is LexicalScoping, with a
mapping from contexts to environments that takes each number's current copy. The
last one found a mistake: Environments let a closure capture only environments in
progress, but a proc made in a block of a method may be called when that block's
environment is neither in progress nor captured, which takes more contexts than the run
has. Capture now takes all environments in scope.

**MethodCacheProofs.** ChainsStay is ChainsAllocated: the way up from a class in use
ends and meets allocated cells only. The invariant says that no way upwards leads
back: every set of cells has one that leads out (Acyclic), which needs no paths and
survives a splice of copies (SpliceFacts). CachesAgree is CachesTransparent, with
Anonymous FALSE: an entry of the current version is what a search finds. It needs that
the result of a search depends on links and tables only (ResolveKept) and that each
action that changes them leaves no entry of the new version (NewVersion).

AncestorsStay is AncestorsKept. An include or a prepend splices copies between a class and
what was above it; a prepend also moves the methods of a class to a copy above it (Grafted).
What a class sees upwards (Seen) is one recursion along links for originals and copies, so
what it saw before embeds into what it sees now, unless some class is the first where it
does not; Acyclic gives that first one, and the step above it keeps the embedding
(StepAbove). The greedy comparison of the property finds every embedding
(EmbedsSubsequence).

ModulesReach is ModuleReachesSubclasses, from Linked: what leads upwards from a module are
modules, a copy of a class has copies only between itself and the class, and what was
prepended to has a copy of itself above. Neither theorem restricts the constants:
methods may be anonymous, and changes come in any order.

**RunContextProofs.** Shape and Counted give StacksCut (StacksOfCallsInProgress) for every
program. With Nested FALSE, Operands adds that frames stand on the stack one on the
other, each as deep as its code has pushed, where an error on its way has cut it, and that
the method or program a return will end is not in mid-expression (TakerIdle):
OperandsAgree (OperandsFound). With Yields FALSE, Aimed says of a break or return on its
way that the frames still to be left lead to its target: JumpsArrive (JumpsLeadHome).

**ConstantsProofs.** CInv says that each place in the text has its classes. Nothing in the
state records them, so they are a function B under a quantifier, one for all that is in
progress or can still run: the classes of a place are those of the code around it,
and in the body of a class that class (Follows). The rest relates the state to B:

* StackOK: the file and class bodies in progress have pushed the classes of their text,
  in its order, so the height of `class_context` counts them; code of the same file further
  out is around them. Here the proof uses a bound of the model: a file runs again only when
  nothing of its last program is in progress or defined (Runs).
* DefinedOK: `class_defined` of a method has the classes of its text and one for
  each string it evaluates, no more after any end of these.
* CacheOK: an entry is what a search from its place finds, given the mixins and the
  class it was made under.
* HierarchyOK: superclasses lead nowhere back, so Ancestors, which is recursive along
  them, is defined for every number of classes (Recursion), and Object is above every class.

CacheStays (CacheTransparent) and SearchesRight (SearchesAsRuby) follow; RequiresOnce needs only
that a program that has begun is in `source_files`. The first attempt at SearchesRight
failed, and rightly: with five pieces of code in progress a method evaluates a string,
whose code calls the method again, and that call sees the string's class. Evaluating now
looks for such strings anywhere below; with four pieces there was no room for one.

**IterationProofs.** RetainKeeps: `uniq!` in progress has the elements it was called
with. IInv says of each `uniq!` that it is at an element of its slice, has dropped
fewer than it has passed, and walks the whole array while nobody has changed
it; so the two positions of a swap lie within the array (Swapped).
CollectedRooted is ResultsRooted: what a method in progress has collected is found by a
collection. RInv divides temp_stack into the parts of the methods in progress, in
their order, and says that what a method has collected is in the array or in its own
part; a method that ends cuts only its own, and the exchanges of `uniq!` keep the set
of elements. uniq and flat_map are excepted, as in the property.
ReturnsRight is ReturnsAsRuby, for all methods of the model. WInv adds what each method has
done so far: its block was given the values in order and none of its answers ended the
method (InOrder); the bounds of a binary search have been asked for, with the answers
that put them there (Searching); what it has collected belongs to the calls made
(Collects, over the positions the property chooses by); the array is as at the call but
for the part that retain has gone over, where what stays comes first (InPlace); and
map's part of temp_stack holds one value per call, and ends where the part of the method
called in its block begins (OnStack), so exceptions and ends further in take nothing away.

Only model-checked: the liveness property (fairness and ENABLED are beyond the
prover); CodeRun, whose Codegen and Meaning are RECURSIVE over trees, and the algorithms of
Parser, Lexer, Arguments, Collections and Numbers, which are evaluated on inputs. Every
property of the other runs is a theorem.

## 8. Plan

1. Allocator: modelled, checked, proved; so is the refinement of Heap.
2. Fiber over Coroutines: modelled, checked, proved; so is the refinement.
3. Closures over Environments: modelled, checked, proved; so is the refinement.
4. Hierarchy, MethodCache: modelled, checked, proved. Next: singleton classes, super.
5. RunContext: modelled, checked, proved.
6. Constants, with the loading of files: modelled, checked, proved. Next: constants with a
   scope (`A::X`), singleton classes.
7. Codegen, CodeRun over Meaning: modelled and checked. Next: methods and classes
   defined within a loop (the generator does not open a new loop context for them,
   so that a `break` in them patches the wrong code), and eval.
8. Parser, Lexer, Arguments, Collections, Numbers: modelled and checked against a
   reference. Next: the adaptation of arguments in flat_map, block parameters, keys of
   hashes by identity and keys that change, floats.
9. Iteration: modelled, checked, proved. Next: hashes under insertion.
10. Compositions: contexts with fibers (a block that runs on another VM), classes
   with the collector.

Abstract specifications: Heap, Coroutines, Environments are implemented by refinement; Meaning,
Grammar, Lexicon, Binding and CollectionLaws are the references of algorithms. The
pure algorithms share one configuration, since each is an evaluation over bounded inputs.

## 9. Not modelled

* `assert_error`, the builtin of the tests, which swallows every error of its block,
  jumps included.
* eval, define_method, instance_eval, super and singleton classes,
  and contexts of several VMs at once. `super` starts at `superclass()`, which passes over
  every included and prepended module (`src/builtin/object.rs:159`).
* A module included in itself: `append_include` follows the copies it makes and never ends
  (`src/value/class.rs:423`); the guard of Include leaves the case out.
* The context switch of other targets: what it saves is the platform's calling
  convention.
* Names (`src/id_table.rs`): a bijection behind a lock, filled by insertion.
* Strings and regular expressions: text processing on library types.
* Files, processes, time, the shell and the profiler: no state that other parts rely on.
* Byte layouts: of packed values only integers (Numbers); instruction encodings.
* Arithmetic of floats and complex numbers, which is the machine's.
* Sorting of arrays, which hands the comparison to the library; inspect and to_s.
* Characters that are not ASCII, and places in the source for messages.

## 10. Running

`tlc -config Allocator.cfg MCAllocator.tla` and so on for each run of PROJECT.json, which
names its module (Fiber, Closures, RunContext and others are checked as they are);
`tlapm M.tla` for M in SequenceFacts, AllocatorProofs, FiberProofs, ClosuresProofs,
MethodCacheProofs, RunContextProofs, ConstantsProofs and IterationProofs. No run takes
more than about two minutes with two workers, no proof more than about fifteen.
