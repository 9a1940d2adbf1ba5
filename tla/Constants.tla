------------------------------ MODULE Constants ------------------------------
(***************************************************************************)
(* Constants and the files that define them: the tables of constants, the  *)
(* inline cache of each reference (globals.rs), the two searches of a      *)
(* reference (vm/executor.rs), the classes that programs open, and files   *)
(* that run one another by require and load (loader.rs, builtin/kernel.rs).*)
(* One constant X is referred to, at one place of every piece of code.     *)
(***************************************************************************)
EXTENDS Naturals, FiniteSets, SequencesExt

CONSTANTS
    Files,          \* files besides the program "main"
    Classes,        \* the classes that can be made
    Depth,          \* pieces of code in progress at a time
    Nesting,        \* pieces of code within one another
    Values,         \* modules with a constant X
    Slots,          \* references in the cache
    Methods         \* methods

ASSUME ConstantsAssumption ==
    /\ {Depth, Nesting, Values, Slots, Methods} \subseteq Nat
    /\ "main" \notin Files
    /\ IsFiniteSet(Classes) /\ {"Object", "Mixin", "absent"} \cap Classes = {}

VARIABLES
    const_table,    \* of each class and module
    superclass,     \* of the classes made so far
    mixed,          \* classes that include Mixin
    cache,          \* the entries of references made since const_version last changed
    class_defined,  \* of the pieces of code in progress and of methods
    class_context,
    source_files,
    stack,          \* the pieces of code in progress, innermost last
    methods,        \* the methods defined, with the scope of their text
    begun           \* history: the files whose program has begun

vars == <<const_table, superclass, mixed, cache, class_defined, class_context,
          source_files, stack, methods, begun>>

----------------------------------------------------------------------------
With(table, key, value) == [k \in DOMAIN table \cup {key} |-> IF k = key THEN value ELSE table[k]]

(* Classes and modules.  Mixin is a module, the constant M of Object.      *)
Modules == {"Object", "Mixin"} \cup Classes
Names == {"X", "A", "M"}
Absent == "absent"
Made == DOMAIN superclass
Ancestors(c) ==
    LET up[d \in Modules] ==
            <<d>> \o (IF d \in mixed THEN <<"Mixin">> ELSE <<>>)
                  \o (IF d \in Made THEN up[superclass[d]] ELSE <<>>)
    IN  up[c]

(* The constant id in the first of some modules that has it.               *)
Has(id) == {c \in Modules : const_table[c][id] # Absent}
InFirst(modules, id) ==
    LET found == {i \in DOMAIN modules : modules[i] \in Has(id)}
    IN  IF found = {} THEN Absent ELSE const_table[modules[Min(found)]][id]

----------------------------------------------------------------------------
(* A piece of code in progress.  code: its place in the text; iseq: the    *)
(* code of its method, which blocks and evaluated strings share; scope:    *)
(* the classes its text is in (history); plain: its file was run by code   *)
(* outside of classes, and its class opened so (history).                  *)
Frame(kind, code, iseq, scope, plain) ==
    [kind |-> kind, code |-> code, iseq |-> iseq, scope |-> scope, plain |-> plain]
Top == Last(stack)
Pushes(kind) == kind \in {"class", "eval", "block"}
Class == Last(class_context)
File(code) == code[1]

Init ==
    /\ const_table = [c \in Modules |-> [id \in Names |-> IF c = "Object" /\ id = "M" THEN "Mixin" ELSE Absent]]
    /\ superclass = <<>> /\ mixed = {}
    /\ cache = <<>>
    /\ class_defined = [code \in {<<"main">>} |-> <<"Object">>]
    /\ class_context = <<"Object">>
    /\ source_files = {"main"}
    /\ stack = <<Frame("file", <<"main">>, <<"main">>, <<>>, TRUE)>>
    /\ methods = {}
    /\ begun = {}

----------------------------------------------------------------------------
(* A reference (GET_CONST): the cache, the classes the text is in, the     *)
(* ancestors of the class of the context.                                  *)
GetEnvConst_Outermost(iseq, id) == InFirst(class_defined[iseq], id)
GetEnvConst(iseq, id) ==
    LET d == class_defined[iseq] IN InFirst(IF Len(d) = 1 THEN d ELSE Reverse(Tail(d)), id)
GetSuperConst(c, id) ==
    InFirst(Ancestors(c) \o (IF c = "Mixin" THEN <<"Object">> ELSE <<>>), id)
Searched(iseq, id) ==
    LET v == GetEnvConst(iseq, id) IN IF v # Absent THEN v ELSE GetSuperConst(Class, id)
FindConstCache(slot) == slot \in DOMAIN cache
Referred(slot, iseq) == IF FindConstCache(slot) THEN cache[slot].val ELSE Searched(iseq, "X")

(* The method of this code is also evaluating a string further out.        *)
Evaluating == \E i \in 1 .. Len(stack) - 1 : stack[i].kind = "eval" /\ stack[i].iseq = Top.iseq

(* Pieces of code that an error, or the end, leaves: their classes are     *)
(* popped, and those an evaluated string has pushed onto its method.  What  *)
(* belongs to code that cannot run any more is forgotten here.             *)
Left(k) ==
    LET gone == k + 1 .. Len(stack)
        popped(s, those) == SubSeq(s, 1, Len(s) - Cardinality(those))
        kept == methods \cup ToSet(stack')
    IN  /\ stack' = SubSeq(stack, 1, k)
        /\ class_context' = popped(class_context, {i \in gone : Pushes(stack[i].kind)})
        /\ class_defined' = [c \in {f.iseq : f \in kept} |->
                popped(class_defined[c], {i \in gone : stack[i].kind = "eval" /\ stack[i].iseq = c})]
        /\ cache' = Restrict(cache, {c \in DOMAIN cache : \E f \in kept : File(c) = File(f.code)})
        /\ UNCHANGED <<const_table, superclass, mixed, methods>>

(* An error, which an enclosing piece of code rescues.  The files it       *)
(* leaves stay in source_files.                                            *)
Raise ==
    /\ \E k \in 1 .. Len(stack) - 1 : Left(k)
    /\ UNCHANGED <<source_files, begun>>

Refer ==
    /\ IF Referred(Top.code, Top.iseq) # Absent
         THEN /\ (Top.kind # "eval" => Cardinality(DOMAIN cache \cup {Top.code}) =< Slots)
              /\ cache' = IF FindConstCache(Top.code) \/ Top.kind = "eval" THEN cache
                          ELSE With(cache, Top.code, [val |-> Searched(Top.iseq, "X"), mixed |-> mixed,
                                                          under |-> Class, evaluating |-> Evaluating])
              /\ UNCHANGED <<const_table, superclass, mixed, class_defined, class_context, stack, methods>>
         ELSE \E k \in DOMAIN stack : Left(k)
    /\ UNCHANGED <<source_files, begun>>

(* Globals::set_const: no cache entry is of the new const_version.         *)
SetConst_Stale(c, id, v) ==
    /\ const_table' = [const_table EXCEPT ![c][id] = v]
    /\ cache' = IF const_table[c][id] = Absent THEN cache ELSE <<>>
SetConst(c, id, v) ==
    /\ const_table' = [const_table EXCEPT ![c][id] = v]
    /\ cache' = <<>>

(* X = a value, of its own in each module (SET_CONST).                      *)
Assign ==
    LET parent == Last(class_defined[Top.iseq]) IN
    /\ Cardinality(Has("X") \cup {parent}) =< Values /\ parent \notin Has("X")
    /\ SetConst(parent, "X", "X of " \o parent)
    /\ UNCHANGED <<superclass, mixed, class_defined, class_context, source_files, stack, methods, begun>>

(* include: the module's constants are found from now on.                  *)
Include ==
    /\ Top.kind = "class" /\ Class \notin mixed \cup {"Mixin"}
    /\ mixed' = mixed \cup {Class}
    /\ UNCHANGED <<const_table, superclass, cache, class_defined, class_context, source_files,
                   stack, methods, begun>>

Enter(frame) == Len(stack) < Depth /\ stack' = Append(stack, frame)
Within(name) == Append(Top.code, name)
Nests == Len(Top.code) < Nesting /\ Top.kind \in {"file", "class"}

(* DEF_CLASS: the class is the constant of the class of the context, or a  *)
(* new one with some superclass; its body knows the classes around it.     *)
Body(c, name) ==
    /\ class_context' = Append(class_context, c)
    /\ class_defined' = With(class_defined, Within(name), class_context')
    /\ Enter(Frame("class", Within(name), Within(name), Append(Top.scope, c), Top.plain))
    /\ UNCHANGED <<mixed, source_files, methods, begun>>
DefClass ==
    /\ Nests
    /\ \/ \E name \in {"A", "M"} :
            /\ const_table[Class][name] # Absent
            /\ Body(const_table[Class][name], name)
            /\ UNCHANGED <<const_table, superclass, cache>>
       \/ \E c \in Classes \ Made, s \in {"Object"} \cup Made :
            /\ const_table[Class]["A"] = Absent
            /\ superclass' = With(superclass, c, s)
            /\ SetConst(Class, "A", c)
            /\ Body(c, "A")

(* DEF_METHOD: the method takes the classes of the code it is defined in.  *)
DefMethod ==
    /\ Nests
    /\ class_defined' = With(class_defined, Within("f"), class_defined[Top.iseq])
    /\ Cardinality(methods) < Methods \/ \E m \in methods : m.code = Within("f")
    /\ methods' = {m \in methods : m.code # Within("f")}
                  \cup {Frame("method", Within("f"), Within("f"), Top.scope, Top.plain)}
    /\ UNCHANGED <<const_table, superclass, mixed, cache, class_context, source_files, stack, begun>>

(* A method is called: the context's class stays that of the caller.       *)
Call ==
    /\ \E m \in methods : Enter(m)
    /\ UNCHANGED <<const_table, superclass, mixed, cache, class_defined, class_context,
                   source_files, methods, begun>>

(* module_eval of a block, and of a string, which is compiled anew and     *)
(* has no cache entry to find.                                             *)
ModuleEval ==
    /\ Top.kind \notin {"block", "eval"}
    /\ \E c \in Made \cup {"Mixin"}, kind \in {"block", "eval"} :
        /\ class_context' = Append(class_context, c)
        /\ class_defined' = IF kind = "eval" THEN [class_defined EXCEPT ![Top.iseq] = Append(@, c)] ELSE class_defined
        /\ Enter(Frame(kind, Within(kind), Top.iseq,
                       IF kind = "eval" THEN Append(Top.scope, c) ELSE Top.scope, Top.plain))
    /\ UNCHANGED <<const_table, superclass, mixed, cache, source_files, methods, begun>>

(* load_exec: a path that require finds is noted before its file is read;  *)
(* the program runs in the classes of the context.                         *)
Runs(f) ==
    /\ \A g \in methods \cup ToSet(stack) : File(g.code) # f     \* a bound: one program of a file
    /\ begun' = begun \cup {f}
    /\ class_defined' = With(class_defined, <<f>>, class_context)
    /\ Enter(Frame("file", <<f>>, <<f>>, <<>>, class_context = <<"Object">>))
    /\ UNCHANGED <<const_table, superclass, mixed, class_context, cache, methods>>
Unreadable == UNCHANGED begun /\ \E k \in DOMAIN stack : Left(k)
LoadExec_Forgets(f, allow_repeat) ==
    IF ~allow_repeat /\ f \in source_files
      THEN UNCHANGED vars
      ELSE /\ source_files' = IF allow_repeat THEN source_files ELSE source_files \cup {f}
           /\ Runs(f) \/ Unreadable
LoadExec(f, allow_repeat) ==
    /\ source_files' = source_files \cup {f}
    /\ IF ~allow_repeat /\ f \in source_files
         THEN UNCHANGED <<const_table, superclass, mixed, class_defined, class_context, stack, methods, cache, begun>>
         ELSE Runs(f) \/ Unreadable
Require == \E f \in Files : LoadExec(f, FALSE)
Load == \E f \in Files : LoadExec(f, TRUE)

(* A piece of code ends.                                                   *)
Return ==
    /\ Len(stack) > 1
    /\ Left(Len(stack) - 1)
    /\ UNCHANGED <<source_files, begun>>

Next ==
    \/ Refer \/ Assign \/ Include \/ DefClass \/ DefMethod \/ Call \/ ModuleEval
    \/ Require \/ Load \/ Raise \/ Return

Spec == Init /\ [][Next]_vars

----------------------------------------------------------------------------
(* A reference whose cache entry is current finds in it what it would find *)
(* by searching again (find_const_cache and every place that renews        *)
(* const_version), unless since then a module has been included, which     *)
(* renews nothing, or the code runs in another class of the context, or    *)
(* its method evaluated a string, then or now.                             *)
CacheTransparent ==
    FindConstCache(Top.code) =>
        LET entry == cache[Top.code]
        IN  \/ entry.val = Searched(Top.iseq, "X")
            \/ entry.mixed # mixed
            \/ entry.under # Class
            \/ entry.evaluating \/ Evaluating

(* A search finds the constant that Ruby finds: in the classes that the    *)
(* text is in, from the innermost, then in the ancestors of the innermost, *)
(* then in Object.  The code takes the classes in from class_defined, and  *)
(* the ancestors from the context, which in methods and blocks may be any  *)
(* others; a file run from within a class is taken to be text of it; and a *)
(* string being evaluated adds its class to all activations of the method. *)
RubySearch ==
    InFirst(Reverse(Top.scope) \o Ancestors(Last(<<"Object">> \o Top.scope)) \o <<"Object">>, "X")
SearchesAsRuby ==
    \/ Searched(Top.iseq, "X") = RubySearch
    \/ Top.kind \in {"method", "block"} /\ InFirst(Top.scope, "X") = Absent
    \/ ~Top.plain
    \/ Evaluating

(* require runs no program that has begun before, whoever ran it and       *)
(* however it ended (load_exec notes every file, load's too, before it is  *)
(* read).                                                                  *)
RequiredOnce == [][Require /\ Len(stack') > Len(stack) => begun' # begun]_vars
=============================================================================
