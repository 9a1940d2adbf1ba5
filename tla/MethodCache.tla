----------------------------- MODULE MethodCache -----------------------------
(***************************************************************************)
(* Method lookup: the method tables of classes (value/class.rs), the       *)
(* global method cache and the inline caches of call sites (vm/method.rs). *)
(* A cache entry holds the class version of its time and counts while      *)
(* nothing has changed the version.                                        *)
(*                                                                         *)
(* Singleton classes are left out.  A site calls one method name.          *)
(***************************************************************************)
EXTENDS Hierarchy

CONSTANTS Name,         \* method names
          Site,         \* call sites, with their inline caches
          NameOf,       \* NameOf[s]: the name site s calls
          MaxVersion,   \* bound: changes of the class version
          Anonymous     \* may the program lose its last reference to a class?

ASSUME MethodCacheAssumption ==
    /\ NameOf \in [Site -> Name]
    /\ MaxVersion \in Nat
    /\ Anonymous \in BOOLEAN

VARIABLES
    h,          \* the classes
    methods,    \* methods[c][n]: the MethodId in the table of class c
    repo,       \* number of methods in MethodRepo's table
    version,    \* class_version
    mcache,     \* global method cache: <<class, name>> to [method, version]
    icache,     \* inline caches: site to [version, class, method]
    held        \* classes the program can name

vars == <<h, methods, repo, version, mcache, icache, held>>

BasicObject == 1
NoMethod == 0
NoTable == [n \in Name |-> NoMethod]
Versions == 0 .. MaxVersion
MethodId == 0 .. MaxVersion
NoEntry == [method |-> NoMethod, version |-> -1]
NoInline == [version |-> -1, class |-> None, method |-> NoMethod]

(* Module::get_method: the first table upwards from c that has the name.   *)
Resolve(c, n) ==
    LET chain == Chain(h, c)
        hits == {k \in DOMAIN chain : methods[h[chain[k]].of][n] # NoMethod}
    IN IF hits = {} THEN NoMethod
       ELSE methods[h[chain[CHOOSE k \in hits : \A j \in hits : k <= j]].of][n]

-----------------------------------------------------------------------------

Init ==
    /\ h = [c \in Cell |-> IF c = BasicObject THEN [FreeNode EXCEPT !.of = c] ELSE FreeNode]
    /\ methods = [c \in Cell |-> NoTable]
    /\ repo = 0 /\ version = 0
    /\ mcache = [k \in Cell \X Name |-> NoEntry]
    /\ icache = [s \in Site |-> NoInline]
    /\ held = {BasicObject}

(* Class.new(s) and Module.new: a new class changes no version.            *)
Made(new) ==
    LET c == Fresh(h, 1)[1] IN
    /\ h' = new
    /\ methods' = [methods EXCEPT ![c] = NoTable]
    /\ held' = held \cup {c}
    /\ UNCHANGED <<repo, version, mcache, icache>>
NewClass(s) == Room(h, 1) /\ s \in held /\ ~h[s].module /\ Made(WithClass(h, s))
NewModule == Room(h, 1) /\ Made(WithModule(h))

IncClassVersion == version < MaxVersion /\ version' = version + 1

(* def: a new method in the table of c, whose id is its place in the       *)
(* table of all methods.                                                   *)
NewId == repo + 1
AddMethod(c, n) ==
    /\ c \in held
    /\ IncClassVersion
    /\ repo < MaxVersion
    /\ repo' = repo + 1
    /\ methods' = [methods EXCEPT ![c][n] = NewId]
    /\ UNCHANGED <<h, mcache, icache, held>>

Relinked(new) ==
    /\ h' = new
    /\ IncClassVersion
    /\ UNCHANGED <<methods, repo, mcache, icache, held>>

(* include and prepend.  A module that is given itself never comes to an   *)
(* end: append_include follows the copies it is making.                    *)
Include(c, m) ==
    /\ c \in held /\ m \in held /\ h[m].module /\ c # m
    /\ Room(h, Len(Chain(h, m)))
    /\ Relinked(WithInclude(h, c, m))
Prepend(c, m) ==
    /\ c \in held /\ m \in held /\ h[m].module /\ c # m
    /\ Room(h, Len(Chain(h, m)) + (IF h[c].prepended THEN 0 ELSE 1))
    /\ Relinked(WithPrepend(h, c, m))

(* MethodCache::get_method: a hit of the current version, or a search      *)
(* whose result, if any, is entered.                                       *)
Current(entry) == entry.version = version
Found(c, n) == IF Current(mcache[<<c, n>>]) THEN mcache[<<c, n>>].method ELSE Resolve(c, n)
Entered(c, n) ==
    IF Found(c, n) = NoMethod THEN mcache
    ELSE [mcache EXCEPT ![<<c, n>>] = [method |-> Found(c, n), version |-> version]]

FindMethod(c, n) ==
    /\ c \in held
    /\ mcache' = Entered(c, n)
    /\ UNCHANGED <<h, methods, repo, version, icache, held>>

(* find_method_inline_cache: the site's own entry first, for the class of  *)
(* its last call only.                                                     *)
InlineHit_AnyClass(e, c) == Current(e)
InlineHit(e, c) == Current(e) /\ e.class = c
Call(s, c) ==
    LET n == NameOf[s] IN
    /\ c \in held
    /\ IF InlineHit(icache[s], c)
         THEN UNCHANGED <<mcache, icache>>
         ELSE /\ mcache' = Entered(c, n)
              /\ icache' = IF Found(c, n) = NoMethod THEN icache
                           ELSE [icache EXCEPT ![s] =
                                   [version |-> version, class |-> c, method |-> Found(c, n)]]
    /\ UNCHANGED <<h, methods, repo, version, held>>

(* The method a call of site s on an instance of class c runs.             *)
Called(s, c) == IF InlineHit(icache[s], c) THEN icache[s].method ELSE Found(c, NameOf[s])

(* The program forgets a class; a collection frees what it cannot reach.   *)
(* The caches are no roots.                                                *)
Forget(c) ==
    /\ Anonymous /\ c \in held \ {BasicObject}
    /\ held' = held \ {c}
    /\ UNCHANGED <<h, methods, repo, version, mcache, icache>>
Collect ==
    /\ h' = [c \in Cell |-> IF c \in Reached(h, held) THEN h[c] ELSE FreeNode]
    /\ UNCHANGED <<methods, repo, version, mcache, icache, held>>

Next ==
    \/ NewModule \/ Collect
    \/ \E c \in Cell : NewClass(c) \/ Forget(c)
    \/ \E c \in Cell, n \in Name : AddMethod(c, n) \/ FindMethod(c, n)
    \/ \E c, m \in Cell : Include(c, m) \/ Prepend(c, m)
    \/ \E s \in Site, c \in Cell : Call(s, c)

Spec == Init /\ [][Next]_vars

-----------------------------------------------------------------------------
(* Properties *)

(* Every variable has its type.                                            *)
TypeOK ==
    /\ h \in [Cell -> Node]
    /\ methods \in [Cell -> [Name -> MethodId]]
    /\ repo \in MethodId /\ version \in Versions
    /\ mcache \in [Cell \X Name -> [method : MethodId, version : Versions \cup {-1}]]
    /\ icache \in [Site -> [version : Versions \cup {-1}, class : Cell \cup {None}, method : MethodId]]
    /\ held \subseteq Cell

(* The caches are transparent: a call runs the method that a search of the *)
(* classes as they are now would find, whatever was defined, included or   *)
(* prepended between the calls.                                            *)
CachesTransparent ==
    /\ TypeOK
    /\ \A c \in held :
        /\ \A n \in Name : Found(c, n) = Resolve(c, n)
        /\ \A s \in Site : Called(s, c) = Resolve(c, NameOf[s])

(* No class in use loses an ancestor, and two ancestors never change their *)
(* order, whatever is included or prepended anywhere.                      *)
SubsequenceOf(s, t) ==
    LET match[k \in 0 .. Len(t)] ==     \* how many of s the first k of t have
            IF k = 0 THEN 0
            ELSE LET m == match[k - 1] IN
                 IF m < Len(s) /\ s[m + 1] = t[k] THEN m + 1 ELSE m
    IN match[Len(t)] = Len(s)
AncestorsKept ==
    [][\A c \in held \cap held' : SubsequenceOf(Ancestors(h, c), Ancestors(h', c))]_vars

(* After an include or a prepend every class below c, through superclasses *)
(* only, has the module and all of its ancestors.                          *)
Below(c, d) == c \in ToSet(Ancestors(h, d)) /\ ~h[c].module
ModuleReachesSubclasses ==
    [][\A c, m \in held : Include(c, m) \/ Prepend(c, m) =>
          \A d \in held : Below(c, d) =>
              ToSet(Ancestors(h, m)) \subseteq ToSet(Ancestors(h', d))]_vars

(* No collection frees a cell that a search from a class in use visits.    *)
ChainsAllocated ==
    \A c \in held : \A k \in DOMAIN Ancestors(h, c) :
        Ancestors(h, c)[k] \notin FreeCells(h) \cup {None}

=============================================================================
