-------------------------------- MODULE Walk --------------------------------
(***************************************************************************)
(* How the passes walk a program: functions that call one another over the *)
(* syntax tree, and an environment they push, pop and mark.                *)
(*                                                                         *)
(* What a function does is a plan, a sequence of steps.  A step calls a    *)
(* function on a node, makes a claim about the program that may be false,  *)
(* or changes the environment.  Types are not computed: whether a claim    *)
(* holds is open, except that no more than MaxFailures fail.               *)
(***************************************************************************)
EXTENDS Integers, BagsExt, SequencesExt

CONSTANTS
  Sessions,     \* what is compiled, by name: a tree, by node, its files in
                \* order, and the claims that are true
  MaxFailures   \* a bound on the claims that fail

(***************************************************************************)
(* Syntax trees, as the parser makes them.                                 *)
(***************************************************************************)
(* What holds nodes, and of those what holds types. *)
TypeFields == {"td", "ext", "types", "names", "next", "outer"}
Fields ==
  TypeFields \cup
  {"args", "array", "base", "becomes", "body", "call", "cases", "cdef", "cond", "consts", "ctor",
   "def", "default", "else_body", "else_exp", "end", "equal", "exp", "expansions", "exps", "fptr",
   "func", "handlers", "if_exp", "init", "instance", "lhs", "locale", "members", "new", "op",
   "owners", "rhs", "shorter", "sizes", "start", "step", "test", "to", "val", "when", "when_def",
   "where"}

Child(tree, n, f) == IF f \in DOMAIN tree[n] THEN tree[n][f] ELSE <<>>

(* Fields hold nodes, and what the code takes for granted is there: an     *)
(* instance is one of something, what follows a dot follows a class, a     *)
(* declaration and a construction have a type.                             *)
Complete(tree) ==
  \A n \in DOMAIN tree :
    /\ \A f \in Fields : Child(tree, n, f) \in Seq(DOMAIN tree)
    /\ \A f \in TypeFields : \A i \in DOMAIN Child(tree, n, f) : tree[Child(tree, n, f)[i]].kind = "type"
    /\ tree[n].kind = "type" /\ Child(tree, n, "instance") # <<>> => Child(tree, n, "to") # <<>>
    /\ Child(tree, n, "next") # <<>> =>
         Child(tree, n, "outer") # <<>> /\ Child(tree, Child(tree, n, "outer")[1], "to") # <<>>
    /\ tree[n].kind \in {"decl", "new"} => Child(tree, n, "td") # <<>>
    /\ tree[n].kind = "binary" => Child(tree, n, "lhs") # <<>>

WellFormed ==
  \A s \in DOMAIN Sessions :
    Complete(Sessions[s].tree) /\ Sessions[s].units \in Seq(DOMAIN Sessions[s].tree)

ASSUME SessionsAssumption == WellFormed

VARIABLES
  session,      \* the one of Sessions that is compiled
  units,        \* the files that are still to be compiled
  env,          \* Env, Env_Scope and the scopes of namespaces
  marks,        \* flags of types and nodes, as pairs
  calls,        \* the functions that run, the outermost first
  error,        \* Context.error and Sema.error
  failed        \* the claims that failed

vars == <<session, units, env, marks, calls, error, failed>>

N(n) == Sessions[session].tree[n]
Kids(n, f) == IF f \in DOMAIN N(n) THEN N(n)[f] ELSE <<>>
Has(n, f) == Kids(n, f) # <<>>
Is(n, flag) == flag \in ToSet(Kids(n, "flags"))
Marked(n, m) == <<n, m>> \in marks
MarkedAll(ns, m) == \A i \in DOMAIN ns : Marked(ns[i], m)

(* What nodes are. *)
Statements ==
  {"exp", "while", "until", "for", "each", "loop", "if", "code", "break", "continue",
   "return", "match", "pp", "retry", "try", "defer", "spread", "using", "import"}
Declarations ==
  {"func", "class", "trait", "enum", "union", "fptr", "typedef", "extend", "prim"}
Expression(n) ==
  N(n).kind \notin Statements \cup Declarations \cup {"stmts", "case", "handler", "arg", "type", "member"}

-----------------------------------------------------------------------------
(* Calls.  The first word says what the caller does when the call fails.   *)

Call(mode, f, ns) == [i \in DOMAIN ns |-> <<mode, f, ns[i]>>]

(* CHECK_B(f(n)): it fails too. *)
Must(f, ns) == Call("must", f, ns)
(* ... with a message. *)
Loud(f, ns) == Call("loud", f, ns)
(* if(!f(n)) ok = false *)
Try(f, ns) == Call("try", f, ns)
(* if(ok && !f(n)) ok = false *)
And(f, ns) == Call("and", f, ns)
(* (void)f(n) *)
Loose(f, ns) == Call("loose", f, ns)
(* POISON_NODE: it marks the node, and goes on; it skips a node that is   *)
(* marked.                                                                 *)
Poison(f, ns) == Call("poison", f, ns)
(* ... and it stops after a statement that ends the flow. *)
Flow(f, ns) == Call("flow", f, ns)
(* Sema's POISON_OK, and its POISON, which does not count as a failure; *)
Spoil(f, ns) == Call("spoil", f, ns)
Blot(f, ns) == Call("blot", f, ns)
(* a statement that only is marked. *)
Stain(f, ns) == Call("stain", f, ns)
(* check_exp: an expression is done once, and poisoned when it fails. *)
Typed(f, ns) == Call("typed", f, ns)
(* Validation goes on too; what is poisoned already counts as a failure    *)
(* only where it is a statement or a section.                              *)
Sound(f, ns) == Call("sound", f, ns)

(* A claim.  When it is false, there is a message and the function fails,  *)
Claim(c) == <<<<"claim", c>>>>
(* or it fails without, *)
Test(c) == <<<<"test", c>>>>
(* or it fails but goes on, with a message *)
Doubt(c) == <<<<"doubt", c>>>>
(* or without, *)
Shrug(c) == <<<<"shrug", c>>>>
(* or there is the message and no failure. *)
Blame(c) == <<<<"blame", c>>>>

(* CHECK_B of all that was done so far. *)
Check == <<<<"check">>>>
(* What is known to be false: the same as the first, *)
Refuse == <<<<"refuse">>>>
(* and ok = false. *)
Fail == <<<<"fail">>>>

Do(op, x) == <<<<op, x>>>>
(* POISON: the error without a node. *)
Noise == Do("error", "context")
(* ... if the function has failed so far. *)
IfFailed(plan) == [i \in DOMAIN plan |-> <<"failed", plan[i]>>]
Mark(n, m) == Do("mark", <<n, m>>)
Set(field, x) == <<<<"set", field, x>>>>
Add(field, k) == <<<<"add", field, k>>>>
Back(field) == Do("back", field)
When(cond, plan) == IF cond THEN plan ELSE <<>>

(* RET_NSPC: a scope around a plan; *)
Scoped(plan) == Do("open", "") \o plan \o Do("close", "")
(* a scope of values that the depth does not count. *)
Values(plan) == Do("values", "") \o plan \o Do("unvalue", "")

(* env_push_type, env_push_nspc and env_pop *)
PushType(n) == Do("push", n)
PushNspc(n) == Do("nspc", n)
Pop == Do("pop", "depth")
PopTo0 == Do("pop", "zero")

(* The statements of a list, or the sections: with what replaced spreads,  *)
(* with the functions that sema_default_args adds, without what follows    *)
(* the end of the flow; in a class the statements are those of @ctor.      *)
Sections(n) ==
  FlattenSeq([i \in DOMAIN Kids(n, "body") |->
    LET s == Kids(n, "body")[i]
    IN  When(N(s).kind # "stmts" /\ ~Marked(s, "poison"), <<s>>)])
Body(n) == IF Marked(n, "ctor") THEN Kids(n, "ctor") \o Sections(n) ELSE Kids(n, "body")

Listed(n) ==
  LET ends == {i \in DOMAIN Body(n) : Marked(Body(n)[i], "last")}
      b == IF ends = {} THEN Body(n) ELSE SubSeq(Body(n), 1, Min(ends))
  IN  FlattenSeq([i \in DOMAIN b |->
        IF Marked(b[i], "spread") THEN Kids(b[i], "expansions") ELSE <<b[i]>>])
      \o FlattenSeq([i \in DOMAIN b |->
        When(Marked(b[i], "default") /\ ~Marked(b[i], "poison"), Kids(b[i], "shorter"))])

-----------------------------------------------------------------------------
(* The environment: Env, then what Sema keeps, then open value and type    *)
(* scopes by namespace, and what the compiler has.                         *)

Bare ==
  [curr |-> "root", class |-> "", nspcs |-> <<>>, depth |-> 0,
   func |-> "", in_try |-> FALSE, breaks |-> 0, conts |-> 0, effects |-> 1,
   global |-> "root", globals |-> <<>>, context |-> "",
   in_func |-> FALSE, handling |-> FALSE, in_defer |-> FALSE, in_variadic |-> FALSE, tmpls |-> FALSE,
   open |-> EmptyBag, types |-> EmptyBag, code |-> "", shred |-> ""]

env_push(e, class, nspc) ==
  [e EXCEPT !.nspcs = Append(@, <<e.curr, e.class>>), !.effects = @ + 1,
            !.class = class, !.curr = nspc, !.depth = 0]

env_pop(e, depth) ==
  [e EXCEPT !.nspcs = Front(@), !.curr = Last(e.nspcs)[1], !.class = Last(e.nspcs)[2],
            !.effects = @ - 1, !.depth = depth]

(* The vector of effects is not cleared. *)
env_reset(e) ==
  [e EXCEPT !.curr = e.global, !.class = "", !.func = "", !.depth = 0, !.in_try = FALSE,
            !.breaks = 0, !.conts = 0, !.effects = @ + 1,
            !.nspcs = <<<<"root", "">>, <<e.global, "">>>>]

(* A file has a namespace, and one for what it declares global, below that *)
(* of the files before it. *)
load_context(e, n) ==
  [e EXCEPT !.globals = Append(@, e.global), !.global = N(n).space, !.context = n,
            !.nspcs = Append(@, <<e.curr, "">>), !.curr = n]

(* A slip: the namespace of the file is left, the global one is not. *)
unload_context_kept(e, kept) ==
  [e EXCEPT !.nspcs = Front(@), !.curr = Last(e.nspcs)[1]]

unload_context(e, kept) ==
  [e EXCEPT !.nspcs = Front(@), !.curr = Last(e.nspcs)[1],
            !.global = IF kept THEN @ ELSE Last(e.globals),
            !.globals = IF kept THEN @ ELSE Front(@)]

(* What a step does to the environment, in a call that began with was. *)
Effect(e, was, s) ==
  CASE s[1] = "push"  -> env_push(e, s[2], s[2])
    [] s[1] = "nspc"  -> env_push(e, "", s[2])
    [] s[1] = "pop"   -> env_pop(e, IF s[2] = "zero" THEN 0 ELSE was.depth)
    [] s[1] = "open"  -> [e EXCEPT !.depth = @ + 1, !.open = BagAdd(@, e.curr)]
    [] s[1] = "close" -> [e EXCEPT !.depth = @ - 1, !.open = BagRemove(@, e.curr)]
    [] s[1] = "values"  -> [e EXCEPT !.open = BagAdd(@, e.curr)]
    [] s[1] = "unvalue" -> [e EXCEPT !.open = BagRemove(@, e.curr)]
    [] s[1] = "types"  -> [e EXCEPT !.types = BagAdd(@, e.curr)]
    [] s[1] = "untype" -> [e EXCEPT !.types = BagRemove(@, e.curr)]
    [] s[1] = "add"   -> [e EXCEPT ![s[2]] = @ + s[3]]
    [] s[1] = "set"   -> [e EXCEPT ![s[2]] = s[3]]
    [] s[1] = "back"  -> [e EXCEPT ![s[2]] = was[s[2]]]
    [] s[1] = "reset" -> env_reset(e)
    [] s[1] = "load"  -> load_context(e, s[2])
    [] s[1] = "unload" -> unload_context(e, "context" \notin error /\ Marked(s[2], "global"))
    [] s[1] = "sema"  -> [e EXCEPT !.in_func = FALSE, !.handling = FALSE, !.in_defer = FALSE,
                                   !.in_variadic = FALSE, !.tmpls = s[2]]
    [] OTHER -> e
=============================================================================
