------------------------------- MODULE Front --------------------------------
(***************************************************************************)
(* The front end as a machine: one file after the other, each through its  *)
(* passes, step by step.  compile.c, pass.c, and how CHECK_B, POISON and   *)
(* their kind treat a call that fails (parse.h, env_utils.h).              *)
(***************************************************************************)
EXTENDS Check, Sema, Valid

-----------------------------------------------------------------------------
(* A file.                                                                 *)

(* A slip: the error is looked for before validation. *)
typecheck_ast_early(n) ==
  Loose("scan0_ast", <<n>>) \o Loose("scan1_ast", <<n>>) \o Loose("scan2_ast", <<n>>)
    \o Loose("check_ast", <<n>>) \o Do("verdict", "context") \o Loose("ast_validation", <<n>>)

(* typecheck_ast and sema_pass: what counts is the error that was noted. *)
typecheck_ast(n) ==
  Loose("scan0_ast", <<n>>) \o Loose("scan1_ast", <<n>>) \o Loose("scan2_ast", <<n>>)
    \o Loose("check_ast", <<n>>) \o Loose("ast_validation", <<n>>) \o Do("verdict", "context")

sema_verdict(n) == Loose("sema_pass", <<n>>) \o Do("verdict", "sema")

emit_ast(n) == Claim("emitted") \o Set("code", n)

(* The last pass is left out after errors; when it fails, it is the last. *)
_passes(n) ==
  Try("sema_verdict", <<n>>) \o Try("typecheck_ast", <<n>>) \o Check \o Loose("emit_ast", <<n>>)

passes(n) ==
  Do("reset", "") \o Do("load", n) \o Try("_passes", <<n>>) \o Do("unload", n)

compile(n) == Must("passes", <<n>>) \o Do("spork", n)

(* compile_filename_xid_values: with an id, the shred is expected. *)
compile_xid(n) == Must("compile", <<n>>) \o When(Is(n, "xid"), Do("assert", n))

-----------------------------------------------------------------------------
(* What a function does when it is called on a node.                       *)

Plan(f, n) ==
  CASE f = "sema"                     -> sema(n)
    [] f = "sema_stmt_list"           -> sema_stmt_list(n)
    [] f = "sema_ast"                 -> sema_ast(n)
    [] f = "sema_func_base"           -> sema_func_base(n)
    [] f = "array_not_empty"          -> array_not_empty(n)
    [] f = "sema_new_td"              -> sema_new_td(n)
    [] f = "sema_pass"                -> sema_pass(n)
    [] f = "sema_variadic"            -> sema_variadic(n)
    [] f = "sema_verdict"             -> sema_verdict(n)
    [] f = "known_type"               -> known_type(n)
    [] f = "resolve"                  -> resolve(n)
    [] f = "scan_class"               -> scan_class(n)
    [] f = "scan_next"                -> scan_next(n)
    [] f = "template_push_types"      -> template_push_types(n)
    [] f = "ensure_scan1"             -> ensure_scan1(n)
    [] f = "ensure_scan2"             -> ensure_scan2(n)
    [] f = "ensure_check"             -> ensure_check(n)
    [] f = "ensure_traverse"          -> ensure_traverse(n)
    [] f = "traverse"                 -> traverse(n)
    [] f = "scan1_once"               -> once(n, "scan1")
    [] f = "scan2_once"               -> once(n, "scan2")
    [] f = "check_once"               -> once(n, "check")
    [] f = "scan0"                    -> scan0(n)
    [] f = "scan0_body"               -> scanx_body(n, "scan0")
    [] f = "scan0_class_def_inner"    -> scan0_class_def_inner(n)
    [] f = "scan0_class_def_init"     -> scan0_class_def_init(n)
    [] f = "cdef_parent"              -> cdef_parent(n)
    [] f = "scan0_stmt_list"          -> scan0_stmt_list(n)
    [] f = "scan0_trait_body"         -> scan0_trait_body(n)
    [] f = "scan0_ast"                -> scan0_ast(n)
    [] f = "scan1"                    -> scan1(n)
    [] f = "scan1_in"                 -> scan1_in(n)
    [] f = "scan1_stmt_list"          -> scan1_stmt_list(n)
    [] f = "scan1_decl"               -> scan1_decl(n)
    [] f = "scan1_type"               -> scan1_type(n)
    [] f = "scan1_fbody"              -> scan1_fbody(n)
    [] f = "scan1_fdef"               -> scan1_fdef(n)
    [] f = "scan1_in_types"           -> scan1_in_types(n)
    [] f = "_scan1_func_def"          -> _scan1_func_def(n)
    [] f = "scan1_union_def_inner"    -> scan1_union_def_inner(n)
    [] f = "scan1_parent"             -> scan1_parent(n)
    [] f = "scan1_cdef_parent"        -> scan1_cdef_parent(n)
    [] f = "scan1_class_def_body"     -> scan1_class_def_body(n)
    [] f = "scan1_body"               -> scanx_body(n, "scan1")
    [] f = "scan1_class_tmpl"         -> scan1_class_tmpl(n)
    [] f = "scan1_ast"                -> scan1_ast(n)
    [] f = "scan2"                    -> scan2(n)
    [] f = "scan2_in"                 -> scan2_in(n)
    [] f = "scan2_decl"               -> scan2_decl(n)
    [] f = "scan2_stmt_list"          -> scan2_stmt_list(n)
    [] f = "scan2_func_def_code"      -> scan2_func_def_code(n)
    [] f = "scan2_fdef"               -> scan2_fdef(n)
    [] f = "scan2_in_types"           -> scan2_in_types(n)
    [] f = "_scan2_func_def"          -> _scan2_func_def(n)
    [] f = "scan2_parent"             -> scan2_parent(n)
    [] f = "scan2_cdef_parent"        -> scan2_cdef_parent(n)
    [] f = "scan2_class_body"         -> scan2_class_body(n)
    [] f = "scan2_ast"                -> scan2_ast(n)
    [] f = "check"                    -> check(n)
    [] f = "check_in"                 -> check_in(n)
    [] f = "check_decl"               -> check_decl(n)
    [] f = "check_cond"               -> check_cond(n)
    [] f = "check_stmt_list"          -> check_stmt_list(n)
    [] f = "check_lambda_call"        -> check_lambda_call(n)
    [] f = "partial_type"             -> partial_type(n)
    [] f = "check_traverse_fdef"      -> check_traverse_fdef(n)
    [] f = "tmpl_valid"               -> tmpl_valid(n)
    [] f = "ensure_tmpl"              -> ensure_tmpl(n)
    [] f = "find_tmpl"                -> find_tmpl(n)
    [] f = "find_template_match"      -> find_template_match(n)
    [] f = "check_breaks"             -> check_breaks(n)
    [] f = "check_match"              -> check_match(n)
    [] f = "match_case"               -> match_case(n)
    [] f = "check_handlers"           -> check_handlers(n)
    [] f = "check_fdef"               -> check_fdef(n)
    [] f = "check_in_types"           -> check_in_types(n)
    [] f = "_check_func_def"          -> _check_func_def(n)
    [] f = "check_trait_body"         -> check_trait_body(n)
    [] f = "check_parent"             -> check_parent(n)
    [] f = "check_cdef_parent"        -> check_cdef_parent(n)
    [] f = "check_class_tmpl"         -> check_class_tmpl(n)
    [] f = "check_class_body"         -> check_class_body(n)
    [] f = "_check_class_def"         -> _check_class_def(n)
    [] f = "check_ast"                -> check_ast(n)
    [] f = "validate"                 -> validate(n)
    [] f = "ast_validation"           -> ast_validation(n)
    [] f = "compile_xid"              -> compile_xid(n)
    [] f = "compile"                  -> compile(n)
    [] f = "passes"                   -> passes(n)
    [] f = "_passes"                  -> _passes(n)
    [] f = "typecheck_ast"            -> typecheck_ast(n)
    [] f = "emit_ast"                 -> emit_ast(n)

-----------------------------------------------------------------------------
(* The machine.                                                            *)

Top == Last(calls)
Step == Top.plan[1]
Called == {"must", "loud", "try", "and", "loose", "poison", "flow", "spoil", "blot", "stain", "typed", "sound"}
Claims == {"claim", "test", "doubt", "shrug", "blame"}
Unit == calls[1].n
Noted(e, noted) == IF noted THEN e \cup {"context"} ELSE e

(* What is poisoned is not looked at again.  It is a failure of the list   *)
(* it is in when it is a statement or a section; an expression only where  *)
(* it is to have a type.                                                   *)
Skipped(s) ==
  \/ s[1] = "and" /\ ~Top.ok
  \/ s[1] = "typed" /\ Marked(s[3], "typed")
  \/ s[1] \in {"poison", "flow", "typed", "sound"} /\ Marked(s[3], "poison")
Counts(s) ==
  /\ s[1] \in {"poison", "flow", "typed", "sound"} /\ Marked(s[3], "poison")
  /\ s[1] = "typed" \/ N(s[3]).kind \in Statements \cup Declarations \cup {"stmts"}

(* The caller goes on with the rest of its plan, or stops. *)
Stops(frame) == [frame EXCEPT !.plan = <<>>, !.ok = FALSE]
Fails(frame) == [frame EXCEPT !.plan = Tail(@), !.ok = FALSE]
Goes(frame) == [frame EXCEPT !.plan = Tail(@)]

Update(frame) == calls' = Append(Front(calls), frame)

(* The first file, or the next. *)
Compile ==
  /\ calls = <<>> /\ units # <<>>
  /\ LET u == Head(units)
     IN  calls' = <<[f |-> "compile_xid", n |-> u, mode |-> "loose", plan |-> Plan("compile_xid", u),
                     ok |-> TRUE, was |-> env]>>
  /\ units' = Tail(units)
  /\ error' = {}
  /\ UNCHANGED <<session, env, marks, failed>>

Enter ==
  /\ calls # <<>> /\ Top.plan # <<>> /\ Step[1] \in Called /\ ~Skipped(Step)
  /\ calls' = Append(calls, [f |-> Step[2], n |-> Step[3], mode |-> Step[1],
                             plan |-> Plan(Step[2], Step[3]), ok |-> TRUE, was |-> env])
  /\ UNCHANGED <<session, units, env, marks, error, failed>>

Skip ==
  /\ calls # <<>> /\ Top.plan # <<>> /\ Step[1] \in Called /\ Skipped(Step)
  /\ Update(IF Counts(Step) THEN Fails(Top) ELSE Goes(Top))
  /\ UNCHANGED <<session, units, env, marks, error, failed>>

(* A step that is no call; some only after a failure. *)
Change ==
  /\ calls # <<>> /\ Top.plan # <<>>
  /\ Step[1] \notin Called \cup Claims \cup {"check", "refuse", "fail", "verdict"}
  /\ LET s == IF Step[1] = "failed" THEN Step[2] ELSE Step
         run == Step[1] # "failed" \/ ~Top.ok
     IN  /\ env' = CASE ~run -> env
                     [] s[1] = "spork" -> [env EXCEPT !.shred = env.code, !.code = ""]
                     [] OTHER -> Effect(env, Top.was, s)
         /\ marks' = IF run /\ s[1] = "mark" THEN marks \cup {s[2]} ELSE marks
         /\ error' = CASE ~run -> error
                       [] s[1] = "error" -> error \cup {s[2]}
                       [] s[1] = "unhandled" /\ Top.ok -> error \ {"context"}
                       [] s[1] = "sema" -> error \ {"sema"}
                       [] OTHER -> error
  /\ Update(Goes(Top))
  /\ UNCHANGED <<session, units, failed>>

Judge ==
  /\ calls # <<>> /\ Top.plan # <<>> /\ Step[1] \in {"check", "refuse", "fail", "verdict"}
  /\ Update(CASE Step[1] = "check" -> IF Top.ok THEN Goes(Top) ELSE Stops(Top)
              [] Step[1] = "refuse" -> Stops(Top)
              [] Step[1] = "fail" -> Fails(Top)
              [] Step[1] = "verdict" -> IF Step[2] \in error THEN Fails(Top) ELSE Goes(Top))
  /\ error' = Noted(error, Step[1] = "refuse")
  /\ UNCHANGED <<session, units, env, marks, failed>>

(* A claim holds, *)
Hold ==
  /\ calls # <<>> /\ Top.plan # <<>> /\ Step[1] \in Claims
  /\ Update(Goes(Top))
  /\ UNCHANGED <<session, units, env, marks, error, failed>>

(* or it does not. *)
Err ==
  /\ calls # <<>> /\ Top.plan # <<>> /\ Step[1] \in Claims
  /\ Step[2] \notin Sessions[session].sure /\ Cardinality(failed) < MaxFailures
  /\ Update(CASE Step[1] \in {"claim", "test"} -> Stops(Top)
              [] Step[1] \in {"doubt", "shrug"} -> Fails(Top)
              [] OTHER -> Goes(Top))
  /\ error' = Noted(error, Step[1] \in {"claim", "doubt", "blame"})
  /\ failed' = failed \cup {<<Unit, Step[2], Top.n>>}
  /\ UNCHANGED <<session, units, env, marks>>

(* The node a failure is noted on; a list of statements is no node. *)
Poisons(mode, n) ==
  \/ mode \in {"poison", "flow"} /\ N(n).kind # "stmts"
  \/ mode \in {"spoil", "blot", "stain", "typed"}
  \/ mode = "sound" /\ N(n).kind \in Statements \cup Declarations \cup {"stmts"}

After(mode, n, ok, caller) ==
  LET jumps == mode = "flow" /\ N(n).kind \in {"break", "continue", "return"}
      goes == mode \in {"loose", "blot"} \/ (mode \in {"poison", "flow"} /\ N(n).kind = "stmts")
  IN  CASE ok /\ jumps -> [caller EXCEPT !.plan = <<>>]
        [] ok /\ ~jumps -> Goes(caller)
        [] ~ok /\ mode \in {"must", "loud"} -> Stops(caller)
        [] ~ok /\ goes -> Goes(caller)
        [] OTHER -> Fails(caller)

Return ==
  /\ calls # <<>> /\ Top.plan = <<>>
  /\ LET t == Top
         n == t.n
     IN  /\ calls' = IF Len(calls) = 1 THEN <<>>
                     ELSE Append(Front(Front(calls)), After(t.mode, n, t.ok, Last(Front(calls))))
         /\ marks' = marks
              \cup (IF ~t.ok /\ Poisons(t.mode, n) THEN {<<n, "poison">>} ELSE {})
              \cup (IF t.ok /\ t.mode = "typed" THEN {<<n, "typed">>} ELSE {})
              \cup (IF t.ok /\ t.mode = "flow" /\ N(n).kind \in {"break", "continue", "return"}
                      THEN {<<n, "last">>} ELSE {})
         /\ error' = Noted(error, ~t.ok /\ t.mode \in {"loud", "poison", "flow", "typed"})
                       \cup (IF ~t.ok /\ t.mode \in {"spoil", "blot"} THEN {"sema"} ELSE {})
  /\ UNCHANGED <<session, units, env, failed>>

Init ==
  /\ session \in DOMAIN Sessions /\ units = Sessions[session].units
  /\ env = Bare /\ marks = {} /\ calls = <<>> /\ error = {} /\ failed = {}

Done == calls = <<>> /\ units = <<>> /\ UNCHANGED vars

Next == Compile \/ Enter \/ Skip \/ Change \/ Judge \/ Hold \/ Err \/ Return \/ Done

Spec == Init /\ [][Next]_vars

-----------------------------------------------------------------------------
(* Properties.                                                             *)

Kept == {"curr", "class", "nspcs", "depth", "func", "in_try", "breaks", "effects", "open", "types",
         "in_func", "handling"}

(* Whatever fails below it, a function leaves the environment as it found  *)
(* it: the stack of namespaces, the scopes of values and types, the depth  *)
(* they are counted with, the function and the class that are walked.      *)
(* (template_push_types is there to leave a scope, and the functions of a  *)
(* file to change namespaces.)                                             *)
LeftAsFound ==
  calls # <<>> /\ Top.plan = <<>>
    /\ Top.f \notin {"compile_xid", "compile", "passes", "template_push_types"}
    => \A x \in Kept : env[x] = Top.was[x]

(* Passes go on after errors and drop most results: nothing that failed in *)
(* a file, at whatever depth, is forgotten when it is to be emitted.       *)
NoneLost ==
  calls # <<>> /\ Top.f = "emit_ast" => \A c \in failed : c[1] # Unit \/ c[2] = "emitted"

(* A class, an instance of a template and a union are marked by the passes *)
(* in their order, however a declaration, a parent or a call leads to them *)
(* out of turn.                                                            *)
Ordered ==
  \A m \in marks : N(m[1]).kind \in {"class", "union"} =>
    /\ m[2] = "scan1" => Marked(m[1], "scan0")
    /\ m[2] = "scan2" => Marked(m[1], "scan1")
    /\ m[2] = "check" => Marked(m[1], "scan2")

Walks == {"scan1", "scan2", "check"}
Lists == {"scan1_stmt_list", "scan2_stmt_list", "check_stmt_list"}

(* A definition is walked inside its class, with the types of the          *)
(* templates around its statements in scope, also when it is reached from  *)
(* elsewhere: an instance of a nested template, a function of an instance. *)
(* (A class that is in none may be entered from inside another one.)       *)
InPlace ==
  calls # <<>> /\ "owners" \in DOMAIN N(Top.n) =>
    /\ Top.f \in Walks \cup Lists /\ (Owner(Top.n) # "" \/ N(Top.n).kind = "func")
         => Top.was.class = Owner(Top.n)
    /\ Top.f \in Lists =>
         /\ Top.was.func = Top.n
         /\ Template(Top.n) \/ (Owner(Top.n) # "" /\ Template(Owner(Top.n)))
              => BagIn(Top.was.curr, Top.was.types)

Bodies == {"scan1_class_def_body", "scan2_class_body", "check_class_body", "check_in_types"}

(* What mentions itself is walked once: a class whose members are of its   *)
(* own type, a template of a function that calls its own instance.         *)
Once ==
  \A i, j \in DOMAIN calls :
    i < j /\ calls[i].f \in Bodies => <<calls[i].f, calls[i].n>> # <<calls[j].f, calls[j].n>>

(* The claims of sema.c, whose failures unload_context does not see. *)
Early ==
  {"unique expression", "array bounds", "argument name", "default arguments", "handler", "spread",
   "spread argument"}


Compiled == ToSet(Sessions[session].units) \ ToSet(units)
Spaces == {env.global} \cup ToSet(env.globals)

(* Between files: what a file that is not well typed declared global is    *)
(* gone, and what the others declared is still there.                      *)
Isolated ==
  calls = <<>> =>
    /\ \A c \in failed : c[2] \notin Early \cup {"emitted"} => N(c[1]).space \notin Spaces
    /\ \A u \in Compiled : Marked(u, "global") /\ (\A c \in failed : c[1] # u) => N(u).space \in Spaces

(* The message of sema.c:342: a return is refused, in a function, when it  *)
(* is in what is deferred.                                                 *)
DeferredOnly ==
  calls # <<>> /\ Top.f = "sema" /\ N(Top.n).kind = "return" /\ env.in_func /\ ~Top.ok =>
    \E i \in DOMAIN calls : N(calls[i].n).kind = "defer"
=============================================================================
