------------------------------- MODULE Types --------------------------------
(***************************************************************************)
(* Type declarations and what they lead to: instances of templates, and    *)
(* classes that are walked where they are needed.  parse/type_decl.c,      *)
(* parse/template.c, env/envset.c, parse/scanx.c, parse/traverse.c.        *)
(***************************************************************************)
EXTENDS Walk

(* tmpl->call: an instance has arguments, a base has not. *)
Template(n) == Has(n, "types") \/ Is(n, "base")

-----------------------------------------------------------------------------
(* Namespaces that are pushed around work on a class of elsewhere.         *)

Owner(t) == IF Has(t, "owners") THEN Kids(t, "owners")[1] ELSE ""

(* check(): whether the classes t is in are those of the class stack. *)
envset_check(t) ==
  LET o == Kids(t, "owners")
      c == Len(env.nspcs) + 1
  IN  \E i \in DOMAIN o : i < c /\ o[i] # env.nspcs[c - i][2]

(* A slip: the file, and not the classes. *)
envset_push_file(chain) == Set("depth", 0) \o PushNspc(N(Last(chain)).unit)

(* push(): the file of the outermost class, and the classes inwards *)
envset_push(chain) ==
  Set("depth", 0) \o PushNspc(N(Last(chain)).unit)
    \o FlattenSeq([i \in DOMAIN chain |->
         LET c == chain[Len(chain) + 1 - i]
         IN  PushType(c) \o When(Template(c), Must("template_push_types", <<c>>))])

envset_pop(chain) ==
  FlattenSeq([i \in DOMAIN chain |-> When(Template(chain[i]), Do("untype", "")) \o Pop]) \o Pop

(* envset_pushv and envset_popv, where t is declared *)
envset_pushv(t) ==
  LET o == Kids(t, "owners")
  IN  IF o = <<>> THEN When(N(t).in # env.curr, PushNspc(N(t).in))
      ELSE When(envset_check(o[1]), envset_push(o))

envset_popv(t) ==
  LET o == Kids(t, "owners")
  IN  IF o = <<>> THEN When(N(t).in # env.curr, Pop)
      ELSE When(envset_check(o[1]), envset_pop(o))

(* envset_run: f on t, unless it is marked *)
envset_run(t, f, flag) ==
  LET o == Kids(t, "owners")
      run == envset_check(t)
  IN  When(run, envset_push(o))
        \o When(~Marked(t, flag), Try(f, <<t>>) \o Back("in_try"))
        \o When(run, envset_pop(o))

ensure_scan1(t) == When(~Marked(t, "scan1"), envset_run(t, "scan1", "scan1"))
ensure_scan2(t) == When(~Marked(t, "scan2"), envset_run(t, "scan2", "scan2"))
ensure_check(t) == When(Template(t) /\ ~Marked(t, "check"), envset_run(t, "check", "check"))
ensure_traverse(t) == When(Template(t) /\ ~Marked(t, "check"), envset_run(t, "traverse", "check"))

(* _push, _body and _pop of a class: f on every section. *)
scanx_body(n, f) ==
  PushType(n) \o When(Template(n), Loose("template_push_types", <<n>>))
    \o Poison(f, Listed(n))
    \o When(Template(n), Do("untype", "")) \o Pop

(* scanx_fdef: f inside the types of a template *)
scanx_fdef(n, f) ==
  When(Template(n), Must("template_push_types", <<n>>))
    \o Try(f, <<n>>)
    \o When(Template(n), Do("untype", "")) \o Back("in_try")

-----------------------------------------------------------------------------
(* Templates.                                                              *)

(* The arguments are looked up where the class is, not inside it. *)
template_push_types(n) ==
  Do("types", "")
    \o When(env.class # "", Set("curr", N(env.class).in) \o Set("class", Owner(env.class)))
    \o Loose("known_type", Kids(n, "types"))
    \o Back("curr") \o Back("class")
    \o When(Has(n, "types"), Shrug("as many arguments")) \o IfFailed(Do("untype", ""))

(* check_tmpl *)
check_tmpl(td) ==
  Claim("number of arguments") \o Must("known_type", Kids(td, "types")) \o Claim("requested traits")

(* scantmpl_class_def, scantmpl_union_def: a copy of the base, with the    *)
(* arguments.  What is there is not made again.                            *)
scan_class(td) ==
  LET t == Kids(td, "to")[1]
      i == Kids(td, "instance")[1]
  IN  When(~Marked(i, "scan0"),
        envset_pushv(t)
          \o When(Is(i, "variadic"), Try("sema_variadic", <<i>>))
          \o And("scan0", <<i>>) \o envset_popv(t))

_scan_type(td) ==
  IF Has(td, "instance") THEN check_tmpl(td) \o Must("scan_class", <<td>>)
  ELSE When(Has(td, "types"), Claim("is a template"))

-----------------------------------------------------------------------------
(* known_type.                                                             *)

(* A type of a function is made when it is first written. *)
find_fptr(td) ==
  Must("known_type", Kids(td, "names"))
    \o LET f == Kids(td, "fptr")
       IN  When(~MarkedAll(f, "scan0"),
             PushNspc(env.context) \o Try("traverse", f) \o Pop)

(* find_type: the class, and then the one in its namespace.  A name that   *)
(* is not known yet, or never, is none of a type.                          *)
find_type(td) ==
  LET first == IF Has(td, "outer") THEN Kids(td, "outer")[1] ELSE td
  IN  (IF MarkedAll(Kids(first, "to"), "scan0") THEN Test("known type") ELSE Fail \o Check)
        \o When(Has(td, "next"),
             PushType(Kids(first, "to")[1]) \o Must("known_type", Kids(td, "next")) \o Pop)

(* scan_type, past a dot *)
scan_next(td) ==
  LET owner == Kids(Kids(td, "outer")[1], "to")[1]
  IN  Must("known_type", Kids(td, "outer")) \o envset_pushv(owner)
        \o PushType(owner) \o Try("known_type", Kids(td, "next")) \o Pop \o envset_popv(owner)

resolve(td) ==
  (IF Has(td, "fptr") THEN find_fptr(td) ELSE find_type(td))
    \o When(\E t \in ToSet(Kids(td, "to")) : Marked(t, "invalid"), Refuse)
    \o (IF Has(td, "next") THEN Try("scan_next", <<td>>) ELSE _scan_type(td))

(* What a declaration stands for, if it is not built in. *)
Resolved(td) ==
  LET last == IF Has(td, "next") THEN Kids(td, "next")[1] ELSE td
  IN  IF Has(last, "instance") THEN Kids(last, "instance") ELSE Kids(last, "to")

(* type_unknown *)
known_type(td) == Loud("resolve", <<td>>)

-----------------------------------------------------------------------------
(* traverse_*: every pass on one definition                                *)

(* A slip: a class has no second scan. *)
PassesSkipping(n) ==
  IF N(n).kind = "class" THEN <<"scan1_once", "check_once", "validate">>
  ELSE IF N(n).kind = "enum" THEN <<"scan0", "scan1", "validate">>
  ELSE IF N(n).kind \in {"func", "fptr", "typedef"} THEN <<"scan0", "scan1", "scan2", "check", "validate">>
  ELSE <<"scan1", "scan2", "check", "validate">>

Passes(n) ==
  CASE N(n).kind = "class" -> <<"scan1_once", "scan2_once", "check_once", "validate">>
    [] N(n).kind = "enum"  -> <<"scan0", "scan1", "validate">>
    [] N(n).kind \in {"func", "fptr", "typedef"} -> <<"scan0", "scan1", "scan2", "check", "validate">>
    [] OTHER -> <<"scan1", "scan2", "check", "validate">>

once(n, f) == When(~Marked(n, f), Must(f, <<n>>))

traverse(n) ==
  IF Expression(n)
    THEN Poison("scan1", <<n>>) \o Check \o Poison("scan2", <<n>>) \o Check
           \o Typed("check", <<n>>) \o Check \o Sound("validate", <<n>>)
    ELSE FlattenSeq([i \in DOMAIN Passes(n) |-> Must(Passes(n)[i], <<n>>)]) \o Back("func")
=============================================================================
