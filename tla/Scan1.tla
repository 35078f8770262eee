------------------------------- MODULE Scan1 --------------------------------
(***************************************************************************)
(* The pass that declares variables, arguments and members, and the        *)
(* classes above a class: parse/scan1.c.                                   *)
(***************************************************************************)
EXTENDS Scan0

(* HANDLE_EXP_FUNC: every expression of a list, and then CHECK_B *)
scan1_on(n, fields) ==
  FlattenSeq([i \in DOMAIN fields |-> Poison("scan1", Kids(n, fields[i])) \o Check])

scan1_type(td) ==
  Must("known_type", <<td>>)
    \o When(env.func = "" /\ env.class # "" /\ ~Is(td, "late"), Claim("not cyclic"))
    \o Must("ensure_scan1", Resolved(td))

-----------------------------------------------------------------------------
(* Expressions.                                                            *)

scan1_decl(n) == Claim("not reserved") \o Claim("new variable") \o Claim("array declaration")

scan1_exp_decl(n) ==
  env_storage(n) \o Must("scan1_type", Kids(n, "td")) \o Claim("type of a variable")
    \o scan1_on(n, <<"args">>)
    \o IF ~Is(n, "global") THEN Try("scan1_decl", <<n>>)
       ELSE Mark(env.context, "global") \o Claim("global type")
              \o PushNspc(env.global) \o Try("scan1_decl", <<n>>) \o Pop

scan1_exp(n) ==
  CASE N(n).kind = "decl"   -> scan1_exp_decl(n)
    [] N(n).kind = "binary" -> scan1_on(n, <<"lhs", "rhs">>)
    [] N(n).kind \in {"range", "slice"} -> scan1_on(n, <<"base", "start", "end">>)
    [] N(n).kind = "array"  -> scan1_on(n, <<"base", "exps">>)
    [] N(n).kind = "post"   -> scan1_on(n, <<"exp">>) \o Claim("can be changed")
    [] N(n).kind = "call"   -> scan1_on(n, <<"func", "args">>)
    [] N(n).kind = "if_exp" -> scan1_on(n, <<"cond", "if_exp", "else_exp">>)
    [] N(n).kind = "spork"  -> Try("scan1_stmt_list", <<n>>)
    [] N(n).kind \in {"new", "lambda", "td"} -> <<>>
    [] OTHER                -> scan1_on(n, <<"base", "exp", "exps">>)

-----------------------------------------------------------------------------
(* Statements.                                                             *)

(* The scope of an if is left for its else when the body returns. *)
scan1_stmt_if(n) ==
  scan1_on(n, <<"cond">>) \o Must("scan1", Kids(n, "body"))
    \o When(Has(n, "else_body"),
            When(Is(n, "returns"), Add("depth", -1)) \o Must("scan1", Kids(n, "else_body"))
              \o When(Is(n, "returns"), Add("depth", 1)))

(* What is done in a scope of its own. *)
scan1_in(n) ==
  CASE N(n).kind \in {"while", "until"} -> scan1_on(n, <<"cond">>) \o Must("scan1", Kids(n, "body"))
    [] N(n).kind = "for" ->
         Must("scan1", Kids(n, "init")) \o Must("scan1", Kids(n, "test"))
           \o scan1_on(n, <<"step">>) \o Must("scan1", Kids(n, "body"))
    [] N(n).kind = "each" ->
         Doubt("new names") \o Check \o scan1_on(n, <<"exp">>) \o Must("scan1", Kids(n, "body"))
    [] N(n).kind = "loop" ->
         Claim("new names") \o scan1_on(n, <<"cond">>) \o Must("scan1", Kids(n, "body"))
    [] N(n).kind = "if" -> scan1_stmt_if(n)
    [] N(n).kind = "code" -> Must("scan1_stmt_list", <<n>>)
    [] N(n).kind = "match" -> Must("scan1", Kids(n, "where")) \o Poison("scan1", Kids(n, "cases"))
    [] N(n).kind = "case" -> scan1_on(n, <<"cond", "when">>) \o Must("scan1_stmt_list", <<n>>)
    [] OTHER -> Must("scan1", Kids(n, "body"))

(* A slip: what fails leaves its scope open. *)
InLeft(f, n) == Scoped(Must(f, <<n>>))

In(f, n) == Scoped(Try(f, <<n>>))

scan1_stmt(n) ==
  CASE N(n).kind = "match" -> scan1_on(n, <<"cond">>) \o In("scan1_in", n)
    [] N(n).kind = "try"   -> Poison("scan1", Kids(n, "handlers")) \o Check \o In("scan1_in", n)
    [] N(n).kind = "exp"   -> scan1_on(n, <<"val">>)
    [] N(n).kind = "return" -> scan1_on(n, <<"val">>)
    [] N(n).kind = "using" -> scan1_on(n, <<"exp">>)
    [] N(n).kind = "pp"    -> When(Is(n, "packed") /\ env.class = "", Refuse)
    [] N(n).kind = "defer" -> Try("scan1", Kids(n, "body"))
    [] N(n).kind = "spread" -> Refuse
    [] N(n).kind \in {"break", "continue", "retry", "import"} -> <<>>
    [] OTHER -> In("scan1_in", n)

scan1_stmt_list(n) == Flow("scan1", Listed(n))

-----------------------------------------------------------------------------
(* Functions.                                                              *)

scan1_arg(n) ==
  Claim("not reserved") \o Must("scan1_type", Kids(n, "td")) \o Claim("type of a variable")

(* The body's result is ignored. *)
scan1_fbody(n) ==
  Doubt("no shadowing") \o Check \o Poison("scan1", Kids(n, "args")) \o Check
    \o Loose("scan1_stmt_list", <<n>>)

scan1_fdef(n) ==
  Must("known_type", Kids(n, "td")) \o Claim("type to return")
    \o When(Is(n, "internal"), Claim("internal function"))
    \o IF Is(n, "ctor") THEN Loose("scan1_stmt_list", <<n>>) ELSE In("scan1_fbody", n)

scan1_in_types(n) == scanx_fdef(n, "scan1_fdef")

(* A template is left for its instances; when it is global, in the global  *)
(* namespace.                                                              *)
_scan1_func_def(n) ==
  When(Is(n, "abstract") /\ env.class = "", Refuse) \o env_storage(n) \o Claim("new function")
    \o When(Is(n, "global"), PushNspc(env.global))
    \o IF Is(n, "base")
         THEN Do("types", "") \o Try("known_type", Kids(n, "td")) \o Do("untype", "")
         ELSE Set("func", n) \o Try("scan1_in_types", <<n>>) \o Back("func")
                \o When(Is(n, "global"), Pop) \o Claim("a return")

scan1_func_def(n) == Set("depth", 0) \o Try("_scan1_func_def", <<n>>) \o Back("depth")

-----------------------------------------------------------------------------
(* Types.                                                                  *)

scan1_enum_def(n) == PushType(n) \o Test("new names") \o Pop

scan1_fptr_def(n) ==
  When(Is(n, "global"), PushNspc(env.global)) \o Try("scan1", Kids(n, "cdef"))
    \o When(Is(n, "global"), PopTo0)

scan1_type_def(n) ==
  scan1_on(n, <<"when">>) \o Claim("no reference") \o Try("scan1", Kids(n, "cdef"))

scan1_union_member(n) == Must("known_type", Kids(n, "td")) \o Claim("no reference")

scan1_union_def_inner(n) ==
  When(Has(n, "types"), Must("template_push_types", <<n>>))
    \o Doubt("new names") \o Poison("scan1", Kids(n, "members"))
    \o When(Has(n, "types"), Do("untype", ""))

scan1_union_def(n) ==
  When(~Is(n, "base"), PushType(n) \o Try("scan1_union_def_inner", <<n>>) \o Pop \o Mark(n, "scan1"))

scan1_parent(n) == scan1_on(n, <<"sizes">>) \o Claim("not recursive") \o Claim("class to extend")

scan1_cdef_parent(n) ==
  Must("known_type", Kids(n, "ext")) \o Claim("not final")
    \o When(Template(n), Must("template_push_types", <<n>>))
    \o Try("scan1_parent", <<n>>) \o When(Template(n), Do("untype", ""))

(* The statements of the body become a function, @ctor.  What fails in the *)
(* body makes the type invalid, and nothing else.                          *)
scan1_class_def_body(n) ==
  When(Has(n, "ctor"), Mark(n, "ctor")) \o Try("scan1_body", <<n>>) \o IfFailed(Mark(n, "invalid"))

scan1_class_tmpl(n) == PushType(n) \o Poison("scan1", Kids(n, "consts")) \o PopTo0

(* A slip: it is marked when it is done. *)
scan1_class_def_late(n) ==
  When(~Is(n, "base") /\ ~Marked(n, "scan1"),
    When(Has(n, "ext"), Must("scan1_cdef_parent", <<n>>))
      \o When(Has(n, "body"), Loose("scan1_class_def_body", <<n>>))
      \o When(Template(n), Must("scan1_class_tmpl", <<n>>)) \o Mark(n, "scan1"))

(* The class is marked before anything is done. *)
scan1_class_def(n) ==
  When(~Is(n, "base") /\ ~Marked(n, "scan1"),
    Mark(n, "scan1")
      \o When(Has(n, "ext"), Must("scan1_cdef_parent", <<n>>))
      \o When(Has(n, "body"), Loose("scan1_class_def_body", <<n>>))
      \o When(Template(n), Must("scan1_class_tmpl", <<n>>)))

scan1(n) ==
  CASE N(n).kind = "class"   -> scan1_class_def(n)
    [] N(n).kind = "union"   -> scan1_union_def(n)
    [] N(n).kind = "enum"    -> scan1_enum_def(n)
    [] N(n).kind = "fptr"    -> scan1_fptr_def(n)
    [] N(n).kind = "typedef" -> scan1_type_def(n)
    [] N(n).kind = "func"    -> scan1_func_def(n)
    [] N(n).kind = "stmts"   -> Try("scan1_stmt_list", <<n>>)
    [] N(n).kind = "arg"     -> scan1_arg(n)
    [] N(n).kind = "member"  -> scan1_union_member(n)
    [] N(n).kind \in {"trait", "extend", "prim"} -> <<>>
    [] N(n).kind \in {"case", "handler"} -> In("scan1_in", n)
    [] N(n).kind \in Statements -> scan1_stmt(n)
    [] OTHER -> scan1_exp(n)

scan1_ast(n) == Poison("scan1", Listed(n))
=============================================================================
