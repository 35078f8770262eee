------------------------------- MODULE Scan2 --------------------------------
(***************************************************************************)
(* The pass that makes the functions: parse/scan2.c.                       *)
(***************************************************************************)
EXTENDS Scan1

scan2_on(n, fields) ==
  FlattenSeq([i \in DOMAIN fields |-> Poison("scan2", Kids(n, fields[i])) \o Check])

-----------------------------------------------------------------------------
(* Expressions and statements.                                             *)

scan2_decl(n) == Must("ensure_scan2", Resolved(Kids(n, "td")[1]))

scan2_exp_decl(n) ==
  scan2_on(n, <<"args">>) \o When(Is(n, "global"), PushNspc(env.global))
    \o Try("scan2_decl", <<n>>) \o When(Is(n, "global"), Pop)

(* A call of a template is left for when its types are known. *)
scan2_exp(n) ==
  CASE N(n).kind = "decl"   -> scan2_exp_decl(n)
    [] N(n).kind = "binary" -> scan2_on(n, <<"lhs", "rhs">>)
    [] N(n).kind \in {"range", "slice"} -> scan2_on(n, <<"base", "start", "end">>)
    [] N(n).kind = "array"  -> scan2_on(n, <<"base", "exps">>)
    [] N(n).kind = "call"   -> When(~Has(n, "types"), scan2_on(n, <<"func", "args">>))
    [] N(n).kind = "if_exp" ->
         scan2_on(n, <<"cond", IF Has(n, "if_exp") THEN "if_exp" ELSE "cond", "else_exp">>)
    [] N(n).kind \in {"new", "spork", "lambda", "td"} -> <<>>
    [] OTHER                -> scan2_on(n, <<"base", "exp", "exps">>)

(* What is done in a scope of its own. *)
scan2_in(n) ==
  CASE N(n).kind = "for" ->
         Must("scan2", Kids(n, "init")) \o Must("scan2", Kids(n, "test"))
           \o scan2_on(n, <<"step">>) \o Must("scan2", Kids(n, "body"))
    [] N(n).kind = "if" ->
         scan2_on(n, <<"cond">>) \o Must("scan2", Kids(n, "body")) \o Must("scan2", Kids(n, "else_body"))
    [] N(n).kind = "code" -> Must("scan2_stmt_list", <<n>>)
    [] N(n).kind = "match" -> Must("scan2", Kids(n, "where")) \o Poison("scan2", Kids(n, "cases"))
    [] N(n).kind = "case" -> scan2_on(n, <<"cond", "when">>) \o Must("scan2_stmt_list", <<n>>)
    [] OTHER -> (* while, until, each, loop, try, handler *)
         scan2_on(n, <<"cond", "exp">>) \o Must("scan2", Kids(n, "body"))

scan2_stmt(n) ==
  CASE N(n).kind = "match" -> scan2_on(n, <<"cond">>) \o In("scan2_in", n)
    [] N(n).kind = "try"   -> Poison("scan2", Kids(n, "handlers")) \o Check \o In("scan2_in", n)
    [] N(n).kind \in {"exp", "return"} -> scan2_on(n, <<"val">>)
    [] N(n).kind = "using" -> scan2_on(n, <<"exp">>)
    [] N(n).kind = "defer" -> Try("scan2", Kids(n, "body"))
    [] N(n).kind \in {"pp", "spread", "break", "continue", "retry", "import"} -> <<>>
    [] OTHER -> In("scan2_in", n)

scan2_stmt_list(n) == Poison("scan2", Listed(n))

-----------------------------------------------------------------------------
(* Functions.                                                              *)

(* A constructor shares the scope of its class. *)
scan2_func_def_code(n) ==
  Set("func", n)
    \o (IF Is(n, "ctor") THEN Try("scan2_stmt_list", <<n>>) ELSE In("scan2_stmt_list", n))
    \o Back("func")

(* The function is there before its code is looked at; what is wrong with  *)
(* the code poisons statements and no more.                                *)
scan2_fdef_std(n) ==
  Mark(n, "func") \o Loose("scan2_func_def_code", <<n>>)
    \o When(Is(n, "op") /\ ~Marked(n, "func"), Claim("new operator"))

scan2_fdef_tmpl(n) == Mark(n, "func") \o Claim("new template")

scan2_fdef(n) ==
  When(~Marked(n, "func"), Claim("may overload"))
    \o IF Is(n, "base") THEN scan2_fdef_tmpl(n) ELSE scan2_fdef_std(n)

scan2_in_types(n) == scanx_fdef(n, "scan2_fdef")

(* What stays global, and a template, is a copy that the passes before     *)
(* look at again.                                                          *)
scan2_cpy_fdef(n) ==
  When(Is(n, "global") \/ Is(n, "base"), Loose("scan0", <<n>>) \o Loose("scan1", <<n>>))

_scan2_func_def(n) ==
  When(Is(n, "new") /\ env.class = "", Refuse)
    \o When(Is(n, "global") /\ env.class = "", Mark(env.context, "global"))
    \o scan2_cpy_fdef(n)
    \o When(Is(n, "global"), PushNspc(env.global))
    \o Try("scan2_in_types", <<n>>) \o When(Is(n, "global"), Pop)

scan2_func_def(n) == Set("depth", 0) \o Try("_scan2_func_def", <<n>>) \o Back("depth")

-----------------------------------------------------------------------------
(* Types.                                                                  *)

(* A template is left when tmpl_fptr fails, without a look at the stack.   *)
scan2_fptr_def(n) ==
  IF MarkedAll(Kids(n, "cdef"), "invalid") THEN Fail
  ELSE When(Is(n, "global"), PushNspc(env.global)) \o Try("scan2", Kids(n, "cdef"))
         \o When(Is(n, "base"), Test("template of a function type"))
         \o When(Is(n, "global"), PopTo0)

scan2_type_def(n) == scan2_on(n, <<"when">>) \o Try("scan2", Kids(n, "cdef"))

scan2_union_def(n) == When(~Is(n, "base"), Mark(n, "scan2"))

scan2_parent(n) == scan2_on(n, <<"sizes">>)

scan2_cdef_parent(n) ==
  When(Template(n), Must("template_push_types", <<n>>))
    \o Try("scan2_parent", <<n>>) \o When(Template(n), Do("untype", ""))

(* What the sections answer is ignored: they are poisoned. *)
scan2_class_body(n) == Poison("scan2", Kids(n, "consts")) \o Loose("scan2_ast", <<n>>)

scan2_class_def(n) ==
  When(~Is(n, "base") /\ ~Marked(n, "scan2"),
    Mark(n, "scan2")
      \o When(Has(n, "ext"), Must("scan2_cdef_parent", <<n>>))
      \o When(Has(n, "body"),
           PushType(n) \o When(Template(n), Loose("template_push_types", <<n>>))
             \o Try("scan2_class_body", <<n>>)
             \o When(Template(n), Do("untype", "")) \o Pop))

scan2(n) ==
  CASE N(n).kind = "class"   -> scan2_class_def(n)
    [] N(n).kind = "union"   -> scan2_union_def(n)
    [] N(n).kind = "fptr"    -> scan2_fptr_def(n)
    [] N(n).kind = "typedef" -> scan2_type_def(n)
    [] N(n).kind = "func"    -> scan2_func_def(n)
    [] N(n).kind = "stmts"   -> Try("scan2_stmt_list", <<n>>)
    [] N(n).kind \in {"enum", "trait", "extend", "prim"} -> <<>>
    [] N(n).kind \in {"case", "handler"} -> In("scan2_in", n)
    [] N(n).kind \in Statements -> scan2_stmt(n)
    [] OTHER -> scan2_exp(n)

scan2_ast(n) == Poison("scan2", Listed(n))
=============================================================================
