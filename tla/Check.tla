------------------------------- MODULE Check --------------------------------
(***************************************************************************)
(* The pass that gives types to expressions, and what it makes on the way: *)
(* constructions, partial applications, instances of template functions.   *)
(* parse/check.c, parse/func_resolve_tmpl.c, parse/partial.c, lib/xork.c.  *)
(***************************************************************************)
EXTENDS Scan2

(* check_exp: every expression of a list, and then CHECK_B *)
check_on(n, fields) ==
  FlattenSeq([i \in DOMAIN fields |-> Typed("check", Kids(n, fields[i])) \o Check])

(* op_check: the operator may be an instance of a template. *)
op_check(n) == Must("traverse", Kids(n, "op")) \o Claim("operator")

(* check_flow *)
flow(n, field) == check_on(n, <<field>>) \o op_check(n)

check_subscripts(n, field) ==
  When(Has(n, field), check_on(n, <<field>>) \o Doubt("array index") \o Claim("array depth") \o Check)

-----------------------------------------------------------------------------
(* Declarations and constructions.                                         *)

check_decl(n) ==
  When(env.class # "" /\ env.depth = 0, Claim("not in a parent class"))
    \o check_subscripts(Kids(n, "td")[1], "array")

(* With arguments it is a construction; auto is declared now. *)
check_exp_decl(n) ==
  LET td == Kids(n, "td")[1]
  IN  check_on(td, <<"array">>) \o check_on(n, <<"new">>)
        \o When(Is(n, "auto"), Poison("scan1", <<n>>) \o Check \o Poison("scan2", <<n>>) \o Check)
        \o Claim("type of a variable") \o Must("ensure_check", Resolved(td)) \o Claim("can be inferred")
        \o When(Is(n, "global"), PushNspc(env.global))
        \o Try("check_decl", <<n>>) \o When(Is(n, "global"), Pop)

(* opck_new: with arguments, a call of the constructor *)
opck_new(n) ==
  LET td == Kids(n, "td")[1]
  IN  Must("known_type", <<td>>) \o Must("ensure_traverse", Resolved(td)) \o Claim("can be made")
        \o check_subscripts(td, "array")
        \o IF Has(n, "call") THEN Must("traverse", Kids(n, "call")) ELSE Claim("not abstract")

-----------------------------------------------------------------------------
(* Primaries, and what is looked up in what.                               *)

check_prim_array(n) == check_on(n, <<"exps">>) \o Claim("elements agree")
check_prim_range(n) == check_on(n, <<"start", "end">>) \o Claim("bounds agree") \o op_check(n)

(* A name may stand for an access, or for what is used. *)
check_prim_id(n) == Claim("valid variable") \o check_on(n, <<"becomes">>)

check_prim(n) ==
  CASE N(n).kind = "array_lit" -> check_prim_array(n)
    [] N(n).kind = "range" -> check_prim_range(n)
    [] N(n).kind = "interp" -> check_on(n, <<"exps">>)
    [] N(n).kind = "perform" -> When(Is(n, "rethrow") /\ ~env.in_try, Refuse)
    [] N(n).kind = "id" -> check_prim_id(n)
    [] OTHER -> <<>>

check_exp_td(n) == Must("known_type", Kids(n, "td")) \o Claim("not Class")

(* A call on the left is given its function first. *)
check_exp_binary(n) ==
  LET l == Kids(n, "lhs")[1]
  IN  When(N(l).kind = "call", check_on(l, <<"func">>))
        \o check_on(n, <<"lhs", "rhs">>) \o op_check(n)

check_exp_if(n) ==
  Try("check_cond", <<n>>) \o Typed("check", Kids(n, "if_exp")) \o Typed("check", Kids(n, "else_exp"))
    \o Check \o Claim("types agree")
check_cond(n) == flow(n, "cond")

(* The values of the code are its own. *)
opck_spork(n) ==
  Test("captures") \o Set("func", "in spork")
    \o Values(Try("check_stmt_list", <<n>>)) \o Back("func") \o Check

check_exp_unary(n) ==
  CASE N(n).kind = "new" -> opck_new(n)
    [] N(n).kind = "spork" -> opck_spork(n)
    [] OTHER -> check_on(n, <<"exp">>) \o op_check(n)

-----------------------------------------------------------------------------
(* Calls.                                                                  *)

(* A function that is part of an expression: the node of a lambda, or the  *)
(* one that a partial application makes.  It sees the values around it     *)
(* only as captures.                                                       *)
check_lambda_call(n) ==
  check_on(n, <<"args">>) \o Test("captures") \o Claim("as many arguments")
    \o Must("traverse", Kids(n, "def"))

partial_type(n) ==
  check_on(n, <<"args">>) \o Claim("one function") \o Values(Try("traverse", Kids(n, "def")))

func_check(n) == check_on(n, <<"func">>) \o Claim("can be called")

(* The instance is made where the template is, in an empty scope of        *)
(* values, and is found before it is checked when it calls itself.         *)
check_traverse_fdef(f) == Set("depth", 0) \o Try("traverse", <<f>>) \o Back("depth")

tmpl_valid(f) ==
  When(~Marked(f, "valid"), Must("sema_variadic", <<f>>) \o Must("check_traverse_fdef", <<f>>))

ensure_tmpl(f) ==
  Must("tmpl_valid", <<f>>) \o Must("template_push_types", <<f>>)
    \o Shrug("matching function") \o Do("untype", "")

(* find_tmpl, with envset_pushf and envset_popf *)
find_tmpl(n) ==
  LET f == Kids(n, "instance")[1]
      o == Kids(f, "owners")
      tmpl == o # <<>> /\ Template(o[1])
  IN  envset_pushv(f)
        \o (IF o = <<>> THEN PushNspc(N(f).in) ELSE PushType(o[1]))
        \o When(tmpl, Loose("template_push_types", <<o[1]>>))
        \o (IF env.func = f THEN Shrug("matching function") ELSE Try("ensure_tmpl", <<f>>))
        \o When(tmpl, Do("untype", "")) \o Pop \o envset_popv(f) \o Back("func")

(* _find_template_match; parents that have it too are not looked at here. *)
find_template_match(n) ==
  Must("find_tmpl", <<n>>) \o Must("known_type", Kids(n, "types")) \o Test("requested traits")

(* find_func_match: what fails is reported. *)
call_function(n) == check_on(n, <<"args">>) \o Claim("matching function")

(* Types that are not given come from the arguments. *)
check_template_args(n) == Claim("types from arguments")

check_exp_call_template(n) ==
  check_on(n, <<"args">>) \o When(~Has(n, "types"), check_template_args(n))
    \o Loud("find_template_match", <<n>>)

check_exp_call(n) ==
  IF Is(n, "partial") THEN check_on(n, <<"func">>) \o Must("partial_type", <<n>>)
  ELSE func_check(n)
    \o IF Has(n, "def") THEN Must("check_lambda_call", <<n>>)
       ELSE IF ~Has(n, "instance") THEN Claim("not static") \o call_function(n)
       ELSE check_exp_call_template(n)

check_exp(n) ==
  CASE N(n).kind = "decl"   -> check_exp_decl(n)
    [] N(n).kind = "binary" -> check_exp_binary(n)
    [] N(n).kind \in {"unary", "new", "spork"} -> check_exp_unary(n)
    [] N(n).kind = "cast"   -> check_on(n, <<"exp">>) \o Must("known_type", Kids(n, "td")) \o op_check(n)
    [] N(n).kind = "call"   -> check_exp_call(n)
    [] N(n).kind = "array"  -> check_on(n, <<"base">>) \o check_subscripts(n, "exps") \o op_check(n)
    [] N(n).kind = "slice"  -> check_on(n, <<"base", "start", "end">>) \o Claim("bounds agree") \o op_check(n)
    [] N(n).kind = "if_exp" -> check_exp_if(n)
    [] N(n).kind = "dot"    -> check_on(n, <<"base">>) \o op_check(n)
    [] N(n).kind = "post"   -> check_on(n, <<"exp">>) \o op_check(n)
    [] N(n).kind = "named"  -> check_on(n, <<"exp">>)
    [] N(n).kind = "lambda" -> <<>>
    [] N(n).kind = "td"     -> check_exp_td(n)
    [] OTHER                -> check_prim(n)

-----------------------------------------------------------------------------
(* Statements.                                                             *)

check_breaks(n) ==
  Add("breaks", 1) \o Scoped(Try("check", Kids(n, "body"))) \o Add("breaks", -1)

(* conts is left as it is when the body fails. *)
check_conts(n) == Add("conts", 1) \o Must("check_breaks", <<n>>) \o Add("conts", -1)

(* A constructor returns nothing. *)
check_stmt_return(n) ==
  IF env.func # "" /\ env.func # "in spork" /\ Is(env.func, "new")
    THEN When(Has(n, "val"), Refuse)
    ELSE check_on(n, <<"val">>) \o Claim("type to return")

(* What is done in a scope of its own. *)
check_in(n) ==
  CASE N(n).kind \in {"while", "until"} -> flow(n, "cond") \o check_conts(n)
    [] N(n).kind = "for" ->
         Must("check", Kids(n, "init")) \o Must("check", Kids(n, "test")) \o op_check(n)
           \o check_on(n, <<"step">>) \o check_conts(n)
    [] N(n).kind = "each" -> check_on(n, <<"exp">>) \o op_check(n) \o check_conts(n)
    [] N(n).kind = "loop" -> check_on(n, <<"cond">>) \o Claim("repeats an integer") \o check_conts(n)
    [] N(n).kind = "if" ->
         flow(n, "cond") \o Must("check", Kids(n, "body")) \o Must("check", Kids(n, "else_body"))
    [] N(n).kind = "code" -> Must("check_stmt_list", <<n>>)
    [] N(n).kind = "match" -> Must("check", Kids(n, "where")) \o In("check_match", n)
    [] N(n).kind = "case" -> Must("match_case", <<n>>) \o Must("check_stmt_list", <<n>>)
    [] OTHER -> (* try, handler *) Must("check", Kids(n, "body"))

check_match(n) == check_on(n, <<"cond">>) \o Poison("check", Kids(n, "cases"))

(* Each expression is compared to the one that is matched. *)
match_case(n) ==
  Claim("as many to match") \o check_on(n, <<"cond">>) \o Must("traverse", Kids(n, "equal"))
    \o When(Has(n, "when"), flow(n, "when"))

(* The effects of the body are those its handlers do not have. *)
check_stmt_try(n) ==
  Must("check_handlers", <<n>>) \o Add("effects", 1) \o In("check_in", n) \o Add("effects", -1)
check_handlers(n) ==
  Set("in_try", TRUE) \o Try("check", Kids(n, "handlers")) \o IfFailed(Noise) \o Back("in_try")

check_stmt_using(n) ==
  Must("known_type", Kids(n, "td")) \o Test("not defined yet") \o check_on(n, <<"exp">>)

check_stmt(n) ==
  CASE N(n).kind = "exp" -> check_on(n, <<"val">>)
    [] N(n).kind = "return" -> check_stmt_return(n)
    [] N(n).kind = "break" -> When(env.breaks = 0, Refuse)
    [] N(n).kind = "continue" -> When(env.conts = 0, Refuse)
    [] N(n).kind = "try" -> check_stmt_try(n)
    [] N(n).kind = "defer" -> Try("check", Kids(n, "body"))
    [] N(n).kind = "using" -> check_stmt_using(n)
    [] N(n).kind = "pp" -> Must("traverse", Kids(n, "locale"))
    [] N(n).kind \in {"retry", "spread", "import"} -> <<>>
    [] OTHER -> In("check_in", n)

check_stmt_list(n) == Poison("check", Listed(n))

-----------------------------------------------------------------------------
(* Functions.                                                              *)

check_fdef_code(n) ==
  IF Is(n, "ctor") THEN Loose("check_stmt_list", <<n>>)
  ELSE Scoped(Loose("check_stmt_list", <<n>>))

check_fdef(n) ==
  When(Has(n, "args"), Doubt("new names") \o IfFailed(Noise) \o Check)
    \o When(Has(n, "types"), Doubt("constants") \o Check)
    \o When(~Is(n, "builtin"), check_fdef_code(n) \o Claim("no effects in a destructor"))

check_in_types(n) == scanx_fdef(n, "check_fdef")

(* A signature that does not fit the overridden one is an error that does  *)
(* not stop anything. *)
check_override(n) ==
  When(env.class # "", Blame("signature"))
    \o When(~Is(n, "base"), Claim("override"))

(* It is marked first, so that it can call itself. *)
_check_func_def(n) ==
  When(~Marked(n, "valid"),
    Mark(n, "valid") \o check_override(n)
      \o When(~Is(n, "base"),
           When(Is(n, "global"), PushNspc(env.global))
             \o Set("func", n)
             \o Values(Add("effects", 1) \o Try("check_in_types", <<n>>) \o Add("effects", -1))
             \o Back("func")
             \o When(env.class # "" /\ ~Is(n, "global"), Check \o Claim("effects of the override"))
             \o When(Is(n, "new"), Claim("a parent constructor"))
             \o When(Is(n, "global"), Pop)))

check_func_def(n) == Set("depth", 0) \o Try("_check_func_def", <<n>>) \o Back("depth")

-----------------------------------------------------------------------------
(* Types.                                                                  *)

(* when is a function that is made on the spot. *)
check_type_def(n) ==
  When(Has(n, "when_def"), Must("traverse", Kids(n, "when_def")) \o Claim("when is a bool"))
    \o Try("check", Kids(n, "cdef"))

check_trait_body(n) ==
  FlattenSeq([i \in DOMAIN Kids(n, "exps") |->
    Try("traverse", <<Kids(n, "exps")[i]>>) \o IfFailed(Mark(Kids(n, "exps")[i], "poison")) \o IfFailed(Noise)])

check_fptr_def(n) ==
  IF MarkedAll(Kids(n, "cdef"), "invalid") THEN Fail
  ELSE When(Is(n, "global"), PushNspc(env.global)) \o Try("check", Kids(n, "cdef"))
         \o When(Is(n, "global"), PopTo0)

check_parent(n) ==
  check_subscripts(n, "sizes")
    \o Must("ensure_traverse", Resolved(Kids(n, "ext")[1]))

check_cdef_parent(n) ==
  When(Template(n), Must("template_push_types", <<n>>))
    \o Try("check_parent", <<n>>) \o When(Template(n), Do("untype", ""))

check_class_tmpl(n) ==
  When(Has(n, "consts"),
       PushType(n) \o Typed("check", Kids(n, "consts")) \o IfFailed(Noise) \o PopTo0)

check_abstract(n) == Claim("nothing abstract is missing")
recursive_type(n) == Claim("not recursive")
check_trait_requests(n) == Doubt("requested traits")
check_extend_def(n) == Shrug("requested traits")

check_class_body(n) == scanx_body(n, "check")

(* Whether the body is well typed says only whether it is to be run; a     *)
(* request that fails leaves the class as the one that is walked.          *)
_check_class_def(n) ==
  When(Has(n, "ext"), Must("check_cdef_parent", <<n>>))
    \o When(Template(n), Must("check_class_tmpl", <<n>>))
    \o When(Has(n, "body"), Loose("check_class_body", <<n>>))
    \o check_abstract(n)
    \o When(Has(n, "traits"), check_trait_requests(n) \o IfFailed(Set("class", n)) \o Check)
    \o recursive_type(n)

(* The class is marked before anything is done. *)
check_class_def(n) ==
  When(~Is(n, "base") /\ ~Marked(n, "check"), Mark(n, "check") \o Must("_check_class_def", <<n>>))

check(n) ==
  CASE N(n).kind = "class"   -> check_class_def(n)
    [] N(n).kind = "union"   -> When(~Is(n, "base"), Mark(n, "check"))
    [] N(n).kind = "enum"    -> PushType(n) \o Pop
    [] N(n).kind = "fptr"    -> check_fptr_def(n)
    [] N(n).kind = "typedef" -> check_type_def(n)
    [] N(n).kind = "func"    -> check_func_def(n)
    [] N(n).kind = "stmts"   -> Try("check_stmt_list", <<n>>)
    [] N(n).kind = "trait"   -> In("check_trait_body", n)
    [] N(n).kind = "extend"  -> check_extend_def(n)
    [] N(n).kind = "prim"    -> <<>>
    [] N(n).kind \in {"case", "handler"} -> In("check_in", n)
    [] N(n).kind \in Statements -> check_stmt(n)
    [] OTHER -> check_exp(n)

(* Effects that nobody handles are warned of. *)
check_ast(n) ==
  Poison("check", Listed(n)) \o When(Is(n, "effects"), Do("unhandled", ""))
=============================================================================
