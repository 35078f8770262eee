-------------------------------- MODULE Sema --------------------------------
(***************************************************************************)
(* The first pass, sema/sema.c: what can be said of a program before there *)
(* are types.  It visits everything, goes on after errors and poisons the  *)
(* statements and sections that have one.                                  *)
(***************************************************************************)
EXTENDS Walk

(* Statements go by sema_stmt. *)
sema_on(n, fields) ==
  FlattenSeq([i \in DOMAIN fields |->
    IF N(n).kind \in Statements \cup {"handler"} /\ fields[i] \in {"body", "else_body", "init", "test", "where"}
      THEN Stain("sema", Kids(n, fields[i]))
      ELSE Try("sema", Kids(n, fields[i]))])

(* unique_expression, of what could be several *)
unique(n, fields) ==
  FlattenSeq([i \in DOMAIN fields |->
    When(Has(n, fields[i]), sema_on(n, <<fields[i]>>) \o Shrug("unique expression"))])

(* type_decl_array_empty and type_decl_array_not_empty *)
sema_td(n, fields) == sema_on(n, fields) \o When(Has(n, fields[1]), Shrug("array bounds"))

sema_type_decl(n) == sema_on(n, <<"array", "types">>)

-----------------------------------------------------------------------------
(* Expressions.                                                            *)

sema_prim(n) ==
  CASE N(n).kind = "array_lit" -> sema_on(n, <<"exps">>) \o Spoil("array_not_empty", <<n>>)
    [] N(n).kind = "range" -> unique(n, <<"start", "end">>)
    [] OTHER -> sema_on(n, <<"exps">>)

array_not_empty(n) == Test("array bounds")
sema_new_td(n) == sema_td(n, <<"td">>)

sema_exp(n) ==
  CASE N(n).kind = "decl"   -> sema_on(n, <<"td", "args">>)
    [] N(n).kind = "binary" -> sema_on(n, <<"lhs", "rhs">>)
    [] N(n).kind = "unary"  -> sema_on(n, <<"exp">>)
    [] N(n).kind = "new"    ->
         IF Has(n, "args") THEN Blot("sema_new_td", <<n>>) \o sema_on(n, <<"args">>)
         ELSE Spoil("sema_new_td", <<n>>)
    [] N(n).kind = "spork"  -> Try("sema_stmt_list", <<n>>)
    [] N(n).kind = "cast"   -> sema_td(n, <<"td">>) \o sema_on(n, <<"exp">>)
    [] N(n).kind = "call"   -> sema_on(n, <<"func", "args", "types">>)
    [] N(n).kind = "array"  -> sema_on(n, <<"base">>) \o Test("array bounds") \o sema_on(n, <<"exps">>)
    [] N(n).kind = "slice"  -> sema_on(n, <<"base">>) \o unique(n, <<"start", "end">>)
    [] N(n).kind = "if_exp" -> unique(n, <<"cond", "if_exp", "else_exp">>)
    [] N(n).kind = "dot"    -> unique(n, <<"base">>)
    [] N(n).kind = "lambda" -> Try("sema", Kids(n, "def"))
    [] N(n).kind = "td"     -> sema_type_decl(n) \o Shrug("array bounds")
    [] OTHER                -> sema_on(n, <<"exp">>)

-----------------------------------------------------------------------------
(* Statements.                                                             *)

(* What would restore in_defer follows the return. *)
sema_stmt_defer(n) == Set("in_defer", TRUE) \o sema_on(n, <<"body">>)

sema_stmt_return(n) ==
  When(~env.in_func \/ env.in_defer, Fail) \o unique(n, <<"val">>)

(* The handlers are handled too. *)
sema_stmt_try(n) ==
  Set("handling", TRUE) \o sema_on(n, <<"body">>)
    \o Try("sema", Kids(n, "handlers")) \o Back("handling")

sema_handler(n) == Shrug("handler") \o sema_on(n, <<"body">>)

(* A spread is visited where it is written, and each of its expansions in  *)
(* an instance of the template, where they replace it.                     *)
sema_stmt_spread(n) ==
  IF env.tmpls THEN Test("spread") \o Mark(n, "spread") \o Stain("sema", Kids(n, "expansions"))
  ELSE IF env.in_variadic THEN Test("spread") \o sema_on(n, <<"body">>)
  ELSE Fail

sema_stmt(n) ==
  CASE N(n).kind = "exp" -> sema_on(n, <<"val">>)
    [] N(n).kind \in {"while", "until"} -> sema_on(n, <<"cond", "body">>)
    [] N(n).kind = "for" ->
         sema_on(n, <<"init", "test">>) \o When(~Has(n, "test"), Fail)
           \o sema_on(n, <<"step", "body">>)
    [] N(n).kind = "each" -> unique(n, <<"exp">>) \o sema_on(n, <<"body">>)
    [] N(n).kind = "loop" -> unique(n, <<"cond">>) \o sema_on(n, <<"body">>)
    [] N(n).kind = "if" -> sema_on(n, <<"cond", "body", "else_body">>)
    [] N(n).kind = "code" -> Try("sema_stmt_list", <<n>>)
    [] N(n).kind = "return" -> sema_stmt_return(n)
    [] N(n).kind = "match" ->
         sema_on(n, <<"cond">>) \o Spoil("sema", Kids(n, "cases")) \o sema_on(n, <<"where">>)
    [] N(n).kind = "retry" -> When(~env.handling, Fail)
    [] N(n).kind = "try" -> sema_stmt_try(n)
    [] N(n).kind = "defer" -> sema_stmt_defer(n)
    [] N(n).kind = "spread" -> sema_stmt_spread(n)
    [] OTHER -> <<>>

sema_stmt_case(n) ==
  sema_on(n, <<"cond">>) \o Try("sema_stmt_list", <<n>>) \o sema_on(n, <<"when">>)

sema_stmt_list(n) == Spoil("sema", Kids(n, "body"))

-----------------------------------------------------------------------------
(* Functions, classes and the rest.                                        *)

(* An argument that needs a name and has none is not looked at. *)
sema_arg(n) == Test("argument name") \o sema_td(n, <<"td">>) \o unique(n, <<"default">>)

sema_func_base(n) ==
  sema_td(n, <<"td">>) \o Try("sema", Kids(n, "args"))
    \o When(\E a \in ToSet(Kids(n, "args")) : Has(a, "default"),
            Shrug("default arguments") \o Mark(n, "default"))
    \o sema_on(n, <<"types">>)

(* What a variadic template is given, in an instance of it. *)
fill(n) == When(Is(n, "variadic") /\ Is(n, "instance"), Test("spread argument"))

(* The code's result is ignored: its statements are poisoned. *)
sema_func_def(n) ==
  When(Is(n, "variadic"), Set("in_variadic", TRUE)) \o fill(n)
    \o Try("sema_func_base", <<n>>)
    \o Set("in_func", TRUE) \o Loose("sema_stmt_list", <<n>>)
    \o Back("in_func") \o Back("in_variadic") \o Back("in_defer")

sema_type_def(n) == sema_on(n, <<"ext", "types">>) \o unique(n, <<"when">>)

sema_class_def(n) ==
  When(Is(n, "variadic"), Set("in_variadic", TRUE)) \o fill(n)
    \o sema_type_def(n) \o Shrug("array bounds")
    \o Try("sema_ast", <<n>>) \o Back("in_variadic")

sema_union_def(n) ==
  IF ~Has(n, "members") THEN Fail
  ELSE sema_on(n, <<"members">>) \o sema_on(n, <<"types">>) \o When(Is(n, "variadic"), Fail)

sema_section(n) ==
  CASE N(n).kind = "func" -> sema_func_def(n)
    [] N(n).kind \in {"class"} -> sema_class_def(n)
    [] N(n).kind = "trait" -> Try("sema_ast", <<n>>)
    [] N(n).kind = "union" -> sema_union_def(n)
    [] N(n).kind = "fptr" -> Try("sema_func_base", <<n>>)
    [] N(n).kind = "typedef" -> sema_type_def(n)
    [] N(n).kind = "extend" -> sema_td(n, <<"td">>)
    [] N(n).kind = "stmts" -> Try("sema_stmt_list", <<n>>)
    [] OTHER -> <<>>

sema_ast(n) == Spoil("sema", Kids(n, "body"))

(* The passes that follow run all the same. *)
sema_pass(n) == Do("sema", FALSE) \o Try("sema_ast", <<n>>)

sema_variadic(n) == Do("sema", TRUE) \o Must("sema", <<n>>)

sema(n) ==
  CASE N(n).kind \in Statements -> sema_stmt(n)
    [] N(n).kind \in Declarations \cup {"stmts"} -> sema_section(n)
    [] N(n).kind = "case" -> sema_stmt_case(n)
    [] N(n).kind = "handler" -> sema_handler(n)
    [] N(n).kind = "arg" -> sema_arg(n)
    [] N(n).kind = "type" -> sema_type_decl(n)
    [] N(n).kind \in {"id", "num", "array_lit", "range", "interp", "perform", "locale"} -> sema_prim(n)
    [] OTHER -> sema_exp(n)
=============================================================================
