------------------------------- MODULE Valid --------------------------------
(***************************************************************************)
(* What is looked for when the types are known: parse/validate.c.  It      *)
(* looks at everything that is not poisoned.                               *)
(***************************************************************************)
EXTENDS Walk

validate_on(n, fields) ==
  FlattenSeq([i \in DOMAIN fields |-> Sound("validate", Kids(n, fields[i]))])

validate_type_decl(n) == validate_on(n, <<"array", "types">>)

validate_exp(n) ==
  CASE N(n).kind = "decl"   ->
         When(Has(n, "partial"), Refuse)
           \o Must("validate", Kids(n, "td")) \o Claim("abstract or late")
    [] N(n).kind = "named"  -> Claim("named in a call") \o validate_on(n, <<"exp">>)
    [] N(n).kind = "id"     -> Claim("value of an operator")
    [] N(n).kind = "binary" -> validate_on(n, <<"lhs", "rhs">>)
    [] N(n).kind = "spork"  -> validate_on(n, <<"body">>)
    [] N(n).kind = "call"   -> validate_on(n, <<"func", "args", "types">>)
    [] N(n).kind = "array"  -> validate_on(n, <<"base", "exps">>)
    [] N(n).kind \in {"range", "slice"} -> validate_on(n, <<"base", "start", "end">>)
    [] N(n).kind = "if_exp" -> validate_on(n, <<"cond", "if_exp", "else_exp">>)
    [] N(n).kind = "lambda" -> validate_on(n, <<"def">>)
    [] N(n).kind = "perform" -> <<>>
    [] OTHER                -> validate_on(n, <<"td", "base", "exp", "exps">>)

(* for stops at what is wrong. *)
validate_stmt(n) ==
  CASE N(n).kind = "for" ->
         validate_on(n, <<"init">>) \o Check \o validate_on(n, <<"test">>) \o Check
           \o validate_on(n, <<"step">>) \o Check \o validate_on(n, <<"body">>)
    [] N(n).kind \in {"break", "continue"} -> Claim("as many jumps")
    [] N(n).kind = "match" -> validate_on(n, <<"cond", "cases", "where">>)
    [] N(n).kind = "case"  -> validate_on(n, <<"cond">>) \o Sound("validate", Listed(n)) \o validate_on(n, <<"when">>)
    [] N(n).kind = "code"  -> Sound("validate", Listed(n))
    [] N(n).kind \in {"pp", "retry", "using", "import", "spread"} -> <<>>
    [] OTHER -> validate_on(n, <<"exp", "val", "cond", "body", "else_body", "handlers">>)

validate_func_base(n) == validate_on(n, <<"td", "args", "types">>)

(* A member of a union that is not valid ends the list, and is forgotten. *)
validate_section(n) ==
  CASE N(n).kind = "func"  -> validate_func_base(n) \o When(~Is(n, "builtin"), Sound("validate", Listed(n)))
    [] N(n).kind = "class" -> validate_on(n, <<"ext", "types">>) \o Sound("validate", Listed(n))
    [] N(n).kind = "union" -> Loose("validate", Kids(n, "members")) \o validate_on(n, <<"types">>)
    [] N(n).kind = "fptr"  -> validate_func_base(n)
    [] N(n).kind = "typedef" -> validate_on(n, <<"ext", "types", "when">>)
    [] N(n).kind = "extend"  -> validate_on(n, <<"td">>)
    [] N(n).kind \in {"enum", "prim"} -> <<>>
    [] OTHER -> (* stmts, trait *) Sound("validate", Listed(n))

validate(n) ==
  CASE N(n).kind \in Declarations \cup {"stmts"} -> validate_section(n)
    [] N(n).kind \in Statements \cup {"case", "handler"} -> validate_stmt(n)
    [] N(n).kind \in {"arg", "member"} -> validate_on(n, <<"td">>)
    [] N(n).kind = "type" -> validate_type_decl(n)
    [] OTHER -> validate_exp(n)

ast_validation(n) == Sound("validate", Listed(n))
=============================================================================
