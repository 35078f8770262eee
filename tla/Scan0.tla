------------------------------- MODULE Scan0 --------------------------------
(***************************************************************************)
(* The pass that makes the types a program declares: parse/scan0.c.        *)
(***************************************************************************)
EXTENDS Types

(* Where and with which qualifiers something may be declared. *)
env_access(n) ==
  When(\/ Is(n, "global") /\ env.depth > 0
       \/ Is(n, "static") /\ (env.class = "" \/ env.depth > 0), Refuse)
env_storage(n) ==
  env_access(n) \o When(Is(n, "global") /\ env.class # "", Refuse)

scan0_defined == Claim("new type") \o Test("new name")

(* What is global is declared in the global namespace of the file. *)
scan0_global(n) ==
  env_storage(n)
    \o When(Is(n, "global"), PushNspc(env.global) \o Mark(env.context, "global"))
scan0_local(n) == When(Is(n, "global"), PopTo0)

(* A function pointer is a class with one function. *)
scan0_fptr_def(n) == env_access(n) \o scan0_defined \o Must("scan0", Kids(n, "cdef"))

(* typedef_simple, or typedef_complex: a class that extends the type *)
scan0_type_def(n) ==
  scan0_defined \o env_access(n) \o Must("known_type", Kids(n, "ext"))
    \o scan0_global(n) \o Must("scan0", Kids(n, "cdef")) \o scan0_local(n)

scan0_enum_def(n) == scan0_defined \o scan0_global(n) \o scan0_local(n)

scan0_union_def(n) ==
  scan0_global(n) \o scan0_defined \o scan0_local(n) \o Mark(n, "scan0")

-----------------------------------------------------------------------------
(* Classes.                                                                *)

cdef_parent(n) ==
  When(Has(n, "ext"), Doubt("literal size"))
    \o IF Is(n, "base") THEN Must("known_type", Kids(n, "ext")) \o Claim("not inside itself")
       ELSE IF ~Has(n, "types") THEN Must("known_type", Kids(n, "ext"))
       ELSE When(Has(n, "ext"),
              Must("template_push_types", <<n>>) \o Try("known_type", Kids(n, "ext")) \o Do("untype", ""))

scan0_class_def_init(n) ==
  scan0_defined \o When(~Is(n, "struct"), Must("cdef_parent", <<n>>))
    \o When(Is(n, "global"), Claim("global parent"))
    \o When(Has(n, "traits"), Claim("known traits"))

(* The type is there, and marked, before its body is looked at. *)
scan0_class_def_inner(n) ==
  Claim("not reserved") \o Must("scan0_class_def_init", <<n>>)
    \o Mark(n, "scan0") \o When(Has(n, "body"), Try("scan0_body", <<n>>))

scan0_class_def(n) ==
  scan0_global(n) \o Try("scan0_class_def_inner", <<n>>) \o scan0_local(n)

-----------------------------------------------------------------------------
(* The rest.                                                               *)

(* Of statements only those that are for the namespace are done here. *)
scan0_stmt(n) ==
  When(N(n).kind = "import", IF env.depth = 0 /\ env.class = "" THEN Test("plug-in") ELSE Refuse)

scan0_stmt_list(n) == Poison("scan0", Listed(n))

(* An instance of a variadic function *)
scan0_func_def(n) ==
  When(Is(n, "variadic") /\ Has(n, "types"),
       Set("func", n) \o Loose("scan0_stmt_list", <<n>>) \o Back("func"))

(* What _scan0_trait_def answers is ignored. *)
scan0_trait_def(n) == Claim("new trait") \o Claim("known traits") \o Loose("scan0_trait_body", <<n>>)
scan0_trait_body(n) ==
  scan0_defined \o scan0_global(n) \o scan0_local(n) \o Doubt("trait sections")

scan0_prim_def(n) == env_access(n) \o scan0_defined \o scan0_global(n) \o scan0_local(n)

scan0_extend_def(n) == Must("known_type", Kids(n, "td")) \o Doubt("global trait")

scan0(n) ==
  CASE N(n).kind = "class"   -> scan0_class_def(n)
    [] N(n).kind = "union"   -> scan0_union_def(n)
    [] N(n).kind = "enum"    -> scan0_enum_def(n)
    [] N(n).kind = "fptr"    -> scan0_fptr_def(n)
    [] N(n).kind = "typedef" -> scan0_type_def(n)
    [] N(n).kind = "func"    -> scan0_func_def(n)
    [] N(n).kind = "trait"   -> scan0_trait_def(n)
    [] N(n).kind = "prim"    -> scan0_prim_def(n)
    [] N(n).kind = "extend"  -> scan0_extend_def(n)
    [] N(n).kind = "stmts"   -> scan0_stmt_list(n)
    [] OTHER                 -> scan0_stmt(n)

scan0_ast(n) == Poison("scan0", Listed(n))
=============================================================================
