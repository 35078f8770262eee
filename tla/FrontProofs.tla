---------------------------- MODULE FrontProofs ----------------------------
(***************************************************************************)
(* What is proved of the front end (Front.tla), whatever the trees are and *)
(* however many of the claims fail.                                        *)
(*                                                                         *)
(* A body is started by one frame only, the one that walks the definition  *)
(* for the first time, and that frame has marked the definition before.    *)
(* To say so of every tree the proof grades the plans (Fine): the claims   *)
(* and calls of a plan are all allowed where they stand; after an "easy"   *)
(* plan the function goes on whatever failed, and a "calm" one touches     *)
(* neither the marks nor the environment.                                  *)
(***************************************************************************)
EXTENDS Front, FiniteSums, SequenceTheorems

-----------------------------------------------------------------------------
(* Sequences of anything.                                                  *)

IsSeq(p) == \E S : p \in Seq(S)

LEMMA SeqShape ==
  ASSUME NEW p, IsSeq(p)
  PROVE  Len(p) \in Nat /\ DOMAIN p = 1 .. Len(p) /\ p \in Seq({p[i] : i \in DOMAIN p})
<1>1. PICK S : p \in Seq(S)
  BY DEF IsSeq
<1>2. Len(p) \in Nat /\ DOMAIN p = 1 .. Len(p) /\ p = [i \in 1 .. Len(p) |-> p[i]]
  BY <1>1
<1> QED  BY <1>2

LEMMA SeqCat ==
  ASSUME NEW p, NEW q, IsSeq(p), IsSeq(q)
  PROVE  /\ IsSeq(p \o q) /\ Len(p \o q) = Len(p) + Len(q)
         /\ \A i \in 1 .. Len(p) : (p \o q)[i] = p[i]
         /\ \A i \in 1 .. Len(q) : (p \o q)[Len(p) + i] = q[i]
         /\ \A i \in 1 .. Len(p) + Len(q) : i \notin 1 .. Len(p) => i - Len(p) \in 1 .. Len(q)
                                                  /\ (p \o q)[i] = q[i - Len(p)]
<1> DEFINE T == {p[i] : i \in DOMAIN p} \cup {q[i] : i \in DOMAIN q}
<1>1. p \in Seq(T) /\ q \in Seq(T)
  <2>1. p \in Seq({p[i] : i \in DOMAIN p}) /\ q \in Seq({q[i] : i \in DOMAIN q})
    BY SeqShape
  <2> QED  BY <2>1, SeqMonotonic
<1> HIDE DEF T
<1>2. p \o q \in Seq(T) /\ Len(p \o q) = Len(p) + Len(q)
  BY <1>1
<1>3. IsSeq(p \o q)
  BY <1>2 DEF IsSeq
<1>4. \A i \in 1 .. Len(p) + Len(q) : (p \o q)[i] = IF i <= Len(p) THEN p[i] ELSE q[i - Len(p)]
  BY <1>1, ConcatProperties
<1>5. Len(p) \in Nat /\ Len(q) \in Nat
  BY <1>1
<1> QED  BY <1>2, <1>3, <1>4, <1>5

LEMMA SeqNone == IsSeq(<<>>) /\ Len(<<>>) = 0
<1>1. <<>> \in Seq({})
  OBVIOUS
<1> QED  BY <1>1 DEF IsSeq

LEMMA SeqMap ==
  ASSUME NEW ns, IsSeq(ns), NEW p, DOMAIN p = DOMAIN ns, p = [i \in DOMAIN ns |-> p[i]]
  PROVE  IsSeq(p) /\ Len(p) = Len(ns)
<1>1. Len(ns) \in Nat /\ DOMAIN ns = 1 .. Len(ns)
  BY SeqShape
<1>2. p \in Seq({p[i] : i \in DOMAIN ns})
  BY <1>1
<1>3. Len(p) \in Nat /\ DOMAIN p = 1 .. Len(p)
  BY <1>2
<1>4. \A a, b \in Nat : 1 .. a = 1 .. b => a = b
  <2>1. ASSUME NEW a \in Nat, NEW b \in Nat, 1 .. a = 1 .. b, a < b PROVE FALSE
    <3>1. b \in 1 .. b /\ b \notin 1 .. a
      BY <2>1
    <3> QED  BY <3>1, <2>1
  <2>2. \A a, b \in Nat : a < b \/ b < a \/ a = b
    OBVIOUS
  <2> QED  BY <2>1, <2>2
<1> QED  BY <1>1, <1>2, <1>3, <1>4 DEF IsSeq

(* FlattenSeq, element by element. *)
Joined(ss, p) ==
  IsSeq(p) /\ \A j \in DOMAIN p : \E i \in DOMAIN ss : \E l \in DOMAIN ss[i] : p[j] = ss[i][l]

FlattenUpTo(ss, m, g) ==
  DOMAIN g = 1 .. m /\ \A i \in 1 .. m : g[i] = IF i = 1 THEN ss[i] ELSE g[i-1] \o ss[i]

LEMMA FlattenSteps ==
  ASSUME NEW ss, IsSeq(ss), Len(ss) # 0
  PROVE  \E g : /\ g = [i \in 1 .. Len(ss) |-> IF i = 1 THEN ss[i] ELSE g[i-1] \o ss[i]]
                /\ FlattenSeq(ss) = g[Len(ss)]
<1> DEFINE R(g) == g = [i \in 1 .. Len(ss) |-> IF i = 1 THEN ss[i] ELSE g[i-1] \o ss[i]]
           T == {m \in Nat : m <= Len(ss) /\ ~ \E g : g = [i \in 1 .. m |-> g[i]] /\ FlattenUpTo(ss, m, g)}
<1>1. Len(ss) \in Nat
  BY SeqShape
<1>2. T = {}
  <2>1. SUFFICES ASSUME T # {} PROVE FALSE
    OBVIOUS
  <2>2. PICK m \in T : \A l \in T : m <= l
    <3>1. T \in SUBSET Nat
      OBVIOUS
    <3> HIDE DEF T
    <3> QED  BY <2>1, <3>1, LeastNumber
  <2>3. m # 0
    <3>1. FlattenUpTo(ss, 0, [i \in 1 .. 0 |-> i])
      BY DEF FlattenUpTo
    <3> QED  BY <3>1
  <2>4. m - 1 \in Nat /\ m - 1 \notin T /\ m - 1 <= Len(ss)
    BY <2>2, <2>3, <1>1
  <2>5. PICK g : g = [i \in 1 .. m - 1 |-> g[i]] /\ FlattenUpTo(ss, m - 1, g)
    BY <2>4
  <2> DEFINE h == [i \in 1 .. m |-> IF i = m THEN IF i = 1 THEN ss[i] ELSE g[i-1] \o ss[i] ELSE g[i]]
  <2>6. ASSUME NEW i \in 1 .. m PROVE h[i] = IF i = 1 THEN ss[i] ELSE h[i-1] \o ss[i]
    <3>1. CASE i = m
      <4>1. h[i] = IF i = 1 THEN ss[i] ELSE g[i-1] \o ss[i]
        BY <3>1
      <4>2. i # 1 => h[i-1] = g[i-1]
        BY <3>1, <2>4
      <4> HIDE DEF h
      <4> QED  BY <4>1, <4>2
    <3>2. CASE i # m
      <4>1. h[i] = g[i] /\ i \in 1 .. m - 1
        BY <3>2, <2>4
      <4>2. i # 1 => h[i-1] = g[i-1]
        BY <3>2, <2>4
      <4> HIDE DEF h
      <4> QED  BY <4>1, <4>2, <2>5 DEF FlattenUpTo
    <3> QED  BY <3>1, <3>2
  <2>7. h = [i \in 1 .. m |-> h[i]] /\ DOMAIN h = 1 .. m
    OBVIOUS
  <2> HIDE DEF h
  <2>8. FlattenUpTo(ss, m, h)
    BY <2>6, <2>7 DEF FlattenUpTo
  <2> QED  BY <2>7, <2>8, <2>2
<1>3. PICK g : g = [i \in 1 .. Len(ss) |-> g[i]] /\ FlattenUpTo(ss, Len(ss), g)
  BY <1>1, <1>2
<1>4. R(g)
  BY <1>3 DEF FlattenUpTo
<1>5. R(CHOOSE f : R(f))
  <2> HIDE DEF R
  <2> QED  BY <1>4
<1>6. FlattenSeq(ss) = (CHOOSE f : R(f))[Len(ss)]
  BY DEF FlattenSeq
<1> QED  BY <1>5, <1>6

LEMMA FlattenFact ==
  ASSUME NEW ss, IsSeq(ss), \A i \in DOMAIN ss : IsSeq(ss[i])
  PROVE  Joined(ss, FlattenSeq(ss))
<1>1. Len(ss) \in Nat /\ DOMAIN ss = 1 .. Len(ss) /\ ss \in Seq({ss[i] : i \in DOMAIN ss})
  BY SeqShape
<1>2. CASE Len(ss) = 0
  <2>1. FlattenSeq(ss) = ss
    BY <1>2 DEF FlattenSeq
  <2>2. DOMAIN ss = {}
    BY <1>1, <1>2
  <2> QED  BY <2>1, <2>2 DEF Joined
<1>3. CASE Len(ss) # 0
  <2>1. PICK g : /\ g = [i \in 1 .. Len(ss) |-> IF i = 1 THEN ss[i] ELSE g[i-1] \o ss[i]]
                 /\ FlattenSeq(ss) = g[Len(ss)]
    BY <1>3, FlattenSteps
  <2> DEFINE T == {m \in Nat : m \in 1 .. Len(ss) /\ ~Joined(ss, g[m])}
  <2>2. T = {}
    <3>1. SUFFICES ASSUME T # {} PROVE FALSE
      OBVIOUS
    <3>2. PICK m \in T : \A l \in T : m <= l
      <4>1. T \in SUBSET Nat
        OBVIOUS
      <4> HIDE DEF T
      <4> QED  BY <3>1, <4>1, LeastNumber
    <3>3. m \in 1 .. Len(ss) /\ ~Joined(ss, g[m])
      BY <3>2
    <3>4. CASE m = 1
      <4>1. g[m] = ss[m]
        BY <2>1, <3>3, <3>4
      <4>2. IsSeq(ss[m]) /\ m \in DOMAIN ss
        BY <3>3, <1>1
      <4> QED  BY <4>1, <4>2, <3>3 DEF Joined
    <3>5. CASE m # 1
      <4>1. g[m] = g[m-1] \o ss[m] /\ m - 1 \in 1 .. Len(ss) /\ m - 1 \in Nat /\ ~(m <= m - 1)
        <5>1. m \in 1 .. Len(ss) /\ Len(ss) \in Nat
          BY <3>3, <1>1
        <5>2. m - 1 \in 1 .. Len(ss) /\ m - 1 \in Nat /\ ~(m <= m - 1)
          <6> HIDE DEF T
          <6> QED  BY <5>1, <3>5
        <5>3. g[m] = IF m = 1 THEN ss[m] ELSE g[m-1] \o ss[m]
          <6> HIDE DEF T
          <6> QED  BY <2>1, <5>1
        <5> HIDE DEF T
        <5> QED  BY <5>2, <5>3, <3>5
      <4>2. Joined(ss, g[m-1])
        BY <4>1, <3>2
      <4>3. IsSeq(ss[m]) /\ m \in DOMAIN ss
        BY <3>3, <1>1
      <4> DEFINE a == g[m-1]
                 b == ss[m]
      <4>4. IsSeq(a) /\ IsSeq(b)
        BY <4>2, <4>3 DEF Joined
      <4>5. /\ DOMAIN a = 1 .. Len(a) /\ DOMAIN b = 1 .. Len(b)
            /\ IsSeq(a \o b) /\ DOMAIN (a \o b) = 1 .. Len(a) + Len(b)
            /\ \A i \in 1 .. Len(a) : (a \o b)[i] = a[i]
            /\ \A i \in 1 .. Len(a) + Len(b) : i \notin 1 .. Len(a) => i - Len(a) \in 1 .. Len(b)
                                                  /\ (a \o b)[i] = b[i - Len(a)]
        <5> HIDE DEF a, b
        <5>1. IsSeq(a \o b) /\ Len(a \o b) = Len(a) + Len(b)
          BY <4>4, SeqCat
        <5>2. DOMAIN (a \o b) = 1 .. Len(a \o b)
          BY <5>1, SeqShape
        <5> QED  BY <5>1, <5>2, <4>4, SeqCat, SeqShape
      <4>6. \A j \in DOMAIN a : \E i \in DOMAIN ss : \E l \in DOMAIN ss[i] : a[j] = ss[i][l]
        BY <4>2 DEF Joined
      <4>7. \A j \in DOMAIN (a \o b) : \E i \in DOMAIN ss : \E l \in DOMAIN ss[i] : (a \o b)[j] = ss[i][l]
        <5>1. TAKE j \in DOMAIN (a \o b)
        <5>2. CASE j \in 1 .. Len(a)
          <6> HIDE DEF a, b
          <6> QED  BY <5>2, <4>5, <4>6
        <5>3. CASE j \notin 1 .. Len(a)
          <6>1. j - Len(a) \in DOMAIN b /\ (a \o b)[j] = b[j - Len(a)]
            <7> HIDE DEF a, b
            <7> QED  BY <5>3, <4>5
          <6> QED  BY <6>1, <4>3
        <5> QED  BY <5>2, <5>3
      <4>8. Joined(ss, a \o b)
        BY <4>5, <4>7 DEF Joined
      <4> QED  BY <4>8, <4>1, <3>3
    <3> QED  BY <3>4, <3>5
  <2>3. Len(ss) \in 1 .. Len(ss) /\ Len(ss) \in Nat
    BY <1>1, <1>3
  <2>4. Joined(ss, g[Len(ss)])
    BY <2>2, <2>3
  <2> QED  BY <2>1, <2>4
<1> QED  BY <1>2, <1>3

-----------------------------------------------------------------------------
(* The session that is compiled.                                           *)

U == Sessions[session]
Nodes == DOMAIN U.tree
Here == WellFormed /\ session \in DOMAIN Sessions

LEMMA KidsFact ==
  ASSUME Here, NEW n \in Nodes, NEW f \in Fields
  PROVE  /\ Kids(n, f) \in Seq(Nodes) /\ IsSeq(Kids(n, f)) /\ DOMAIN Kids(n, f) = 1 .. Len(Kids(n, f))
         /\ \A i \in DOMAIN Kids(n, f) : Kids(n, f)[i] \in Nodes
         /\ Kids(n, f) # <<>> => Kids(n, f)[1] \in Nodes /\ 1 \in DOMAIN Kids(n, f)
<1>1. Kids(n, f) = Child(U.tree, n, f)
  BY DEF Kids, Child, N, U
<1>2. Kids(n, f) \in Seq(Nodes)
  BY <1>1 DEF Here, WellFormed, Complete, Nodes, U
<1> QED  BY <1>2 DEF IsSeq

LEMMA CompleteFact ==
  ASSUME Here, NEW n \in Nodes
  PROVE  /\ \A f \in TypeFields : \A i \in DOMAIN Kids(n, f) : N(Kids(n, f)[i]).kind = "type"
         /\ N(n).kind = "type" /\ Has(n, "instance") => Has(n, "to")
         /\ Has(n, "next") => Has(n, "outer") /\ Has(Kids(n, "outer")[1], "to")
         /\ N(n).kind \in {"decl", "new"} => Has(n, "td")
         /\ N(n).kind = "binary" => Has(n, "lhs")
<1>1. \A m, f : Kids(m, f) = Child(U.tree, m, f) /\ N(m) = U.tree[m]
  BY DEF Kids, Child, N, U
<1>2. Complete(U.tree)
  BY DEF Here, WellFormed, U
<1> QED  BY <1>1, <1>2 DEF Complete, Nodes, Has

-----------------------------------------------------------------------------
(* What functions may be called, and by whom.                              *)

SemaFns == {"sema", "sema_stmt_list", "sema_ast", "sema_func_base", "array_not_empty", "sema_new_td"}

(* What no other function calls, and on no other node, once it has set a   *)
(* mark that it has looked for.                                            *)
Special == {"scan1_class_def_body", "scan2_class_body", "_check_class_def", "check_class_body", "check_in_types"}
Caller(g) ==
  CASE g = "scan1_class_def_body" -> "scan1"
    [] g = "scan2_class_body"     -> "scan2"
    [] g = "_check_class_def"     -> "check"
    [] g = "check_class_body"     -> "_check_class_def"
    [] g = "check_in_types"       -> "_check_func_def"
Flag(g) ==
  CASE g = "scan1_class_def_body" -> "scan1"
    [] g = "scan2_class_body"     -> "scan2"
    [] g = "_check_class_def"     -> "check"
    [] g = "check_class_body"     -> "check"
    [] g = "check_in_types"       -> "valid"

Outer == {"compile_xid", "compile", "passes"}

(* Functions of nodes that have something. *)
OfTypes == {"known_type", "resolve", "scan_class", "scan1_type", "scan_next"}
OfInstances == {"find_template_match", "find_tmpl"}
OfParents == {"check_cdef_parent", "check_parent"}
OfDecls == {"scan2_decl", "check_decl"}
OfTemplates == {"scan1_class_tmpl"}
OfFunctions == {"_scan1_func_def", "_scan2_func_def", "_check_func_def"}
Prepared == OfTypes \cup OfInstances \cup OfParents \cup OfDecls \cup OfTemplates \cup OfFunctions
Prepare(tree, g, m) ==
  /\ g \in OfTypes => tree[m].kind = "type"
  /\ g \in OfInstances \cup {"scan_class"} => Child(tree, m, "instance") # <<>>
  /\ g \in OfParents => Child(tree, m, "ext") # <<>>
  /\ g \in OfDecls => tree[m].kind = "decl"
  /\ g \in OfTemplates => tree[m].kind = "class" /\ Child(tree, m, "types") # <<>>
  /\ g \in OfFunctions => tree[m].kind = "func"
  /\ g = "scan_next" => Child(tree, m, "next") # <<>>

(* All the others. *)
Plain ==
  {"sema_pass", "sema_variadic", "sema_verdict",
   "template_push_types", "ensure_scan1", "ensure_scan2", "ensure_check", "ensure_traverse", "traverse",
   "scan1_once", "scan2_once", "check_once", "scan0", "scan0_body", "scan0_class_def_inner",
   "scan0_class_def_init", "cdef_parent", "scan0_stmt_list", "scan0_trait_body", "scan0_ast",
   "scan1", "scan1_in", "scan1_stmt_list", "scan1_decl", "scan1_fbody", "scan1_fdef", "scan1_in_types",
   "scan1_union_def_inner", "scan1_parent", "scan1_cdef_parent", "scan1_body",
   "scan1_ast",
   "scan2", "scan2_in", "scan2_stmt_list", "scan2_func_def_code", "scan2_fdef", "scan2_in_types",
   "scan2_parent", "scan2_cdef_parent", "scan2_ast",
   "check", "check_in", "check_cond", "check_stmt_list", "check_lambda_call", "partial_type",
   "check_traverse_fdef", "tmpl_valid", "ensure_tmpl", "check_breaks", "check_match", "match_case",
   "check_handlers", "check_fdef", "check_trait_body", "check_class_tmpl", "check_ast",
   "validate", "ast_validation", "_passes", "typecheck_ast", "emit_ast"}
Names == Plain \cup SemaFns \cup Special \cup Prepared \cup Outer

CallOk(u, f, n, g, m) ==
  /\ g \in Names /\ m \in DOMAIN u.tree
  /\ g \in Special => f = Caller(g) /\ m = n
  /\ g \in Prepared => Prepare(u.tree, g, m)
  /\ g \in Outer => f \in Outer
  /\ f \in SemaFns => g \in SemaFns

-----------------------------------------------------------------------------
(* Steps of plans.  Any; those that leave the environment alone; and of    *)
(* those the ones after which the function goes on.                        *)

Grades == {"any", "calm", "easy"}

CalmStep(s) ==
  \/ s[1] \in Called /\ s[2] # "template_push_types"
  \/ s[1] \in Claims \cup {"check", "refuse", "fail", "verdict", "mark", "error", "unhandled"}
  \/ s[1] = "failed" /\ s[2][1] \in {"mark", "error"}
EasyStep(u, s) ==
  /\ s[1] \notin {"must", "loud", "flow", "check", "refuse"}
  /\ s[1] \in {"claim", "test"} => s[2] \in u.sure
FineStep(u, f, n, c, s) ==
  /\ s[1] \in Called => CallOk(u, f, n, s[2], s[3])
  /\ c # "any" => CalmStep(s)
  /\ c = "easy" => EasyStep(u, s)

Fine(u, f, n, c, p) == IsSeq(p) /\ \A i \in DOMAIN p : FineStep(u, f, n, c, p[i])

LEMMA FineNone == ASSUME NEW u, NEW f, NEW n, NEW c PROVE Fine(u, f, n, c, <<>>)
<1>1. DOMAIN <<>> = {}
  OBVIOUS
<1> QED  BY SeqNone DEF Fine

LEMMA FineCat ==
  ASSUME NEW u, NEW f, NEW n, NEW c
  PROVE  \A p, q : Fine(u, f, n, c, p) /\ Fine(u, f, n, c, q) => Fine(u, f, n, c, p \o q)
<1> SUFFICES ASSUME NEW p, NEW q, Fine(u, f, n, c, p), Fine(u, f, n, c, q) PROVE Fine(u, f, n, c, p \o q)
  OBVIOUS
<1>1. IsSeq(p) /\ IsSeq(q)
  BY DEF Fine
<1>2. /\ IsSeq(p \o q) /\ DOMAIN (p \o q) = 1 .. Len(p) + Len(q)
      /\ DOMAIN p = 1 .. Len(p) /\ DOMAIN q = 1 .. Len(q)
      /\ \A i \in 1 .. Len(p) : (p \o q)[i] = p[i]
      /\ \A i \in 1 .. Len(p) + Len(q) : i \notin 1 .. Len(p) => i - Len(p) \in 1 .. Len(q)
                                                  /\ (p \o q)[i] = q[i - Len(p)]
  <2>1. IsSeq(p \o q) /\ Len(p \o q) = Len(p) + Len(q)
    BY <1>1, SeqCat
  <2> QED  BY <2>1, <1>1, SeqCat, SeqShape
<1>3. \A i \in DOMAIN p : FineStep(u, f, n, c, p[i])
  BY DEF Fine
<1>4. \A i \in DOMAIN q : FineStep(u, f, n, c, q[i])
  BY DEF Fine
<1>5. \A i \in DOMAIN (p \o q) : FineStep(u, f, n, c, (p \o q)[i])
  BY <1>2, <1>3, <1>4
<1> QED  BY <1>2, <1>5 DEF Fine

LEMMA FineFlatten ==
  ASSUME NEW u, NEW f, NEW n, NEW c, NEW ss, IsSeq(ss), \A i \in DOMAIN ss : Fine(u, f, n, c, ss[i])
  PROVE  Fine(u, f, n, c, FlattenSeq(ss))
<1>1. Joined(ss, FlattenSeq(ss))
  BY FlattenFact DEF Fine
<1> QED  BY <1>1 DEF Joined, Fine

LEMMA FineOne ==
  ASSUME NEW u, NEW f, NEW n, NEW c
  PROVE  \A s : FineStep(u, f, n, c, s) => Fine(u, f, n, c, <<s>>)
<1> TAKE s
<1>1. <<s>> \in Seq({s}) /\ DOMAIN <<s>> = {1} /\ <<s>>[1] = s
  OBVIOUS
<1>2. IsSeq(<<s>>)
  BY <1>1 DEF IsSeq
<1> QED  BY <1>1, <1>2 DEF Fine

LEMMA FineWeaken ==
  ASSUME NEW u, NEW f, NEW n, NEW p
  PROVE  /\ Fine(u, f, n, "easy", p) => Fine(u, f, n, "calm", p)
         /\ Fine(u, f, n, "calm", p) => Fine(u, f, n, "any", p)
BY DEF Fine, FineStep

LEMMA FineCall ==
  ASSUME NEW u, NEW f, NEW n, NEW c, NEW mode \in Called, NEW g, NEW ns, IsSeq(ns),
         \A i \in DOMAIN ns : CallOk(u, f, n, g, ns[i]),
         c # "any" => g # "template_push_types", c = "easy" => mode \notin {"must", "loud", "flow"}
  PROVE  Fine(u, f, n, c, Call(mode, g, ns))
<1> DEFINE p == Call(mode, g, ns)
<1>1. DOMAIN p = DOMAIN ns /\ p = [i \in DOMAIN ns |-> p[i]] /\ \A i \in DOMAIN ns : p[i] = <<mode, g, ns[i]>>
  BY DEF Call
<1>2. IsSeq(p)
  <2> HIDE DEF p
  <2> QED  BY <1>1, SeqMap
<1>3. mode \notin {"claim", "test"} /\ mode \notin {"check", "refuse"}
  BY DEF Called
<1>4. \A i \in DOMAIN ns : FineStep(u, f, n, c, <<mode, g, ns[i]>>)
  BY <1>3 DEF FineStep, CalmStep, EasyStep
<1> QED  BY <1>1, <1>2, <1>4 DEF Fine

LEMMA FieldFacts ==
  /\ \A f \in TypeFields : f \in Fields
  /\ "td" \in TypeFields /\ "ext" \in TypeFields /\ "types" \in TypeFields /\ "names" \in TypeFields
  /\ "next" \in TypeFields /\ "outer" \in TypeFields
  /\ "td" \in Fields /\ "ext" \in Fields /\ "types" \in Fields /\ "names" \in Fields
  /\ "next" \in Fields /\ "outer" \in Fields
  /\ "args" \in Fields /\ "array" \in Fields /\ "base" \in Fields /\ "becomes" \in Fields
  /\ "body" \in Fields /\ "call" \in Fields /\ "cases" \in Fields /\ "cdef" \in Fields
  /\ "cond" \in Fields /\ "consts" \in Fields /\ "ctor" \in Fields /\ "def" \in Fields
  /\ "default" \in Fields /\ "else_body" \in Fields /\ "else_exp" \in Fields /\ "end" \in Fields
  /\ "equal" \in Fields /\ "exp" \in Fields /\ "expansions" \in Fields /\ "exps" \in Fields
  /\ "fptr" \in Fields /\ "func" \in Fields /\ "handlers" \in Fields /\ "if_exp" \in Fields
  /\ "init" \in Fields /\ "instance" \in Fields /\ "lhs" \in Fields /\ "locale" \in Fields
  /\ "members" \in Fields /\ "new" \in Fields /\ "op" \in Fields /\ "owners" \in Fields
  /\ "rhs" \in Fields /\ "shorter" \in Fields /\ "sizes" \in Fields /\ "start" \in Fields
  /\ "step" \in Fields /\ "test" \in Fields /\ "to" \in Fields /\ "val" \in Fields
  /\ "when" \in Fields /\ "when_def" \in Fields /\ "where" \in Fields
BY DEF Fields, TypeFields

LEMMA NodeLists ==
  ASSUME Here
  PROVE  /\ \A n \in Nodes, f \in Fields : Kids(n, f) \in Seq(Nodes)
         /\ \A n \in Nodes, f \in Fields : Has(n, f) => Kids(n, f)[1] \in Nodes
         /\ \A n \in Nodes : <<n>> \in Seq(Nodes)
         /\ \A n \in Nodes, f \in Fields : \A i \in DOMAIN Kids(n, f) : Kids(n, f)[i] \in Nodes
BY KidsFact DEF Has

(* A function on every node of a list, or in a plan of its own. *)
LEMMA EachNode ==
  ASSUME NEW S, NEW p, NEW ns \in Seq(S)
  PROVE  IsSeq(ns) /\ DOMAIN ns = 1 .. Len(ns) /\ \A i \in DOMAIN ns : ns[i] \in S
<1>1. DOMAIN ns = 1 .. Len(ns)
  OBVIOUS
<1> QED  BY <1>1 DEF IsSeq

LEMMA SeqBuild ==
  ASSUME NEW ns, IsSeq(ns), NEW ss, DOMAIN ss = DOMAIN ns, ss = [i \in DOMAIN ns |-> ss[i]], NEW S,
         \A i \in DOMAIN ns : ss[i] \in Seq(S)
  PROVE  FlattenSeq(ss) \in Seq(S)
<1>1. IsSeq(ss)
  BY SeqMap
<1>2. \A i \in DOMAIN ss : IsSeq(ss[i])
  BY DEF IsSeq
<1>3. Joined(ss, FlattenSeq(ss))
  BY <1>1, <1>2, FlattenFact
<1> DEFINE p == FlattenSeq(ss)
<1>4. IsSeq(p) /\ \A j \in DOMAIN p : p[j] \in S
  <2>1. \A i \in DOMAIN ss : \A l \in DOMAIN ss[i] : ss[i][l] \in S
    <3>1. TAKE i \in DOMAIN ss
    <3>2. ss[i] \in Seq(S)
      OBVIOUS
    <3> DEFINE s == ss[i]
    <3>3. \A l \in DOMAIN s : s[l] \in S
      <4> HIDE DEF s
      <4>1. s \in Seq(S)
        BY <3>2 DEF s
      <4> QED  BY <4>1
    <3> QED  BY <3>3
  <2>2. \A j \in DOMAIN p : \E i \in DOMAIN ss : \E l \in DOMAIN ss[i] : p[j] = ss[i][l]
    BY <1>3 DEF Joined
  <2> HIDE DEF p
  <2>3. \A j \in DOMAIN p : p[j] \in S
    BY <2>1, <2>2
  <2> QED  BY <2>3, <1>3 DEF Joined, p
<1> HIDE DEF p
<1>5. p \in Seq({p[i] : i \in DOMAIN p}) /\ {p[i] : i \in DOMAIN p} \subseteq S
  BY <1>4, SeqShape
<1>6. p \in Seq(S)
  BY <1>5, SeqMonotonic
<1> QED  BY <1>6 DEF p

LEMMA LeastIn ==
  ASSUME NEW T \in SUBSET Nat, T # {}
  PROVE  Min(T) \in T
<1>1. \E n \in T : \A m \in T : n <= m
  BY LeastNumber
<1> QED  BY <1>1 DEF Min

LEMMA BodyFact ==
  ASSUME Here, NEW n \in Nodes
  PROVE  Body(n) \in Seq(Nodes)
<1> DEFINE b == Kids(n, "body")
           ss == [i \in DOMAIN b |-> LET s == b[i] IN When(N(s).kind # "stmts" /\ ~Marked(s, "poison"), <<s>>)]
<1>1. b \in Seq(Nodes) /\ Kids(n, "ctor") \in Seq(Nodes) /\ IsSeq(b) /\ \A i \in DOMAIN b : b[i] \in Nodes
  <2>1. b \in Seq(Nodes) /\ Kids(n, "ctor") \in Seq(Nodes)
    BY NodeLists, FieldFacts
  <2> QED  BY <2>1, EachNode
<1>2. \A i \in DOMAIN b : ss[i] \in Seq(Nodes)
  BY <1>1 DEF When
<1>3. ss = [i \in DOMAIN b |-> ss[i]] /\ DOMAIN ss = DOMAIN b
  OBVIOUS
<1>4. Sections(n) = FlattenSeq(ss)
  BY DEF Sections
<1>5. FlattenSeq(ss) \in Seq(Nodes)
  <2> HIDE DEF ss, b
  <2> QED  BY <1>1, <1>2, <1>3, SeqBuild
<1> QED  BY <1>1, <1>4, <1>5 DEF Body

LEMMA ListedFact ==
  ASSUME Here, NEW n \in Nodes
  PROVE  Listed(n) \in Seq(Nodes)
<1> DEFINE ends == {i \in DOMAIN Body(n) : Marked(Body(n)[i], "last")}
           b == IF ends = {} THEN Body(n) ELSE SubSeq(Body(n), 1, Min(ends))
           s1 == [i \in DOMAIN b |-> IF Marked(b[i], "spread") THEN Kids(b[i], "expansions") ELSE <<b[i]>>]
           s2 == [i \in DOMAIN b |-> When(Marked(b[i], "default") /\ ~Marked(b[i], "poison"), Kids(b[i], "shorter"))]
<1>1. Body(n) \in Seq(Nodes)
  BY BodyFact
<1>2. b \in Seq(Nodes)
  <2>1. CASE ends # {}
    <3>1. ends \in SUBSET Nat /\ ends \subseteq 1 .. Len(Body(n))
      BY <1>1
    <3>2. Min(ends) \in ends
      <4> HIDE DEF ends
      <4> QED  BY <2>1, <3>1, LeastIn
    <3>3. Min(ends) \in 1 .. Len(Body(n))
      <4> HIDE DEF ends
      <4> QED  BY <3>1, <3>2
    <3>4. SubSeq(Body(n), 1, Min(ends)) \in Seq(Nodes)
      <4> HIDE DEF ends
      <4> QED  BY <1>1, <3>3
    <3> HIDE DEF ends
    <3> QED  BY <3>4, <2>1
  <2>2. CASE ends = {}
    BY <2>2, <1>1
  <2> QED  BY <2>1, <2>2
<1> HIDE DEF b
<1>3. IsSeq(b) /\ \A i \in DOMAIN b : b[i] \in Nodes
  BY <1>2, EachNode
<1>4. \A i \in DOMAIN b : s1[i] \in Seq(Nodes) /\ s2[i] \in Seq(Nodes)
  <2>1. TAKE i \in DOMAIN b
  <2>2. b[i] \in Nodes
    BY <1>3
  <2>3. Kids(b[i], "expansions") \in Seq(Nodes) /\ Kids(b[i], "shorter") \in Seq(Nodes) /\ <<b[i]>> \in Seq(Nodes)
    BY <2>2, NodeLists, FieldFacts
  <2> QED  BY <2>3 DEF When
<1>5. DOMAIN s1 = DOMAIN b /\ s1 = [i \in DOMAIN b |-> s1[i]] /\ DOMAIN s2 = DOMAIN b /\ s2 = [i \in DOMAIN b |-> s2[i]]
  OBVIOUS
<1>6. Listed(n) = FlattenSeq(s1) \o FlattenSeq(s2)
  BY DEF Listed, b
<1> HIDE DEF s1, s2
<1>7. FlattenSeq(s1) \in Seq(Nodes)
  BY <1>3, <1>4, <1>5, SeqBuild
<1>8. FlattenSeq(s2) \in Seq(Nodes)
  BY <1>3, <1>4, <1>5, SeqBuild
<1> QED  BY <1>6, <1>7, <1>8

LEMMA ResolvedFact ==
  ASSUME Here, NEW td \in Nodes
  PROVE  Resolved(td) \in Seq(Nodes)
<1> DEFINE last == IF Has(td, "next") THEN Kids(td, "next")[1] ELSE td
<1>1. last \in Nodes
  BY NodeLists, FieldFacts
<1> HIDE DEF last
<1>2. Kids(last, "instance") \in Seq(Nodes) /\ Kids(last, "to") \in Seq(Nodes)
  BY <1>1, NodeLists, FieldFacts
<1> QED  BY <1>2 DEF Resolved, last

-----------------------------------------------------------------------------
(* Rules for plans.                                                        *)

(* What a function may call on any node, without an effect on scopes. *)
Common(f) == IF f \in SemaFns THEN SemaFns ELSE SemaFns \cup (Plain \ {"template_push_types"})

LEMMA CommonOk ==
  ASSUME NEW f, NEW n
  PROVE  \A g \in Common(f) : g # "template_push_types" /\ \A m \in Nodes : CallOk(U, f, n, g, m)
<1> TAKE g \in Common(f)
<1>1. g \in Plain \cup SemaFns /\ g # "template_push_types" /\ (f \in SemaFns => g \in SemaFns)
  BY DEF Common, SemaFns
<1>2. g \notin Special /\ g \notin Prepared /\ g \notin Outer
  BY <1>1 DEF Plain, SemaFns, Special, Prepared, OfTypes, OfInstances, OfParents, OfDecls, OfTemplates, OfFunctions, Outer
<1> QED  BY <1>1, <1>2 DEF CallOk, Names, Nodes

LEMMA CalmCalls ==
  ASSUME Here, NEW f, NEW n
  PROVE  \A g \in Common(f), ns \in Seq(Nodes) :
           /\ Fine(U, f, n, "calm", Must(g, ns)) /\ Fine(U, f, n, "calm", Loud(g, ns))
           /\ Fine(U, f, n, "calm", Try(g, ns)) /\ Fine(U, f, n, "calm", And(g, ns))
           /\ Fine(U, f, n, "calm", Loose(g, ns)) /\ Fine(U, f, n, "calm", Poison(g, ns))
           /\ Fine(U, f, n, "calm", Flow(g, ns)) /\ Fine(U, f, n, "calm", Spoil(g, ns))
           /\ Fine(U, f, n, "calm", Blot(g, ns)) /\ Fine(U, f, n, "calm", Stain(g, ns))
           /\ Fine(U, f, n, "calm", Typed(g, ns)) /\ Fine(U, f, n, "calm", Sound(g, ns))
<1> TAKE g \in Common(f), ns \in Seq(Nodes)
<1>1. IsSeq(ns) /\ \A i \in DOMAIN ns : ns[i] \in Nodes
  BY EachNode
<1>2. \A i \in DOMAIN ns : CallOk(U, f, n, g, ns[i])
  BY <1>1, CommonOk
<1>3. g # "template_push_types"
  BY CommonOk
<1>4. \A mode \in Called : Fine(U, f, n, "calm", Call(mode, g, ns))
  BY <1>1, <1>2, <1>3, FineCall
<1> QED  BY <1>4 DEF Called, Must, Loud, Try, And, Loose, Poison, Flow, Spoil, Blot, Stain, Typed, Sound

LEMMA EasyCalls ==
  ASSUME Here, NEW f, NEW n
  PROVE  \A g \in Common(f), ns \in Seq(Nodes) :
           /\ Fine(U, f, n, "easy", Try(g, ns)) /\ Fine(U, f, n, "easy", And(g, ns))
           /\ Fine(U, f, n, "easy", Loose(g, ns)) /\ Fine(U, f, n, "easy", Poison(g, ns))
           /\ Fine(U, f, n, "easy", Spoil(g, ns)) /\ Fine(U, f, n, "easy", Typed(g, ns))
           /\ Fine(U, f, n, "easy", Blot(g, ns)) /\ Fine(U, f, n, "easy", Stain(g, ns))
           /\ Fine(U, f, n, "easy", Sound(g, ns))
<1> TAKE g \in Common(f), ns \in Seq(Nodes)
<1>1. IsSeq(ns) /\ \A i \in DOMAIN ns : ns[i] \in Nodes
  BY EachNode
<1>2. \A i \in DOMAIN ns : CallOk(U, f, n, g, ns[i])
  BY <1>1, CommonOk
<1>3. g # "template_push_types"
  BY CommonOk
<1>4. \A mode \in Called \ {"must", "loud", "flow"} : Fine(U, f, n, "easy", Call(mode, g, ns))
  BY <1>1, <1>2, <1>3, FineCall
<1> QED  BY <1>4 DEF Called, Try, And, Loose, Poison, Spoil, Blot, Stain, Typed, Sound

(* A call that is allowed on one node. *)
LEMMA OwnCalls ==
  ASSUME NEW f, NEW n
  PROVE  \A g, m : CallOk(U, f, n, g, m) /\ g # "template_push_types" =>
           /\ Fine(U, f, n, "calm", Must(g, <<m>>)) /\ Fine(U, f, n, "calm", Loud(g, <<m>>))
           /\ Fine(U, f, n, "calm", Try(g, <<m>>)) /\ Fine(U, f, n, "calm", Loose(g, <<m>>))
           /\ Fine(U, f, n, "easy", Try(g, <<m>>)) /\ Fine(U, f, n, "easy", Loose(g, <<m>>))
<1> SUFFICES ASSUME NEW g, NEW m, CallOk(U, f, n, g, m), g # "template_push_types"
             PROVE  /\ Fine(U, f, n, "calm", Must(g, <<m>>)) /\ Fine(U, f, n, "calm", Loud(g, <<m>>))
                    /\ Fine(U, f, n, "calm", Try(g, <<m>>)) /\ Fine(U, f, n, "calm", Loose(g, <<m>>))
                    /\ Fine(U, f, n, "easy", Try(g, <<m>>)) /\ Fine(U, f, n, "easy", Loose(g, <<m>>))
  OBVIOUS
<1>1. <<m>> \in Seq({m})
  OBVIOUS
<1>2. IsSeq(<<m>>) /\ \A i \in DOMAIN <<m>> : <<m>>[i] = m
  <2>1. DOMAIN <<m>> = {1} /\ <<m>>[1] = m
    OBVIOUS
  <2> QED  BY <1>1, <2>1 DEF IsSeq
<1>3. \A mode \in Called : Fine(U, f, n, "calm", Call(mode, g, <<m>>))
  BY <1>2, FineCall
<1>4. \A mode \in Called \ {"must", "loud", "flow"} : Fine(U, f, n, "easy", Call(mode, g, <<m>>))
  BY <1>2, FineCall
<1> QED  BY <1>3, <1>4 DEF Called, Must, Loud, Try, Loose

LEMMA CalmSteps ==
  ASSUME NEW u, NEW f, NEW n
  PROVE  /\ \A c : /\ Fine(u, f, n, "calm", Claim(c)) /\ Fine(u, f, n, "calm", Test(c))
                   /\ Fine(u, f, n, "calm", Doubt(c)) /\ Fine(u, f, n, "calm", Shrug(c))
                   /\ Fine(u, f, n, "calm", Blame(c))
         /\ Fine(u, f, n, "calm", Check) /\ Fine(u, f, n, "calm", Refuse) /\ Fine(u, f, n, "calm", Fail)
         /\ Fine(u, f, n, "calm", Noise) /\ Fine(u, f, n, "calm", IfFailed(Noise))
         /\ \A m, x : Fine(u, f, n, "calm", Mark(m, x)) /\ Fine(u, f, n, "calm", IfFailed(Mark(m, x)))
         /\ \A x : Fine(u, f, n, "calm", Do("verdict", x)) /\ Fine(u, f, n, "calm", Do("unhandled", x))
         /\ Fine(u, f, n, "calm", <<>>)
         /\ \A p, q : Fine(u, f, n, "calm", p) /\ Fine(u, f, n, "calm", q) => Fine(u, f, n, "calm", p \o q)
<1>1. \A c : \A op \in Claims : FineStep(u, f, n, "calm", <<op, c>>)
  BY DEF FineStep, CalmStep, Claims, Called
<1>2. \A c : /\ Fine(u, f, n, "calm", Claim(c)) /\ Fine(u, f, n, "calm", Test(c))
             /\ Fine(u, f, n, "calm", Doubt(c)) /\ Fine(u, f, n, "calm", Shrug(c))
             /\ Fine(u, f, n, "calm", Blame(c))
  BY <1>1, FineOne DEF Claim, Test, Doubt, Shrug, Blame, Claims
<1>3. \A op \in {"check", "refuse", "fail"} : FineStep(u, f, n, "calm", <<op>>)
  BY DEF FineStep, CalmStep, Claims, Called
<1>4. Fine(u, f, n, "calm", Check) /\ Fine(u, f, n, "calm", Refuse) /\ Fine(u, f, n, "calm", Fail)
  BY <1>3, FineOne DEF Check, Refuse, Fail
<1>5. \A op \in {"error", "mark", "verdict", "unhandled"} : \A x : FineStep(u, f, n, "calm", <<op, x>>)
  BY DEF FineStep, CalmStep, Claims, Called
<1>6. Fine(u, f, n, "calm", Noise) /\ \A x : Fine(u, f, n, "calm", Do("verdict", x)) /\ Fine(u, f, n, "calm", Do("unhandled", x))
  BY <1>5, FineOne DEF Noise, Do
<1>7. \A m, x : Fine(u, f, n, "calm", Mark(m, x))
  BY <1>5, FineOne DEF Mark, Do
<1>8. \A s : IfFailed(<<s>>) = << <<"failed", s>> >>
  BY DEF IfFailed
<1>9. \A s : s[1] \in {"mark", "error"} => Fine(u, f, n, "calm", << <<"failed", s>> >>)
  <2>1. \A s : s[1] \in {"mark", "error"} => FineStep(u, f, n, "calm", <<"failed", s>>)
    BY DEF FineStep, CalmStep, Claims, Called
  <2> QED  BY <2>1, FineOne
<1>10. Fine(u, f, n, "calm", IfFailed(Noise)) /\ \A m, x : Fine(u, f, n, "calm", IfFailed(Mark(m, x)))
  BY <1>8, <1>9 DEF Mark, Noise, Do
<1> QED  BY <1>2, <1>4, <1>6, <1>7, <1>10, FineNone, FineCat

LEMMA EasySteps ==
  ASSUME NEW u, NEW f, NEW n
  PROVE  /\ \A c : /\ Fine(u, f, n, "easy", Doubt(c)) /\ Fine(u, f, n, "easy", Shrug(c))
                   /\ Fine(u, f, n, "easy", Blame(c))
                   /\ c \in u.sure => Fine(u, f, n, "easy", Claim(c)) /\ Fine(u, f, n, "easy", Test(c))
         /\ Fine(u, f, n, "easy", Fail)
         /\ Fine(u, f, n, "easy", Noise) /\ Fine(u, f, n, "easy", IfFailed(Noise))
         /\ \A m, x : Fine(u, f, n, "easy", Mark(m, x)) /\ Fine(u, f, n, "easy", IfFailed(Mark(m, x)))
         /\ Fine(u, f, n, "easy", <<>>)
         /\ \A p, q : Fine(u, f, n, "easy", p) /\ Fine(u, f, n, "easy", q) => Fine(u, f, n, "easy", p \o q)
<1>1. \A c : \A op \in Claims : c \in u.sure \/ op \notin {"claim", "test"} => FineStep(u, f, n, "easy", <<op, c>>)
  BY DEF FineStep, CalmStep, EasyStep, Claims, Called
<1>2. \A c : /\ Fine(u, f, n, "easy", Doubt(c)) /\ Fine(u, f, n, "easy", Shrug(c))
             /\ Fine(u, f, n, "easy", Blame(c))
             /\ c \in u.sure => Fine(u, f, n, "easy", Claim(c)) /\ Fine(u, f, n, "easy", Test(c))
  BY <1>1, FineOne DEF Claim, Test, Doubt, Shrug, Blame, Claims
<1>3. FineStep(u, f, n, "easy", <<"fail">>)
  BY DEF FineStep, CalmStep, EasyStep, Claims, Called
<1>4. Fine(u, f, n, "easy", Fail)
  BY <1>3, FineOne DEF Fail
<1>5. \A op \in {"error", "mark"} : \A x : FineStep(u, f, n, "easy", <<op, x>>)
  BY DEF FineStep, CalmStep, EasyStep, Claims, Called
<1>6. Fine(u, f, n, "easy", Noise)
  BY <1>5, FineOne DEF Noise, Do
<1>7. \A m, x : Fine(u, f, n, "easy", Mark(m, x))
  BY <1>5, FineOne DEF Mark, Do
<1>8. \A s : IfFailed(<<s>>) = << <<"failed", s>> >>
  BY DEF IfFailed
<1>9. \A s : s[1] \in {"mark", "error"} => Fine(u, f, n, "easy", << <<"failed", s>> >>)
  <2>1. \A s : s[1] \in {"mark", "error"} => FineStep(u, f, n, "easy", <<"failed", s>>)
    BY DEF FineStep, CalmStep, EasyStep, Claims, Called
  <2> QED  BY <2>1, FineOne
<1>10. Fine(u, f, n, "easy", IfFailed(Noise)) /\ \A m, x : Fine(u, f, n, "easy", IfFailed(Mark(m, x)))
  BY <1>8, <1>9 DEF Mark, Noise, Do
<1> QED  BY <1>2, <1>4, <1>6, <1>7, <1>10, FineNone, FineCat

(* Steps of any kind. *)
LEMMA AnySteps ==
  ASSUME NEW u, NEW f, NEW n
  PROVE  /\ \A op, x : op \notin Called => Fine(u, f, n, "any", Do(op, x)) /\ Fine(u, f, n, "any", IfFailed(Do(op, x)))
         /\ \A field, x : /\ Fine(u, f, n, "any", Set(field, x)) /\ Fine(u, f, n, "any", Add(field, x))
                          /\ Fine(u, f, n, "any", IfFailed(Set(field, x)))
         /\ \A field : Fine(u, f, n, "any", Back(field))
         /\ \A m : Fine(u, f, n, "any", PushType(m)) /\ Fine(u, f, n, "any", PushNspc(m))
         /\ Fine(u, f, n, "any", Pop) /\ Fine(u, f, n, "any", PopTo0)
         /\ \A p : Fine(u, f, n, "calm", p) => Fine(u, f, n, "any", p)
         /\ Fine(u, f, n, "any", <<>>)
         /\ \A p, q : Fine(u, f, n, "any", p) /\ Fine(u, f, n, "any", q) => Fine(u, f, n, "any", p \o q)
<1>1. \A s : s[1] \notin Called => Fine(u, f, n, "any", <<s>>)
  BY FineOne DEF FineStep
<1>2. \A op, x : op \notin Called => Fine(u, f, n, "any", Do(op, x)) /\ Fine(u, f, n, "any", IfFailed(Do(op, x)))
  <2>1. \A s : IfFailed(<<s>>) = << <<"failed", s>> >>
    BY DEF IfFailed
  <2>2. "failed" \notin Called
    BY DEF Called
  <2> QED  BY <1>1, <2>1, <2>2 DEF Do
<1>3. \A field, x : /\ Fine(u, f, n, "any", Set(field, x)) /\ Fine(u, f, n, "any", Add(field, x))
                    /\ Fine(u, f, n, "any", IfFailed(Set(field, x)))
  <2>1. \A s : IfFailed(<<s>>) = << <<"failed", s>> >>
    BY DEF IfFailed
  <2>2. "failed" \notin Called /\ "set" \notin Called /\ "add" \notin Called
    BY DEF Called
  <2> QED  BY <1>1, <2>1, <2>2 DEF Set, Add
<1>4. "back" \notin Called /\ "push" \notin Called /\ "nspc" \notin Called /\ "pop" \notin Called
  BY DEF Called
<1>5. \A field : Fine(u, f, n, "any", Back(field))
  BY <1>4, <1>2 DEF Back
<1>6. \A m : Fine(u, f, n, "any", PushType(m)) /\ Fine(u, f, n, "any", PushNspc(m))
  BY <1>4, <1>2 DEF PushType, PushNspc
<1>7. Fine(u, f, n, "any", Pop) /\ Fine(u, f, n, "any", PopTo0)
  BY <1>4, <1>2 DEF Pop, PopTo0
<1> QED  BY <1>2, <1>3, <1>5, <1>6, <1>7, FineNone, FineCat, FineWeaken

LEMMA CommonFacts ==
  /\ \A f : "sema" \in Common(f) /\ "sema_stmt_list" \in Common(f) /\ "sema_ast" \in Common(f)
            /\ "sema_func_base" \in Common(f) /\ "array_not_empty" \in Common(f) /\ "sema_new_td" \in Common(f)
  /\ \A f : f \notin SemaFns =>
       /\ "sema_pass" \in Common(f) /\ "sema_variadic" \in Common(f) /\ "sema_verdict" \in Common(f)
       /\ "ensure_scan1" \in Common(f) /\ "ensure_scan2" \in Common(f) /\ "ensure_check" \in Common(f)
       /\ "ensure_traverse" \in Common(f) /\ "traverse" \in Common(f)
       /\ "scan1_once" \in Common(f) /\ "scan2_once" \in Common(f) /\ "check_once" \in Common(f)
       /\ "scan0" \in Common(f) /\ "scan0_body" \in Common(f) /\ "scan0_class_def_inner" \in Common(f)
       /\ "scan0_class_def_init" \in Common(f) /\ "cdef_parent" \in Common(f)
       /\ "scan0_stmt_list" \in Common(f) /\ "scan0_trait_body" \in Common(f) /\ "scan0_ast" \in Common(f)
       /\ "scan1" \in Common(f) /\ "scan1_in" \in Common(f) /\ "scan1_stmt_list" \in Common(f)
       /\ "scan1_decl" \in Common(f) /\ "scan1_fbody" \in Common(f) /\ "scan1_fdef" \in Common(f)
       /\ "scan1_in_types" \in Common(f)
       /\ "scan1_union_def_inner" \in Common(f) /\ "scan1_parent" \in Common(f)
       /\ "scan1_cdef_parent" \in Common(f) /\ "scan1_body" \in Common(f)
       /\ "scan1_ast" \in Common(f)
       /\ "scan2" \in Common(f) /\ "scan2_in" \in Common(f) /\ "scan2_stmt_list" \in Common(f)
       /\ "scan2_func_def_code" \in Common(f) /\ "scan2_fdef" \in Common(f) /\ "scan2_in_types" \in Common(f)
       /\ "scan2_parent" \in Common(f) /\ "scan2_cdef_parent" \in Common(f)
       /\ "scan2_ast" \in Common(f)
       /\ "check" \in Common(f) /\ "check_in" \in Common(f) /\ "check_cond" \in Common(f)
       /\ "check_stmt_list" \in Common(f) /\ "check_lambda_call" \in Common(f) /\ "partial_type" \in Common(f)
       /\ "check_traverse_fdef" \in Common(f) /\ "tmpl_valid" \in Common(f) /\ "ensure_tmpl" \in Common(f)
       /\ "check_breaks" \in Common(f) /\ "check_match" \in Common(f) /\ "match_case" \in Common(f)
       /\ "check_handlers" \in Common(f) /\ "check_fdef" \in Common(f)
       /\ "check_trait_body" \in Common(f) /\ "check_class_tmpl" \in Common(f) /\ "check_ast" \in Common(f)
       /\ "validate" \in Common(f) /\ "ast_validation" \in Common(f) /\ "_passes" \in Common(f)
       /\ "typecheck_ast" \in Common(f) /\ "emit_ast" \in Common(f)
BY DEF Common, SemaFns, Plain

(* Whatever is named in a list of fields, a plan made for each of them. *)
LEMMA EachField ==
  ASSUME NEW fields \in Seq(Fields), NEW f, NEW n, NEW c, NEW ss, DOMAIN ss = DOMAIN fields,
         ss = [i \in DOMAIN fields |-> ss[i]], \A i \in DOMAIN fields : Fine(U, f, n, c, ss[i])
  PROVE  Fine(U, f, n, c, FlattenSeq(ss))
<1>1. IsSeq(fields)
  BY EachNode
<1>2. IsSeq(ss)
  BY <1>1, SeqMap
<1> QED  BY <1>2, FineFlatten

-----------------------------------------------------------------------------
(* The plans of the first pass.                                            *)

LEMMA SemaOn ==
  ASSUME Here, NEW f, NEW n, NEW m \in Nodes, NEW fields \in Seq(Fields)
  PROVE  Fine(U, f, n, "calm", sema_on(m, fields)) /\ Fine(U, f, n, "easy", sema_on(m, fields))
<1> DEFINE ss == [i \in DOMAIN fields |->
    IF N(m).kind \in Statements \cup {"handler"} /\ fields[i] \in {"body", "else_body", "init", "test", "where"}
      THEN Stain("sema", Kids(m, fields[i]))
      ELSE Try("sema", Kids(m, fields[i]))]
<1>1. \A i \in DOMAIN fields : Kids(m, fields[i]) \in Seq(Nodes)
  BY NodeLists, EachNode
<1>2. \A i \in DOMAIN fields : Fine(U, f, n, "calm", ss[i]) /\ Fine(U, f, n, "easy", ss[i])
  BY <1>1, CalmCalls, EasyCalls, CommonFacts
<1>3. DOMAIN ss = DOMAIN fields /\ ss = [i \in DOMAIN fields |-> ss[i]]
  OBVIOUS
<1>4. sema_on(m, fields) = FlattenSeq(ss)
  BY DEF sema_on
<1> HIDE DEF ss
<1> QED  BY <1>2, <1>3, <1>4, EachField

LEMMA Unique ==
  ASSUME Here, NEW f, NEW n, NEW m \in Nodes, NEW fields \in Seq(Fields)
  PROVE  Fine(U, f, n, "calm", unique(m, fields)) /\ Fine(U, f, n, "easy", unique(m, fields))
<1> DEFINE ss == [i \in DOMAIN fields |->
    When(Has(m, fields[i]), sema_on(m, <<fields[i]>>) \o Shrug("unique expression"))]
<1>1. \A i \in DOMAIN fields : <<fields[i]>> \in Seq(Fields)
  BY EachNode
<1>2. \A i \in DOMAIN fields : Fine(U, f, n, "calm", ss[i])
  BY <1>1, SemaOn, CalmSteps DEF When
<1>3. \A i \in DOMAIN fields : Fine(U, f, n, "easy", ss[i])
  BY <1>1, SemaOn, EasySteps DEF When
<1>4. DOMAIN ss = DOMAIN fields /\ ss = [i \in DOMAIN fields |-> ss[i]]
  OBVIOUS
<1>5. unique(m, fields) = FlattenSeq(ss)
  BY DEF unique
<1> HIDE DEF ss
<1> QED  BY <1>2, <1>3, <1>4, <1>5, EachField

LEMMA FieldLists ==
  /\ \A a \in Fields : <<a>> \in Seq(Fields)
  /\ \A a, b \in Fields : <<a, b>> \in Seq(Fields)
  /\ \A a, b, c \in Fields : <<a, b, c>> \in Seq(Fields)
OBVIOUS

LEMMA SemaParts ==
  ASSUME Here, NEW f, NEW n, NEW m \in Nodes
  PROVE  /\ \A fields \in Seq(Fields) : Fine(U, f, n, "calm", sema_on(m, fields)) /\ Fine(U, f, n, "calm", unique(m, fields))
         /\ \A fields \in Seq(Fields) : Fine(U, f, n, "calm", sema_td(m, fields))
         /\ Fine(U, f, n, "calm", sema_type_decl(m))
         /\ Fine(U, f, n, "calm", sema_prim(m))
         /\ Fine(U, f, n, "calm", sema_exp(m))
<1>1. \A fields \in Seq(Fields) : Fine(U, f, n, "calm", sema_on(m, fields)) /\ Fine(U, f, n, "calm", unique(m, fields))
  BY SemaOn, Unique
<1>2. \A fields \in Seq(Fields) : Fine(U, f, n, "calm", sema_td(m, fields))
  BY <1>1, CalmSteps DEF sema_td, When
<1>3. Fine(U, f, n, "calm", sema_type_decl(m))
  BY <1>1, FieldFacts, FieldLists DEF sema_type_decl
<1>4. <<m>> \in Seq(Nodes) /\ Kids(m, "def") \in Seq(Nodes)
  BY NodeLists, FieldFacts
<1>5. Fine(U, f, n, "calm", sema_prim(m))
  BY <1>1, <1>4, CalmCalls, CalmSteps, CommonFacts, FieldFacts, FieldLists DEF sema_prim
<1>6. Fine(U, f, n, "calm", sema_exp(m))
  BY <1>1, <1>2, <1>3, <1>4, CalmCalls, CalmSteps, CommonFacts, FieldFacts, FieldLists DEF sema_exp
<1> QED  BY <1>1, <1>2, <1>3, <1>5, <1>6

LEMMA SemaLists ==
  ASSUME Here, NEW m \in Nodes
  PROVE  /\ <<m>> \in Seq(Nodes) /\ Kids(m, "handlers") \in Seq(Nodes) /\ Kids(m, "expansions") \in Seq(Nodes)
         /\ Kids(m, "cases") \in Seq(Nodes) /\ Kids(m, "body") \in Seq(Nodes) /\ Kids(m, "args") \in Seq(Nodes)
BY NodeLists, FieldFacts

LEMMA SemaStatements ==
  ASSUME Here, NEW f, NEW n, NEW m \in Nodes
  PROVE  /\ N(m).kind \notin {"try", "defer"} => Fine(U, f, n, "calm", sema_stmt(m))
         /\ Fine(U, f, n, "any", sema_stmt(m))
<1> USE SemaParts, SemaLists
<1>1. Fine(U, f, n, "calm", sema_stmt_return(m))
  BY CalmSteps, FieldFacts, FieldLists DEF sema_stmt_return, When
<1>2. Fine(U, f, n, "calm", sema_stmt_spread(m))
  BY CalmCalls, CalmSteps, CommonFacts, FieldFacts, FieldLists DEF sema_stmt_spread, When
<1>3. Fine(U, f, n, "any", sema_stmt_defer(m))
  BY AnySteps, FieldFacts, FieldLists DEF sema_stmt_defer
<1>4. Fine(U, f, n, "any", sema_stmt_try(m))
  BY CalmCalls, AnySteps, CommonFacts, FieldFacts, FieldLists DEF sema_stmt_try
<1>5. N(m).kind \notin {"try", "defer"} => Fine(U, f, n, "calm", sema_stmt(m))
  BY <1>1, <1>2, CalmCalls, CalmSteps, CommonFacts, FieldFacts, FieldLists DEF sema_stmt, When
<1>6. N(m).kind \in {"try", "defer"} => Fine(U, f, n, "any", sema_stmt(m))
  BY <1>3, <1>4 DEF sema_stmt
<1> QED  BY <1>5, <1>6, AnySteps

LEMMA SemaSections ==
  ASSUME Here, NEW f, NEW n, NEW m \in Nodes
  PROVE  /\ N(m).kind \notin {"func", "class"} => Fine(U, f, n, "calm", sema_section(m))
         /\ Fine(U, f, n, "any", sema_section(m))
<1> USE SemaParts, SemaLists
<1>1. Fine(U, f, n, "calm", fill(m))
  BY CalmSteps DEF fill, When
<1>2. Fine(U, f, n, "any", sema_func_def(m))
  BY <1>1, CalmCalls, AnySteps, CommonFacts DEF sema_func_def, When
<1>3. Fine(U, f, n, "calm", sema_type_def(m))
  BY CalmSteps, FieldFacts, FieldLists DEF sema_type_def
<1>4. Fine(U, f, n, "any", sema_class_def(m))
  BY <1>1, <1>3, CalmCalls, CalmSteps, AnySteps, CommonFacts DEF sema_class_def, When
<1>5. Fine(U, f, n, "calm", sema_union_def(m))
  BY CalmSteps, FieldFacts, FieldLists DEF sema_union_def, When
<1>6. N(m).kind \notin {"func", "class"} => Fine(U, f, n, "calm", sema_section(m))
  BY <1>3, <1>5, CalmCalls, CalmSteps, CommonFacts, FieldFacts, FieldLists DEF sema_section
<1>7. N(m).kind \in {"func", "class"} => Fine(U, f, n, "any", sema_section(m))
  BY <1>2, <1>4 DEF sema_section
<1> QED  BY <1>6, <1>7, AnySteps

LEMMA SemaPlans ==
  ASSUME Here, NEW f, NEW n, NEW m \in Nodes
  PROVE  /\ Fine(U, f, n, "any", sema(m))
         /\ N(m).kind \notin {"try", "defer", "func", "class"} => Fine(U, f, n, "calm", sema(m))
         /\ Fine(U, f, n, "calm", sema_stmt_list(m)) /\ Fine(U, f, n, "calm", sema_ast(m))
         /\ Fine(U, f, n, "calm", sema_func_base(m))
         /\ Fine(U, f, n, "calm", array_not_empty(m)) /\ Fine(U, f, n, "calm", sema_new_td(m))
<1> USE SemaParts, SemaLists
<1>1. Fine(U, f, n, "calm", sema_stmt_list(m)) /\ Fine(U, f, n, "calm", sema_ast(m))
  BY CalmCalls, CommonFacts DEF sema_stmt_list, sema_ast
<1>2. Fine(U, f, n, "calm", array_not_empty(m)) /\ Fine(U, f, n, "calm", sema_new_td(m))
  BY CalmSteps, FieldFacts, FieldLists DEF array_not_empty, sema_new_td
<1>3. Fine(U, f, n, "calm", sema_func_base(m))
  BY CalmCalls, CalmSteps, CommonFacts, FieldFacts, FieldLists DEF sema_func_base, When
<1>4. Fine(U, f, n, "calm", sema_stmt_case(m)) /\ Fine(U, f, n, "calm", sema_handler(m)) /\ Fine(U, f, n, "calm", sema_arg(m))
  BY CalmCalls, CalmSteps, CommonFacts, FieldFacts, FieldLists DEF sema_stmt_case, sema_handler, sema_arg
<1>5. Fine(U, f, n, "any", sema(m))
  BY <1>4, SemaStatements, SemaSections, AnySteps DEF sema
<1>6. N(m).kind \notin {"try", "defer", "func", "class"} => Fine(U, f, n, "calm", sema(m))
  BY <1>4, SemaStatements, SemaSections, AnySteps DEF sema
<1> QED  BY <1>1, <1>2, <1>3, <1>5, <1>6

-----------------------------------------------------------------------------
(* The plans of validation.                                                *)

LEMMA NodeRules ==
  ASSUME Here, NEW m \in Nodes
  PROVE  /\ <<m>> \in Seq(Nodes) /\ Listed(m) \in Seq(Nodes)
         /\ \A f \in Fields : Kids(m, f) \in Seq(Nodes) /\ (Has(m, f) => Kids(m, f)[1] \in Nodes)
BY NodeLists, ListedFact

LEMMA ValidateOn ==
  ASSUME Here, NEW f, f \notin SemaFns, NEW n, NEW m \in Nodes
  PROVE  \A fields \in Seq(Fields) : Fine(U, f, n, "calm", validate_on(m, fields))
<1> TAKE fields \in Seq(Fields)
<1> DEFINE ss == [i \in DOMAIN fields |-> Sound("validate", Kids(m, fields[i]))]
<1>1. \A i \in DOMAIN fields : Kids(m, fields[i]) \in Seq(Nodes)
  BY NodeLists, EachNode
<1>2. \A i \in DOMAIN fields : Fine(U, f, n, "calm", ss[i])
  BY <1>1, CalmCalls, CommonFacts
<1>3. DOMAIN ss = DOMAIN fields /\ ss = [i \in DOMAIN fields |-> ss[i]]
  OBVIOUS
<1>4. validate_on(m, fields) = FlattenSeq(ss)
  BY DEF validate_on
<1> HIDE DEF ss
<1> QED  BY <1>2, <1>3, <1>4, EachField

LEMMA FourFields == \A a, b, c, d \in Fields : <<a, b, c, d>> \in Seq(Fields)
OBVIOUS
LEMMA SixFields == \A a, b, c, d, e, g \in Fields : <<a, b, c, d, e, g>> \in Seq(Fields)
OBVIOUS

LEMMA Validation ==
  ASSUME Here, NEW f, f \notin SemaFns, NEW n, NEW m \in Nodes
  PROVE  Fine(U, f, n, "calm", validate(m)) /\ Fine(U, f, n, "calm", ast_validation(m))
<1> USE ValidateOn, NodeRules, CommonFacts
<1>1. Fine(U, f, n, "calm", validate_exp(m))
  BY CalmCalls, CalmSteps, FieldFacts, FieldLists, FourFields DEF validate_exp, When
<1>2. Fine(U, f, n, "calm", validate_stmt(m))
  BY CalmCalls, CalmSteps, FieldFacts, FieldLists, SixFields DEF validate_stmt
<1>3. Fine(U, f, n, "calm", validate_section(m))
  BY CalmCalls, CalmSteps, FieldFacts, FieldLists DEF validate_section, validate_func_base, When
<1>4. Fine(U, f, n, "calm", ast_validation(m))
  BY CalmCalls DEF ast_validation
<1>5. Fine(U, f, n, "calm", validate(m))
  BY <1>1, <1>2, <1>3, FieldFacts, FieldLists DEF validate, validate_type_decl
<1> QED  BY <1>4, <1>5

-----------------------------------------------------------------------------
(* Types and templates.                                                    *)

(* The calls on types. *)
LEMMA TypeCalls ==
  ASSUME Here, NEW f, f \notin SemaFns, NEW n
  PROVE  /\ \A m \in Nodes, field \in TypeFields :
              /\ Fine(U, f, n, "calm", Must("known_type", Kids(m, field)))
              /\ Fine(U, f, n, "calm", Try("known_type", Kids(m, field)))
              /\ Fine(U, f, n, "calm", Loose("known_type", Kids(m, field)))
              /\ Fine(U, f, n, "easy", Try("known_type", Kids(m, field)))
              /\ Fine(U, f, n, "easy", Loose("known_type", Kids(m, field)))
              /\ Fine(U, f, n, "calm", Must("scan1_type", Kids(m, field)))
         /\ \A m \in Nodes : N(m).kind = "type" =>
              /\ Fine(U, f, n, "calm", Must("known_type", <<m>>))
              /\ Fine(U, f, n, "calm", Loud("resolve", <<m>>))
              /\ Has(m, "instance") => Fine(U, f, n, "calm", Must("scan_class", <<m>>))
              /\ Has(m, "next") => Fine(U, f, n, "calm", Try("scan_next", <<m>>))
<1>1. \A m, field : Kids(m, field) = Child(U.tree, m, field) /\ N(m) = U.tree[m]
  BY DEF Kids, Child, N, U
<1>2. \A m \in Nodes : N(m).kind = "type" =>
        /\ CallOk(U, f, n, "known_type", m) /\ CallOk(U, f, n, "resolve", m) /\ CallOk(U, f, n, "scan1_type", m)
        /\ Has(m, "instance") => CallOk(U, f, n, "scan_class", m)
        /\ Has(m, "next") => CallOk(U, f, n, "scan_next", m)
  BY <1>1 DEF CallOk, Prepare, Prepared, OfTypes, OfInstances, OfParents, OfDecls, OfTemplates, OfFunctions, Special, Outer, Names, Nodes, Has
<1>3. \A m \in Nodes, field \in TypeFields : IsSeq(Kids(m, field)) /\
        \A i \in DOMAIN Kids(m, field) : Kids(m, field)[i] \in Nodes /\ N(Kids(m, field)[i]).kind = "type"
  BY KidsFact, FieldFacts, CompleteFact
<1>4. \A m \in Nodes, field \in TypeFields : \A mode \in Called, g \in {"known_type", "scan1_type"} :
        Fine(U, f, n, "calm", Call(mode, g, Kids(m, field)))
  BY <1>2, <1>3, FineCall
<1>5. \A m \in Nodes, field \in TypeFields : \A mode \in Called \ {"must", "loud", "flow"}, g \in {"known_type", "scan1_type"} :
        Fine(U, f, n, "easy", Call(mode, g, Kids(m, field)))
  BY <1>2, <1>3, FineCall
<1>6. \A m \in Nodes, field \in TypeFields :
              /\ Fine(U, f, n, "calm", Must("known_type", Kids(m, field)))
              /\ Fine(U, f, n, "calm", Try("known_type", Kids(m, field)))
              /\ Fine(U, f, n, "calm", Loose("known_type", Kids(m, field)))
              /\ Fine(U, f, n, "easy", Try("known_type", Kids(m, field)))
              /\ Fine(U, f, n, "easy", Loose("known_type", Kids(m, field)))
              /\ Fine(U, f, n, "calm", Must("scan1_type", Kids(m, field)))
  BY <1>4, <1>5 DEF Must, Try, Loose, Called
<1>7. \A m \in Nodes : N(m).kind = "type" =>
              /\ Fine(U, f, n, "calm", Must("known_type", <<m>>))
              /\ Fine(U, f, n, "calm", Loud("resolve", <<m>>))
              /\ Has(m, "instance") => Fine(U, f, n, "calm", Must("scan_class", <<m>>))
              /\ Has(m, "next") => Fine(U, f, n, "calm", Try("scan_next", <<m>>))
  BY <1>2, OwnCalls
<1> QED  BY <1>6, <1>7

(* template_push_types adds a scope of types. *)
LEMMA PushTypesCalls ==
  ASSUME Here, NEW f, f \notin SemaFns, NEW n
  PROVE  \A m \in Nodes : /\ Fine(U, f, n, "any", Must("template_push_types", <<m>>))
                          /\ Fine(U, f, n, "any", Loose("template_push_types", <<m>>))
<1> TAKE m \in Nodes
<1>1. CallOk(U, f, n, "template_push_types", m)
  BY DEF CallOk, Names, Plain, Special, Prepared, OfTypes, OfInstances, OfParents, OfDecls, OfTemplates, OfFunctions, Outer, Nodes
<1>2. IsSeq(<<m>>) /\ \A i \in DOMAIN <<m>> : <<m>>[i] = m
  <2>1. DOMAIN <<m>> = {1} /\ <<m>>[1] = m /\ <<m>> \in Seq({m})
    OBVIOUS
  <2> QED  BY <2>1 DEF IsSeq
<1>3. \A mode \in Called : Fine(U, f, n, "any", Call(mode, "template_push_types", <<m>>))
  BY <1>1, <1>2, FineCall
<1> QED  BY <1>3 DEF Called, Must, Loose

LEMMA OpNames ==
  /\ "types" \notin Called /\ "untype" \notin Called /\ "push" \notin Called /\ "nspc" \notin Called
  /\ "pop" \notin Called /\ "open" \notin Called /\ "close" \notin Called /\ "values" \notin Called
  /\ "unvalue" \notin Called /\ "mark" \notin Called /\ "error" \notin Called /\ "unhandled" \notin Called
  /\ "verdict" \notin Called /\ "reset" \notin Called /\ "load" \notin Called /\ "unload" \notin Called
  /\ "spork" \notin Called /\ "assert" \notin Called /\ "sema" \notin Called
BY DEF Called

-----------------------------------------------------------------------------
(* Namespaces around work on a class of elsewhere.                         *)

LEMMA EnvsetPush ==
  ASSUME Here, NEW f, f \notin SemaFns, NEW n, NEW chain \in Seq(Nodes)
  PROVE  Fine(U, f, n, "any", envset_push(chain)) /\ Fine(U, f, n, "any", envset_pop(chain))
<1> DEFINE s1 == [i \in DOMAIN chain |->
              LET c == chain[Len(chain) + 1 - i]
              IN  PushType(c) \o When(Template(c), Must("template_push_types", <<c>>))]
           s2 == [i \in DOMAIN chain |-> When(Template(chain[i]), Do("untype", "")) \o Pop]
<1>1. IsSeq(chain) /\ DOMAIN chain = 1 .. Len(chain) /\ Len(chain) \in Nat /\ \A i \in DOMAIN chain : chain[i] \in Nodes
  BY EachNode
<1>2. \A i \in DOMAIN chain : Fine(U, f, n, "any", s1[i]) /\ Fine(U, f, n, "any", s2[i])
  <2>1. TAKE i \in DOMAIN chain
  <2>2. Len(chain) + 1 - i \in DOMAIN chain
    BY <1>1
  <2>3. chain[Len(chain) + 1 - i] \in Nodes
    BY <2>2, <1>1
  <2> QED  BY <2>3, PushTypesCalls, AnySteps, OpNames DEF When
<1>3. DOMAIN s1 = DOMAIN chain /\ s1 = [i \in DOMAIN chain |-> s1[i]] /\ DOMAIN s2 = DOMAIN chain /\ s2 = [i \in DOMAIN chain |-> s2[i]]
  OBVIOUS
<1>4. /\ envset_push(chain) = Set("depth", 0) \o PushNspc(N(Last(chain)).unit) \o FlattenSeq(s1)
      /\ envset_pop(chain) = FlattenSeq(s2) \o Pop
  BY DEF envset_push, envset_pop
<1> HIDE DEF s1, s2
<1>5. IsSeq(s1) /\ IsSeq(s2)
  BY <1>1, <1>3, SeqMap
<1>6. Fine(U, f, n, "any", FlattenSeq(s1))
  BY <1>2, <1>3, <1>5, FineFlatten
<1>7. Fine(U, f, n, "any", FlattenSeq(s2))
  BY <1>2, <1>3, <1>5, FineFlatten
<1> QED  BY <1>4, <1>6, <1>7, AnySteps

LEMMA EnvsetPushv ==
  ASSUME Here, NEW f, f \notin SemaFns, NEW n, NEW t \in Nodes
  PROVE  Fine(U, f, n, "any", envset_pushv(t)) /\ Fine(U, f, n, "any", envset_popv(t))
<1>1. Kids(t, "owners") \in Seq(Nodes)
  BY NodeLists, FieldFacts
<1> QED  BY <1>1, EnvsetPush, AnySteps DEF envset_pushv, envset_popv, When

LEMMA EnvsetRun ==
  ASSUME Here, NEW f, f \notin SemaFns, NEW n, NEW t \in Nodes, NEW g \in Common(f), NEW flag
  PROVE  Fine(U, f, n, "any", envset_run(t, g, flag))
<1>1. Kids(t, "owners") \in Seq(Nodes) /\ <<t>> \in Seq(Nodes)
  BY NodeLists, FieldFacts
<1>2. Fine(U, f, n, "any", Try(g, <<t>>))
  BY <1>1, CalmCalls, AnySteps
<1> QED  BY <1>1, <1>2, EnvsetPush, AnySteps DEF envset_run, When

LEMMA Ensures ==
  ASSUME Here, NEW f, f \notin SemaFns, NEW n, NEW t \in Nodes
  PROVE  /\ Fine(U, f, n, "any", ensure_scan1(t)) /\ Fine(U, f, n, "any", ensure_scan2(t))
         /\ Fine(U, f, n, "any", ensure_check(t)) /\ Fine(U, f, n, "any", ensure_traverse(t))
BY EnvsetRun, AnySteps, CommonFacts DEF ensure_scan1, ensure_scan2, ensure_check, ensure_traverse, When

LEMMA InTypes ==
  ASSUME Here, NEW f, f \notin SemaFns, NEW n, NEW t \in Nodes, NEW g \in Common(f)
  PROVE  Fine(U, f, n, "any", scanx_body(t, g)) /\ Fine(U, f, n, "any", scanx_fdef(t, g))
<1> USE NodeRules
<1>1. Fine(U, f, n, "any", Poison(g, Listed(t))) /\ Fine(U, f, n, "any", Try(g, <<t>>))
  BY CalmCalls, AnySteps
<1> QED  BY <1>1, PushTypesCalls, AnySteps, OpNames DEF scanx_body, scanx_fdef, When

LEMMA TypePlans ==
  ASSUME Here, NEW f, f \notin SemaFns, NEW n, NEW m \in Nodes
  PROVE  /\ Fine(U, f, n, "any", template_push_types(m))
         /\ \A g : g \in {"scan1", "scan2", "check"} => Fine(U, f, n, "calm", once(m, g))
         /\ N(m).kind = "type" =>
              /\ Fine(U, f, n, "calm", known_type(m))
              /\ Fine(U, f, n, "any", resolve(m))
              /\ ~Has(m, "next") => Fine(U, f, n, "calm", find_type(m))
              /\ ~Has(m, "next") /\ ~Has(m, "fptr") => Fine(U, f, n, "calm", resolve(m))
              /\ Has(m, "instance") => Fine(U, f, n, "any", scan_class(m))
              /\ Has(m, "next") => Fine(U, f, n, "any", scan_next(m))
<1> USE NodeRules, TypeCalls, CommonFacts, OpNames
<1>1. Fine(U, f, n, "any", template_push_types(m))
  <2>1. Fine(U, f, n, "any", Loose("known_type", Kids(m, "types")))
    BY FieldFacts, AnySteps
  <2> QED  BY <2>1, CalmSteps, AnySteps DEF template_push_types, When
<1>2. \A g : g \in {"scan1", "scan2", "check"} => Fine(U, f, n, "calm", once(m, g))
  BY CalmCalls, CalmSteps DEF once, When
<1>3. ASSUME N(m).kind = "type"
      PROVE  /\ Fine(U, f, n, "calm", known_type(m))
             /\ Fine(U, f, n, "any", resolve(m))
             /\ ~Has(m, "next") => Fine(U, f, n, "calm", find_type(m))
             /\ ~Has(m, "next") /\ ~Has(m, "fptr") => Fine(U, f, n, "calm", resolve(m))
             /\ Has(m, "instance") => Fine(U, f, n, "any", scan_class(m))
             /\ Has(m, "next") => Fine(U, f, n, "any", scan_next(m))
  <2>1. Fine(U, f, n, "calm", known_type(m))
    BY <1>3 DEF known_type
  <2>2. Has(m, "instance") => Fine(U, f, n, "any", scan_class(m))
    <3>1. SUFFICES ASSUME Has(m, "instance") PROVE Fine(U, f, n, "any", scan_class(m))
      OBVIOUS
    <3>2. Kids(m, "to")[1] \in Nodes /\ Kids(m, "instance")[1] \in Nodes
      BY <1>3, <3>1, CompleteFact, FieldFacts
    <3> DEFINE t == Kids(m, "to")[1]
               i == Kids(m, "instance")[1]
    <3>3. <<i>> \in Seq(Nodes) /\ t \in Nodes
      BY <3>2
    <3>4. scan_class(m) = When(~Marked(i, "scan0"),
              envset_pushv(t) \o When(Is(i, "variadic"), Try("sema_variadic", <<i>>))
                \o And("scan0", <<i>>) \o envset_popv(t))
      BY DEF scan_class
    <3> HIDE DEF t, i
    <3>5. Fine(U, f, n, "any", Try("sema_variadic", <<i>>)) /\ Fine(U, f, n, "any", And("scan0", <<i>>))
      BY <3>3, CalmCalls, AnySteps
    <3> QED  BY <3>3, <3>4, <3>5, EnvsetPushv, AnySteps DEF When
  <2>3. Has(m, "next") => Fine(U, f, n, "any", scan_next(m))
    <3>1. SUFFICES ASSUME Has(m, "next") PROVE Fine(U, f, n, "any", scan_next(m))
      OBVIOUS
    <3>2. Kids(Kids(m, "outer")[1], "to")[1] \in Nodes
      BY <3>1, CompleteFact, FieldFacts
    <3> DEFINE o == Kids(Kids(m, "outer")[1], "to")[1]
    <3>3. scan_next(m) = Must("known_type", Kids(m, "outer")) \o envset_pushv(o)
             \o PushType(o) \o Try("known_type", Kids(m, "next")) \o Pop \o envset_popv(o)
      BY DEF scan_next
    <3>4. o \in Nodes
      BY <3>2
    <3> HIDE DEF o
    <3>5. Fine(U, f, n, "any", Must("known_type", Kids(m, "outer"))) /\ Fine(U, f, n, "any", Try("known_type", Kids(m, "next")))
      BY FieldFacts, AnySteps
    <3> QED  BY <3>3, <3>4, <3>5, EnvsetPushv, AnySteps
  <2>4. Fine(U, f, n, "calm", _scan_type(m))
    BY <1>3, FieldFacts, CalmSteps DEF _scan_type, check_tmpl, When
  <2>5. Fine(U, f, n, "any", find_fptr(m))
    <3>1. Fine(U, f, n, "any", Must("known_type", Kids(m, "names")))
      BY FieldFacts, AnySteps
    <3>2. Fine(U, f, n, "any", Try("traverse", Kids(m, "fptr")))
      BY FieldFacts, CalmCalls, AnySteps
    <3> QED  BY <3>1, <3>2, AnySteps DEF find_fptr, When
  <2>6. ~Has(m, "next") => Fine(U, f, n, "calm", find_type(m))
    BY CalmSteps DEF find_type, When
  <2>7. Has(m, "next") => Fine(U, f, n, "any", find_type(m))
    <3>1. Fine(U, f, n, "any", Must("known_type", Kids(m, "next")))
      BY FieldFacts, AnySteps
    <3> DEFINE first == IF Has(m, "outer") THEN Kids(m, "outer")[1] ELSE m
    <3>2. find_type(m) = (IF MarkedAll(Kids(first, "to"), "scan0") THEN Test("known type") ELSE Fail \o Check)
                            \o When(Has(m, "next"),
                                 PushType(Kids(first, "to")[1]) \o Must("known_type", Kids(m, "next")) \o Pop)
      BY DEF find_type
    <3> HIDE DEF first
    <3>3. Fine(U, f, n, "any", IF MarkedAll(Kids(first, "to"), "scan0") THEN Test("known type") ELSE Fail \o Check)
      BY CalmSteps, AnySteps
    <3> QED  BY <3>1, <3>2, <3>3, AnySteps DEF When
  <2>8. Fine(U, f, n, "any", find_type(m))
    BY <2>6, <2>7, AnySteps
  <2>9. Fine(U, f, n, "any", resolve(m))
    <3>1. Has(m, "next") => Fine(U, f, n, "any", Try("scan_next", <<m>>))
      BY <1>3, AnySteps
    <3>2. Fine(U, f, n, "any", Refuse) /\ Fine(U, f, n, "any", _scan_type(m))
      BY <2>4, CalmSteps, AnySteps
    <3> QED  BY <3>1, <3>2, <2>5, <2>8, AnySteps DEF resolve, When
  <2>10. ~Has(m, "next") /\ ~Has(m, "fptr") => Fine(U, f, n, "calm", resolve(m))
    BY <2>4, <2>6, CalmSteps DEF resolve, When
  <2> QED  BY <2>1, <2>2, <2>3, <2>6, <2>9, <2>10
<1> QED  BY <1>1, <1>2, <1>3

LEMMA PassesFact ==
  ASSUME NEW f, f \notin SemaFns, NEW m
  PROVE  IsSeq(Passes(m)) /\ \A i \in DOMAIN Passes(m) : Passes(m)[i] \in Common(f)
<1> DEFINE C == Common(f)
<1>1. /\ "scan1_once" \in C /\ "scan2_once" \in C /\ "check_once" \in C /\ "validate" \in C
      /\ "scan0" \in C /\ "scan1" \in C /\ "scan2" \in C /\ "check" \in C
  BY CommonFacts
<1> HIDE DEF C
<1>2. /\ <<"scan1_once", "scan2_once", "check_once", "validate">> \in Seq(C)
      /\ <<"scan0", "scan1", "validate">> \in Seq(C)
      /\ <<"scan0", "scan1", "scan2", "check", "validate">> \in Seq(C)
      /\ <<"scan1", "scan2", "check", "validate">> \in Seq(C)
  BY <1>1
<1>3. Passes(m) \in Seq(C)
  BY <1>2 DEF Passes
<1>4. IsSeq(Passes(m)) /\ \A i \in DOMAIN Passes(m) : Passes(m)[i] \in C
  BY <1>3, EachNode
<1> QED  BY <1>4 DEF C

LEMMA Traversal ==
  ASSUME Here, NEW f, f \notin SemaFns, NEW n, NEW m \in Nodes
  PROVE  Fine(U, f, n, "any", traverse(m)) /\ (Expression(m) => Fine(U, f, n, "calm", traverse(m)))
<1> USE NodeRules, CommonFacts
<1>1. Expression(m) => Fine(U, f, n, "calm", traverse(m))
  BY CalmCalls, CalmSteps DEF traverse
<1> DEFINE P == Passes(m)
           ss == [i \in DOMAIN P |-> Must(P[i], <<m>>)]
<1>2. IsSeq(P) /\ \A i \in DOMAIN P : P[i] \in Common(f)
  BY PassesFact
<1>4. \A i \in DOMAIN P : Fine(U, f, n, "any", ss[i])
  BY <1>2, CalmCalls, AnySteps
<1>5. DOMAIN ss = DOMAIN P /\ ss = [i \in DOMAIN P |-> ss[i]]
  OBVIOUS
<1>6. ~Expression(m) => traverse(m) = FlattenSeq(ss) \o Back("func")
  BY DEF traverse
<1> HIDE DEF ss, P
<1>7. Fine(U, f, n, "any", FlattenSeq(ss))
  BY <1>2, <1>4, <1>5, SeqMap, FineFlatten
<1> QED  BY <1>1, <1>6, <1>7, AnySteps

-----------------------------------------------------------------------------
(* The plans of the pass that makes types.                                 *)

LEMMA Scan0Plans ==
  ASSUME Here, NEW f, f \notin SemaFns, NEW n, NEW m \in Nodes
  PROVE  /\ Fine(U, f, n, "calm", env_access(m)) /\ Fine(U, f, n, "calm", env_storage(m))
         /\ Fine(U, f, n, "any", scan0(m))
         /\ N(m).kind \notin {"union", "enum", "typedef", "func", "prim"} => 
              (N(m).kind = "class" /\ Is(m, "global")) \/ Fine(U, f, n, "calm", scan0(m))
         /\ Fine(U, f, n, "any", scanx_body(m, "scan0"))
         /\ Fine(U, f, n, "calm", scan0_class_def_inner(m)) /\ Fine(U, f, n, "calm", scan0_class_def_init(m))
         /\ Fine(U, f, n, "any", cdef_parent(m))
         /\ Is(m, "base") \/ ~Has(m, "types") \/ ~Has(m, "ext") => Fine(U, f, n, "calm", cdef_parent(m))
         /\ Fine(U, f, n, "calm", scan0_stmt_list(m))
         /\ Fine(U, f, n, "any", scan0_trait_body(m)) /\ Fine(U, f, n, "calm", scan0_ast(m))
<1> USE NodeRules, CommonFacts, OpNames
<1>1. Fine(U, f, n, "calm", env_access(m)) /\ Fine(U, f, n, "calm", env_storage(m)) /\ Fine(U, f, n, "calm", scan0_defined)
  BY CalmSteps DEF env_access, env_storage, scan0_defined, When
<1>2. /\ Fine(U, f, n, "any", scan0_global(m)) /\ Fine(U, f, n, "any", scan0_local(m))
      /\ ~Is(m, "global") => Fine(U, f, n, "calm", scan0_global(m)) /\ Fine(U, f, n, "calm", scan0_local(m))
  <2>1. Fine(U, f, n, "any", env_storage(m))
    BY <1>1, AnySteps
  <2>2. Fine(U, f, n, "any", Mark(env.context, "global"))
    BY CalmSteps, AnySteps
  <2>3. Fine(U, f, n, "any", scan0_global(m)) /\ Fine(U, f, n, "any", scan0_local(m))
    BY <2>1, <2>2, AnySteps DEF scan0_global, scan0_local, When
  <2>4. ~Is(m, "global") => Fine(U, f, n, "calm", scan0_global(m)) /\ Fine(U, f, n, "calm", scan0_local(m))
    BY <1>1, CalmSteps DEF scan0_global, scan0_local, When
  <2> QED  BY <2>3, <2>4
<1>3. Fine(U, f, n, "calm", scan0_fptr_def(m))
  BY <1>1, FieldFacts, CalmCalls, CalmSteps DEF scan0_fptr_def
<1>4. Fine(U, f, n, "any", scan0_type_def(m)) /\ Fine(U, f, n, "any", scan0_enum_def(m)) /\ Fine(U, f, n, "any", scan0_union_def(m))
  <2>1. Fine(U, f, n, "any", scan0_defined) /\ Fine(U, f, n, "any", env_access(m)) /\ Fine(U, f, n, "any", Mark(m, "scan0"))
    BY <1>1, CalmSteps, AnySteps
  <2>2. Fine(U, f, n, "any", Must("known_type", Kids(m, "ext"))) /\ Fine(U, f, n, "any", Must("scan0", Kids(m, "cdef")))
    BY TypeCalls, FieldFacts, CalmCalls, AnySteps
  <2> QED  BY <1>2, <2>1, <2>2, AnySteps DEF scan0_type_def, scan0_enum_def, scan0_union_def
<1>5. /\ Fine(U, f, n, "any", cdef_parent(m))
      /\ Is(m, "base") \/ ~Has(m, "types") \/ ~Has(m, "ext") => Fine(U, f, n, "calm", cdef_parent(m))
  <2>1. Fine(U, f, n, "any", Must("known_type", Kids(m, "ext"))) /\ Fine(U, f, n, "any", Try("known_type", Kids(m, "ext")))
    BY TypeCalls, FieldFacts, AnySteps
  <2>2. Fine(U, f, n, "any", Doubt("literal size")) /\ Fine(U, f, n, "any", Claim("not inside itself"))
    BY CalmSteps, AnySteps
  <2>3. Fine(U, f, n, "any", cdef_parent(m))
    BY <2>1, <2>2, PushTypesCalls, AnySteps DEF cdef_parent, When
  <2>4. Is(m, "base") \/ ~Has(m, "types") \/ ~Has(m, "ext") => Fine(U, f, n, "calm", cdef_parent(m))
    BY TypeCalls, FieldFacts, CalmSteps DEF cdef_parent, When
  <2> QED  BY <2>3, <2>4
<1>6. Fine(U, f, n, "calm", scan0_class_def_inner(m)) /\ Fine(U, f, n, "calm", scan0_class_def_init(m))
  BY <1>1, CalmCalls, CalmSteps DEF scan0_class_def_inner, scan0_class_def_init, When
<1>7. /\ Fine(U, f, n, "any", scan0_class_def(m))
      /\ ~Is(m, "global") => Fine(U, f, n, "calm", scan0_class_def(m))
  BY <1>2, CalmCalls, CalmSteps, AnySteps DEF scan0_class_def
<1>8. Fine(U, f, n, "calm", scan0_stmt(m)) /\ Fine(U, f, n, "calm", scan0_stmt_list(m)) /\ Fine(U, f, n, "calm", scan0_ast(m))
  BY CalmCalls, CalmSteps DEF scan0_stmt, scan0_stmt_list, scan0_ast, When
<1>9. Fine(U, f, n, "any", scan0_func_def(m))
  BY CalmCalls, AnySteps DEF scan0_func_def, When
<1>10. Fine(U, f, n, "calm", scan0_trait_def(m))
  BY CalmCalls, CalmSteps DEF scan0_trait_def
<1>11. Fine(U, f, n, "any", scan0_trait_body(m)) /\ Fine(U, f, n, "any", scan0_prim_def(m))
  <2>1. Fine(U, f, n, "any", scan0_defined) /\ Fine(U, f, n, "any", env_access(m)) /\ Fine(U, f, n, "any", Doubt("trait sections"))
    BY <1>1, CalmSteps, AnySteps
  <2> QED  BY <1>2, <2>1, AnySteps DEF scan0_trait_body, scan0_prim_def
<1>12. Fine(U, f, n, "calm", scan0_extend_def(m))
  BY TypeCalls, FieldFacts, CalmSteps DEF scan0_extend_def
<1>13. Fine(U, f, n, "any", scan0(m))
  BY <1>3, <1>4, <1>7, <1>8, <1>9, <1>10, <1>11, <1>12, AnySteps DEF scan0
<1>14. N(m).kind \notin {"union", "enum", "typedef", "func", "prim"} /\ ~(N(m).kind = "class" /\ Is(m, "global"))
         => Fine(U, f, n, "calm", scan0(m))
  BY <1>3, <1>7, <1>8, <1>10, <1>12 DEF scan0
<1>15. Fine(U, f, n, "any", scanx_body(m, "scan0"))
  BY InTypes
<1> QED  BY <1>1, <1>5, <1>6, <1>8, <1>11, <1>13, <1>14, <1>15

-----------------------------------------------------------------------------
(* The plans of the pass that declares variables.                          *)

LEMMA Scan1On ==
  ASSUME Here, NEW f, f \notin SemaFns, NEW n, NEW m \in Nodes
  PROVE  \A fields \in Seq(Fields) : /\ Fine(U, f, n, "calm", scan1_on(m, fields))
                                     /\ Fine(U, f, n, "calm", scan2_on(m, fields))
                                     /\ Fine(U, f, n, "calm", check_on(m, fields))
<1> TAKE fields \in Seq(Fields)
<1> DEFINE s1 == [i \in DOMAIN fields |-> Poison("scan1", Kids(m, fields[i])) \o Check]
           s2 == [i \in DOMAIN fields |-> Poison("scan2", Kids(m, fields[i])) \o Check]
           s3 == [i \in DOMAIN fields |-> Typed("check", Kids(m, fields[i])) \o Check]
<1>1. \A i \in DOMAIN fields : Kids(m, fields[i]) \in Seq(Nodes)
  BY NodeLists, EachNode
<1>2. \A i \in DOMAIN fields : Fine(U, f, n, "calm", s1[i]) /\ Fine(U, f, n, "calm", s2[i]) /\ Fine(U, f, n, "calm", s3[i])
  BY <1>1, CalmCalls, CalmSteps, CommonFacts
<1>3. /\ DOMAIN s1 = DOMAIN fields /\ s1 = [i \in DOMAIN fields |-> s1[i]]
      /\ DOMAIN s2 = DOMAIN fields /\ s2 = [i \in DOMAIN fields |-> s2[i]]
      /\ DOMAIN s3 = DOMAIN fields /\ s3 = [i \in DOMAIN fields |-> s3[i]]
  OBVIOUS
<1>4. scan1_on(m, fields) = FlattenSeq(s1) /\ scan2_on(m, fields) = FlattenSeq(s2) /\ check_on(m, fields) = FlattenSeq(s3)
  BY DEF scan1_on, scan2_on, check_on
<1> HIDE DEF s1, s2, s3
<1>5. Fine(U, f, n, "calm", FlattenSeq(s1))
  BY <1>2, <1>3, EachField
<1>6. Fine(U, f, n, "calm", FlattenSeq(s2))
  BY <1>2, <1>3, EachField
<1>7. Fine(U, f, n, "calm", FlattenSeq(s3))
  BY <1>2, <1>3, EachField
<1> QED  BY <1>4, <1>5, <1>6, <1>7

LEMMA Scan1Expressions ==
  ASSUME Here, NEW f, f \notin SemaFns, NEW n, NEW m \in Nodes
  PROVE  /\ Fine(U, f, n, "any", scan1_exp(m))
         /\ ~(N(m).kind = "decl" /\ Is(m, "global")) => Fine(U, f, n, "calm", scan1_exp(m))
         /\ Fine(U, f, n, "calm", scan1_decl(m))
         /\ N(m).kind = "type" => Fine(U, f, n, "calm", scan1_type(m))
<1> USE NodeRules, CommonFacts, OpNames
<1>1. Fine(U, f, n, "calm", scan1_decl(m))
  BY CalmSteps DEF scan1_decl
<1>2. N(m).kind = "type" => Fine(U, f, n, "calm", scan1_type(m))
  BY ResolvedFact, TypeCalls, CalmCalls, CalmSteps DEF scan1_type, When
<1>3. ~Is(m, "global") => Fine(U, f, n, "calm", scan1_exp_decl(m))
  BY Scan0Plans, Scan1On, TypeCalls, FieldFacts, FieldLists, CalmCalls, CalmSteps DEF scan1_exp_decl
<1>4. Fine(U, f, n, "any", scan1_exp_decl(m))
  <2>1. Fine(U, f, n, "any", env_storage(m)) /\ Fine(U, f, n, "any", Must("scan1_type", Kids(m, "td")))
    BY Scan0Plans, TypeCalls, FieldFacts, AnySteps
  <2>2. Fine(U, f, n, "any", scan1_on(m, <<"args">>)) /\ Fine(U, f, n, "any", Try("scan1_decl", <<m>>))
    BY Scan1On, FieldFacts, FieldLists, CalmCalls, AnySteps
  <2>3. /\ Fine(U, f, n, "any", Claim("type of a variable")) /\ Fine(U, f, n, "any", Claim("global type"))
        /\ Fine(U, f, n, "any", Mark(env.context, "global"))
    BY CalmSteps, AnySteps
  <2> QED  BY <2>1, <2>2, <2>3, AnySteps DEF scan1_exp_decl
<1>5. N(m).kind # "decl" => Fine(U, f, n, "calm", scan1_exp(m))
  BY Scan1On, FieldFacts, FieldLists, CalmCalls, CalmSteps DEF scan1_exp
<1>6. N(m).kind = "decl" => scan1_exp(m) = scan1_exp_decl(m)
  BY DEF scan1_exp
<1> QED  BY <1>1, <1>2, <1>3, <1>4, <1>5, <1>6, AnySteps

LEMMA Scopes ==
  ASSUME Here, NEW f, f \notin SemaFns, NEW n, NEW m \in Nodes
  PROVE  \A g \in Common(f) : Fine(U, f, n, "any", In(g, m))
BY NodeRules, CalmCalls, AnySteps, OpNames DEF In, Scoped

LEMMA Scan1Statements ==
  ASSUME Here, NEW f, f \notin SemaFns, NEW n, NEW m \in Nodes
  PROVE  /\ Fine(U, f, n, "any", scan1_in(m))
         /\ ~(N(m).kind = "if" /\ Is(m, "returns")) => Fine(U, f, n, "calm", scan1_in(m))
         /\ N(m).kind \in {"exp", "return", "using", "pp", "defer", "spread", "break", "continue", "retry", "import"}
              => Fine(U, f, n, "calm", scan1_stmt(m))
         /\ Fine(U, f, n, "any", scan1_stmt(m))
         /\ Fine(U, f, n, "calm", scan1_stmt_list(m))
<1> USE NodeRules, CommonFacts
<1>1. Fine(U, f, n, "any", scan1_stmt_if(m)) /\ (~Is(m, "returns") => Fine(U, f, n, "calm", scan1_stmt_if(m)))
  <2>1. /\ Fine(U, f, n, "calm", scan1_on(m, <<"cond">>)) /\ Fine(U, f, n, "calm", Must("scan1", Kids(m, "body")))
        /\ Fine(U, f, n, "calm", Must("scan1", Kids(m, "else_body")))
    BY Scan1On, FieldFacts, FieldLists, CalmCalls
  <2>2. /\ Fine(U, f, n, "any", scan1_on(m, <<"cond">>)) /\ Fine(U, f, n, "any", Must("scan1", Kids(m, "body")))
        /\ Fine(U, f, n, "any", Must("scan1", Kids(m, "else_body")))
    BY <2>1, AnySteps
  <2>3. Fine(U, f, n, "any", scan1_stmt_if(m))
    BY <2>2, AnySteps DEF scan1_stmt_if, When
  <2>4. ~Is(m, "returns") => Fine(U, f, n, "calm", scan1_stmt_if(m))
    BY <2>1, CalmSteps DEF scan1_stmt_if, When
  <2> QED  BY <2>3, <2>4
<1>2. N(m).kind # "if" => Fine(U, f, n, "calm", scan1_in(m))
  BY Scan1On, FieldFacts, FieldLists, CalmCalls, CalmSteps DEF scan1_in
<1>3. N(m).kind = "if" => scan1_in(m) = scan1_stmt_if(m)
  BY DEF scan1_in
<1>4. Fine(U, f, n, "calm", scan1_stmt_list(m))
  BY CalmCalls DEF scan1_stmt_list
<1>5. N(m).kind \in {"exp", "return", "using", "pp", "defer", "spread", "break", "continue", "retry", "import"}
              => Fine(U, f, n, "calm", scan1_stmt(m))
  BY Scan1On, FieldFacts, FieldLists, CalmCalls, CalmSteps DEF scan1_stmt, When
<1>6. N(m).kind \notin {"exp", "return", "using", "pp", "defer", "spread", "break", "continue", "retry", "import"}
              => Fine(U, f, n, "any", scan1_stmt(m))
  <2>1. Fine(U, f, n, "any", In("scan1_in", m))
    BY Scopes
  <2>2. /\ Fine(U, f, n, "any", scan1_on(m, <<"cond">>)) /\ Fine(U, f, n, "any", Poison("scan1", Kids(m, "handlers")))
        /\ Fine(U, f, n, "any", Check)
    BY Scan1On, FieldFacts, FieldLists, CalmCalls, CalmSteps, AnySteps
  <2> QED  BY <2>1, <2>2, AnySteps DEF scan1_stmt
<1> QED  BY <1>1, <1>2, <1>3, <1>4, <1>5, <1>6, AnySteps

(* What is only done with functions. *)
LEMMA FunctionCalls ==
  ASSUME Here, NEW f, f \notin SemaFns, NEW n, NEW m \in Nodes, N(m).kind = "func"
  PROVE  \A g \in OfFunctions : Fine(U, f, n, "calm", Try(g, <<m>>)) /\ Fine(U, f, n, "easy", Try(g, <<m>>))
<1> TAKE g \in OfFunctions
<1>1. N(m) = U.tree[m]
  BY DEF N, U
<1>2. CallOk(U, f, n, g, m)
  BY <1>1 DEF CallOk, Prepare, Prepared, OfTypes, OfInstances, OfParents, OfDecls, OfTemplates, OfFunctions, Special, Outer, Names, Nodes
<1>3. g # "template_push_types"
  BY DEF OfFunctions
<1> QED  BY <1>2, <1>3, OwnCalls

LEMMA Scan1Functions ==
  ASSUME Here, NEW f, f \notin SemaFns, NEW n, NEW m \in Nodes
  PROVE  /\ Fine(U, f, n, "calm", scan1_arg(m)) /\ Fine(U, f, n, "calm", scan1_fbody(m))
         /\ Fine(U, f, n, "any", scan1_fdef(m)) /\ Fine(U, f, n, "any", scan1_in_types(m))
         /\ Fine(U, f, n, "any", _scan1_func_def(m))
         /\ N(m).kind = "func" => Fine(U, f, n, "any", scan1_func_def(m))
<1> USE NodeRules, CommonFacts
<1>1. Fine(U, f, n, "calm", scan1_arg(m))
  BY TypeCalls, FieldFacts, CalmSteps DEF scan1_arg
<1>2. Fine(U, f, n, "calm", scan1_fbody(m))
  BY FieldFacts, CalmCalls, CalmSteps DEF scan1_fbody
<1>3. Fine(U, f, n, "any", scan1_fdef(m))
  <2>1. /\ Fine(U, f, n, "any", Must("known_type", Kids(m, "td"))) /\ Fine(U, f, n, "any", Claim("type to return"))
        /\ Fine(U, f, n, "any", Claim("internal function")) /\ Fine(U, f, n, "any", Loose("scan1_stmt_list", <<m>>))
        /\ Fine(U, f, n, "any", In("scan1_fbody", m))
    BY Scopes, TypeCalls, FieldFacts, CalmCalls, CalmSteps, AnySteps
  <2> QED  BY <2>1, AnySteps DEF scan1_fdef, When
<1>4. Fine(U, f, n, "any", scan1_in_types(m))
  BY InTypes DEF scan1_in_types
<1>5. Fine(U, f, n, "any", _scan1_func_def(m))
  <2>1. /\ Fine(U, f, n, "any", Try("known_type", Kids(m, "td"))) /\ Fine(U, f, n, "any", Claim("new function"))
        /\ Fine(U, f, n, "any", Claim("a return")) /\ Fine(U, f, n, "any", Try("scan1_in_types", <<m>>))
        /\ Fine(U, f, n, "any", Refuse) /\ Fine(U, f, n, "any", env_storage(m))
    BY Scan0Plans, TypeCalls, FieldFacts, CalmCalls, CalmSteps, AnySteps
  <2> QED  BY <2>1, AnySteps, OpNames DEF _scan1_func_def, When
<1>6. N(m).kind = "func" => Fine(U, f, n, "any", scan1_func_def(m))
  BY FunctionCalls, AnySteps DEF scan1_func_def, OfFunctions
<1> QED  BY <1>1, <1>2, <1>3, <1>4, <1>5, <1>6

(* The class of a node starts its own body, once it has marked it. *)
LEMMA SpecialCalls ==
  ASSUME NEW m \in Nodes
  PROVE  /\ Fine(U, "scan1", m, "calm", Loose("scan1_class_def_body", <<m>>))
         /\ Fine(U, "scan2", m, "calm", Try("scan2_class_body", <<m>>))
         /\ Fine(U, "scan2", m, "easy", Try("scan2_class_body", <<m>>))
         /\ Fine(U, "check", m, "calm", Must("_check_class_def", <<m>>))
         /\ Fine(U, "_check_class_def", m, "calm", Loose("check_class_body", <<m>>))
         /\ Fine(U, "_check_func_def", m, "calm", Try("check_in_types", <<m>>))
         /\ Fine(U, "_check_func_def", m, "easy", Try("check_in_types", <<m>>))
         /\ N(m).kind = "class" /\ Has(m, "types") => Fine(U, "scan1", m, "calm", Must("scan1_class_tmpl", <<m>>))
<1>1. /\ CallOk(U, "scan1", m, "scan1_class_def_body", m) /\ CallOk(U, "scan2", m, "scan2_class_body", m)
      /\ CallOk(U, "check", m, "_check_class_def", m) /\ CallOk(U, "_check_class_def", m, "check_class_body", m)
      /\ CallOk(U, "_check_func_def", m, "check_in_types", m)
  BY DEF CallOk, Prepare, Prepared, OfTypes, OfInstances, OfParents, OfDecls, OfTemplates, OfFunctions, Special, Outer, Names, Nodes, SemaFns, Caller
<1>2. N(m).kind = "class" /\ Has(m, "types") => CallOk(U, "scan1", m, "scan1_class_tmpl", m)
  <2>1. Kids(m, "types") = Child(U.tree, m, "types") /\ N(m) = U.tree[m]
    BY DEF Kids, Child, N, U
  <2> QED  BY <2>1 DEF CallOk, Prepare, Prepared, OfTypes, OfInstances, OfParents, OfDecls, OfTemplates, OfFunctions, Special, Outer, Names, Nodes, SemaFns, Has
<1> QED  BY <1>1, <1>2, OwnCalls

LEMMA Scan1Types ==
  ASSUME Here, NEW f, f \notin SemaFns, NEW n, NEW m \in Nodes
  PROVE  /\ Fine(U, f, n, "any", scan1_enum_def(m)) /\ Fine(U, f, n, "any", scan1_fptr_def(m))
         /\ ~Is(m, "global") => Fine(U, f, n, "calm", scan1_fptr_def(m))
         /\ Fine(U, f, n, "calm", scan1_type_def(m)) /\ Fine(U, f, n, "calm", scan1_union_member(m))
         /\ Fine(U, f, n, "any", scan1_union_def_inner(m)) /\ Fine(U, f, n, "any", scan1_union_def(m))
         /\ Fine(U, f, n, "calm", scan1_parent(m)) /\ Fine(U, f, n, "any", scan1_cdef_parent(m))
         /\ Fine(U, f, n, "calm", scan1_class_def_body(m)) /\ Fine(U, f, n, "any", scanx_body(m, "scan1"))
         /\ Fine(U, f, n, "any", scan1_class_tmpl(m)) /\ Fine(U, f, n, "calm", scan1_ast(m))
         /\ N(m).kind = "class" => Fine(U, "scan1", m, "calm", scan1_class_def(m))
<1> USE NodeRules, CommonFacts
<1>1. Fine(U, f, n, "any", scan1_enum_def(m))
  BY CalmSteps, AnySteps DEF scan1_enum_def
<1>2. Fine(U, f, n, "any", scan1_fptr_def(m)) /\ (~Is(m, "global") => Fine(U, f, n, "calm", scan1_fptr_def(m)))
  BY FieldFacts, CalmCalls, CalmSteps, AnySteps DEF scan1_fptr_def, When
<1>3. Fine(U, f, n, "calm", scan1_type_def(m)) /\ Fine(U, f, n, "calm", scan1_union_member(m))
  BY Scan1On, TypeCalls, FieldFacts, FieldLists, CalmCalls, CalmSteps DEF scan1_type_def, scan1_union_member
<1>4. Fine(U, f, n, "any", scan1_union_def_inner(m))
  <2>1. Fine(U, f, n, "any", Doubt("new names")) /\ Fine(U, f, n, "any", Poison("scan1", Kids(m, "members")))
    BY FieldFacts, CalmCalls, CalmSteps, AnySteps
  <2> QED  BY <2>1, PushTypesCalls, AnySteps, OpNames DEF scan1_union_def_inner, When
<1>5. Fine(U, f, n, "any", scan1_union_def(m))
  BY CalmCalls, CalmSteps, AnySteps DEF scan1_union_def, When
<1>6. Fine(U, f, n, "calm", scan1_parent(m))
  BY Scan1On, FieldFacts, FieldLists, CalmSteps DEF scan1_parent
<1>7. Fine(U, f, n, "any", scan1_cdef_parent(m))
  <2>1. /\ Fine(U, f, n, "any", Must("known_type", Kids(m, "ext"))) /\ Fine(U, f, n, "any", Claim("not final"))
        /\ Fine(U, f, n, "any", Try("scan1_parent", <<m>>))
    BY TypeCalls, FieldFacts, CalmCalls, CalmSteps, AnySteps
  <2> QED  BY <2>1, PushTypesCalls, AnySteps, OpNames DEF scan1_cdef_parent, When
<1>8. Fine(U, f, n, "calm", scan1_class_def_body(m)) /\ Fine(U, f, n, "calm", scan1_ast(m))
  BY CalmCalls, CalmSteps DEF scan1_class_def_body, scan1_ast, When
<1>9. Fine(U, f, n, "any", scanx_body(m, "scan1"))
  BY InTypes
<1>10. Fine(U, f, n, "any", scan1_class_tmpl(m))
  BY FieldFacts, CalmCalls, AnySteps DEF scan1_class_tmpl
<1>11. N(m).kind = "class" => Fine(U, "scan1", m, "calm", scan1_class_def(m))
  <2>1. "scan1" \notin SemaFns
    BY DEF SemaFns
  <2> QED  BY <2>1, SpecialCalls, CalmCalls, CalmSteps DEF scan1_class_def, When, Template
<1> QED  BY <1>1, <1>2, <1>3, <1>4, <1>5, <1>6, <1>7, <1>8, <1>9, <1>10, <1>11

LEMMA Scan1Plan ==
  ASSUME Here, NEW m \in Nodes
  PROVE  Fine(U, "scan1", m, "any", scan1(m))
<1>1. "scan1" \notin SemaFns
  BY DEF SemaFns
<1>2. Fine(U, "scan1", m, "any", Try("scan1_stmt_list", <<m>>)) /\ Fine(U, "scan1", m, "any", In("scan1_in", m))
  BY <1>1, Scopes, NodeRules, CalmCalls, AnySteps, CommonFacts
<1>3. /\ N(m).kind = "class" => Fine(U, "scan1", m, "any", scan1_class_def(m))
      /\ Fine(U, "scan1", m, "any", scan1_union_def(m))
      /\ Fine(U, "scan1", m, "any", scan1_enum_def(m)) /\ Fine(U, "scan1", m, "any", scan1_fptr_def(m))
      /\ Fine(U, "scan1", m, "any", scan1_type_def(m)) /\ Fine(U, "scan1", m, "any", scan1_union_member(m))
  BY <1>1, Scan1Types, AnySteps
<1>4. (N(m).kind = "func" => Fine(U, "scan1", m, "any", scan1_func_def(m))) /\ Fine(U, "scan1", m, "any", scan1_arg(m))
  BY <1>1, Scan1Functions, AnySteps
<1>5. Fine(U, "scan1", m, "any", scan1_stmt(m)) /\ Fine(U, "scan1", m, "any", scan1_exp(m)) /\ Fine(U, "scan1", m, "any", <<>>)
  BY <1>1, Scan1Statements, Scan1Expressions, AnySteps
<1> QED  BY <1>2, <1>3, <1>4, <1>5 DEF scan1

-----------------------------------------------------------------------------
(* The plans of the pass that makes functions.                             *)

LEMMA ResolvedRule ==
  ASSUME Here, NEW m \in Nodes
  PROVE  Resolved(m) \in Seq(Nodes)
BY ResolvedFact

LEMMA Scan2Parts ==
  ASSUME Here, NEW f, f \notin SemaFns, NEW n, NEW m \in Nodes
  PROVE  /\ N(m).kind = "decl" => Fine(U, f, n, "calm", scan2_decl(m))
         /\ Fine(U, f, n, "calm", scan2_in(m)) /\ Fine(U, f, n, "calm", scan2_stmt_list(m))
         /\ N(m).kind \in {"exp", "return", "using", "pp", "defer", "spread", "break", "continue", "retry", "import"}
              => Fine(U, f, n, "calm", scan2_stmt(m))
         /\ Fine(U, f, n, "any", scan2_stmt(m))
<1> USE NodeRules, CommonFacts, Scan1On
<1>1. N(m).kind = "decl" => Fine(U, f, n, "calm", scan2_decl(m))
  <2>1. SUFFICES ASSUME N(m).kind = "decl" PROVE Fine(U, f, n, "calm", scan2_decl(m))
    OBVIOUS
  <2>2. Kids(m, "td")[1] \in Nodes
    BY <2>1, CompleteFact, FieldFacts
  <2>3. Resolved(Kids(m, "td")[1]) \in Seq(Nodes)
    BY <2>2, ResolvedFact
  <2> QED  BY <2>3, CalmCalls DEF scan2_decl
<1>2. Fine(U, f, n, "calm", scan2_in(m)) /\ Fine(U, f, n, "calm", scan2_stmt_list(m))
  BY FieldFacts, FieldLists, CalmCalls, CalmSteps DEF scan2_in, scan2_stmt_list
<1>3. N(m).kind \in {"exp", "return", "using", "pp", "defer", "spread", "break", "continue", "retry", "import"}
              => Fine(U, f, n, "calm", scan2_stmt(m))
  BY FieldFacts, FieldLists, CalmCalls, CalmSteps DEF scan2_stmt
<1>4. N(m).kind \notin {"exp", "return", "using", "pp", "defer", "spread", "break", "continue", "retry", "import"}
              => Fine(U, f, n, "any", scan2_stmt(m))
  <2>1. Fine(U, f, n, "any", In("scan2_in", m))
    BY Scopes
  <2>2. /\ Fine(U, f, n, "any", scan2_on(m, <<"cond">>)) /\ Fine(U, f, n, "any", Poison("scan2", Kids(m, "handlers")))
        /\ Fine(U, f, n, "any", Check)
    BY FieldFacts, FieldLists, CalmCalls, CalmSteps, AnySteps
  <2> QED  BY <2>1, <2>2, AnySteps DEF scan2_stmt
<1> QED  BY <1>1, <1>2, <1>3, <1>4, AnySteps

LEMMA Scan2Expressions ==
  ASSUME Here, NEW f, f \notin SemaFns, NEW n, NEW m \in Nodes
  PROVE  /\ Fine(U, f, n, "any", scan2_exp(m))
         /\ ~(N(m).kind = "decl" /\ Is(m, "global")) => Fine(U, f, n, "calm", scan2_exp(m))
<1> USE NodeRules, CommonFacts, Scan1On
<1>2. N(m).kind = "decl" => Fine(U, f, n, "calm", Try("scan2_decl", <<m>>))
  <2>1. SUFFICES ASSUME N(m).kind = "decl" PROVE Fine(U, f, n, "calm", Try("scan2_decl", <<m>>))
    OBVIOUS
  <2>2. CallOk(U, f, n, "scan2_decl", m)
    BY <2>1 DEF CallOk, Prepare, Prepared, OfTypes, OfInstances, OfParents, OfDecls, OfTemplates, OfFunctions, Special, Outer, Names, Nodes, SemaFns, N, U
  <2> QED  BY <2>2, OwnCalls
<1>3. N(m).kind = "decl" => Fine(U, f, n, "any", scan2_exp_decl(m))
  <2>1. SUFFICES ASSUME N(m).kind = "decl" PROVE Fine(U, f, n, "any", scan2_exp_decl(m))
    OBVIOUS
  <2>2. Fine(U, f, n, "any", scan2_on(m, <<"args">>))
    BY FieldFacts, FieldLists, AnySteps
  <2> QED  BY <1>2, <2>1, <2>2, AnySteps DEF scan2_exp_decl, When
<1>4. N(m).kind = "decl" /\ ~Is(m, "global") => Fine(U, f, n, "calm", scan2_exp_decl(m))
  BY <1>2, FieldFacts, FieldLists, CalmSteps DEF scan2_exp_decl, When
<1>5. Fine(U, f, n, "calm", scan2_on(m, <<"cond", IF Has(m, "if_exp") THEN "if_exp" ELSE "cond", "else_exp">>))
  <2>1. <<"cond", IF Has(m, "if_exp") THEN "if_exp" ELSE "cond", "else_exp">> \in Seq(Fields)
    BY FieldFacts, FieldLists
  <2> QED  BY <2>1
<1>6. N(m).kind # "decl" => Fine(U, f, n, "calm", scan2_exp(m))
  BY <1>5, FieldFacts, FieldLists, CalmCalls, CalmSteps DEF scan2_exp, When
<1>7. N(m).kind = "decl" => scan2_exp(m) = scan2_exp_decl(m)
  BY DEF scan2_exp
<1> QED  BY <1>3, <1>4, <1>6, <1>7, AnySteps

LEMMA Scan2Functions ==
  ASSUME Here, NEW f, f \notin SemaFns, NEW n, NEW m \in Nodes
  PROVE  /\ Fine(U, f, n, "any", scan2_func_def_code(m)) /\ Fine(U, f, n, "calm", scan2_fdef(m))
         /\ Fine(U, f, n, "any", scan2_in_types(m)) /\ Fine(U, f, n, "any", _scan2_func_def(m))
         /\ ~Is(m, "global") => Fine(U, f, n, "calm", _scan2_func_def(m))
         /\ N(m).kind = "func" => Fine(U, f, n, "any", scan2_func_def(m))
<1> USE NodeRules, CommonFacts
<1>1. Fine(U, f, n, "any", scan2_func_def_code(m))
  <2>1. Fine(U, f, n, "any", Try("scan2_stmt_list", <<m>>)) /\ Fine(U, f, n, "any", In("scan2_stmt_list", m))
    BY Scopes, CalmCalls, AnySteps
  <2> QED  BY <2>1, AnySteps DEF scan2_func_def_code
<1>2. Fine(U, f, n, "calm", scan2_fdef(m))
  BY CalmCalls, CalmSteps DEF scan2_fdef, scan2_fdef_tmpl, scan2_fdef_std, When
<1>3. Fine(U, f, n, "any", scan2_in_types(m))
  BY InTypes DEF scan2_in_types
<1>4. Fine(U, f, n, "calm", scan2_cpy_fdef(m))
  BY CalmCalls, CalmSteps DEF scan2_cpy_fdef, When
<1>5. ~Is(m, "global") => Fine(U, f, n, "calm", _scan2_func_def(m))
  BY <1>4, CalmCalls, CalmSteps DEF _scan2_func_def, When
<1>6. Fine(U, f, n, "any", _scan2_func_def(m))
  <2>1. /\ Fine(U, f, n, "any", Refuse) /\ Fine(U, f, n, "any", Mark(env.context, "global"))
        /\ Fine(U, f, n, "any", scan2_cpy_fdef(m)) /\ Fine(U, f, n, "any", Try("scan2_in_types", <<m>>))
    BY <1>4, CalmCalls, CalmSteps, AnySteps
  <2> QED  BY <2>1, AnySteps DEF _scan2_func_def, When
<1>7. N(m).kind = "func" => Fine(U, f, n, "any", scan2_func_def(m))
  BY FunctionCalls, AnySteps DEF scan2_func_def, OfFunctions
<1> QED  BY <1>1, <1>2, <1>3, <1>5, <1>6, <1>7

LEMMA Scan2Types ==
  ASSUME Here, NEW f, f \notin SemaFns, NEW n, NEW m \in Nodes
  PROVE  /\ Fine(U, f, n, "any", scan2_fptr_def(m)) /\ (~Is(m, "global") => Fine(U, f, n, "calm", scan2_fptr_def(m)))
         /\ Fine(U, f, n, "calm", scan2_type_def(m)) /\ Fine(U, f, n, "calm", scan2_union_def(m))
         /\ Fine(U, f, n, "calm", scan2_parent(m)) /\ Fine(U, f, n, "any", scan2_cdef_parent(m))
         /\ Fine(U, f, n, "calm", scan2_class_body(m)) /\ Fine(U, f, n, "calm", scan2_ast(m))
         /\ Fine(U, "scan2", m, "any", scan2_class_def(m))
<1> USE NodeRules, CommonFacts, Scan1On
<1>1. ~Is(m, "global") => Fine(U, f, n, "calm", scan2_fptr_def(m))
  BY FieldFacts, CalmCalls, CalmSteps DEF scan2_fptr_def, When
<1>2. Fine(U, f, n, "any", scan2_fptr_def(m))
  <2>1. /\ Fine(U, f, n, "any", Try("scan2", Kids(m, "cdef"))) /\ Fine(U, f, n, "any", Fail)
        /\ Fine(U, f, n, "any", Test("template of a function type"))
    BY FieldFacts, CalmCalls, CalmSteps, AnySteps
  <2> QED  BY <2>1, AnySteps DEF scan2_fptr_def, When
<1>3. Fine(U, f, n, "calm", scan2_type_def(m)) /\ Fine(U, f, n, "calm", scan2_union_def(m)) /\ Fine(U, f, n, "calm", scan2_parent(m))
  BY FieldFacts, FieldLists, CalmCalls, CalmSteps DEF scan2_type_def, scan2_union_def, scan2_parent, When
<1>4. Fine(U, f, n, "any", scan2_cdef_parent(m))
  <2>1. Fine(U, f, n, "any", Try("scan2_parent", <<m>>))
    BY CalmCalls, AnySteps
  <2> QED  BY <2>1, PushTypesCalls, AnySteps, OpNames DEF scan2_cdef_parent, When
<1>5. Fine(U, f, n, "calm", scan2_class_body(m)) /\ Fine(U, f, n, "calm", scan2_ast(m))
  BY FieldFacts, CalmCalls, CalmSteps DEF scan2_class_body, scan2_ast
<1>6. Fine(U, "scan2", m, "any", scan2_class_def(m))
  <2>1. "scan2" \notin SemaFns
    BY DEF SemaFns
  <2>2. Fine(U, "scan2", m, "any", Mark(m, "scan2")) /\ Fine(U, "scan2", m, "any", Must("scan2_cdef_parent", <<m>>))
        /\ Fine(U, "scan2", m, "any", Try("scan2_class_body", <<m>>))
    BY <2>1, SpecialCalls, CalmCalls, CalmSteps, AnySteps
  <2> QED  BY <2>1, <2>2, PushTypesCalls, AnySteps, OpNames DEF scan2_class_def, When
<1> QED  BY <1>1, <1>2, <1>3, <1>4, <1>5, <1>6

LEMMA Scan2Plan ==
  ASSUME Here, NEW m \in Nodes
  PROVE  Fine(U, "scan2", m, "any", scan2(m))
<1>1. "scan2" \notin SemaFns
  BY DEF SemaFns
<1>2. Fine(U, "scan2", m, "any", Try("scan2_stmt_list", <<m>>)) /\ Fine(U, "scan2", m, "any", In("scan2_in", m))
  BY <1>1, Scopes, NodeRules, CalmCalls, AnySteps, CommonFacts
<1>3. /\ Fine(U, "scan2", m, "any", scan2_class_def(m)) /\ Fine(U, "scan2", m, "any", scan2_union_def(m))
      /\ Fine(U, "scan2", m, "any", scan2_fptr_def(m)) /\ Fine(U, "scan2", m, "any", scan2_type_def(m))
  BY <1>1, Scan2Types, AnySteps
<1>4. (N(m).kind = "func" => Fine(U, "scan2", m, "any", scan2_func_def(m))) /\ Fine(U, "scan2", m, "any", <<>>)
  BY <1>1, Scan2Functions, AnySteps
<1>5. Fine(U, "scan2", m, "any", scan2_stmt(m)) /\ Fine(U, "scan2", m, "any", scan2_exp(m))
  BY <1>1, Scan2Parts, Scan2Expressions, AnySteps
<1> QED  BY <1>2, <1>3, <1>4, <1>5 DEF scan2

-----------------------------------------------------------------------------
(* The plans of the pass that gives types: expressions.                    *)

(* Typed calls, CHECK_B and operators. *)
LEMMA CheckParts ==
  ASSUME Here, NEW f, f \notin SemaFns, NEW n, NEW m \in Nodes
  PROVE  /\ \A fields \in Seq(Fields) : Fine(U, f, n, "calm", check_on(m, fields))
         /\ Fine(U, f, n, "calm", op_check(m))
         /\ \A field \in Fields : Fine(U, f, n, "calm", flow(m, field)) /\ Fine(U, f, n, "calm", check_subscripts(m, field))
<1> USE NodeRules, CommonFacts, Scan1On
<1>1. Fine(U, f, n, "calm", op_check(m))
  BY FieldFacts, CalmCalls, CalmSteps DEF op_check
<1>2. \A field \in Fields : Fine(U, f, n, "calm", flow(m, field)) /\ Fine(U, f, n, "calm", check_subscripts(m, field))
  BY <1>1, FieldLists, CalmSteps DEF flow, check_subscripts, When
<1> QED  BY <1>1, <1>2

LEMMA CheckOn ==
  ASSUME Here, NEW f, f \notin SemaFns, NEW n
  PROVE  \A m \in Nodes, a, b, c \in Fields :
           /\ Fine(U, f, n, "calm", check_on(m, <<a>>)) /\ Fine(U, f, n, "calm", check_on(m, <<a, b>>))
           /\ Fine(U, f, n, "calm", check_on(m, <<a, b, c>>))
<1> TAKE m \in Nodes, a, b, c \in Fields
<1>1. \A fields \in Seq(Fields) : Fine(U, f, n, "calm", check_on(m, fields))
  BY CheckParts
<1> QED  BY <1>1, FieldLists

LEMMA CheckPrimaries ==
  ASSUME Here, NEW f, f \notin SemaFns, NEW n, NEW m \in Nodes
  PROVE  /\ Fine(U, f, n, "calm", check_prim(m)) /\ Fine(U, f, n, "calm", check_exp_td(m))
         /\ Fine(U, f, n, "calm", check_exp_if(m)) /\ Fine(U, f, n, "calm", check_cond(m))
         /\ Fine(U, f, n, "calm", check_lambda_call(m)) /\ Fine(U, f, n, "any", partial_type(m))
         /\ Fine(U, f, n, "calm", func_check(m)) /\ Fine(U, f, n, "calm", call_function(m))
         /\ N(m).kind = "binary" => Fine(U, f, n, "calm", check_exp_binary(m))
         /\ N(m).kind = "decl" => Fine(U, f, n, "calm", check_decl(m))
         /\ N(m).kind = "new" => Fine(U, f, n, "calm", opck_new(m))
<1> USE NodeRules, CommonFacts, CheckParts
<1>1. Fine(U, f, n, "calm", check_prim(m))
  BY FieldFacts, FieldLists, CalmSteps DEF check_prim, check_prim_array, check_prim_range, check_prim_id, When
<1>2. Fine(U, f, n, "calm", check_exp_td(m)) /\ Fine(U, f, n, "calm", check_cond(m))
  BY TypeCalls, FieldFacts, CalmSteps DEF check_exp_td, check_cond
<1>3. Fine(U, f, n, "calm", check_exp_if(m))
  BY FieldFacts, CalmCalls, CalmSteps DEF check_exp_if
<1>4. Fine(U, f, n, "calm", check_lambda_call(m)) /\ Fine(U, f, n, "calm", func_check(m)) /\ Fine(U, f, n, "calm", call_function(m))
  BY FieldFacts, FieldLists, CalmCalls, CalmSteps DEF check_lambda_call, func_check, call_function
<1>5. Fine(U, f, n, "any", partial_type(m))
  <2>1. /\ Fine(U, f, n, "any", check_on(m, <<"args">>)) /\ Fine(U, f, n, "any", Claim("one function"))
        /\ Fine(U, f, n, "any", Try("traverse", Kids(m, "def")))
    BY FieldFacts, FieldLists, CalmCalls, CalmSteps, AnySteps
  <2> QED  BY <2>1, AnySteps, OpNames DEF partial_type, Values
<1>6. ASSUME N(m).kind = "binary" PROVE Fine(U, f, n, "calm", check_exp_binary(m))
  <2>1. Kids(m, "lhs")[1] \in Nodes
    BY <1>6, CompleteFact, FieldFacts
  <2> DEFINE l == Kids(m, "lhs")[1]
  <2>2. check_exp_binary(m) = When(N(l).kind = "call", check_on(l, <<"func">>)) \o check_on(m, <<"lhs", "rhs">>) \o op_check(m)
    BY DEF check_exp_binary
  <2>3. l \in Nodes
    BY <2>1
  <2> HIDE DEF l
  <2>4. Fine(U, f, n, "calm", check_on(l, <<"func">>)) /\ Fine(U, f, n, "calm", check_on(m, <<"lhs", "rhs">>))
    BY <2>3, CheckOn, FieldFacts
  <2>5. Fine(U, f, n, "calm", op_check(m))
    BY CheckParts
  <2> QED  BY <2>2, <2>4, <2>5, CalmSteps DEF When
<1>7. ASSUME N(m).kind \in {"decl", "new"} PROVE Kids(m, "td")[1] \in Nodes /\ N(Kids(m, "td")[1]).kind = "type"
  <2>1. Has(m, "td") /\ Kids(m, "td")[1] \in Nodes
    BY <1>7, CompleteFact, FieldFacts
  <2>2. 1 \in DOMAIN Kids(m, "td")
    BY <2>1, KidsFact, FieldFacts DEF Has
  <2> QED  BY <2>1, <2>2, CompleteFact, FieldFacts
<1>8. N(m).kind = "decl" => Fine(U, f, n, "calm", check_decl(m))
  BY <1>7, FieldFacts, CalmSteps DEF check_decl, When
<1>9. ASSUME N(m).kind = "new" PROVE Fine(U, f, n, "calm", opck_new(m))
  <2> DEFINE td == Kids(m, "td")[1]
  <2>1. td \in Nodes /\ N(td).kind = "type"
    BY <1>7, <1>9
  <2>2. opck_new(m) = Must("known_type", <<td>>) \o Must("ensure_traverse", Resolved(td)) \o Claim("can be made")
        \o check_subscripts(td, "array")
        \o IF Has(m, "call") THEN Must("traverse", Kids(m, "call")) ELSE Claim("not abstract")
    BY DEF opck_new
  <2> HIDE DEF td
  <2>3. Fine(U, f, n, "calm", Must("known_type", <<td>>)) /\ Resolved(td) \in Seq(Nodes)
    BY <2>1, TypeCalls, ResolvedRule
  <2>4. Fine(U, f, n, "calm", check_subscripts(td, "array"))
    BY <2>1, FieldFacts
  <2>5. /\ Fine(U, f, n, "calm", Must("ensure_traverse", Resolved(td)))
        /\ Fine(U, f, n, "calm", Must("traverse", Kids(m, "call")))
    BY <2>3, FieldFacts, CalmCalls
  <2> QED  BY <2>2, <2>3, <2>4, <2>5, CalmSteps
<1> QED  BY <1>1, <1>2, <1>3, <1>4, <1>5, <1>6, <1>8, <1>9

LEMMA PreparedCalls ==
  ASSUME Here, NEW f, f \notin SemaFns, NEW n, NEW m \in Nodes
  PROVE  /\ N(m).kind = "decl" => Fine(U, f, n, "calm", Try("check_decl", <<m>>))
         /\ Has(m, "instance") => /\ Fine(U, f, n, "calm", Must("find_tmpl", <<m>>))
                                  /\ Fine(U, f, n, "calm", Loud("find_template_match", <<m>>))
         /\ Has(m, "ext") => /\ Fine(U, f, n, "calm", Must("check_cdef_parent", <<m>>))
                             /\ Fine(U, f, n, "calm", Try("check_parent", <<m>>))
<1>1. \A k, field : Kids(k, field) = Child(U.tree, k, field) /\ N(k) = U.tree[k]
  BY DEF Kids, Child, N, U
<1>2. /\ N(m).kind = "decl" => CallOk(U, f, n, "check_decl", m)
      /\ Has(m, "instance") => CallOk(U, f, n, "find_tmpl", m) /\ CallOk(U, f, n, "find_template_match", m)
      /\ Has(m, "ext") => CallOk(U, f, n, "check_cdef_parent", m) /\ CallOk(U, f, n, "check_parent", m)
  BY <1>1 DEF CallOk, Prepare, Prepared, OfTypes, OfInstances, OfParents, OfDecls, OfTemplates, OfFunctions, Special, Outer, Names, Nodes, Has
<1> QED  BY <1>2, OwnCalls

LEMMA CheckDeclarations ==
  ASSUME Here, NEW f, f \notin SemaFns, NEW n, NEW m \in Nodes
  PROVE  /\ N(m).kind = "decl" => Fine(U, f, n, "any", check_exp_decl(m))
         /\ Fine(U, f, n, "any", opck_spork(m)) /\ Fine(U, f, n, "any", check_exp_unary(m))
         /\ N(m).kind = "decl" /\ ~Is(m, "global") => Fine(U, f, n, "calm", check_exp_decl(m))
         /\ N(m).kind = "unary" => Fine(U, f, n, "calm", check_exp_unary(m))
<1>1. ASSUME N(m).kind = "decl"
      PROVE  /\ Fine(U, f, n, "any", check_exp_decl(m))
             /\ ~Is(m, "global") => Fine(U, f, n, "calm", check_exp_decl(m))
  <2> DEFINE td == Kids(m, "td")[1]
  <2>1. td \in Nodes
    BY <1>1, CompleteFact, NodeRules, FieldFacts
  <2>2. check_exp_decl(m) =
          check_on(td, <<"array">>) \o check_on(m, <<"new">>)
            \o When(Is(m, "auto"), Poison("scan1", <<m>>) \o Check \o Poison("scan2", <<m>>) \o Check)
            \o Claim("type of a variable") \o Must("ensure_check", Resolved(td)) \o Claim("can be inferred")
            \o When(Is(m, "global"), PushNspc(env.global))
            \o Try("check_decl", <<m>>) \o When(Is(m, "global"), Pop)
    BY DEF check_exp_decl
  <2> HIDE DEF td
  <2>3. Fine(U, f, n, "calm", check_on(td, <<"array">>)) /\ Fine(U, f, n, "calm", check_on(m, <<"new">>))
    BY <2>1, CheckOn, FieldFacts
  <2>4. Fine(U, f, n, "calm", Must("ensure_check", Resolved(td)))
    BY <2>1, ResolvedRule, CommonFacts, CalmCalls
  <2>5. Fine(U, f, n, "calm", Poison("scan1", <<m>>)) /\ Fine(U, f, n, "calm", Poison("scan2", <<m>>))
    BY CommonFacts, CalmCalls, NodeRules
  <2>6. Fine(U, f, n, "calm", Try("check_decl", <<m>>))
    BY <1>1, PreparedCalls
  <2>7. Fine(U, f, n, "calm", When(Is(m, "auto"), Poison("scan1", <<m>>) \o Check \o Poison("scan2", <<m>>) \o Check))
    BY <2>5, CalmSteps DEF When
  <2>8. ~Is(m, "global") => Fine(U, f, n, "calm", check_exp_decl(m))
    BY <2>2, <2>3, <2>4, <2>6, <2>7, CalmSteps DEF When
  <2>9. Fine(U, f, n, "any", check_exp_decl(m))
    <3>1. /\ Fine(U, f, n, "any", check_on(td, <<"array">>)) /\ Fine(U, f, n, "any", check_on(m, <<"new">>))
          /\ Fine(U, f, n, "any", Must("ensure_check", Resolved(td))) /\ Fine(U, f, n, "any", Try("check_decl", <<m>>))
          /\ Fine(U, f, n, "any", When(Is(m, "auto"), Poison("scan1", <<m>>) \o Check \o Poison("scan2", <<m>>) \o Check))
          /\ Fine(U, f, n, "any", Claim("type of a variable")) /\ Fine(U, f, n, "any", Claim("can be inferred"))
      BY <2>3, <2>4, <2>6, <2>7, CalmSteps, AnySteps
    <3>2. Fine(U, f, n, "any", When(Is(m, "global"), PushNspc(env.global))) /\ Fine(U, f, n, "any", When(Is(m, "global"), Pop))
      BY AnySteps DEF When
    <3> QED  BY <2>2, <3>1, <3>2, AnySteps
  <2> QED  BY <2>8, <2>9
<1>2. Fine(U, f, n, "any", opck_spork(m))
  <2>1. /\ Fine(U, f, n, "any", Test("captures")) /\ Fine(U, f, n, "any", Try("check_stmt_list", <<m>>))
        /\ Fine(U, f, n, "any", Check)
    BY NodeRules, CommonFacts, CalmCalls, CalmSteps, AnySteps
  <2> QED  BY <2>1, AnySteps, OpNames DEF opck_spork, Values
<1>3. Fine(U, f, n, "calm", check_on(m, <<"exp">>)) /\ Fine(U, f, n, "calm", op_check(m))
  BY CheckOn, CheckParts, FieldFacts
<1>4. /\ Fine(U, f, n, "any", check_exp_unary(m))
      /\ N(m).kind = "unary" => Fine(U, f, n, "calm", check_exp_unary(m))
  BY <1>2, <1>3, CheckPrimaries, CalmSteps, AnySteps DEF check_exp_unary
<1> QED  BY <1>1, <1>2, <1>4

LEMMA CheckTemplates ==
  ASSUME Here, NEW f, f \notin SemaFns, NEW n, NEW m \in Nodes
  PROVE  /\ Fine(U, f, n, "any", check_traverse_fdef(m)) /\ Fine(U, f, n, "calm", tmpl_valid(m))
         /\ Fine(U, f, n, "any", ensure_tmpl(m))
         /\ Has(m, "instance") => /\ Fine(U, f, n, "any", find_tmpl(m))
                                  /\ Fine(U, f, n, "calm", find_template_match(m))
                                  /\ Fine(U, f, n, "calm", check_exp_call_template(m))
<1> USE NodeRules, CommonFacts
<1>1. Fine(U, f, n, "any", check_traverse_fdef(m))
  BY CalmCalls, AnySteps DEF check_traverse_fdef
<1>2. Fine(U, f, n, "calm", tmpl_valid(m))
  BY CalmCalls, CalmSteps DEF tmpl_valid, When
<1>3. Fine(U, f, n, "any", ensure_tmpl(m))
  <2>1. Fine(U, f, n, "any", Must("tmpl_valid", <<m>>)) /\ Fine(U, f, n, "any", Shrug("matching function"))
    BY CalmCalls, CalmSteps, AnySteps
  <2> QED  BY <2>1, PushTypesCalls, AnySteps, OpNames DEF ensure_tmpl
<1>4. ASSUME Has(m, "instance")
      PROVE  Fine(U, f, n, "any", find_tmpl(m))
  <2> DEFINE g == Kids(m, "instance")[1]
             o == Kids(g, "owners")
             tmpl == o # <<>> /\ Template(o[1])
  <2>1. find_tmpl(m) =
          envset_pushv(g)
            \o (IF o = <<>> THEN PushNspc(N(g).in) ELSE PushType(o[1]))
            \o When(tmpl, Loose("template_push_types", <<o[1]>>))
            \o (IF env.func = g THEN Shrug("matching function") ELSE Try("ensure_tmpl", <<g>>))
            \o When(tmpl, Do("untype", "")) \o Pop \o envset_popv(g) \o Back("func")
    BY DEF find_tmpl
  <2>2. g \in Nodes
    BY <1>4, FieldFacts
  <2>3. o # <<>> => o[1] \in Nodes
    BY <2>2, KidsFact, FieldFacts
  <2> HIDE DEF g, o
  <2>4. /\ Fine(U, f, n, "any", envset_pushv(g)) /\ Fine(U, f, n, "any", envset_popv(g))
        /\ Fine(U, f, n, "any", Try("ensure_tmpl", <<g>>)) /\ Fine(U, f, n, "any", Shrug("matching function"))
    BY <2>2, EnvsetPushv, CalmCalls, CalmSteps, AnySteps
  <2>5. Fine(U, f, n, "any", When(tmpl, Loose("template_push_types", <<o[1]>>)))
    BY <2>3, PushTypesCalls, AnySteps DEF When
  <2>6. /\ Fine(U, f, n, "any", IF o = <<>> THEN PushNspc(N(g).in) ELSE PushType(o[1]))
        /\ Fine(U, f, n, "any", IF env.func = g THEN Shrug("matching function") ELSE Try("ensure_tmpl", <<g>>))
        /\ Fine(U, f, n, "any", When(tmpl, Do("untype", "")))
    BY <2>4, AnySteps, OpNames DEF When
  <2> HIDE DEF tmpl
  <2> QED  BY <2>1, <2>4, <2>5, <2>6, AnySteps
<1>5. ASSUME Has(m, "instance")
      PROVE  Fine(U, f, n, "calm", find_template_match(m)) /\ Fine(U, f, n, "calm", check_exp_call_template(m))
  <2>1. Fine(U, f, n, "calm", Must("known_type", Kids(m, "types")))
    BY TypeCalls, FieldFacts
  <2>2. Fine(U, f, n, "calm", check_on(m, <<"args">>))
    BY CheckOn, FieldFacts
  <2> QED  BY <1>5, <2>1, <2>2, PreparedCalls, CalmSteps DEF find_template_match, check_exp_call_template, check_template_args, When
<1> QED  BY <1>1, <1>2, <1>3, <1>4, <1>5

LEMMA CheckExpressions ==
  ASSUME Here, NEW f, f \notin SemaFns, NEW n, NEW m \in Nodes
  PROVE  /\ Fine(U, f, n, "calm", check_exp_call(m))
         /\ Fine(U, f, n, "any", check_exp(m))
         /\ N(m).kind # "spork" /\ ~(N(m).kind = "decl" /\ Is(m, "global")) => Fine(U, f, n, "calm", check_exp(m))
<1> USE NodeRules, CommonFacts
<1>1. Fine(U, f, n, "calm", check_exp_call(m))
  <2>1. Fine(U, f, n, "calm", check_on(m, <<"func">>)) /\ Fine(U, f, n, "calm", func_check(m)) /\ Fine(U, f, n, "calm", call_function(m))
    BY CheckOn, CheckPrimaries, FieldFacts
  <2>2. Fine(U, f, n, "calm", Must("partial_type", <<m>>)) /\ Fine(U, f, n, "calm", Must("check_lambda_call", <<m>>))
    BY CalmCalls
  <2>3. Has(m, "instance") => Fine(U, f, n, "calm", check_exp_call_template(m))
    BY CheckTemplates
  <2> QED  BY <2>1, <2>2, <2>3, CalmSteps DEF check_exp_call
<1>2. \A a, b, c \in Fields :
         /\ Fine(U, f, n, "calm", check_on(m, <<a>>)) /\ Fine(U, f, n, "calm", check_on(m, <<a, b>>))
         /\ Fine(U, f, n, "calm", check_on(m, <<a, b, c>>))
  BY CheckOn
<1>3. /\ Fine(U, f, n, "calm", op_check(m)) /\ Fine(U, f, n, "calm", check_subscripts(m, "exps"))
      /\ Fine(U, f, n, "calm", check_on(m, <<"exp">>)) /\ Fine(U, f, n, "calm", check_on(m, <<"base">>))
      /\ Fine(U, f, n, "calm", check_on(m, <<"base", "start", "end">>))
      /\ Fine(U, f, n, "calm", Must("known_type", Kids(m, "td")))
  BY <1>2, CheckParts, TypeCalls, FieldFacts
<1>4. N(m).kind \notin {"decl", "unary", "new", "spork"} => Fine(U, f, n, "calm", check_exp(m))
  BY <1>1, <1>3, CheckPrimaries, CalmSteps DEF check_exp
<1>5. /\ N(m).kind = "decl" => check_exp(m) = check_exp_decl(m)
      /\ N(m).kind \in {"unary", "new", "spork"} => check_exp(m) = check_exp_unary(m)
      /\ N(m).kind = "new" => check_exp(m) = opck_new(m)
  BY DEF check_exp, check_exp_unary
<1> QED  BY <1>1, <1>4, <1>5, CheckDeclarations, CheckPrimaries, AnySteps

(* Statements with types. *)
LEMMA CheckLoops ==
  ASSUME Here, NEW f, f \notin SemaFns, NEW n, NEW m \in Nodes
  PROVE  /\ Fine(U, f, n, "any", check_breaks(m)) /\ Fine(U, f, n, "any", check_conts(m))
         /\ Fine(U, f, n, "calm", match_case(m)) /\ Fine(U, f, n, "calm", check_match(m))
         /\ Fine(U, f, n, "any", check_in(m)) /\ Fine(U, f, n, "any", In("check_in", m))
         /\ Fine(U, f, n, "calm", check_stmt_list(m)) /\ Fine(U, f, n, "any", check_handlers(m))
<1> USE NodeRules, CommonFacts
<1>1. Fine(U, f, n, "any", check_breaks(m))
  <2>1. Fine(U, f, n, "any", Try("check", Kids(m, "body")))
    BY FieldFacts, CalmCalls, AnySteps
  <2> QED  BY <2>1, AnySteps, OpNames DEF check_breaks, Scoped
<1>2. Fine(U, f, n, "any", check_conts(m))
  BY CalmCalls, AnySteps DEF check_conts
<1>3. /\ Fine(U, f, n, "calm", flow(m, "cond")) /\ Fine(U, f, n, "calm", flow(m, "when"))
      /\ Fine(U, f, n, "calm", op_check(m)) /\ Fine(U, f, n, "calm", check_on(m, <<"cond">>))
      /\ Fine(U, f, n, "calm", check_on(m, <<"step">>)) /\ Fine(U, f, n, "calm", check_on(m, <<"exp">>))
  BY CheckOn, CheckParts, FieldFacts
<1>4. /\ Fine(U, f, n, "calm", Must("check", Kids(m, "init"))) /\ Fine(U, f, n, "calm", Must("check", Kids(m, "test")))
      /\ Fine(U, f, n, "calm", Must("check", Kids(m, "body"))) /\ Fine(U, f, n, "calm", Must("check", Kids(m, "else_body")))
      /\ Fine(U, f, n, "calm", Must("check", Kids(m, "where"))) /\ Fine(U, f, n, "calm", Poison("check", Kids(m, "cases")))
      /\ Fine(U, f, n, "calm", Must("traverse", Kids(m, "equal"))) /\ Fine(U, f, n, "calm", Try("check", Kids(m, "handlers")))
      /\ Fine(U, f, n, "calm", Must("check_stmt_list", <<m>>)) /\ Fine(U, f, n, "calm", Must("match_case", <<m>>))
  BY FieldFacts, CalmCalls
<1>5. Fine(U, f, n, "calm", match_case(m)) /\ Fine(U, f, n, "calm", check_match(m))
  BY <1>3, <1>4, CalmSteps DEF match_case, check_match, When
<1>6. Fine(U, f, n, "any", In("check_match", m)) /\ Fine(U, f, n, "any", In("check_in", m))
  BY Scopes
<1>7. Fine(U, f, n, "any", check_in(m))
  <2>1. /\ Fine(U, f, n, "any", flow(m, "cond")) /\ Fine(U, f, n, "any", op_check(m))
        /\ Fine(U, f, n, "any", check_on(m, <<"cond">>)) /\ Fine(U, f, n, "any", check_on(m, <<"step">>))
        /\ Fine(U, f, n, "any", check_on(m, <<"exp">>)) /\ Fine(U, f, n, "any", Claim("repeats an integer"))
    BY <1>3, CalmSteps, AnySteps
  <2>2. /\ Fine(U, f, n, "any", Must("check", Kids(m, "init"))) /\ Fine(U, f, n, "any", Must("check", Kids(m, "test")))
        /\ Fine(U, f, n, "any", Must("check", Kids(m, "body"))) /\ Fine(U, f, n, "any", Must("check", Kids(m, "else_body")))
        /\ Fine(U, f, n, "any", Must("check", Kids(m, "where")))
        /\ Fine(U, f, n, "any", Must("check_stmt_list", <<m>>)) /\ Fine(U, f, n, "any", Must("match_case", <<m>>))
    BY <1>4, AnySteps
  <2> QED  BY <1>2, <1>6, <2>1, <2>2, AnySteps DEF check_in
<1>8. Fine(U, f, n, "calm", check_stmt_list(m))
  BY CalmCalls DEF check_stmt_list
<1>9. Fine(U, f, n, "any", check_handlers(m))
  <2>1. Fine(U, f, n, "any", Try("check", Kids(m, "handlers"))) /\ Fine(U, f, n, "any", IfFailed(Noise))
    BY <1>4, CalmSteps, AnySteps
  <2> QED  BY <2>1, AnySteps DEF check_handlers
<1> QED  BY <1>1, <1>2, <1>5, <1>6, <1>7, <1>8, <1>9

LEMMA CheckStatements ==
  ASSUME Here, NEW f, f \notin SemaFns, NEW n, NEW m \in Nodes
  PROVE  /\ Fine(U, f, n, "any", check_stmt(m))
         /\ N(m).kind \in {"exp", "return", "break", "continue", "defer", "using", "pp", "retry", "spread", "import"}
              => Fine(U, f, n, "calm", check_stmt(m))
<1> USE NodeRules, CommonFacts
<1>1. /\ Fine(U, f, n, "calm", check_on(m, <<"val">>)) /\ Fine(U, f, n, "calm", check_on(m, <<"exp">>))
      /\ Fine(U, f, n, "calm", Must("known_type", Kids(m, "td")))
      /\ Fine(U, f, n, "calm", Try("check", Kids(m, "body"))) /\ Fine(U, f, n, "calm", Must("traverse", Kids(m, "locale")))
  BY CheckOn, TypeCalls, CalmCalls, FieldFacts
<1>2. Fine(U, f, n, "calm", check_stmt_return(m)) /\ Fine(U, f, n, "calm", check_stmt_using(m))
  BY <1>1, CalmSteps DEF check_stmt_return, check_stmt_using, When
<1>3. N(m).kind \in {"exp", "return", "break", "continue", "defer", "using", "pp", "retry", "spread", "import"}
              => Fine(U, f, n, "calm", check_stmt(m))
  BY <1>1, <1>2, CalmSteps DEF check_stmt, When
<1>4. Fine(U, f, n, "any", check_stmt_try(m))
  <2>1. Fine(U, f, n, "any", Must("check_handlers", <<m>>)) /\ Fine(U, f, n, "any", In("check_in", m))
    BY Scopes, CalmCalls, AnySteps
  <2> QED  BY <2>1, AnySteps DEF check_stmt_try
<1>5. N(m).kind \notin {"exp", "return", "break", "continue", "defer", "using", "pp", "retry", "spread", "import"}
              => check_stmt(m) = check_stmt_try(m) \/ check_stmt(m) = In("check_in", m)
  BY DEF check_stmt
<1>6. Fine(U, f, n, "any", In("check_in", m))
  BY Scopes
<1> QED  BY <1>3, <1>4, <1>5, <1>6, AnySteps

LEMMA CheckFunctions ==
  ASSUME Here, NEW f, f \notin SemaFns, NEW n, NEW m \in Nodes
  PROVE  /\ Fine(U, f, n, "any", check_fdef(m)) /\ Fine(U, f, n, "any", check_in_types(m))
         /\ Fine(U, "_check_func_def", m, "any", _check_func_def(m))
         /\ N(m).kind = "func" => Fine(U, f, n, "any", check_func_def(m))
<1> USE NodeRules, CommonFacts
<1>1. Fine(U, f, n, "any", check_fdef_code(m))
  <2>1. Fine(U, f, n, "any", Loose("check_stmt_list", <<m>>))
    BY CalmCalls, AnySteps
  <2> QED  BY <2>1, AnySteps, OpNames DEF check_fdef_code, Scoped
<1>2. Fine(U, f, n, "any", check_fdef(m))
  <2>1. /\ Fine(U, f, n, "calm", When(Has(m, "args"), Doubt("new names") \o IfFailed(Noise) \o Check))
        /\ Fine(U, f, n, "calm", When(Has(m, "types"), Doubt("constants") \o Check))
        /\ Fine(U, f, n, "calm", Claim("no effects in a destructor"))
    BY CalmSteps DEF When
  <2>2. /\ Fine(U, f, n, "any", When(Has(m, "args"), Doubt("new names") \o IfFailed(Noise) \o Check))
        /\ Fine(U, f, n, "any", When(Has(m, "types"), Doubt("constants") \o Check))
        /\ Fine(U, f, n, "any", Claim("no effects in a destructor"))
    BY <2>1, AnySteps
  <2>3. Fine(U, f, n, "any", When(~Is(m, "builtin"), check_fdef_code(m) \o Claim("no effects in a destructor")))
    BY <1>1, <2>2, AnySteps DEF When
  <2> QED  BY <2>2, <2>3, AnySteps DEF check_fdef
<1>3. Fine(U, f, n, "any", check_in_types(m))
  BY InTypes DEF check_in_types
<1>4. Fine(U, "_check_func_def", m, "any", _check_func_def(m))
  <2> DEFINE F(p) == Fine(U, "_check_func_def", m, "any", p)
  <2>1. F(check_override(m))
    <3>1. F(Blame("signature")) /\ F(Claim("override"))
      BY CalmSteps, AnySteps
    <3> QED  BY <3>1, AnySteps DEF check_override, When
  <2>2. F(Try("check_in_types", <<m>>)) /\ F(Mark(m, "valid")) /\ F(Check) /\ F(Claim("effects of the override"))
        /\ F(Claim("a parent constructor"))
    BY SpecialCalls, CalmSteps, AnySteps
  <2>3. F(Values(Add("effects", 1) \o Try("check_in_types", <<m>>) \o Add("effects", -1)))
    BY <2>2, AnySteps, OpNames DEF Values
  <2>4. /\ F(When(Is(m, "global"), PushNspc(env.global))) /\ F(When(Is(m, "global"), Pop))
        /\ F(When(env.class # "" /\ ~Is(m, "global"), Check \o Claim("effects of the override")))
        /\ F(When(Is(m, "new"), Claim("a parent constructor")))
        /\ F(Set("func", m)) /\ F(Back("func"))
    BY <2>2, AnySteps DEF When
  <2>5. F(When(Is(m, "global"), PushNspc(env.global))
            \o Set("func", m)
            \o Values(Add("effects", 1) \o Try("check_in_types", <<m>>) \o Add("effects", -1))
            \o Back("func")
            \o When(env.class # "" /\ ~Is(m, "global"), Check \o Claim("effects of the override"))
            \o When(Is(m, "new"), Claim("a parent constructor"))
            \o When(Is(m, "global"), Pop))
    BY <2>3, <2>4, AnySteps
  <2>6. F(<<>>)
    BY AnySteps
  <2>7. \A p, q : F(p) /\ F(q) => F(p \o q)
    BY AnySteps
  <2> HIDE DEF F
  <2>8. F(_check_func_def(m))
    BY <2>1, <2>2, <2>5, <2>6, <2>7 DEF _check_func_def, When
  <2> QED  BY <2>8 DEF F
<1>5. N(m).kind = "func" => Fine(U, f, n, "any", check_func_def(m))
  BY FunctionCalls, AnySteps DEF check_func_def, OfFunctions
<1> QED  BY <1>2, <1>3, <1>4, <1>5

LEMMA CheckTypes ==
  ASSUME Here, NEW f, f \notin SemaFns, NEW n, NEW m \in Nodes
  PROVE  /\ Fine(U, f, n, "calm", check_type_def(m)) /\ Fine(U, f, n, "calm", check_trait_body(m))
         /\ Fine(U, f, n, "any", check_fptr_def(m)) /\ (~Is(m, "global") => Fine(U, f, n, "calm", check_fptr_def(m)))
         /\ Has(m, "ext") => Fine(U, f, n, "calm", check_parent(m)) /\ Fine(U, f, n, "any", check_cdef_parent(m))
         /\ Fine(U, f, n, "any", check_class_tmpl(m)) /\ Fine(U, f, n, "any", check_class_body(m))
         /\ Fine(U, "_check_class_def", m, "any", _check_class_def(m))
         /\ Fine(U, "check", m, "calm", check_class_def(m))
         /\ Fine(U, f, n, "calm", check_ast(m))
<1> USE NodeRules, CommonFacts
<1>1. Fine(U, f, n, "calm", check_type_def(m))
  BY FieldFacts, CalmCalls, CalmSteps DEF check_type_def, When
<1>2. Fine(U, f, n, "calm", check_trait_body(m))
  <2> DEFINE ks == Kids(m, "exps")
             ss == [i \in DOMAIN ks |->
                      Try("traverse", <<ks[i]>>) \o IfFailed(Mark(ks[i], "poison")) \o IfFailed(Noise)]
  <2>1. IsSeq(ks) /\ \A i \in DOMAIN ks : ks[i] \in Nodes
    BY KidsFact, FieldFacts
  <2>2. check_trait_body(m) = FlattenSeq(ss)
    BY DEF check_trait_body
  <2>4. \A i \in DOMAIN ks : <<ks[i]>> \in Seq(Nodes)
    BY <2>1
  <2> HIDE DEF ks
  <2>5. \A i \in DOMAIN ks : Fine(U, f, n, "calm", ss[i])
    BY <2>4, CalmCalls, CalmSteps
  <2>6. DOMAIN ss = DOMAIN ks /\ ss = [i \in DOMAIN ss |-> ss[i]]
    OBVIOUS
  <2> HIDE DEF ss
  <2>7. IsSeq(ss)
    BY <2>1, <2>6, SeqMap
  <2> QED  BY <2>2, <2>5, <2>6, <2>7, FineFlatten
<1>3. Fine(U, f, n, "any", check_fptr_def(m)) /\ (~Is(m, "global") => Fine(U, f, n, "calm", check_fptr_def(m)))
  <2>1. Fine(U, f, n, "calm", Try("check", Kids(m, "cdef")))
    BY FieldFacts, CalmCalls
  <2>2. Fine(U, f, n, "any", Try("check", Kids(m, "cdef"))) /\ Fine(U, f, n, "any", Fail)
    BY <2>1, CalmSteps, AnySteps
  <2>3. Fine(U, f, n, "any", check_fptr_def(m))
    BY <2>2, AnySteps DEF check_fptr_def, When
  <2> QED  BY <2>1, <2>3, CalmSteps DEF check_fptr_def, When
<1>4. ASSUME Has(m, "ext")
      PROVE  Fine(U, f, n, "calm", check_parent(m)) /\ Fine(U, f, n, "any", check_cdef_parent(m))
  <2>1. Kids(m, "ext")[1] \in Nodes
    BY <1>4, FieldFacts
  <2>2. Fine(U, f, n, "calm", Must("ensure_traverse", Resolved(Kids(m, "ext")[1])))
    BY <2>1, ResolvedRule, CalmCalls
  <2>3. Fine(U, f, n, "calm", check_subscripts(m, "sizes"))
    BY CheckParts, FieldFacts
  <2>4. Fine(U, f, n, "any", Try("check_parent", <<m>>))
    BY <1>4, PreparedCalls, AnySteps
  <2> QED  BY <2>2, <2>3, <2>4, PushTypesCalls, CalmSteps, AnySteps, OpNames DEF check_parent, check_cdef_parent, When
<1>5. Fine(U, f, n, "any", check_class_tmpl(m))
  <2>1. Fine(U, f, n, "any", Typed("check", Kids(m, "consts"))) /\ Fine(U, f, n, "any", IfFailed(Noise))
    BY FieldFacts, CalmCalls, CalmSteps, AnySteps
  <2> QED  BY <2>1, AnySteps DEF check_class_tmpl, When
<1>6. Fine(U, f, n, "any", check_class_body(m))
  BY InTypes DEF check_class_body
<1>7. Fine(U, "_check_class_def", m, "any", _check_class_def(m))
  <2> DEFINE F(p) == Fine(U, "_check_class_def", m, "any", p)
  <2>1. "_check_class_def" \notin SemaFns
    BY DEF SemaFns
  <2>2. Has(m, "ext") => F(Must("check_cdef_parent", <<m>>))
    BY <2>1, PreparedCalls, AnySteps
  <2>3. F(Must("check_class_tmpl", <<m>>)) /\ F(Loose("check_class_body", <<m>>))
    BY <2>1, SpecialCalls, CalmCalls, AnySteps
  <2>4. F(check_abstract(m)) /\ F(recursive_type(m)) /\ F(check_trait_requests(m)) /\ F(Check)
    BY CalmSteps, AnySteps DEF check_abstract, recursive_type, check_trait_requests
  <2>5. F(IfFailed(Set("class", m))) /\ F(<<>>) /\ \A p, q : F(p) /\ F(q) => F(p \o q)
    BY AnySteps
  <2> HIDE DEF F
  <2>6. F(_check_class_def(m))
    BY <2>2, <2>3, <2>4, <2>5 DEF _check_class_def, When
  <2> QED  BY <2>6 DEF F
<1>8. Fine(U, "check", m, "calm", check_class_def(m))
  BY SpecialCalls, CalmSteps DEF check_class_def, When
<1>9. Fine(U, f, n, "calm", check_ast(m))
  BY CalmCalls, CalmSteps DEF check_ast, When
<1> QED  BY <1>1, <1>2, <1>3, <1>4, <1>5, <1>6, <1>7, <1>8, <1>9

LEMMA CheckPlan ==
  ASSUME Here, NEW m \in Nodes
  PROVE  Fine(U, "check", m, "any", check(m))
<1>1. "check" \notin SemaFns
  BY DEF SemaFns
<1> DEFINE F(p) == Fine(U, "check", m, "any", p)
<1>2. /\ F(check_class_def(m)) /\ F(check_fptr_def(m)) /\ F(check_type_def(m))
      /\ N(m).kind = "func" => F(check_func_def(m))
  BY <1>1, CheckTypes, CheckFunctions, AnySteps
<1>3. F(Mark(m, "check")) /\ F(PushType(m)) /\ F(Pop) /\ F(<<>>) /\ \A p, q : F(p) /\ F(q) => F(p \o q)
  BY CalmSteps, AnySteps
<1>4. F(Try("check_stmt_list", <<m>>)) /\ F(In("check_trait_body", m)) /\ F(In("check_in", m)) /\ F(check_extend_def(m))
  BY <1>1, NodeRules, CommonFacts, Scopes, CalmCalls, CalmSteps, AnySteps DEF check_extend_def
<1>5. F(check_stmt(m)) /\ F(check_exp(m))
  BY <1>1, CheckStatements, CheckExpressions
<1> HIDE DEF F
<1>6. F(check(m))
  BY <1>2, <1>3, <1>4, <1>5 DEF check, When
<1> QED  BY <1>6 DEF F

-----------------------------------------------------------------------------
(* Whatever a function does when it is called, its plan is one of these.   *)

LEMMA PlanNames1 ==
  \A n :
    /\ Plan("sema", n) = sema(n)
    /\ Plan("sema_stmt_list", n) = sema_stmt_list(n)
    /\ Plan("sema_ast", n) = sema_ast(n)
    /\ Plan("sema_func_base", n) = sema_func_base(n)
    /\ Plan("array_not_empty", n) = array_not_empty(n)
    /\ Plan("sema_new_td", n) = sema_new_td(n)
    /\ Plan("sema_pass", n) = sema_pass(n)
    /\ Plan("sema_variadic", n) = sema_variadic(n)
    /\ Plan("sema_verdict", n) = sema_verdict(n)
    /\ Plan("known_type", n) = known_type(n)
    /\ Plan("resolve", n) = resolve(n)
    /\ Plan("scan_class", n) = scan_class(n)
    /\ Plan("scan_next", n) = scan_next(n)
    /\ Plan("template_push_types", n) = template_push_types(n)
    /\ Plan("ensure_scan1", n) = ensure_scan1(n)
    /\ Plan("ensure_scan2", n) = ensure_scan2(n)
    /\ Plan("ensure_check", n) = ensure_check(n)
    /\ Plan("ensure_traverse", n) = ensure_traverse(n)
    /\ Plan("traverse", n) = traverse(n)
    /\ Plan("scan1_once", n) = once(n, "scan1")
    /\ Plan("scan2_once", n) = once(n, "scan2")
    /\ Plan("check_once", n) = once(n, "check")
    /\ Plan("scan0", n) = scan0(n)
    /\ Plan("scan0_body", n) = scanx_body(n, "scan0")
BY DEF Plan

LEMMA PlanNames2 ==
  \A n :
    /\ Plan("scan0_class_def_inner", n) = scan0_class_def_inner(n)
    /\ Plan("scan0_class_def_init", n) = scan0_class_def_init(n)
    /\ Plan("cdef_parent", n) = cdef_parent(n)
    /\ Plan("scan0_stmt_list", n) = scan0_stmt_list(n)
    /\ Plan("scan0_trait_body", n) = scan0_trait_body(n)
    /\ Plan("scan0_ast", n) = scan0_ast(n)
    /\ Plan("scan1", n) = scan1(n)
    /\ Plan("scan1_in", n) = scan1_in(n)
    /\ Plan("scan1_stmt_list", n) = scan1_stmt_list(n)
    /\ Plan("scan1_decl", n) = scan1_decl(n)
    /\ Plan("scan1_type", n) = scan1_type(n)
    /\ Plan("scan1_fbody", n) = scan1_fbody(n)
    /\ Plan("scan1_fdef", n) = scan1_fdef(n)
    /\ Plan("scan1_in_types", n) = scan1_in_types(n)
    /\ Plan("_scan1_func_def", n) = _scan1_func_def(n)
    /\ Plan("scan1_union_def_inner", n) = scan1_union_def_inner(n)
    /\ Plan("scan1_parent", n) = scan1_parent(n)
    /\ Plan("scan1_cdef_parent", n) = scan1_cdef_parent(n)
    /\ Plan("scan1_class_def_body", n) = scan1_class_def_body(n)
    /\ Plan("scan1_body", n) = scanx_body(n, "scan1")
    /\ Plan("scan1_class_tmpl", n) = scan1_class_tmpl(n)
    /\ Plan("scan1_ast", n) = scan1_ast(n)
    /\ Plan("scan2", n) = scan2(n)
    /\ Plan("scan2_in", n) = scan2_in(n)
BY DEF Plan

LEMMA PlanNames3 ==
  \A n :
    /\ Plan("scan2_decl", n) = scan2_decl(n)
    /\ Plan("scan2_stmt_list", n) = scan2_stmt_list(n)
    /\ Plan("scan2_func_def_code", n) = scan2_func_def_code(n)
    /\ Plan("scan2_fdef", n) = scan2_fdef(n)
    /\ Plan("scan2_in_types", n) = scan2_in_types(n)
    /\ Plan("_scan2_func_def", n) = _scan2_func_def(n)
    /\ Plan("scan2_parent", n) = scan2_parent(n)
    /\ Plan("scan2_cdef_parent", n) = scan2_cdef_parent(n)
    /\ Plan("scan2_class_body", n) = scan2_class_body(n)
    /\ Plan("scan2_ast", n) = scan2_ast(n)
    /\ Plan("check", n) = check(n)
    /\ Plan("check_in", n) = check_in(n)
    /\ Plan("check_decl", n) = check_decl(n)
    /\ Plan("check_cond", n) = check_cond(n)
    /\ Plan("check_stmt_list", n) = check_stmt_list(n)
    /\ Plan("check_lambda_call", n) = check_lambda_call(n)
    /\ Plan("partial_type", n) = partial_type(n)
    /\ Plan("check_traverse_fdef", n) = check_traverse_fdef(n)
    /\ Plan("tmpl_valid", n) = tmpl_valid(n)
    /\ Plan("ensure_tmpl", n) = ensure_tmpl(n)
    /\ Plan("find_tmpl", n) = find_tmpl(n)
    /\ Plan("find_template_match", n) = find_template_match(n)
    /\ Plan("check_breaks", n) = check_breaks(n)
    /\ Plan("check_match", n) = check_match(n)
BY DEF Plan

LEMMA PlanNames4 ==
  \A n :
    /\ Plan("match_case", n) = match_case(n)
    /\ Plan("check_handlers", n) = check_handlers(n)
    /\ Plan("check_fdef", n) = check_fdef(n)
    /\ Plan("check_in_types", n) = check_in_types(n)
    /\ Plan("_check_func_def", n) = _check_func_def(n)
    /\ Plan("check_trait_body", n) = check_trait_body(n)
    /\ Plan("check_parent", n) = check_parent(n)
    /\ Plan("check_cdef_parent", n) = check_cdef_parent(n)
    /\ Plan("check_class_tmpl", n) = check_class_tmpl(n)
    /\ Plan("check_class_body", n) = check_class_body(n)
    /\ Plan("_check_class_def", n) = _check_class_def(n)
    /\ Plan("check_ast", n) = check_ast(n)
    /\ Plan("validate", n) = validate(n)
    /\ Plan("ast_validation", n) = ast_validation(n)
    /\ Plan("compile_xid", n) = compile_xid(n)
    /\ Plan("compile", n) = compile(n)
    /\ Plan("passes", n) = passes(n)
    /\ Plan("_passes", n) = _passes(n)
    /\ Plan("typecheck_ast", n) = typecheck_ast(n)
    /\ Plan("emit_ast", n) = emit_ast(n)
BY DEF Plan

(* The functions of a file. *)
LEMMA FilePlans ==
  ASSUME Here, NEW m \in Nodes
  PROVE  /\ Fine(U, "compile_xid", m, "any", compile_xid(m)) /\ Fine(U, "compile", m, "any", compile(m))
         /\ Fine(U, "passes", m, "any", passes(m))
         /\ \A f, n : f \notin SemaFns =>
              /\ Fine(U, f, n, "any", _passes(m)) /\ Fine(U, f, n, "calm", typecheck_ast(m))
              /\ Fine(U, f, n, "any", emit_ast(m)) /\ Fine(U, f, n, "calm", sema_verdict(m))
              /\ Fine(U, f, n, "any", sema_pass(m)) /\ Fine(U, f, n, "any", sema_variadic(m))
<1>1. /\ CallOk(U, "compile_xid", m, "compile", m) /\ CallOk(U, "compile", m, "passes", m)
      /\ CallOk(U, "passes", m, "_passes", m)
  BY DEF CallOk, Prepare, Prepared, OfTypes, OfInstances, OfParents, OfDecls, OfTemplates, OfFunctions, Special, Outer, Names, Plain, Nodes, SemaFns
<1>2. /\ Fine(U, "compile_xid", m, "any", Must("compile", <<m>>)) /\ Fine(U, "compile", m, "any", Must("passes", <<m>>))
      /\ Fine(U, "passes", m, "any", Try("_passes", <<m>>))
  BY <1>1, OwnCalls, AnySteps
<1>3. Fine(U, "compile_xid", m, "any", compile_xid(m)) /\ Fine(U, "compile", m, "any", compile(m))
  BY <1>2, AnySteps, OpNames DEF compile_xid, compile, When
<1>4. Fine(U, "passes", m, "any", passes(m))
  BY <1>2, AnySteps, OpNames DEF passes
<1>5. ASSUME NEW f, NEW n, f \notin SemaFns
      PROVE  /\ Fine(U, f, n, "any", _passes(m)) /\ Fine(U, f, n, "calm", typecheck_ast(m))
             /\ Fine(U, f, n, "any", emit_ast(m)) /\ Fine(U, f, n, "calm", sema_verdict(m))
             /\ Fine(U, f, n, "any", sema_pass(m)) /\ Fine(U, f, n, "any", sema_variadic(m))
  <2> USE NodeRules, CommonFacts
  <2>1. Fine(U, f, n, "calm", typecheck_ast(m)) /\ Fine(U, f, n, "calm", sema_verdict(m))
    BY <1>5, CalmCalls, CalmSteps DEF typecheck_ast, sema_verdict
  <2>2. Fine(U, f, n, "any", emit_ast(m))
    BY CalmSteps, AnySteps DEF emit_ast
  <2>3. Fine(U, f, n, "any", _passes(m))
    BY <1>5, CalmCalls, CalmSteps, AnySteps DEF _passes
  <2>4. Fine(U, f, n, "any", Loose("sema_ast", <<m>>)) /\ Fine(U, f, n, "any", Try("sema_func_base", <<m>>))
    BY <1>5, CalmCalls, AnySteps
  <2>5. Fine(U, f, n, "any", sema_pass(m)) /\ Fine(U, f, n, "any", sema_variadic(m))
    BY <1>5, <2>4, CalmCalls, AnySteps, OpNames DEF sema_pass, sema_variadic
  <2> QED  BY <2>1, <2>2, <2>3, <2>5
<1> QED  BY <1>3, <1>4, <1>5

(* Good(f) : the plan of f on any node it may be called on is one of calls *)
(* that are allowed.                                                       *)
Good(f) ==
  \A m \in Nodes : Prepare(U.tree, f, m) => Fine(U, f, m, "any", Plan(f, m))

LEMMA NotSema ==
  \A f : f \in {"resolve", "known_type"} \cup Plain \cup Special \cup Prepared \cup Outer => f \notin SemaFns
BY DEF Plain, SemaFns, Special, Prepared, OfTypes, OfInstances, OfParents, OfDecls, OfTemplates, OfFunctions, Outer

LEMMA GoodFiles ==
  ASSUME Here
  PROVE  /\ \A f \in Outer : Good(f)
         /\ \A f \in SemaFns : Good(f)
         /\ \A f \in {"sema_pass", "sema_variadic", "sema_verdict", "_passes", "typecheck_ast", "emit_ast"} : Good(f)
         /\ \A f \in {"validate", "ast_validation"} : Good(f)
<1>1. \A f \in Outer : Good(f)
  BY FilePlans, PlanNames4 DEF Good, Outer
<1>2. \A f \in SemaFns : Good(f)
  <2>1. \A m \in Nodes : \A f :
          /\ Fine(U, f, m, "any", sema(m)) /\ Fine(U, f, m, "any", sema_stmt_list(m)) /\ Fine(U, f, m, "any", sema_ast(m))
          /\ Fine(U, f, m, "any", sema_func_base(m)) /\ Fine(U, f, m, "any", array_not_empty(m))
          /\ Fine(U, f, m, "any", sema_new_td(m))
    BY SemaPlans, AnySteps
  <2> QED  BY <2>1, PlanNames1 DEF Good, SemaFns
<1>3. /\ "sema_pass" \notin SemaFns /\ "sema_variadic" \notin SemaFns /\ "sema_verdict" \notin SemaFns
      /\ "_passes" \notin SemaFns /\ "typecheck_ast" \notin SemaFns /\ "emit_ast" \notin SemaFns
      /\ "validate" \notin SemaFns /\ "ast_validation" \notin SemaFns
  BY DEF SemaFns
<1>4. \A f \in {"sema_pass", "sema_variadic", "sema_verdict", "_passes", "typecheck_ast", "emit_ast"} : Good(f)
  <2>1. \A m \in Nodes : \A f : f \notin SemaFns =>
          /\ Fine(U, f, m, "any", _passes(m)) /\ Fine(U, f, m, "any", typecheck_ast(m))
          /\ Fine(U, f, m, "any", emit_ast(m)) /\ Fine(U, f, m, "any", sema_verdict(m))
          /\ Fine(U, f, m, "any", sema_pass(m)) /\ Fine(U, f, m, "any", sema_variadic(m))
    BY FilePlans, AnySteps
  <2> QED  BY <1>3, <2>1, PlanNames1, PlanNames4 DEF Good
<1>5. \A f \in {"validate", "ast_validation"} : Good(f)
  BY <1>3, Validation, PlanNames4, AnySteps DEF Good
<1> QED  BY <1>1, <1>2, <1>4, <1>5

(* What Prepare says of single functions. *)
LEMMA PrepareFacts ==
  ASSUME NEW m
  PROVE  /\ \A f \in OfTypes : Prepare(U.tree, f, m) => N(m).kind = "type"
         /\ \A f \in OfInstances \cup {"scan_class"} : Prepare(U.tree, f, m) => Has(m, "instance")
         /\ \A f \in OfParents : Prepare(U.tree, f, m) => Has(m, "ext")
         /\ \A f \in OfDecls : Prepare(U.tree, f, m) => N(m).kind = "decl"
         /\ \A f \in OfTemplates : Prepare(U.tree, f, m) => N(m).kind = "class" /\ Has(m, "types")
         /\ \A f \in OfFunctions : Prepare(U.tree, f, m) => N(m).kind = "func"
         /\ Prepare(U.tree, "scan_next", m) => Has(m, "next")
<1>1. \A field : Kids(m, field) = Child(U.tree, m, field) /\ N(m) = U.tree[m]
  BY DEF Kids, Child, N, U
<1> QED  BY <1>1 DEF Prepare, Has

LEMMA GoodTypes ==
  ASSUME Here
  PROVE  /\ \A f \in OfTypes : Good(f)
         /\ \A f \in OfInstances : Good(f)
         /\ \A f \in OfParents : Good(f)
         /\ \A f \in OfDecls \cup OfTemplates : Good(f)
<1>0. /\ \A f \in OfTypes \cup OfInstances \cup OfParents \cup OfDecls \cup OfTemplates : f \notin SemaFns
  BY DEF SemaFns, OfTypes, OfInstances, OfParents, OfDecls, OfTemplates, OfFunctions
<1>1. \A f \in {"known_type", "resolve", "scan1_type"} : Good(f)
  <2>1. \A m \in Nodes : \A f : f \notin SemaFns /\ N(m).kind = "type" =>
          /\ Fine(U, f, m, "any", known_type(m)) /\ Fine(U, f, m, "any", resolve(m)) /\ Fine(U, f, m, "any", scan1_type(m))
    BY TypePlans, Scan1Expressions, AnySteps
  <2>2. {"known_type", "resolve", "scan1_type"} \subseteq OfTypes
    BY DEF OfTypes
  <2>3. \A f \in {"known_type", "resolve", "scan1_type"}, m \in Nodes :
          Prepare(U.tree, f, m) => N(m).kind = "type" /\ f \notin SemaFns
    BY <2>2, <1>0, PrepareFacts
  <2> QED  BY <2>1, <2>3, PlanNames1, PlanNames2 DEF Good
<1>2. Good("scan_class") /\ Good("scan_next")
  <2>1. "scan_class" \in OfTypes /\ "scan_next" \in OfTypes
    BY DEF OfTypes
  <2>2. \A m \in Nodes : \A f : f \notin SemaFns /\ N(m).kind = "type" =>
          /\ Has(m, "instance") => Fine(U, f, m, "any", scan_class(m))
          /\ Has(m, "next") => Fine(U, f, m, "any", scan_next(m))
    BY TypePlans
  <2> QED  BY <1>0, <2>1, <2>2, PrepareFacts, PlanNames1 DEF Good
<1>3. \A f \in OfInstances : Good(f)
  <2>1. \A m \in Nodes : \A f : f \notin SemaFns /\ Has(m, "instance") =>
          Fine(U, f, m, "any", find_tmpl(m)) /\ Fine(U, f, m, "any", find_template_match(m))
    BY CheckTemplates, AnySteps
  <2>2. \A f \in OfInstances, m \in Nodes : Prepare(U.tree, f, m) => Has(m, "instance") /\ f \notin SemaFns
    BY <1>0, PrepareFacts
  <2> QED  BY <2>1, <2>2, PlanNames3 DEF Good, OfInstances
<1>4. \A f \in OfParents : Good(f)
  <2>1. \A m \in Nodes : \A f : f \notin SemaFns /\ Has(m, "ext") =>
          Fine(U, f, m, "any", check_cdef_parent(m)) /\ Fine(U, f, m, "any", check_parent(m))
    BY CheckTypes, AnySteps
  <2>2. \A f \in OfParents, m \in Nodes : Prepare(U.tree, f, m) => Has(m, "ext") /\ f \notin SemaFns
    BY <1>0, PrepareFacts
  <2> QED  BY <2>1, <2>2, PlanNames4 DEF Good, OfParents
<1>5. \A f \in OfDecls : Good(f)
  <2>1. \A m \in Nodes : \A f : f \notin SemaFns /\ N(m).kind = "decl" =>
          Fine(U, f, m, "any", scan2_decl(m)) /\ Fine(U, f, m, "any", check_decl(m))
    BY Scan2Parts, CheckPrimaries, AnySteps
  <2>2. \A f \in OfDecls, m \in Nodes : Prepare(U.tree, f, m) => N(m).kind = "decl" /\ f \notin SemaFns
    BY <1>0, PrepareFacts
  <2> QED  BY <2>1, <2>2, PlanNames3 DEF Good, OfDecls
<1>6. \A f \in OfTemplates : Good(f)
  <2>1. \A m \in Nodes : \A f : f \notin SemaFns => Fine(U, f, m, "any", scan1_class_tmpl(m))
    BY Scan1Types
  <2> QED  BY <1>0, <2>1, PlanNames2 DEF Good, OfTemplates
<1> QED  BY <1>1, <1>2, <1>3, <1>4, <1>5, <1>6 DEF OfTypes

LEMMA GoodWalks ==
  ASSUME Here
  PROVE  /\ \A f \in {"template_push_types", "ensure_scan1", "ensure_scan2", "ensure_check", "ensure_traverse",
                      "traverse", "scan1_once", "scan2_once", "check_once"} : Good(f)
         /\ \A f \in {"scan0", "scan0_body", "scan0_class_def_inner", "scan0_class_def_init", "cdef_parent",
                      "scan0_stmt_list", "scan0_trait_body", "scan0_ast"} : Good(f)
<1>1. \A f \in {"template_push_types", "ensure_scan1", "ensure_scan2", "ensure_check", "ensure_traverse",
                      "traverse", "scan1_once", "scan2_once", "check_once"} : f \notin SemaFns
  BY DEF SemaFns
<1>2. \A m \in Nodes : \A f : f \notin SemaFns =>
        /\ Fine(U, f, m, "any", template_push_types(m)) /\ Fine(U, f, m, "any", traverse(m))
        /\ Fine(U, f, m, "any", ensure_scan1(m)) /\ Fine(U, f, m, "any", ensure_scan2(m))
        /\ Fine(U, f, m, "any", ensure_check(m)) /\ Fine(U, f, m, "any", ensure_traverse(m))
        /\ Fine(U, f, m, "any", once(m, "scan1")) /\ Fine(U, f, m, "any", once(m, "scan2"))
        /\ Fine(U, f, m, "any", once(m, "check"))
  BY TypePlans, Ensures, Traversal, AnySteps
<1>3. \A f \in {"scan0", "scan0_body", "scan0_class_def_inner", "scan0_class_def_init", "cdef_parent",
                      "scan0_stmt_list", "scan0_trait_body", "scan0_ast"} : f \notin SemaFns
  BY DEF SemaFns
<1>4. \A m \in Nodes : \A f : f \notin SemaFns =>
        /\ Fine(U, f, m, "any", scan0(m)) /\ Fine(U, f, m, "any", scanx_body(m, "scan0"))
        /\ Fine(U, f, m, "any", scan0_class_def_inner(m)) /\ Fine(U, f, m, "any", scan0_class_def_init(m))
        /\ Fine(U, f, m, "any", cdef_parent(m)) /\ Fine(U, f, m, "any", scan0_stmt_list(m))
        /\ Fine(U, f, m, "any", scan0_trait_body(m)) /\ Fine(U, f, m, "any", scan0_ast(m))
  BY Scan0Plans, AnySteps
<1>5. \A f \in {"template_push_types", "ensure_scan1", "ensure_scan2", "ensure_check", "ensure_traverse",
                      "traverse", "scan1_once", "scan2_once", "check_once"} : Good(f)
  BY <1>1, <1>2, PlanNames1 DEF Good
<1>6. \A f \in {"scan0", "scan0_body", "scan0_class_def_inner", "scan0_class_def_init", "cdef_parent",
                      "scan0_stmt_list", "scan0_trait_body", "scan0_ast"} : Good(f)
  BY <1>3, <1>4, PlanNames1, PlanNames2 DEF Good
<1> QED  BY <1>5, <1>6

LEMMA GoodScans ==
  ASSUME Here
  PROVE  /\ \A f \in {"scan1", "scan1_in", "scan1_stmt_list", "scan1_decl", "scan1_fbody", "scan1_fdef",
                      "scan1_in_types", "_scan1_func_def", "scan1_union_def_inner", "scan1_parent",
                      "scan1_cdef_parent", "scan1_class_def_body", "scan1_body", "scan1_ast"} : Good(f)
         /\ \A f \in {"scan2", "scan2_in", "scan2_stmt_list", "scan2_func_def_code", "scan2_fdef",
                      "scan2_in_types", "_scan2_func_def", "scan2_parent", "scan2_cdef_parent",
                      "scan2_class_body", "scan2_ast"} : Good(f)
<1>1. \A f \in {"scan1_in", "scan1_stmt_list", "scan1_decl", "scan1_fbody", "scan1_fdef",
                      "scan1_in_types", "_scan1_func_def", "scan1_union_def_inner", "scan1_parent",
                      "scan1_cdef_parent", "scan1_class_def_body", "scan1_body", "scan1_ast"} : f \notin SemaFns
  BY DEF SemaFns
<1>2. \A m \in Nodes : \A f : f \notin SemaFns =>
        /\ Fine(U, f, m, "any", scan1_in(m)) /\ Fine(U, f, m, "any", scan1_stmt_list(m))
        /\ Fine(U, f, m, "any", scan1_decl(m)) /\ Fine(U, f, m, "any", scan1_fbody(m))
        /\ Fine(U, f, m, "any", scan1_fdef(m)) /\ Fine(U, f, m, "any", scan1_in_types(m))
        /\ Fine(U, f, m, "any", _scan1_func_def(m)) /\ Fine(U, f, m, "any", scan1_union_def_inner(m))
        /\ Fine(U, f, m, "any", scan1_parent(m)) /\ Fine(U, f, m, "any", scan1_cdef_parent(m))
        /\ Fine(U, f, m, "any", scan1_class_def_body(m)) /\ Fine(U, f, m, "any", scanx_body(m, "scan1"))
        /\ Fine(U, f, m, "any", scan1_ast(m))
  BY Scan1Statements, Scan1Expressions, Scan1Functions, Scan1Types, AnySteps
<1>3. Good("scan1") /\ Good("scan2")
  BY Scan1Plan, Scan2Plan, PlanNames2 DEF Good
<1>4. \A f \in {"scan1_in", "scan1_stmt_list", "scan1_decl", "scan1_fbody", "scan1_fdef",
                      "scan1_in_types", "_scan1_func_def", "scan1_union_def_inner", "scan1_parent",
                      "scan1_cdef_parent", "scan1_class_def_body", "scan1_body", "scan1_ast"} : Good(f)
  BY <1>1, <1>2, PlanNames2 DEF Good
<1>5. \A f \in {"scan2_in", "scan2_stmt_list", "scan2_func_def_code", "scan2_fdef",
                      "scan2_in_types", "_scan2_func_def", "scan2_parent", "scan2_cdef_parent",
                      "scan2_class_body", "scan2_ast"} : f \notin SemaFns
  BY DEF SemaFns
<1>6. \A m \in Nodes : \A f : f \notin SemaFns =>
        /\ Fine(U, f, m, "any", scan2_in(m)) /\ Fine(U, f, m, "any", scan2_stmt_list(m))
        /\ Fine(U, f, m, "any", scan2_func_def_code(m)) /\ Fine(U, f, m, "any", scan2_fdef(m))
        /\ Fine(U, f, m, "any", scan2_in_types(m)) /\ Fine(U, f, m, "any", _scan2_func_def(m))
        /\ Fine(U, f, m, "any", scan2_parent(m)) /\ Fine(U, f, m, "any", scan2_cdef_parent(m))
        /\ Fine(U, f, m, "any", scan2_class_body(m)) /\ Fine(U, f, m, "any", scan2_ast(m))
  BY Scan2Parts, Scan2Functions, Scan2Types, AnySteps
<1>7. \A f \in {"scan2_in", "scan2_stmt_list", "scan2_func_def_code", "scan2_fdef",
                      "scan2_in_types", "_scan2_func_def", "scan2_parent", "scan2_cdef_parent",
                      "scan2_class_body", "scan2_ast"} : Good(f)
  BY <1>5, <1>6, PlanNames2, PlanNames3 DEF Good
<1> QED  BY <1>3, <1>4, <1>7

LEMMA GoodChecks ==
  ASSUME Here
  PROVE  \A f \in {"check", "check_in", "check_cond", "check_stmt_list", "check_lambda_call", "partial_type",
                   "check_traverse_fdef", "tmpl_valid", "ensure_tmpl", "check_breaks", "check_match", "match_case",
                   "check_handlers", "check_fdef", "check_in_types", "_check_func_def", "check_trait_body",
                   "check_class_tmpl", "check_class_body", "_check_class_def", "check_ast"} : Good(f)
<1>1. \A f \in {"check_in", "check_cond", "check_stmt_list", "check_lambda_call", "partial_type",
                   "check_traverse_fdef", "tmpl_valid", "ensure_tmpl", "check_breaks", "check_match", "match_case",
                   "check_handlers", "check_fdef", "check_in_types", "check_trait_body",
                   "check_class_tmpl", "check_class_body", "check_ast"} : f \notin SemaFns
  BY DEF SemaFns
<1>2. \A m \in Nodes : \A f : f \notin SemaFns =>
        /\ Fine(U, f, m, "any", check_in(m)) /\ Fine(U, f, m, "any", check_stmt_list(m))
        /\ Fine(U, f, m, "any", check_breaks(m)) /\ Fine(U, f, m, "any", check_match(m))
        /\ Fine(U, f, m, "any", match_case(m)) /\ Fine(U, f, m, "any", check_handlers(m))
  BY CheckLoops, AnySteps
<1>3. \A m \in Nodes : \A f : f \notin SemaFns =>
        /\ Fine(U, f, m, "any", check_cond(m)) /\ Fine(U, f, m, "any", check_lambda_call(m))
        /\ Fine(U, f, m, "any", partial_type(m)) /\ Fine(U, f, m, "any", check_traverse_fdef(m))
        /\ Fine(U, f, m, "any", tmpl_valid(m)) /\ Fine(U, f, m, "any", ensure_tmpl(m))
  BY CheckPrimaries, CheckTemplates, AnySteps
<1>4. \A m \in Nodes : \A f : f \notin SemaFns =>
        /\ Fine(U, f, m, "any", check_fdef(m)) /\ Fine(U, f, m, "any", check_in_types(m))
        /\ Fine(U, f, m, "any", check_trait_body(m)) /\ Fine(U, f, m, "any", check_class_tmpl(m))
        /\ Fine(U, f, m, "any", check_class_body(m)) /\ Fine(U, f, m, "any", check_ast(m))
  BY CheckFunctions, CheckTypes, AnySteps
<1>5. Good("check") /\ Good("_check_func_def") /\ Good("_check_class_def")
  <2>1. "check" \notin SemaFns
    BY DEF SemaFns
  <2>2. \A m \in Nodes : /\ Fine(U, "_check_func_def", m, "any", _check_func_def(m))
                         /\ Fine(U, "_check_class_def", m, "any", _check_class_def(m))
    BY <2>1, CheckFunctions, CheckTypes
  <2> QED  BY <2>2, CheckPlan, PlanNames3, PlanNames4 DEF Good
<1>6. \A f \in {"check_in", "check_cond", "check_stmt_list", "check_lambda_call", "partial_type",
                   "check_traverse_fdef", "tmpl_valid", "ensure_tmpl", "check_breaks", "check_match", "match_case",
                   "check_handlers", "check_fdef", "check_in_types", "check_trait_body",
                   "check_class_tmpl", "check_class_body", "check_ast"} : Good(f)
  BY <1>1, <1>2, <1>3, <1>4, PlanNames3, PlanNames4 DEF Good
<1> QED  BY <1>5, <1>6

LEMMA Plans ==
  ASSUME Here
  PROVE  \A f \in Names : Good(f)
<1>1. \A f \in Plain : Good(f)
  BY GoodFiles, GoodWalks, GoodScans, GoodChecks DEF Plain
<1>2. \A f \in Special : Good(f)
  BY GoodScans, GoodChecks DEF Special
<1>3. \A f \in Prepared : Good(f)
  BY GoodTypes, GoodScans, GoodChecks DEF Prepared, OfFunctions
<1> QED  BY <1>1, <1>2, <1>3, GoodFiles DEF Names

-----------------------------------------------------------------------------
(* Who starts the body of a definition, and what it has done before.       *)

Starters == {"scan1", "scan2", "check", "_check_func_def"}
Guard(f) == IF f = "_check_func_def" THEN "valid" ELSE f

SpecialStep(s) == s[1] \in Called /\ s[2] \in Special
Pending(p) == \E i \in DOMAIN p : SpecialStep(p[i])
Marker(n, f) == <<"mark", <<n, Guard(f)>>>>
First(p, s) == IsSeq(p) /\ 1 \in DOMAIN p /\ p[1] = s

(* A plan that anyone may have has no such step. *)
LEMMA NonePending ==
  ASSUME NEW u, NEW f, NEW n, NEW c, NEW p, Fine(u, f, n, c, p), \A g \in Special : Caller(g) # f
  PROVE  ~Pending(p)
BY DEF Fine, FineStep, CallOk, Pending, SpecialStep

LEMMA FirstOne == \A s : First(<<s>>, s)
<1> TAKE s
<1>1. <<s>> \in Seq({s}) /\ DOMAIN <<s>> = {1} /\ <<s>>[1] = s
  OBVIOUS
<1> QED  BY <1>1 DEF First, IsSeq

LEMMA FirstCat == \A p, q, s : First(p, s) /\ IsSeq(q) => First(p \o q, s)
<1> SUFFICES ASSUME NEW p, NEW q, NEW s, First(p, s), IsSeq(q) PROVE First(p \o q, s)
  OBVIOUS
<1>1. /\ IsSeq(p) /\ 1 \in DOMAIN p /\ p[1] = s
  BY DEF First
<1>2. IsSeq(p \o q) /\ Len(p \o q) = Len(p) + Len(q) /\ (\A i \in 1 .. Len(p) : (p \o q)[i] = p[i])
  BY <1>1, SeqCat
<1>3. Len(p) \in Nat /\ Len(q) \in Nat /\ DOMAIN p = 1 .. Len(p) /\ DOMAIN (p \o q) = 1 .. Len(p \o q)
  BY <1>1, <1>2, SeqShape
<1>4. 1 \in 1 .. Len(p) /\ 1 \in DOMAIN (p \o q)
  BY <1>1, <1>2, <1>3
<1> QED  BY <1>1, <1>2, <1>4 DEF First

LEMMA Callers ==
  /\ \A g \in Special : Caller(g) \in Starters \cup {"_check_class_def"}
  /\ \A g \in Special : Caller(g) = "_check_class_def" => g = "check_class_body"
  /\ Caller("check_class_body") = "_check_class_def" /\ Caller("_check_class_def") = "check"
  /\ "traverse" \notin SemaFns /\ (\A g \in Special : Caller(g) # "traverse")
  /\ \A f \in Starters : f \notin Special
BY DEF Special, Caller, Starters, SemaFns

LEMMA ByStep ==
  ASSUME NEW p, NEW m, NEW f, NEW c, Fine(U, "traverse", m, c, p)
  PROVE  ~Pending(p)
BY NonePending, Callers

(* A scan of a class looks for its mark, and the first thing it does is to *)
(* set it; scans of anything else start no body.                           *)
LEMMA Scan1Starts ==
  ASSUME Here, NEW m \in Nodes, Pending(scan1(m))
  PROVE  ~Marked(m, "scan1") /\ First(scan1(m), Marker(m, "scan1"))
<1> DEFINE F(p) == Fine(U, "traverse", m, "any", p)
<1>1. "traverse" \notin SemaFns /\ "scan1" \notin SemaFns /\ \A p : F(p) => ~Pending(p)
  <2>1. "scan1" \notin SemaFns
    BY DEF SemaFns
  <2> QED  BY <2>1, Callers, NonePending
<1>2. N(m).kind # "class" => F(scan1(m))
  <2>1. F(Try("scan1_stmt_list", <<m>>)) /\ F(In("scan1_in", m))
    BY <1>1, Scopes, NodeRules, CalmCalls, AnySteps, CommonFacts
  <2>2. /\ F(scan1_union_def(m)) /\ F(scan1_enum_def(m)) /\ F(scan1_fptr_def(m))
        /\ F(scan1_type_def(m)) /\ F(scan1_union_member(m))
    BY <1>1, Scan1Types, AnySteps
  <2>3. (N(m).kind = "func" => F(scan1_func_def(m))) /\ F(scan1_arg(m))
    BY <1>1, Scan1Functions, AnySteps
  <2>4. F(scan1_stmt(m)) /\ F(scan1_exp(m)) /\ F(<<>>)
    BY <1>1, Scan1Statements, Scan1Expressions, AnySteps
  <2> HIDE DEF F
  <2> QED  BY <2>1, <2>2, <2>3, <2>4 DEF scan1
<1>3. N(m).kind = "class"
  BY <1>1, <1>2
<1>4. scan1(m) = scan1_class_def(m)
  BY <1>3 DEF scan1, Statements
<1>5. ~Pending(<<>>)
  BY <1>1, AnySteps
<1>6. ~Is(m, "base") /\ ~Marked(m, "scan1")
  BY <1>4, <1>5 DEF scan1_class_def, When
<1>7. scan1_class_def(m) =
        Mark(m, "scan1") \o When(Has(m, "ext"), Must("scan1_cdef_parent", <<m>>))
          \o When(Has(m, "body"), Loose("scan1_class_def_body", <<m>>))
          \o When(Template(m), Must("scan1_class_tmpl", <<m>>))
  BY <1>6 DEF scan1_class_def, When
<1>8. First(Mark(m, "scan1"), Marker(m, "scan1"))
  BY FirstOne DEF Mark, Do, Marker, Guard
<1>9. /\ IsSeq(When(Has(m, "ext"), Must("scan1_cdef_parent", <<m>>)))
      /\ IsSeq(When(Has(m, "body"), Loose("scan1_class_def_body", <<m>>)))
      /\ IsSeq(When(Template(m), Must("scan1_class_tmpl", <<m>>)))
  <2>1. /\ Fine(U, "scan1", m, "calm", Must("scan1_cdef_parent", <<m>>))
        /\ Fine(U, "scan1", m, "calm", Loose("scan1_class_def_body", <<m>>))
        /\ Template(m) => Fine(U, "scan1", m, "calm", Must("scan1_class_tmpl", <<m>>))
    BY <1>1, <1>3, <1>6, SpecialCalls, NodeRules, CalmCalls, CommonFacts DEF Template
  <2> QED  BY <2>1, SeqNone DEF Fine, When
<1> QED  BY <1>4, <1>6, <1>7, <1>8, <1>9, FirstCat

LEMMA Scan2Starts ==
  ASSUME Here, NEW m \in Nodes, Pending(scan2(m))
  PROVE  ~Marked(m, "scan2") /\ First(scan2(m), Marker(m, "scan2"))
<1> DEFINE F(p) == Fine(U, "traverse", m, "any", p)
<1>1. "traverse" \notin SemaFns /\ "scan2" \notin SemaFns /\ \A p : F(p) => ~Pending(p)
  <2>1. "scan2" \notin SemaFns
    BY DEF SemaFns
  <2> QED  BY <2>1, Callers, NonePending
<1>2. N(m).kind # "class" => F(scan2(m))
  <2>1. F(Try("scan2_stmt_list", <<m>>)) /\ F(In("scan2_in", m))
    BY <1>1, Scopes, NodeRules, CalmCalls, AnySteps, CommonFacts
  <2>2. F(scan2_union_def(m)) /\ F(scan2_fptr_def(m)) /\ F(scan2_type_def(m))
    BY <1>1, Scan2Types, AnySteps
  <2>3. (N(m).kind = "func" => F(scan2_func_def(m))) /\ F(<<>>)
    BY <1>1, Scan2Functions, AnySteps
  <2>4. F(scan2_stmt(m)) /\ F(scan2_exp(m))
    BY <1>1, Scan2Parts, Scan2Expressions, AnySteps
  <2> HIDE DEF F
  <2> QED  BY <2>1, <2>2, <2>3, <2>4 DEF scan2
<1>3. N(m).kind = "class"
  BY <1>1, <1>2
<1>4. scan2(m) = scan2_class_def(m)
  BY <1>3 DEF scan2, Statements
<1>5. ~Pending(<<>>)
  BY <1>1, AnySteps
<1>6. ~Is(m, "base") /\ ~Marked(m, "scan2")
  BY <1>4, <1>5 DEF scan2_class_def, When
<1> DEFINE ext == When(Has(m, "ext"), Must("scan2_cdef_parent", <<m>>))
           body == When(Has(m, "body"),
             PushType(m) \o When(Template(m), Loose("template_push_types", <<m>>))
               \o Try("scan2_class_body", <<m>>)
               \o When(Template(m), Do("untype", "")) \o Pop)
<1>7. scan2_class_def(m) = Mark(m, "scan2") \o ext \o body
  BY <1>6 DEF scan2_class_def, When
<1>8. First(Mark(m, "scan2"), Marker(m, "scan2"))
  BY FirstOne DEF Mark, Do, Marker, Guard
<1>9. IsSeq(ext) /\ IsSeq(body)
  <2>1. Fine(U, "scan2", m, "any", ext)
    BY <1>1, NodeRules, CalmCalls, CommonFacts, AnySteps DEF When
  <2>2. Fine(U, "scan2", m, "any", Try("scan2_class_body", <<m>>))
    BY SpecialCalls, AnySteps
  <2>3. Fine(U, "scan2", m, "any", body)
    BY <1>1, <2>2, PushTypesCalls, AnySteps, OpNames DEF When
  <2> QED  BY <2>1, <2>3 DEF Fine
<1> HIDE DEF ext, body
<1> QED  BY <1>4, <1>6, <1>7, <1>8, <1>9, FirstCat

LEMMA CheckStarts ==
  ASSUME Here, NEW m \in Nodes, Pending(check(m))
  PROVE  ~Marked(m, "check") /\ First(check(m), Marker(m, "check"))
<1> DEFINE F(p) == Fine(U, "traverse", m, "any", p)
<1>1. "traverse" \notin SemaFns /\ "check" \notin SemaFns /\ \A p : F(p) => ~Pending(p)
  <2>1. "check" \notin SemaFns
    BY DEF SemaFns
  <2> QED  BY <2>1, Callers, NonePending
<1>2. N(m).kind # "class" => F(check(m))
  <2>1. /\ F(Try("check_stmt_list", <<m>>)) /\ F(In("check_trait_body", m)) /\ F(In("check_in", m))
        /\ F(check_extend_def(m))
    BY <1>1, Scopes, NodeRules, CalmCalls, CalmSteps, AnySteps, CommonFacts DEF check_extend_def
  <2>2. F(check_fptr_def(m)) /\ F(check_type_def(m)) /\ (N(m).kind = "func" => F(check_func_def(m)))
    BY <1>1, CheckTypes, CheckFunctions, AnySteps
  <2>3. F(<<>>) /\ F(Mark(m, "check")) /\ F(PushType(m) \o Pop)
    BY CalmSteps, AnySteps
  <2>4. F(check_stmt(m)) /\ F(check_exp(m))
    BY <1>1, CheckStatements, CheckExpressions
  <2> HIDE DEF F
  <2> QED  BY <2>1, <2>2, <2>3, <2>4 DEF check, When
<1>3. N(m).kind = "class"
  BY <1>1, <1>2
<1>4. check(m) = check_class_def(m)
  BY <1>3 DEF check, Statements
<1>5. ~Pending(<<>>)
  BY <1>1, AnySteps
<1>6. ~Is(m, "base") /\ ~Marked(m, "check")
  BY <1>4, <1>5 DEF check_class_def, When
<1>7. check_class_def(m) = Mark(m, "check") \o Must("_check_class_def", <<m>>)
  BY <1>6 DEF check_class_def, When
<1>8. First(Mark(m, "check"), Marker(m, "check"))
  BY FirstOne DEF Mark, Do, Marker, Guard
<1>9. IsSeq(Must("_check_class_def", <<m>>))
  BY SpecialCalls DEF Fine
<1> QED  BY <1>4, <1>6, <1>7, <1>8, <1>9, FirstCat

LEMMA FunctionStarts ==
  ASSUME Here, NEW m \in Nodes, Pending(_check_func_def(m))
  PROVE  ~Marked(m, "valid") /\ First(_check_func_def(m), Marker(m, "_check_func_def"))
<1>1. ~Pending(<<>>)
  BY ByStep, AnySteps
<1>2. ~Marked(m, "valid")
  BY <1>1 DEF _check_func_def, When
<1> DEFINE rest == When(~Is(m, "base"),
             When(Is(m, "global"), PushNspc(env.global))
               \o Set("func", m)
               \o Values(Add("effects", 1) \o Try("check_in_types", <<m>>) \o Add("effects", -1))
               \o Back("func")
               \o When(env.class # "" /\ ~Is(m, "global"), Check \o Claim("effects of the override"))
               \o When(Is(m, "new"), Claim("a parent constructor"))
               \o When(Is(m, "global"), Pop))
<1>3. _check_func_def(m) = Mark(m, "valid") \o check_override(m) \o rest
  BY <1>2 DEF _check_func_def, When
<1>4. First(Mark(m, "valid"), Marker(m, "_check_func_def"))
  BY FirstOne DEF Mark, Do, Marker, Guard
<1> DEFINE F(p) == Fine(U, "_check_func_def", m, "any", p)
<1>5. F(check_override(m))
  <2>1. F(Blame("signature")) /\ F(Claim("override"))
    BY CalmSteps, AnySteps
  <2> QED  BY <2>1, AnySteps DEF check_override, When
<1>6. F(rest)
  <2>1. F(Try("check_in_types", <<m>>)) /\ F(Check) /\ F(Claim("effects of the override")) /\ F(Claim("a parent constructor"))
    BY SpecialCalls, CalmSteps, AnySteps
  <2>2. F(Values(Add("effects", 1) \o Try("check_in_types", <<m>>) \o Add("effects", -1)))
    BY <2>1, AnySteps, OpNames DEF Values
  <2>3. /\ F(When(Is(m, "global"), PushNspc(env.global))) /\ F(When(Is(m, "global"), Pop))
        /\ F(When(env.class # "" /\ ~Is(m, "global"), Check \o Claim("effects of the override")))
        /\ F(When(Is(m, "new"), Claim("a parent constructor")))
        /\ F(Set("func", m)) /\ F(Back("func"))
    BY <2>1, AnySteps DEF When
  <2>4. F(<<>>) /\ \A p, q : F(p) /\ F(q) => F(p \o q)
    BY AnySteps
  <2> HIDE DEF F
  <2> QED  BY <2>2, <2>3, <2>4 DEF When
<1>7. IsSeq(check_override(m)) /\ IsSeq(rest)
  BY <1>5, <1>6 DEF Fine
<1> HIDE DEF rest
<1> QED  BY <1>2, <1>3, <1>4, <1>7, FirstCat

LEMMA Starts ==
  ASSUME Here, NEW f \in Starters, NEW m \in Nodes, Pending(Plan(f, m))
  PROVE  ~Marked(m, Guard(f)) /\ First(Plan(f, m), Marker(m, f))
<1>1. CASE f = "scan1"
  BY <1>1, Scan1Starts, PlanNames2 DEF Guard
<1>2. CASE f = "scan2"
  BY <1>2, Scan2Starts, PlanNames2 DEF Guard
<1>3. CASE f = "check"
  BY <1>3, CheckStarts, PlanNames3 DEF Guard
<1>4. CASE f = "_check_func_def"
  BY <1>4, FunctionStarts, PlanNames3, PlanNames4 DEF Guard
<1> QED  BY <1>1, <1>2, <1>3, <1>4 DEF Starters

-----------------------------------------------------------------------------
(* What is walked once.                                                    *)

IsFrame(c) == c = [f |-> c.f, n |-> c.n, mode |-> c.mode, plan |-> c.plan, ok |-> c.ok, was |-> c.was]

(* Frames are of functions that may be called where they are, with what is *)
(* left of their plans, *)
FramesOk ==
  /\ IsSeq(calls)
  /\ \A i \in DOMAIN calls :
       /\ IsFrame(calls[i]) /\ calls[i].f \in Names /\ calls[i].n \in Nodes
       /\ Fine(U, calls[i].f, calls[i].n, "any", calls[i].plan)

(* and the next step of each is the call of the one above it. *)
Calls(c, d) ==
  /\ 1 \in DOMAIN c.plan /\ d.mode \in Called
  /\ c.plan[1][1] = d.mode /\ c.plan[1][2] = d.f /\ c.plan[1][3] = d.n
Linked ==
  /\ \A i \in DOMAIN calls : i = 1 => calls[i].f \in Outer
  /\ \A i, j \in DOMAIN calls : j = i + 1 => Calls(calls[i], calls[j])

(* What has yet to start the body of a definition has marked it, or is     *)
(* about to; and it is the only one.                                       *)
Starter(c) == c.f \in Starters /\ Pending(c.plan)
Waits ==
  \A i \in DOMAIN calls : Starter(calls[i]) =>
    \/ Marked(calls[i].n, Guard(calls[i].f))
    \/ i = Len(calls) /\ 1 \in DOMAIN calls[i].plan /\ calls[i].plan[1] = Marker(calls[i].n, calls[i].f)
Single ==
  \A i, j \in DOMAIN calls :
    i < j /\ Starter(calls[i]) /\ Starter(calls[j]) => <<calls[i].f, calls[i].n>> # <<calls[j].f, calls[j].n>>

Walked == Here /\ units \in Seq(Nodes) /\ FramesOk /\ Linked /\ Waits /\ Single

(* A body is started by its starter, or by what that one has started.      *)
LEMMA StartedOnce ==
  ASSUME Walked
  PROVE  Once
<1>1. Len(calls) \in Nat /\ DOMAIN calls = 1 .. Len(calls)
  BY SeqShape DEF Walked, FramesOk
<1>2. \A j \in DOMAIN calls : calls[j].f \in Special =>
        /\ j - 1 \in DOMAIN calls /\ calls[j-1].f = Caller(calls[j].f) /\ calls[j-1].n = calls[j].n
        /\ Pending(calls[j-1].plan)
  <2> SUFFICES ASSUME NEW j \in DOMAIN calls, calls[j].f \in Special
               PROVE  /\ j - 1 \in DOMAIN calls /\ calls[j-1].f = Caller(calls[j].f) /\ calls[j-1].n = calls[j].n
                      /\ Pending(calls[j-1].plan)
    OBVIOUS
  <2>1. j # 1
    <3>1. \A g \in Special : g \notin Outer
      BY DEF Special, Outer
    <3> QED  BY <3>1 DEF Walked, Linked
  <2>2. j - 1 \in DOMAIN calls /\ j = (j - 1) + 1
    BY <1>1, <2>1
  <2>3. Calls(calls[j-1], calls[j])
    BY <2>2 DEF Walked, Linked
  <2>4. Fine(U, calls[j-1].f, calls[j-1].n, "any", calls[j-1].plan)
    BY <2>2 DEF Walked, FramesOk
  <2> DEFINE c == calls[j-1]
             d == calls[j]
  <2>5. Calls(c, d) /\ Fine(U, c.f, c.n, "any", c.plan) /\ d.f \in Special
    BY <2>3, <2>4
  <2> HIDE DEF c, d
  <2>6. CallOk(U, c.f, c.n, d.f, d.n) /\ Pending(c.plan)
    BY <2>5 DEF Calls, Fine, FineStep, Pending, SpecialStep
  <2>7. c.f = Caller(d.f) /\ c.n = d.n
    BY <2>5, <2>6 DEF CallOk
  <2> QED  BY <2>2, <2>6, <2>7 DEF c, d
<1>3. \A i, j \in DOMAIN calls : i < j /\ calls[i].f \in Special /\ calls[i].f # "check_class_body"
        => <<calls[i].f, calls[i].n>> # <<calls[j].f, calls[j].n>>
  <2> SUFFICES ASSUME NEW i \in DOMAIN calls, NEW j \in DOMAIN calls, i < j,
                      calls[i].f \in Special, calls[i].f # "check_class_body",
                      calls[i].f = calls[j].f, calls[i].n = calls[j].n
               PROVE  FALSE
    OBVIOUS
  <2>1. /\ i - 1 \in DOMAIN calls /\ j - 1 \in DOMAIN calls /\ i - 1 < j - 1
    BY <1>1, <1>2
  <2>2. Caller(calls[i].f) \in Starters
    BY Callers
  <2>3. Starter(calls[i-1]) /\ Starter(calls[j-1])
    BY <1>2, <2>2 DEF Starter
  <2>4. <<calls[i-1].f, calls[i-1].n>> = <<calls[j-1].f, calls[j-1].n>>
    BY <1>2
  <2> QED  BY <2>1, <2>3, <2>4 DEF Walked, Single
<1>4. \A i, j \in DOMAIN calls : i < j /\ calls[i].f = "check_class_body"
        => <<calls[i].f, calls[i].n>> # <<calls[j].f, calls[j].n>>
  <2> SUFFICES ASSUME NEW i \in DOMAIN calls, NEW j \in DOMAIN calls, i < j,
                      calls[i].f = "check_class_body",
                      calls[i].f = calls[j].f, calls[i].n = calls[j].n
               PROVE  FALSE
    OBVIOUS
  <2>1. "check_class_body" \in Special /\ "_check_class_def" \in Special
    BY DEF Special
  <2>2. i - 1 \in DOMAIN calls /\ j - 1 \in DOMAIN calls
    BY <1>2, <2>1
  <2>3. i - 1 < j - 1
    BY <1>1, <2>2
  <2>4. /\ calls[i-1].f = "_check_class_def" /\ calls[j-1].f = "_check_class_def"
        /\ calls[i-1].n = calls[j-1].n
    BY <1>2, <2>1, Callers
  <2> QED  BY <1>3, <2>1, <2>2, <2>3, <2>4
<1>5. Bodies \subseteq Special
  BY DEF Bodies, Special
<1> QED  BY <1>3, <1>4, <1>5 DEF Once

-----------------------------------------------------------------------------
(* What a step leaves of a plan.                                           *)

Advanced(c, d) ==
  /\ IsFrame(d) /\ d.f = c.f /\ d.n = c.n /\ d.mode = c.mode
  /\ d.plan \in {Tail(c.plan), <<>>}

LEMMA TailFacts ==
  ASSUME NEW p, IsSeq(p), 1 \in DOMAIN p
  PROVE  /\ IsSeq(Tail(p)) /\ Len(Tail(p)) = Len(p) - 1
         /\ \A i \in DOMAIN Tail(p) : i + 1 \in DOMAIN p /\ Tail(p)[i] = p[i+1]
<1>1. PICK S : p \in Seq(S)
  BY DEF IsSeq
<1>2. Len(p) \in Nat /\ DOMAIN p = 1 .. Len(p)
  BY SeqShape
<1>3. p # <<>>
  BY <1>2
<1>4. Tail(p) \in Seq(S) /\ Len(Tail(p)) = Len(p) - 1 /\ \A i \in 1 .. Len(Tail(p)) : Tail(p)[i] = p[i+1]
  BY <1>1, <1>3
<1>5. DOMAIN Tail(p) = 1 .. Len(Tail(p))
  BY <1>4
<1> QED  BY <1>2, <1>4, <1>5 DEF IsSeq

LEMMA AdvancedFacts ==
  ASSUME NEW c, NEW d, Advanced(c, d), Fine(U, c.f, c.n, "any", c.plan), 1 \in DOMAIN c.plan
  PROVE  Fine(U, d.f, d.n, "any", d.plan) /\ (Pending(d.plan) => Pending(c.plan))
<1>1. IsSeq(c.plan)
  BY DEF Fine
<1>2. /\ IsSeq(Tail(c.plan)) /\ \A i \in DOMAIN Tail(c.plan) : i + 1 \in DOMAIN c.plan /\ Tail(c.plan)[i] = c.plan[i+1]
  BY <1>1, TailFacts
<1>3. Fine(U, c.f, c.n, "any", Tail(c.plan)) /\ (Pending(Tail(c.plan)) => Pending(c.plan))
  BY <1>2 DEF Fine, Pending
<1>4. Fine(U, c.f, c.n, "any", <<>>) /\ ~Pending(<<>>)
  <2>1. DOMAIN <<>> = {}
    OBVIOUS
  <2> QED  BY <2>1, FineNone DEF Pending
<1> QED  BY <1>3, <1>4 DEF Advanced

(* The frame on top goes on, or the one below it with what it is told.     *)
LEMMA Advance ==
  ASSUME Walked, NEW k \in DOMAIN calls, Advanced(calls[k], calls'[k]), 1 \in DOMAIN calls[k].plan,
         IsSeq(calls'), Len(calls') = k, \A i \in 1 .. k : i # k => calls'[i] = calls[i],
         session' = session, units' = units, marks \subseteq marks',
         calls[k].plan[1] = Marker(calls[k].n, calls[k].f) => <<calls[k].n, Guard(calls[k].f)>> \in marks'
  PROVE  Walked'
<1>1. Len(calls) \in Nat /\ DOMAIN calls = 1 .. Len(calls) /\ DOMAIN calls' = 1 .. k
  BY SeqShape DEF Walked, FramesOk
<1>2. k \in Nat /\ k <= Len(calls) /\ DOMAIN calls' \subseteq DOMAIN calls /\ k \in DOMAIN calls'
  BY <1>1
<1>3. U' = U /\ Nodes' = Nodes /\ Here' /\ (units \in Seq(Nodes))'
  BY DEF Walked, Here, U, Nodes
<1>4. \A i \in DOMAIN calls : /\ IsFrame(calls[i]) /\ calls[i].f \in Names /\ calls[i].n \in Nodes
                              /\ Fine(U, calls[i].f, calls[i].n, "any", calls[i].plan)
  BY DEF Walked, FramesOk
<1>5. /\ Fine(U, calls'[k].f, calls'[k].n, "any", calls'[k].plan)
      /\ Pending(calls'[k].plan) => Pending(calls[k].plan)
      /\ IsFrame(calls'[k]) /\ calls'[k].f = calls[k].f /\ calls'[k].n = calls[k].n /\ calls'[k].mode = calls[k].mode
  BY <1>4, AdvancedFacts DEF Advanced
<1>6. \A i \in DOMAIN calls' : i # k => i \in DOMAIN calls /\ calls'[i] = calls[i]
  BY <1>1, <1>2
<1>7. FramesOk'
  <2>1. \A i \in DOMAIN calls' : /\ IsFrame(calls'[i]) /\ calls'[i].f \in Names /\ calls'[i].n \in Nodes
                                 /\ Fine(U, calls'[i].f, calls'[i].n, "any", calls'[i].plan)
    <3> TAKE i \in DOMAIN calls'
    <3>1. CASE i = k
      BY <3>1, <1>4, <1>5
    <3>2. CASE i # k
      BY <3>2, <1>4, <1>6
    <3> QED  BY <3>1, <3>2
  <2> QED  BY <1>3, <2>1 DEF FramesOk
<1>8. \A i \in DOMAIN calls' : /\ calls'[i].f = calls[i].f /\ calls'[i].n = calls[i].n /\ calls'[i].mode = calls[i].mode
                               /\ Starter(calls'[i]) => Starter(calls[i])
  <2> TAKE i \in DOMAIN calls'
  <2>1. CASE i = k
    BY <2>1, <1>5 DEF Starter
  <2>2. CASE i # k
    BY <2>2, <1>6
  <2> QED  BY <2>1, <2>2
<1>9. Linked'
  <2>1. \A i \in DOMAIN calls' : i = 1 => calls'[i].f \in Outer
    BY <1>2, <1>8 DEF Walked, Linked
  <2>2. \A i, j \in DOMAIN calls' : j = i + 1 => Calls(calls'[i], calls'[j])
    <3> SUFFICES ASSUME NEW i \in DOMAIN calls', NEW j \in DOMAIN calls', j = i + 1
                 PROVE  Calls(calls'[i], calls'[j])
      OBVIOUS
    <3>1. i # k
      BY <1>1
    <3>2. calls'[i] = calls[i] /\ Calls(calls[i], calls[j])
      BY <3>1, <1>2, <1>6 DEF Walked, Linked
    <3>3. calls'[j].f = calls[j].f /\ calls'[j].n = calls[j].n /\ calls'[j].mode = calls[j].mode
      BY <1>8
    <3> QED  BY <3>2, <3>3 DEF Calls
  <2> QED  BY <2>1, <2>2 DEF Linked
<1>10. Single'
  <2>1. \A i, j \in DOMAIN calls' :
          i < j /\ Starter(calls'[i]) /\ Starter(calls'[j]) => <<calls'[i].f, calls'[i].n>> # <<calls'[j].f, calls'[j].n>>
    BY <1>2, <1>8 DEF Walked, Single
  <2> QED  BY <2>1 DEF Single
<1>11. Waits'
  <2>1. \A i \in DOMAIN calls' : Starter(calls'[i]) => <<calls'[i].n, Guard(calls'[i].f)>> \in marks'
    <3> SUFFICES ASSUME NEW i \in DOMAIN calls', Starter(calls'[i])
                 PROVE  <<calls[i].n, Guard(calls[i].f)>> \in marks'
      BY <1>8
    <3>1. Starter(calls[i]) /\ i \in DOMAIN calls
      BY <1>2, <1>8
    <3>2. \/ <<calls[i].n, Guard(calls[i].f)>> \in marks
          \/ i = Len(calls) /\ calls[i].plan[1] = Marker(calls[i].n, calls[i].f)
      BY <3>1 DEF Walked, Waits, Marked
    <3>3. ASSUME i = Len(calls) PROVE i = k
      BY <3>3, <1>1, <1>2
    <3> QED  BY <3>2, <3>3
  <2> QED  BY <2>1 DEF Waits, Marked
<1> QED  BY <1>3, <1>7, <1>9, <1>10, <1>11 DEF Walked

LEMMA AppendFacts ==
  ASSUME NEW s, NEW e, IsSeq(s)
  PROVE  /\ IsSeq(Append(s, e)) /\ Len(Append(s, e)) = Len(s) + 1
         /\ \A i \in 1 .. Len(s) : Append(s, e)[i] = s[i]
         /\ Append(s, e)[Len(s) + 1] = e
<1>1. PICK S : s \in Seq(S)
  BY DEF IsSeq
<1>2. s \in Seq(S \cup {e})
  BY <1>1
<1>3. Append(s, e) \in Seq(S \cup {e}) /\ Len(s) \in Nat
  BY <1>2
<1>4. /\ Len(Append(s, e)) = Len(s) + 1
      /\ \A i \in 1 .. Len(s) : Append(s, e)[i] = s[i]
      /\ Append(s, e)[Len(s) + 1] = e
  BY <1>2, <1>3
<1> QED  BY <1>3, <1>4 DEF IsSeq

LEMMA FrontFacts ==
  ASSUME NEW s, IsSeq(s), s # <<>>
  PROVE  /\ IsSeq(Front(s)) /\ Len(Front(s)) = Len(s) - 1 /\ Len(s) \in Nat \ {0}
         /\ Len(s) \in DOMAIN s /\ Last(s) = s[Len(s)]
         /\ \A i \in 1 .. Len(s) - 1 : Front(s)[i] = s[i]
<1>1. PICK S : s \in Seq(S)
  BY DEF IsSeq
<1>2. Len(s) \in Nat /\ DOMAIN s = 1 .. Len(s) /\ Len(s) # 0
  BY <1>1
<1>3. Front(s) = SubSeq(s, 1, Len(s) - 1) /\ Last(s) = s[Len(s)]
  BY DEF Front, Last
<1>4. /\ Front(s) \in Seq(S) /\ Len(Front(s)) = Len(s) - 1
      /\ \A i \in 1 .. Len(s) - 1 : Front(s)[i] = s[i]
  BY <1>1, <1>2, <1>3
<1> QED  BY <1>2, <1>3, <1>4 DEF IsSeq

LEMMA OneFrame ==
  ASSUME NEW e
  PROVE  IsSeq(<<e>>) /\ DOMAIN <<e>> = {1} /\ <<e>>[1] = e /\ Len(<<e>>) = 1
<1>1. <<e>> \in Seq({e}) /\ DOMAIN <<e>> = {1} /\ <<e>>[1] = e /\ Len(<<e>>) = 1
  OBVIOUS
<1> QED  BY <1>1 DEF IsSeq

(* A function that is called starts no body that is waiting to be started. *)
LEMMA EnterWalked ==
  ASSUME Walked, Enter
  PROVE  Walked'
<1> DEFINE k == Len(calls)
           c == calls[k]
           s == c.plan[1]
           d == [f |-> s[2], n |-> s[3], mode |-> s[1], plan |-> Plan(s[2], s[3]), ok |-> TRUE, was |-> env]
<1>1. IsSeq(calls) /\ calls # <<>> /\ Len(calls) \in Nat \ {0} /\ k \in DOMAIN calls /\ Top = c /\ DOMAIN calls = 1 .. k
  <2>1. IsSeq(calls) /\ calls # <<>>
    BY DEF Walked, FramesOk, Enter
  <2> QED  BY <2>1, FrontFacts, SeqShape DEF Top
<1>2. /\ IsFrame(c) /\ c.f \in Names /\ c.n \in Nodes /\ Fine(U, c.f, c.n, "any", c.plan)
  BY <1>1 DEF Walked, FramesOk
<1>3. c.plan # <<>> /\ s[1] \in Called /\ calls' = Append(calls, d)
  BY <1>1 DEF Enter, Step
<1>4. UNCHANGED <<session, units, env, marks>>
  BY DEF Enter
<1>5. 1 \in DOMAIN c.plan
  <2>1. IsSeq(c.plan)
    BY <1>2 DEF Fine
  <2>2. Len(c.plan) \in Nat /\ DOMAIN c.plan = 1 .. Len(c.plan) /\ c.plan \in Seq({c.plan[i] : i \in DOMAIN c.plan})
    BY <2>1, SeqShape
  <2> QED  BY <2>2, <1>3
<1> HIDE DEF c, k
<1>6. CallOk(U, c.f, c.n, s[2], s[3])
  BY <1>2, <1>3, <1>5 DEF Fine, FineStep
<1>7. s[2] \in Names /\ s[3] \in Nodes /\ Prepare(U.tree, s[2], s[3])
  BY <1>6 DEF CallOk, Nodes, Prepare, Prepared, OfTypes
<1>8. Here
  BY DEF Walked
<1>9. Fine(U, s[2], s[3], "any", Plan(s[2], s[3]))
  BY <1>7, <1>8, Plans DEF Good
<1>10. /\ IsFrame(d) /\ d.f = s[2] /\ d.n = s[3] /\ d.mode = s[1] /\ d.plan = Plan(s[2], s[3])
  BY DEF IsFrame
<1>11. s[1] # "mark"
  BY <1>3 DEF Called
<1> HIDE DEF d
<1>12. /\ IsSeq(calls') /\ Len(calls') = k + 1 /\ DOMAIN calls' = 1 .. k + 1
       /\ (\A i \in 1 .. k : calls'[i] = calls[i]) /\ calls'[k + 1] = d
  BY <1>1, <1>3, AppendFacts, SeqShape DEF k
<1>13. k \in Nat \ {0} /\ DOMAIN calls = 1 .. k /\ c = calls[k]
  BY <1>1 DEF k, c
<1>14. U' = U /\ Nodes' = Nodes /\ Here' /\ (units \in Seq(Nodes))'
  BY <1>4 DEF Walked, Here, U, Nodes
<1>15. FramesOk'
  <2>1. \A i \in DOMAIN calls' : /\ IsFrame(calls'[i]) /\ calls'[i].f \in Names /\ calls'[i].n \in Nodes
                                 /\ Fine(U, calls'[i].f, calls'[i].n, "any", calls'[i].plan)
    <3> TAKE i \in DOMAIN calls'
    <3>1. CASE i = k + 1
      BY <3>1, <1>7, <1>9, <1>10, <1>12
    <3>2. CASE i # k + 1
      <4>1. i \in DOMAIN calls /\ calls'[i] = calls[i]
        BY <3>2, <1>12, <1>13
      <4> QED  BY <4>1 DEF Walked, FramesOk
    <3> QED  BY <3>1, <3>2
  <2> QED  BY <1>12, <1>14, <2>1 DEF FramesOk
<1>16. Linked'
  <2>1. \A i \in DOMAIN calls' : i = 1 => calls'[i].f \in Outer
    BY <1>12, <1>13 DEF Walked, Linked
  <2>2. \A i, j \in DOMAIN calls' : j = i + 1 => Calls(calls'[i], calls'[j])
    <3> SUFFICES ASSUME NEW i \in DOMAIN calls', NEW j \in DOMAIN calls', j = i + 1
                 PROVE  Calls(calls'[i], calls'[j])
      OBVIOUS
    <3>1. CASE i = k
      <4>1. calls'[i] = c /\ calls'[j] = d
        BY <3>1, <1>12, <1>13
      <4> QED  BY <4>1, <1>3, <1>5, <1>10 DEF Calls
    <3>2. CASE i # k
      <4>1. i \in DOMAIN calls /\ j \in DOMAIN calls /\ calls'[i] = calls[i] /\ calls'[j] = calls[j]
        BY <3>2, <1>12, <1>13
      <4> QED  BY <4>1 DEF Walked, Linked
    <3> QED  BY <3>1, <3>2
  <2> QED  BY <2>1, <2>2 DEF Linked
<1>17. \A i \in DOMAIN calls : Starter(calls[i]) => Marked(calls[i].n, Guard(calls[i].f))
  <2> SUFFICES ASSUME NEW i \in DOMAIN calls, Starter(calls[i]), ~Marked(calls[i].n, Guard(calls[i].f)) PROVE FALSE
    OBVIOUS
  <2>1. i = Len(calls) /\ calls[i].plan[1] = Marker(calls[i].n, calls[i].f)
    BY DEF Walked, Waits
  <2>2. s = Marker(c.n, c.f)
    BY <2>1 DEF c, k
  <2> QED  BY <2>2, <1>11 DEF Marker
<1>18. Starter(d) => ~Marked(d.n, Guard(d.f)) /\ 1 \in DOMAIN d.plan /\ d.plan[1] = Marker(d.n, d.f)
  BY <1>7, <1>8, <1>10, Starts DEF Starter, First
<1>19. Waits'
  <2>1. \A i \in DOMAIN calls' : Starter(calls'[i]) =>
          \/ <<calls'[i].n, Guard(calls'[i].f)>> \in marks
          \/ i = k + 1 /\ 1 \in DOMAIN calls'[i].plan /\ calls'[i].plan[1] = Marker(calls'[i].n, calls'[i].f)
    <3> TAKE i \in DOMAIN calls'
    <3>1. CASE i = k + 1
      BY <3>1, <1>12, <1>18
    <3>2. CASE i # k + 1
      <4>1. i \in DOMAIN calls /\ calls'[i] = calls[i]
        BY <3>2, <1>12, <1>13
      <4> QED  BY <4>1, <1>17 DEF Marked
    <3> QED  BY <3>1, <3>2
  <2> QED  BY <2>1, <1>4, <1>12 DEF Waits, Marked
<1>20. Single'
  <2>1. ASSUME NEW i \in DOMAIN calls', NEW j \in DOMAIN calls', i < j, Starter(calls'[i]), Starter(calls'[j]),
               <<calls'[i].f, calls'[i].n>> = <<calls'[j].f, calls'[j].n>>
        PROVE  FALSE
    <3>1. i \in DOMAIN calls /\ calls'[i] = calls[i]
      BY <2>1, <1>12, <1>13
    <3>2. CASE j = k + 1
      <4>1. Marked(calls[i].n, Guard(calls[i].f)) /\ calls'[j] = d
        BY <2>1, <3>1, <3>2, <1>12, <1>17
      <4> QED  BY <2>1, <3>1, <4>1, <1>18
    <3>3. CASE j # k + 1
      <4>1. j \in DOMAIN calls /\ calls'[j] = calls[j]
        BY <3>3, <1>12, <1>13
      <4> QED  BY <2>1, <3>1, <4>1 DEF Walked, Single
    <3> QED  BY <3>2, <3>3
  <2> QED  BY <2>1 DEF Single
<1> QED  BY <1>14, <1>15, <1>16, <1>19, <1>20 DEF Walked

LEMMA CompileWalked ==
  ASSUME Walked, Compile
  PROVE  Walked'
<1> DEFINE u == Head(units)
           d == [f |-> "compile_xid", n |-> u, mode |-> "loose", plan |-> Plan("compile_xid", u), ok |-> TRUE, was |-> env]
<1>1. units \in Seq(Nodes) /\ units # <<>> /\ units' = Tail(units) /\ calls' = <<d>> /\ session' = session
  BY DEF Walked, Compile
<1>2. u \in Nodes /\ Tail(units) \in Seq(Nodes)
  BY <1>1
<1> HIDE DEF u
<1>3. "compile_xid" \in Outer /\ "compile_xid" \in Names /\ "compile_xid" \notin Starters
      /\ Prepare(U.tree, "compile_xid", u)
  BY DEF Outer, Names, Starters, Prepare, Prepared, OfTypes, OfInstances, OfParents, OfDecls, OfTemplates, OfFunctions
<1>4. Here
  BY DEF Walked
<1>5. Fine(U, "compile_xid", u, "any", Plan("compile_xid", u))
  BY <1>2, <1>3, <1>4, Plans DEF Good
<1>6. IsFrame(d) /\ d.f = "compile_xid" /\ d.n = u /\ d.plan = Plan("compile_xid", u)
  BY DEF IsFrame
<1> HIDE DEF d
<1>7. IsSeq(calls') /\ DOMAIN calls' = {1} /\ calls'[1] = d
  BY <1>1, OneFrame
<1>8. U' = U /\ Nodes' = Nodes /\ Here' /\ (units \in Seq(Nodes))'
  BY <1>1, <1>2, <1>4 DEF Here, U, Nodes
<1>9. FramesOk'
  BY <1>2, <1>3, <1>5, <1>6, <1>7, <1>8 DEF FramesOk
<1>10. Linked'
  BY <1>3, <1>6, <1>7 DEF Linked
<1>11. ~Starter(d)
  BY <1>3, <1>6 DEF Starter
<1>12. Waits' /\ Single'
  BY <1>7, <1>11 DEF Waits, Single
<1> QED  BY <1>8, <1>9, <1>10, <1>12 DEF Walked

LEMMA Advances ==
  ASSUME NEW c, IsFrame(c)
  PROVE  /\ Advanced(c, Goes(c)) /\ Advanced(c, Fails(c)) /\ Advanced(c, Stops(c))
         /\ Advanced(c, [c EXCEPT !.plan = <<>>])
<1> DEFINE r == [f |-> c.f, n |-> c.n, mode |-> c.mode, plan |-> c.plan, ok |-> c.ok, was |-> c.was]
<1>1. c = r
  BY DEF IsFrame
<1> DEFINE A(p, o) == [f |-> c.f, n |-> c.n, mode |-> c.mode, plan |-> p, ok |-> o, was |-> c.was]
<1>2. /\ Goes(c) = A(Tail(c.plan), c.ok) /\ Fails(c) = A(Tail(c.plan), FALSE) /\ Stops(c) = A(<<>>, FALSE)
      /\ [c EXCEPT !.plan = <<>>] = A(<<>>, c.ok)
  <2>1. /\ [r EXCEPT !.plan = Tail(@)] = A(Tail(c.plan), c.ok)
        /\ [r EXCEPT !.plan = Tail(@), !.ok = FALSE] = A(Tail(c.plan), FALSE)
        /\ [r EXCEPT !.plan = <<>>, !.ok = FALSE] = A(<<>>, FALSE)
        /\ [r EXCEPT !.plan = <<>>] = A(<<>>, c.ok)
    <3>2. \A q : [r EXCEPT !.plan = q] = A(q, c.ok)
      OBVIOUS
    <3>1. \A q, o : [[r EXCEPT !.plan = q] EXCEPT !.ok = o] = A(q, o)
      <4> TAKE q, o
      <4>1. [A(q, c.ok) EXCEPT !.ok = o] = A(q, o)
        OBVIOUS
      <4> QED  BY <3>2, <4>1
    <3>3. r.plan = c.plan
      OBVIOUS
    <3>4. [r EXCEPT !.plan = Tail(@)] = A(Tail(c.plan), c.ok) /\ [r EXCEPT !.plan = <<>>] = A(<<>>, c.ok)
      BY <3>2, <3>3
    <3>5. /\ [r EXCEPT !.plan = Tail(@), !.ok = FALSE] = [[r EXCEPT !.plan = Tail(r.plan)] EXCEPT !.ok = FALSE]
          /\ [r EXCEPT !.plan = <<>>, !.ok = FALSE] = [[r EXCEPT !.plan = <<>>] EXCEPT !.ok = FALSE]
      OBVIOUS
    <3> QED  BY <3>1, <3>3, <3>4, <3>5
  <2> HIDE DEF r
  <2> QED  BY <1>1, <2>1 DEF Goes, Fails, Stops
<1>3. \A p \in {Tail(c.plan), <<>>} : \A o : Advanced(c, A(p, o))
  BY DEF Advanced, IsFrame
<1> QED  BY <1>2, <1>3

LEMMA TopFacts ==
  ASSUME Walked, calls # <<>>
  PROVE  /\ IsSeq(calls) /\ Len(calls) \in Nat \ {0} /\ Len(calls) \in DOMAIN calls /\ Top = calls[Len(calls)]
         /\ DOMAIN calls = 1 .. Len(calls)
         /\ IsFrame(Top) /\ Top.f \in Names /\ Top.n \in Nodes /\ Fine(U, Top.f, Top.n, "any", Top.plan)
         /\ Top.plan # <<>> => 1 \in DOMAIN Top.plan
<1>1. /\ IsSeq(calls) /\ Len(calls) \in Nat \ {0} /\ Len(calls) \in DOMAIN calls /\ Top = calls[Len(calls)]
      /\ DOMAIN calls = 1 .. Len(calls)
  BY FrontFacts, SeqShape DEF Top, Walked, FramesOk
<1>2. IsFrame(Top) /\ Top.f \in Names /\ Top.n \in Nodes /\ Fine(U, Top.f, Top.n, "any", Top.plan)
  BY <1>1 DEF Walked, FramesOk
<1>3. Top.plan # <<>> => 1 \in DOMAIN Top.plan
  <2>1. IsSeq(Top.plan)
    BY <1>2 DEF Fine
  <2>2. Len(Top.plan) \in Nat /\ DOMAIN Top.plan = 1 .. Len(Top.plan) /\ Top.plan \in Seq({Top.plan[i] : i \in DOMAIN Top.plan})
    BY <2>1, SeqShape
  <2> QED  BY <2>2
<1> QED  BY <1>1, <1>2, <1>3

LEMMA UpdateWalked ==
  ASSUME Walked, calls # <<>>, Top.plan # <<>>, NEW d, Advanced(Top, d), Update(d),
         session' = session, units' = units, marks \subseteq marks',
         Step = Marker(Top.n, Top.f) => <<Top.n, Guard(Top.f)>> \in marks'
  PROVE  Walked'
<1> DEFINE k == Len(calls)
<1>1. /\ IsSeq(calls) /\ k \in Nat \ {0} /\ k \in DOMAIN calls /\ Top = calls[k] /\ DOMAIN calls = 1 .. k
      /\ 1 \in DOMAIN Top.plan
  BY TopFacts
<1>2. /\ IsSeq(Front(calls)) /\ Len(Front(calls)) = k - 1 /\ \A i \in 1 .. k - 1 : Front(calls)[i] = calls[i]
  BY <1>1, FrontFacts
<1>3. calls' = Append(Front(calls), d)
  BY DEF Update
<1>4. /\ IsSeq(calls') /\ Len(calls') = (k - 1) + 1 /\ (\A i \in 1 .. k - 1 : calls'[i] = Front(calls)[i])
      /\ calls'[(k - 1) + 1] = d
  BY <1>2, <1>3, AppendFacts
<1> HIDE DEF k
<1>5. (k - 1) + 1 = k
  BY <1>1
<1>6. IsSeq(calls') /\ Len(calls') = k /\ calls'[k] = d /\ \A i \in 1 .. k : i # k => calls'[i] = calls[i]
  BY <1>1, <1>2, <1>4, <1>5
<1>7. Advanced(calls[k], calls'[k]) /\ 1 \in DOMAIN calls[k].plan
  BY <1>1, <1>6
<1>8. calls[k].plan[1] = Marker(calls[k].n, calls[k].f) => <<calls[k].n, Guard(calls[k].f)>> \in marks'
  BY <1>1 DEF Step
<1> QED  BY <1>1, <1>6, <1>7, <1>8, Advance

LEMMA SkipWalked == ASSUME Walked, Skip PROVE Walked'
<1>1. /\ calls # <<>> /\ Top.plan # <<>> /\ Step[1] \in Called
      /\ Update(IF Counts(Step) THEN Fails(Top) ELSE Goes(Top))
      /\ session' = session /\ units' = units /\ marks \subseteq marks'
  BY DEF Skip
<1>2. Advanced(Top, IF Counts(Step) THEN Fails(Top) ELSE Goes(Top))
  BY <1>1, TopFacts, Advances
<1>3. \A n, f : Step # Marker(n, f)
  BY <1>1 DEF Called, Marker
<1> QED  BY <1>1, <1>2, <1>3, UpdateWalked

LEMMA ChangeWalked == ASSUME Walked, Change PROVE Walked'
<1>1. /\ calls # <<>> /\ Top.plan # <<>> /\ Update(Goes(Top))
      /\ session' = session /\ units' = units /\ marks \subseteq marks'
      /\ Step[1] = "mark" => marks' = marks \cup {Step[2]}
  BY DEF Change
<1>2. Advanced(Top, Goes(Top))
  BY <1>1, TopFacts, Advances
<1>3. Step = Marker(Top.n, Top.f) => <<Top.n, Guard(Top.f)>> \in marks'
  BY <1>1 DEF Marker
<1> QED  BY <1>1, <1>2, <1>3, UpdateWalked

LEMMA JudgeWalked == ASSUME Walked, Judge PROVE Walked'
<1>1. /\ calls # <<>> /\ Top.plan # <<>> /\ Step[1] \in {"check", "refuse", "fail", "verdict"}
      /\ session' = session /\ units' = units /\ marks \subseteq marks'
  BY DEF Judge
<1>2. Update(Goes(Top)) \/ Update(Stops(Top)) \/ Update(Fails(Top))
  BY DEF Judge
<1>3. Advanced(Top, Goes(Top)) /\ Advanced(Top, Stops(Top)) /\ Advanced(Top, Fails(Top))
  BY <1>1, TopFacts, Advances
<1>4. \A n, f : Step # Marker(n, f)
  BY <1>1 DEF Marker
<1> QED  BY <1>1, <1>2, <1>3, <1>4, UpdateWalked

LEMMA HoldWalked == ASSUME Walked, Hold PROVE Walked'
<1>1. /\ calls # <<>> /\ Top.plan # <<>> /\ Step[1] \in Claims /\ Update(Goes(Top))
      /\ session' = session /\ units' = units /\ marks \subseteq marks'
  BY DEF Hold
<1>2. Advanced(Top, Goes(Top))
  BY <1>1, TopFacts, Advances
<1>3. \A n, f : Step # Marker(n, f)
  BY <1>1 DEF Claims, Marker
<1> QED  BY <1>1, <1>2, <1>3, UpdateWalked

LEMMA ErrWalked == ASSUME Walked, Err PROVE Walked'
<1>1. /\ calls # <<>> /\ Top.plan # <<>> /\ Step[1] \in Claims
      /\ session' = session /\ units' = units /\ marks \subseteq marks'
  BY DEF Err
<1>2. Update(Goes(Top)) \/ Update(Stops(Top)) \/ Update(Fails(Top))
  BY DEF Err
<1>3. Advanced(Top, Goes(Top)) /\ Advanced(Top, Stops(Top)) /\ Advanced(Top, Fails(Top))
  BY <1>1, TopFacts, Advances
<1>4. \A n, f : Step # Marker(n, f)
  BY <1>1 DEF Claims, Marker
<1> QED  BY <1>1, <1>2, <1>3, <1>4, UpdateWalked

LEMMA ReturnWalked == ASSUME Walked, Return PROVE Walked'
<1>1. calls # <<>> /\ session' = session /\ units' = units /\ marks \subseteq marks'
  BY DEF Return
<1>2. U' = U /\ Nodes' = Nodes /\ Here' /\ (units \in Seq(Nodes))'
  BY <1>1 DEF Walked, Here, U, Nodes
<1>3. CASE Len(calls) = 1
  <2>1. calls' = <<>>
    BY <1>3 DEF Return
  <2>2. IsSeq(calls') /\ DOMAIN calls' = {}
    BY <2>1, SeqNone
  <2> QED  BY <1>2, <2>2 DEF Walked, FramesOk, Linked, Waits, Single
<1>4. CASE Len(calls) # 1
  <2> DEFINE k == Len(calls) - 1
             d == After(Top.mode, Top.n, Top.ok, Last(Front(calls)))
  <2>1. calls' = Append(Front(Front(calls)), d)
    BY <1>4 DEF Return
  <2>2. /\ IsSeq(calls) /\ Len(calls) \in Nat \ {0} /\ DOMAIN calls = 1 .. Len(calls)
    BY <1>1, TopFacts
  <2>3. k \in Nat \ {0} /\ k \in DOMAIN calls /\ k + 1 \in DOMAIN calls /\ (k - 1) + 1 = k
    BY <2>2, <1>4
  <2>4. IsSeq(Front(calls)) /\ Len(Front(calls)) = k /\ \A i \in 1 .. k : Front(calls)[i] = calls[i]
    BY <1>1, <2>2, FrontFacts
  <2> HIDE DEF k
  <2>5. Front(calls) # <<>>
    BY <2>3, <2>4
  <2>6. /\ IsSeq(Front(Front(calls))) /\ Len(Front(Front(calls))) = k - 1 /\ Last(Front(calls)) = Front(calls)[k]
        /\ \A i \in 1 .. k - 1 : Front(Front(calls))[i] = Front(calls)[i]
    BY <2>4, <2>5, FrontFacts
  <2>7. Last(Front(calls)) = calls[k] /\ \A i \in 1 .. k - 1 : Front(Front(calls))[i] = calls[i]
    BY <2>3, <2>4, <2>6
  <2>8. d \in {Goes(calls[k]), Fails(calls[k]), Stops(calls[k]), [calls[k] EXCEPT !.plan = <<>>]}
    BY <2>7 DEF After
  <2> HIDE DEF d
  <2>9. /\ IsSeq(calls') /\ Len(calls') = (k - 1) + 1
        /\ (\A i \in 1 .. k - 1 : calls'[i] = Front(Front(calls))[i]) /\ calls'[(k - 1) + 1] = d
    BY <2>1, <2>6, AppendFacts
  <2>10. IsSeq(calls') /\ Len(calls') = k /\ calls'[k] = d /\ \A i \in 1 .. k : i # k => calls'[i] = calls[i]
    BY <2>3, <2>7, <2>9
  <2>11. IsFrame(calls[k]) /\ Calls(calls[k], calls[k + 1])
    BY <2>3 DEF Walked, FramesOk, Linked
  <2>12. Advanced(calls[k], calls'[k])
    BY <2>8, <2>10, <2>11, Advances
  <2>13. 1 \in DOMAIN calls[k].plan /\ calls[k].plan[1][1] \in Called
    BY <2>11 DEF Calls
  <2>14. calls[k].plan[1] # Marker(calls[k].n, calls[k].f)
    BY <2>13 DEF Called, Marker
  <2> QED  BY <1>1, <2>3, <2>10, <2>12, <2>13, <2>14, Advance
<1> QED  BY <1>3, <1>4

LEMMA InitWalked == Init => Walked
<1> SUFFICES ASSUME Init PROVE Walked
  OBVIOUS
<1>1. session \in DOMAIN Sessions /\ units = U.units /\ calls = <<>>
  BY DEF Init, U
<1>2. Here /\ units \in Seq(Nodes)
  BY <1>1, SessionsAssumption DEF Here, WellFormed, Nodes, U
<1>3. IsSeq(calls) /\ DOMAIN calls = {}
  BY <1>1, SeqNone
<1> QED  BY <1>2, <1>3 DEF Walked, FramesOk, Linked, Waits, Single

LEMMA NextWalked == Walked /\ [Next]_vars => Walked'
<1> SUFFICES ASSUME Walked, [Next]_vars PROVE Walked'
  OBVIOUS
<1>1. CASE UNCHANGED vars
  BY <1>1 DEF vars, Walked, Here, FramesOk, Linked, Waits, Single, U, Nodes, Marked
<1>2. CASE Done
  BY <1>1, <1>2 DEF Done
<1> QED  BY <1>1, <1>2, CompileWalked, EnterWalked, SkipWalked, ChangeWalked, JudgeWalked, HoldWalked,
            ErrWalked, ReturnWalked DEF Next

(* What mentions itself is walked once, whatever the trees are and however *)
(* many claims fail: scan1_class_def, scan2_class_def, check_class_def and *)
(* check_func_def set the mark of a definition before anything leads back  *)
(* to it, and nothing else starts its body.                                *)
THEOREM BodiesOnce == Spec => []Once
<1>1. Walked => Once
  BY StartedOnce
<1> QED  BY <1>1, InitWalked, NextWalked, PTL DEF Spec
=============================================================================
