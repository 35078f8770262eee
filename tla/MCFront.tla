------------------------------ MODULE MCFront -------------------------------
(* Files for Front. *)
EXTENDS Front

(* What does not leak when it fails: see README, "The front end". *)
Sure == {"as many arguments"}

Named == [kind |-> "type"]
Fun(body, more) == more @@ [kind |-> "func", td |-> <<"tint">>, body |-> body]
Class(body, more) == more @@ [kind |-> "class", body |-> body, owners |-> <<>>, in |-> "u", unit |-> "u"]
Var(td) == [kind |-> "decl", td |-> <<td>>]
Exp(val) == [kind |-> "exp", val |-> val]
Prim(kind) == [kind |-> kind]
File(body) == [kind |-> "unit", body |-> body, space |-> "global u"]
Basic == "tint" :> Named @@ "num" :> Prim("num") @@ "id" :> Prim("id")

(* class:[A] C { A a; fun A f() { return a; } }                            *)
(* class:[A] R { late R:[A] next; }   class F extends C:[int] {}           *)
(* class D { R:[int] d; }                                                  *)
(* C:[int] c; R:[int] r;                                                   *)
Templates ==
  Basic
  @@ "u" :> File(<<"C", "R", "F", "D", "s">>)
  @@ "C" :> Class(<<"C.s", "C.f">>, [flags |-> <<"base">>])
  @@ "C.s" :> [kind |-> "stmts", body |-> <<"C.a">>] @@ "C.a" :> Exp(<<"C.va">>) @@ "C.va" :> Var("tA")
  @@ "tA" :> Named
  @@ "C.f" :> Fun(<<"C.r">>, [owners |-> <<"C">>, td |-> <<"tA">>]) @@ "C.r" :> [kind |-> "return", val |-> <<"id">>]
  @@ "Ci" :> Class(<<"Ci.s", "Ci.f">>, [types |-> <<"tint">>, flags |-> <<"instance">>, ctor |-> <<"Ci.new">>])
  @@ "Ci.s" :> [kind |-> "stmts", body |-> <<"Ci.a">>] @@ "Ci.a" :> Exp(<<"Ci.va">>) @@ "Ci.va" :> Var("tA")
  @@ "Ci.f" :> Fun(<<"Ci.r">>, [owners |-> <<"Ci">>, td |-> <<"tA">>]) @@ "Ci.r" :> [kind |-> "return", val |-> <<"id2">>]
  @@ "id2" :> Prim("id")
  @@ "Ci.new" :> Fun(<<"Ci.a">>, [owners |-> <<"Ci">>, flags |-> <<"ctor">>])
  @@ "R" :> Class(<<"R.s">>, [flags |-> <<"base">>])
  @@ "R.s" :> [kind |-> "stmts", body |-> <<>>]
  @@ "Ri" :> Class(<<"Ri.s">>, [types |-> <<"tint">>, flags |-> <<"instance">>, ctor |-> <<"Ri.new">>])
  @@ "Ri.s" :> [kind |-> "stmts", body |-> <<"Ri.n">>] @@ "Ri.n" :> Exp(<<"Ri.vn">>) @@ "Ri.vn" :> Var("tR2")
  @@ "Ri.new" :> Fun(<<"Ri.n">>, [owners |-> <<"Ri">>, flags |-> <<"ctor">>])
  @@ "tR2" :> [kind |-> "type", to |-> <<"R">>, instance |-> <<"Ri">>, types |-> <<"tA">>, flags |-> <<"late">>]
  @@ "F" :> Class(<<>>, [ext |-> <<"tC1">>])
  @@ "D" :> Class(<<"D.s">>, [ctor |-> <<"D.new">>])
  @@ "D.s" :> [kind |-> "stmts", body |-> <<"D.d">>] @@ "D.d" :> Exp(<<"D.vd">>) @@ "D.vd" :> Var("tR3")
  @@ "D.new" :> Fun(<<"D.d">>, [owners |-> <<"D">>, flags |-> <<"ctor">>])
  @@ "tR3" :> [kind |-> "type", to |-> <<"R">>, instance |-> <<"Ri">>, types |-> <<"tint">>]
  @@ "tC1" :> [kind |-> "type", to |-> <<"C">>, instance |-> <<"Ci">>, types |-> <<"tint">>]
  @@ "tC2" :> [kind |-> "type", to |-> <<"C">>, instance |-> <<"Ci">>, types |-> <<"tint">>]
  @@ "tR" :> [kind |-> "type", to |-> <<"R">>, instance |-> <<"Ri">>, types |-> <<"tint">>]
  @@ "s" :> [kind |-> "stmts", body |-> <<"c", "r">>]
  @@ "c" :> Exp(<<"vc">>) @@ "vc" :> Var("tC2") @@ "r" :> Exp(<<"vr">>) @@ "vr" :> Var("tR")

Node(kind, more) == more @@ [kind |-> kind]
Inst(owners, body, more) ==
  more @@ [kind |-> "func", td |-> <<"tint">>, types |-> <<"tint">>, flags |-> <<"instance">>,
           owners |-> owners, in |-> "u", body |-> body]
Code(body) == [kind |-> "code", body |-> body]

(* fun void f(int n) { while, until, for, foreach, repeat, match }         *)
(* operator functions for conditions                                       *)
Loops ==
  Basic
  @@ "u" :> File(<<"f">>) @@ "n" :> Node("arg", [td |-> <<"tint">>])
  @@ "f" :> Fun(<<"w", "un", "fo", "ea", "re", "ma">>, [args |-> <<"n">>, owners |-> <<>>])
  @@ "w" :> Node("while", [cond |-> <<"wc">>, body |-> <<"wb">>, op |-> <<"op">>]) @@ "wc" :> Prim("id")
  @@ "op" :> Inst(<<>>, <<"opr">>, <<>>) @@ "opr" :> Node("return", [val |-> <<"num">>])
  @@ "wb" :> Code(<<"brk">>) @@ "brk" :> Prim("break")
  @@ "un" :> Node("until", [cond |-> <<"num">>, body |-> <<"con">>]) @@ "con" :> Prim("continue")
  @@ "fo" :> Node("for", [init |-> <<"fi">>, test |-> <<"ft">>, step |-> <<"fs">>, body |-> <<"fb">>])
  @@ "fi" :> Exp(<<"fd">>) @@ "fd" :> Var("tint") @@ "ft" :> Exp(<<"num">>)
  @@ "fs" :> Node("post", [exp |-> <<"num">>]) @@ "fb" :> Exp(<<"num">>)
  @@ "ea" :> Node("each", [exp |-> <<"num">>, body |-> <<"eb">>]) @@ "eb" :> Code(<<>>)
  @@ "re" :> Node("loop", [cond |-> <<"num">>, body |-> <<"eb">>])
  @@ "ma" :> Node("match", [cond |-> <<"num">>, cases |-> <<"ca">>, where |-> <<"fb">>])
  @@ "ca" :> Node("case", [cond |-> <<"num">>, when |-> <<"num">>, body |-> <<"cs">>, equal |-> <<"eq">>])
  @@ "cs" :> Exp(<<"num">>) @@ "eq" :> Node("binary", [lhs |-> <<"num">>, rhs |-> <<"num">>])

(* global fun int f(int n) { if, try, using, return, and what follows it } *)
(* a function with defer; #pragma locale                                   *)
Handlers ==
  Basic
  @@ "u" :> File(<<"f", "dd", "s">>) @@ "n" :> Node("arg", [td |-> <<"tint">>])
  @@ "f" :> Fun(<<"if", "tr", "us", "ret", "late">>, [args |-> <<"n">>, flags |-> <<"global">>])
  @@ "if" :> Node("if", [cond |-> <<"num">>, body |-> <<"ir">>, else_body |-> <<"fb">>])
  @@ "ir" :> Node("return", [val |-> <<"num">>]) @@ "fb" :> Exp(<<"num">>)
  @@ "tr" :> Node("try", [body |-> <<"tb">>, handlers |-> <<"ha">>])
  @@ "tb" :> Code(<<"rt">>) @@ "rt" :> Prim("retry")
  @@ "ha" :> Node("handler", [body |-> <<"hb">>]) @@ "hb" :> Exp(<<"pe">>)
  @@ "pe" :> Node("perform", [flags |-> <<"rethrow">>])
  @@ "us" :> Node("using", [td |-> <<"tint">>])
  @@ "ret" :> Node("return", [val |-> <<"num">>]) @@ "late" :> Exp(<<"num">>)
  @@ "dd" :> Fun(<<"de">>, [owners |-> <<>>]) @@ "de" :> Node("defer", [body |-> <<"fb">>])
  @@ "s" :> [kind |-> "stmts", body |-> <<"pp">>]
  @@ "pp" :> Node("pp", [locale |-> <<"eq">>]) @@ "eq" :> Node("binary", [lhs |-> <<"num">>, rhs |-> <<"num">>])

(* A template of a function that calls itself, and one with a spread.      *)
Generics ==
  Basic
  @@ "u" :> File(<<"b", "v", "s">>)
  @@ "b" :> Fun(<<"br">>, [flags |-> <<"base">>, owners |-> <<>>]) @@ "br" :> Prim("break")
  @@ "bi" :> Inst(<<>>, <<"bs">>, <<>>) @@ "bs" :> Exp(<<"bc">>)
  @@ "bc" :> Node("call", [func |-> <<"id">>, args |-> <<"num">>, types |-> <<"tint">>, instance |-> <<"bi">>])
  @@ "v" :> Fun(<<"sp">>, [flags |-> <<"base", "variadic">>])
  @@ "sp" :> Node("spread", [body |-> <<>>, expansions |-> <<>>])
  @@ "vi" :> Inst(<<>>, <<"si">>, [flags |-> <<"instance", "variadic">>])
  @@ "si" :> Node("spread", [body |-> <<>>, expansions |-> <<"x1", "x2">>])
  @@ "x1" :> Exp(<<"num">>) @@ "x2" :> Exp(<<"xd">>) @@ "xd" :> Var("tint")
  @@ "s" :> [kind |-> "stmts", body |-> <<"s1", "s2">>]
  @@ "s1" :> Exp(<<"k1">>) @@ "k1" :> Node("call", [func |-> <<"i1">>, args |-> <<"num">>, instance |-> <<"bi">>])
  @@ "s2" :> Exp(<<"k2">>) @@ "k2" :> Node("call", [func |-> <<"i1">>, args |-> <<"num">>, instance |-> <<"vi">>])
  @@ "i1" :> Prim("id")

(* auto and global variables, a construction, and what is made of others   *)
Expressions ==
  Basic
  @@ "u" :> File(<<"K", "s">>)
  @@ "K" :> Class(<<"k">>, <<>>) @@ "k" :> Fun(<<"kr">>, [owners |-> <<"K">>, flags |-> <<"new">>])
  @@ "kr" :> Prim("return")
  @@ "tK" :> Node("type", [to |-> <<"K">>]) @@ "tG" :> Node("type", [array |-> <<"num">>])
  @@ "s" :> [kind |-> "stmts", body |-> <<"a", "b", "c", "d", "e">>]
  @@ "a" :> Exp(<<"va">>) @@ "va" :> Node("decl", [td |-> <<"tint">>, flags |-> <<"auto">>])
  @@ "b" :> Exp(<<"vb">>) @@ "vb" :> Node("decl", [td |-> <<"tG">>, flags |-> <<"global">>])
  @@ "c" :> Exp(<<"vc">>) @@ "vc" :> Node("decl", [td |-> <<"tK">>, args |-> <<"num">>, new |-> <<"cn">>])
  @@ "cn" :> Node("new", [td |-> <<"tK">>, call |-> <<"cc">>])
  @@ "cc" :> Node("call", [func |-> <<"cd">>, args |-> <<"num">>]) @@ "cd" :> Node("dot", [base |-> <<"num">>])
  @@ "d" :> Exp(<<"dr">>) @@ "dr" :> Node("array_lit", [exps |-> <<"rg", "sl">>])
  @@ "rg" :> Node("range", [start |-> <<"num">>, end |-> <<"num">>])
  @@ "sl" :> Node("slice", [base |-> <<"num">>, start |-> <<"num">>, end |-> <<"num">>])
  @@ "e" :> Exp(<<"ei">>) @@ "ei" :> Node("if_exp", [cond |-> <<"ec">>, else_exp |-> <<"ew">>])
  @@ "ec" :> Node("cast", [td |-> <<"tint">>, exp |-> <<"num">>])
  @@ "ew" :> Node("array", [base |-> <<"num">>, exps |-> <<"num">>])

(* Calls of a lambda and of a part of a function, a spork, and the rest.   *)
Calls ==
  Basic
  @@ "u" :> File(<<"s">>)
  @@ "s" :> [kind |-> "stmts", body |-> <<"f", "g", "h">>]
  @@ "f" :> Exp(<<"fc">>) @@ "fc" :> Node("binary", [lhs |-> <<"fl">>, rhs |-> <<"fr">>])
  @@ "fl" :> Node("call", [func |-> <<"lam">>, args |-> <<"num">>, def |-> <<"ld">>])
  @@ "lam" :> Node("lambda", [def |-> <<"ld">>]) @@ "ld" :> Fun(<<"lr">>, [owners |-> <<>>])
  @@ "lr" :> Node("return", [val |-> <<"num">>])
  @@ "fr" :> Node("call", [func |-> <<"id">>, args |-> <<"num">>, def |-> <<"pd">>, flags |-> <<"partial">>])
  @@ "pd" :> Fun(<<"lr">>, [owners |-> <<>>])
  @@ "g" :> Exp(<<"gs">>) @@ "gs" :> Node("spork", [body |-> <<"g1">>]) @@ "g1" :> Exp(<<"gd">>) @@ "gd" :> Var("tint")
  @@ "h" :> Exp(<<"hb">>) @@ "hb" :> Node("interp", [exps |-> <<"h1", "h2", "h3">>])
  @@ "h1" :> Node("unary", [exp |-> <<"hn">>]) @@ "hn" :> Node("named", [exp |-> <<"num">>])
  @@ "h2" :> Node("td", [td |-> <<"tint">>])
  @@ "h3" :> Node("id", [becomes |-> <<"num">>])

(* In one file: what else is declared, global where it may be.             *)
(* In the next: classes in classes, a template and a function template in  *)
(* a class, reached from outside.                                          *)
Declared ==
  Basic
  @@ "u" :> File(<<"E", "U", "P", "S", "W", "T", "X", "Q", "z">>)
  @@ "E" :> Node("enum", [flags |-> <<"global">>])
  @@ "U" :> Node("union", [members |-> <<"m">>, flags |-> <<"global">>]) @@ "m" :> Node("member", [td |-> <<"tint">>])
  @@ "P" :> Node("fptr", [cdef |-> <<"Pc">>, td |-> <<"tint">>])
  @@ "Pc" :> Class(<<"pf">>, <<>>)
  @@ "pf" :> Fun(<<>>, [owners |-> <<"Pc">>, flags |-> <<"abstract">>])
  @@ "S" :> Node("typedef", [ext |-> <<"tint">>])
  @@ "W" :> Node("typedef", [ext |-> <<"tint">>, when |-> <<"wn">>, cdef |-> <<"Wc">>, when_def |-> <<"wd">>])
  @@ "wn" :> Prim("id") @@ "Wc" :> Class(<<>>, [ext |-> <<"tint">>]) @@ "wd" :> Fun(<<"wr">>, [owners |-> <<>>])
  @@ "wr" :> Node("return", [val |-> <<"num">>])
  @@ "T" :> Node("trait", [body |-> <<>>, exps |-> <<"te">>]) @@ "te" :> Var("tint")
  @@ "X" :> Node("extend", [td |-> <<"tint">>]) @@ "Q" :> Prim("prim")
  @@ "z" :> Fun(<<"zr">>, [args |-> <<"za">>, flags |-> <<"global">>, shorter |-> <<"z0">>])
  @@ "za" :> Node("arg", [td |-> <<"tint">>, default |-> <<"num">>]) @@ "zr" :> Node("return", [val |-> <<"num">>])
  @@ "z0" :> Fun(<<"zr">>, [flags |-> <<"global">>])

Nested ==
  Basic
  @@ "u" :> File(<<"O", "A", "s">>)
  @@ "O" :> Class(<<"I", "J", "V", "h">>, [flags |-> <<"global">>])
  @@ "I" :> Class(<<"i">>, [owners |-> <<"O">>]) @@ "i" :> Fun(<<"ir">>, [owners |-> <<"I", "O">>])
  @@ "ir" :> Node("return", [val |-> <<"num">>])
  @@ "J" :> Class(<<>>, [owners |-> <<"O">>, flags |-> <<"base">>, in |-> "O"])
  @@ "Ji" :> Class(<<"j">>, [owners |-> <<"O">>, flags |-> <<"instance">>, types |-> <<"tint">>, in |-> "O",
                            consts |-> <<"jc">>])
  @@ "jc" :> Var("tint") @@ "j" :> Fun(<<"ir">>, [owners |-> <<"Ji", "O">>])
  @@ "V" :> Node("union", [members |-> <<"m">>, flags |-> <<"base">>, owners |-> <<"O">>, in |-> "O"])
  @@ "Vi" :> Node("union", [members |-> <<"m">>, types |-> <<"tint">>, owners |-> <<"O">>, in |-> "O",
                            unit |-> "u"])
  @@ "m" :> Node("member", [td |-> <<"tint">>])
  @@ "h" :> Fun(<<>>, [owners |-> <<"O">>, flags |-> <<"base">>])
  @@ "hi" :> Inst(<<"O">>, <<"hc">>, <<>>) @@ "hc" :> Code(<<"hr">>) @@ "hr" :> Node("return", [val |-> <<"num">>])
  @@ "A" :> Class(<<>>, [ext |-> <<"tJ">>, traits |-> <<"T">>, sizes |-> <<"num">>])
  @@ "tO" :> Node("type", [to |-> <<"O">>])
  @@ "tJ" :> Node("type", [outer |-> <<"tO">>, next |-> <<"tJi">>])
  @@ "tJi" :> Node("type", [to |-> <<"J">>, instance |-> <<"Ji">>, types |-> <<"tint">>])
  @@ "tV" :> Node("type", [outer |-> <<"tO">>, next |-> <<"tVi">>])
  @@ "tVi" :> Node("type", [to |-> <<"V">>, instance |-> <<"Vi">>, types |-> <<"tint">>])
  @@ "tP" :> Node("type", [fptr |-> <<"P">>, names |-> <<"tint">>])
  @@ "P" :> Node("fptr", [cdef |-> <<"Pc">>, td |-> <<"tint">>]) @@ "Pc" :> Class(<<>>, <<>>)
  @@ "s" :> [kind |-> "stmts", body |-> <<"a", "d", "b", "c">>]
  @@ "a" :> Exp(<<"va">>) @@ "va" :> Var("tV") @@ "d" :> Exp(<<"vd">>) @@ "vd" :> Var("tJ2")
  @@ "tJ2" :> Node("type", [outer |-> <<"tO">>, next |-> <<"tJi">>]) @@ "b" :> Exp(<<"vb">>) @@ "vb" :> Var("tP")
  @@ "c" :> Exp(<<"cc">>)
  @@ "cc" :> Node("call", [func |-> <<"cd">>, args |-> <<"num">>, types |-> <<"tint">>, instance |-> <<"hi">>])
  @@ "cd" :> Node("dot", [base |-> <<"num">>])

(* Two files: what the second finds of the first is what is global there.  *)
Two ==
  Basic
  @@ "u" :> File(<<"g">>) @@ "g" :> Fun(<<"r">>, [flags |-> <<"global">>])
  @@ "r" :> Node("return", [val |-> <<"num">>])
  @@ "v" :> [kind |-> "unit", body |-> <<"s">>, space |-> "global v"]
  @@ "s" :> [kind |-> "stmts", body |-> <<"a">>] @@ "a" :> Exp(<<"va">>)
  @@ "va" :> Node("decl", [td |-> <<"tint">>, flags |-> <<"global">>])

(* fun int f() { defer 1; return 1; }                                      *)
Late ==
  Basic
  @@ "u" :> File(<<"f">>) @@ "f" :> Fun(<<"de", "ret">>, [owners |-> <<>>])
  @@ "de" :> Node("defer", [body |-> <<"e">>]) @@ "e" :> Exp(<<"num">>)
  @@ "ret" :> Node("return", [val |-> <<"num">>])

LateSession == LET t == Late IN [late |-> [tree |-> t, units |-> <<"u">>, sure |-> Sure]]

AllSessions ==
  LET one(tree, sure) == [tree |-> tree, units |-> <<"u">>, sure |-> Sure \cup sure]
  IN  [templates |-> one(Templates, {}), loops |-> one(Loops, {}), handlers |-> one(Handlers, {}),
       generics |-> one(Generics, {}), expressions |-> one(Expressions, {}), calls |-> one(Calls, {}),
       declared |-> one(Declared, {"new type", "new name", "new names"}),
       nested |-> one(Nested, {"not inside itself", "literal size", "new type", "new name", "known type",
                               "number of arguments", "requested traits", "not reserved"}),
       two |-> [tree |-> Two, units |-> <<"u", "v">>, sure |-> Sure]]
=============================================================================
