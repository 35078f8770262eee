------------------------------ MODULE Meaning ------------------------------
(***************************************************************************)
(* What a program means, from its statements: what it prints, for the      *)
(* answers of its maybes, and how it ends.  This is the promise that the   *)
(* emitter, the bytecode and the VM keep together.                         *)
(*                                                                         *)
(* A state s has the functions (defs: name -> [args, body, ret, memo]),    *)
(* the calls that are open (depth), the answers that are left (bits), what *)
(* is printed (out), how control goes on (how: "run", "break", "continue", *)
(* "return", "retry", "effect", or "cut" where the answers end), the loops *)
(* that a jump still has to leave (n), the effect, the value, and the      *)
(* variables with their values (env).                                      *)
(***************************************************************************)
EXTENDS Integers, SequencesExt

CONSTANTS Deepest,        \* the number of calls that fit in one another
          StackOverflow   \* the effect of one more

On(s) == s.how = "run"
Go(s) == [s EXCEPT !.how = "run"]
Value(s, v) == [s EXCEPT !.val = v]
Find(env, v) == SelectSeq(env, LAMBDA p : p[1] = v)[1][2]
Bind(s, v, x) == [s EXCEPT !.env = <<<<v, x>>>> \o @]
(* A block ends the life of its variables.                                 *)
Scope(s, t) == [t EXCEPT !.env = SubSeq(@, Len(@) - Len(s.env) + 1, Len(@))]

(* What a statement or an expression does. *)
RECURSIVE Do(_, _)

(* The values of expressions, one after the other.                         *)
DoAll(s, xs) ==
  LET Next(m, x) == LET t == Do(m.s, x) IN [s |-> t, vals |-> Append(m.vals, t.val)]
  IN  FoldLeft(Next, [s |-> s, vals |-> <<>>], xs)

(* What is deferred runs at the end of its scope, last first, however the  *)
(* scope ends, an effect and the end of the answers excepted.              *)
List(s, stmts) ==
  LET Step(m, st) ==
        IF ~On(m.s) THEN m
        ELSE IF st.t = "defer" THEN [m EXCEPT !.defer = <<st.exp>> \o @]
        ELSE [m EXCEPT !.s = Do(m.s, st)]
      end == FoldLeft(Step, [s |-> s, defer |-> <<>>], stmts)
      Late(t, x) == LET u == Do(Go(t), x) IN IF On(u) THEN [u EXCEPT !.how = t.how] ELSE u
  IN  IF end.s.how \in {"effect", "cut"} THEN end.s ELSE FoldLeft(Late, end.s, end.defer)

Choose(s, cond, then, else) ==
  LET c == Do(s, cond)
  IN  IF ~On(c) THEN c ELSE Do(c, IF c.val # 0 THEN then ELSE else)

Invoke(s, f, args) ==
  LET all == DoAll(s, args)
      d == s.defs[f]
      env == [k \in DOMAIN d.args |-> <<d.args[k], all.vals[k]>>]
      r == List([all.s EXCEPT !.env = env, !.depth = @ + 1], d.body)
  IN  IF ~On(all.s) THEN all.s
      ELSE IF s.depth = Deepest THEN [all.s EXCEPT !.how = "effect", !.eff = StackOverflow]
      ELSE [r EXCEPT !.env = s.env, !.depth = s.depth,
                     !.how = IF @ = "return" THEN "run" ELSE @]

(* A jump out of n loops, met at the end of a round of one.                *)
Again(s) == On(s) \/ (s.how = "continue" /\ s.n = 1)
Left(s) ==
  CASE s.how = "break" /\ s.n = 1 -> Go(s)
    [] s.how \in {"break", "continue"} /\ s.n > 1 -> [s EXCEPT !.n = @ - 1]
    [] OTHER -> s

(* A round of a loop: the condition, the body, the action.                 *)
While(s, loop) ==
  LET c == Do(s, loop.cond)
      body == Scope(s, Do(c, loop.body))
  IN  IF ~On(c) \/ (c.val # 0) # loop.while THEN c
      ELSE IF Again(body) THEN Do(Do(Go(body), loop.c3), loop) ELSE Left(body)

(* A continue of do starts the next round, and asks for no condition.      *)
DoWhile(s, loop) ==
  LET body == Scope(s, Do(s, loop.body))
      c == Do(body, loop.cond)
  IN  IF ~On(body) THEN IF Again(body) THEN Do(Go(body), loop) ELSE Left(body)
      ELSE IF On(c) /\ (c.val # 0) = loop.while THEN Do(c, loop) ELSE c

(* A round for each of the items: those of repeat are counted.             *)
Counted(s, v, items, body) ==
  LET Round(m, x) ==
        LET t == Scope(m.s, Do(IF v = "" THEN m.s ELSE Bind(m.s, v, x), body))
        IN  IF m.end THEN m
            ELSE IF Again(t) THEN [m EXCEPT !.s = Go(t)] ELSE [s |-> Left(t), end |-> TRUE]
  IN  FoldLeft(Round, [s |-> s, end |-> ~On(s)], items).s

(* The first case whose value is the one of the base, and whose condition  *)
(* holds; the base is asked again for every case.                          *)
Match(s, base, cases) ==
  LET Case(m, c) ==
        LET b == Do(m.s, base)
            v == Do(b, c.value)
            w == IF b.val = v.val THEN Do(v, c.when) ELSE v
            met == b.val = v.val /\ (c.when.t = "none" \/ w.val # 0)
        IN  IF m.end THEN m
            ELSE [s |-> IF On(w) /\ met THEN List(w, c.list) ELSE w, end |-> ~On(w) \/ met]
  IN  FoldLeft(Case, [s |-> s, end |-> FALSE], cases).s

(* The first handler that names the effect, or that names none.            *)
Try(s, st) ==
  LET t == Do(s, st.body)
      mine == SelectSeq(st.handlers, LAMBDA h : h.tag \in {0, t.eff})
      h == Do([Go(t) EXCEPT !.env = s.env], mine[1].body)
  IN  IF t.how # "effect" \/ mine = <<>> THEN t
      ELSE IF h.how = "retry" THEN Do(Go(h), st) ELSE h

Do(s, n) ==
  IF ~On(s) THEN s
  ELSE CASE n.t = "none" -> s
         [] n.t = "num" -> Value(s, n.n)
         [] n.t \in {"var", "member"} -> Value(s, Find(s.env, n.v))
         [] n.t = "new" -> Bind(s, n.v, n.field)
         [] n.t = "maybe" ->
              IF s.bits = <<>> THEN [s EXCEPT !.how = "cut"]
              ELSE [s EXCEPT !.val = Head(s.bits), !.bits = Tail(@)]
         [] n.t = "out" ->
              LET t == Do(s, n.exp) IN IF On(t) THEN [t EXCEPT !.out = Append(@, t.val)] ELSE t
         [] n.t = "array" ->
              LET all == DoAll(s, n.elems) IN [all.s EXCEPT !.list = all.vals]
         [] n.t = "perform" -> [s EXCEPT !.how = "effect", !.eff = n.effect]
         [] n.t = "choose" -> Choose(s, n.cond, n.then, n.else)
         [] n.t = "call" -> Invoke(s, n.f, n.args)
         [] n.t = "exp" -> Do(s, n.exp)
         [] n.t = "block" -> Scope(s, List(s, n.list))
         [] n.t = "if" -> Scope(s, Choose(s, n.cond, n.then, n.else))
         [] n.t = "flow" -> IF n.do THEN DoWhile(s, n) ELSE While(s, [c3 |-> [t |-> "none"]] @@ n)
         [] n.t = "rounds" -> While(s, n)
         [] n.t = "for" ->
              Scope(s, Do(Do(s, n.c1), [n EXCEPT !.t = "rounds"] @@
                                       [while |-> TRUE, cond |-> n.c2]))
         [] n.t = "loop" ->
              LET c == Do(s, n.cond)
              IN  Counted(c, n.idx, [k \in 1 .. c.val |-> k - 1], n.body)
         [] n.t = "each" -> LET c == Do(s, n.exp) IN Counted(c, n.v, c.list, n.body)
         [] n.t = "match" -> Match(s, n.base, n.cases)
         [] n.t \in {"break", "continue"} -> [s EXCEPT !.how = n.t, !.n = n.n]
         [] n.t = "return" -> LET v == Do(s, n.exp) IN IF On(v) THEN [v EXCEPT !.how = "return"] ELSE v
         [] n.t = "try" -> Try(s, n)
         [] n.t = "retry" -> [s EXCEPT !.how = "retry"]

(* A program from its start, for the answers of its maybes.                *)
Program(p, answers) ==
  List([defs |-> p.defs, depth |-> 0, bits |-> answers, out |-> <<>>, how |-> "run", n |-> 0,
        eff |-> 0, val |-> 0, list |-> <<>>, env |-> <<>>], p.main)
=============================================================================
