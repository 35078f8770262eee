------------------------------ MODULE Emitter ------------------------------
(***************************************************************************)
(* The emitter of emit/emit.c: from statements and expressions to the list *)
(* of instructions of a function, with the jumps, the scopes, the locals   *)
(* and the values that unwinding releases.                                 *)
(*                                                                         *)
(* Programs are trees of records, and t is the kind of one.  Values are a  *)
(* word long; so is the frame of a call.  An emitter e is a Code with its  *)
(* Frame (emit.h).                                                         *)
(***************************************************************************)
EXTENDS Bytecode

FRAME == 1

None == [t |-> "none"]
Exp(x) == [t |-> "exp", exp |-> x]
Num(n) == [t |-> "num", n |-> n]
Maybe == [t |-> "maybe"]
Call(f, args) == [t |-> "call", f |-> f, args |-> args]
Var(v) == [t |-> "var", v |-> v]

(* An instruction has a third operand: how far a call moves the frame.     *)
I(op, a, b) == [op |-> op, a |-> a, b |-> b, c |-> 0]
Add(e, op, a, b) == [e EXCEPT !.code = Append(@, I(op, a, b))]
Size(e) == Len(e.code)
(* The target of the instruction at index i. *)
Target(e, i, pc) == [e EXCEPT !.code[i + 1].a = pc]
Targets(e, is, pc) == FoldSet(LAMBDA i, f : Target(f, i, pc), e, is)
regmove(e, n) == Add(e, "RegMove", n, 0)
pushimm(e, n) == Add(e, "RegPushImm", n, 0)

(* NULL, in the vectors of jumps, locals and deferred statements. *)
Mark == -1
Bottom == [off |-> Mark, obj |-> FALSE, skip |-> FALSE]

new_code(f, sig) ==
  [code |-> <<>>, stack |-> <<>>, defer |-> <<>>, vals |-> <<>>, count |-> 0,
   off |-> 0, cont |-> <<>>, brk |-> <<>>, ret |-> <<>>, top |-> 0,
   vars |-> <<>>, fn |-> f, sig |-> sig, ok |-> TRUE]

-----------------------------------------------------------------------------
(* Locals and scopes.                                                      *)

frame_push(e) == [e EXCEPT !.stack = Append(@, Bottom), !.defer = Append(@, None)]

frame_local(e, obj, skip) ==
  [e EXCEPT !.stack = Append(@, [off |-> e.off, obj |-> obj, skip |-> skip]),
            !.off = @ + 1]
localn(e) == frame_local(e, FALSE, TRUE)
local(e, obj) ==
  IF ~obj THEN frame_local(e, FALSE, FALSE)
  ELSE [frame_local(e, TRUE, FALSE) EXCEPT
          !.vals = Append(@, [off |-> e.off, start |-> Size(e), end |-> 0]),
          !.count = @ + 1]
localx(e) == Add(local(e, TRUE), "RegToMem", e.off, -1)

(* A slip: the offset of what leaves the scope is not given back. *)
SlipFramePop(e) ==
  LET top == Max({k \in DOMAIN e.stack : e.stack[k] = Bottom})
      gone == Reverse(SubSeq(e.stack, top + 1, Len(e.stack)))
      objs == SelectSeq(gone, LAMBDA l : l.obj)
  IN  [e |-> [e EXCEPT !.stack = SubSeq(@, 1, top - 1), !.count = @ - Len(objs)],
       offs |-> [k \in DOMAIN objs |-> objs[k].off]]

(* _frame_pop, until it meets the bottom of the scope: the locals go, last *)
(* first.  The end of a value is written at its place in the count of the  *)
(* values that are alive.                                                  *)
FramePop(e) ==
  LET top == Max({k \in DOMAIN e.stack : e.stack[k] = Bottom})
      gone == Reverse(SubSeq(e.stack, top + 1, Len(e.stack)))
      objs == SelectSeq(gone, LAMBDA l : l.obj)
      ended == e.count - Len(objs) + 1 .. e.count
  IN  [e |-> [e EXCEPT !.stack = SubSeq(@, 1, top - 1), !.off = @ - Len(gone),
                       !.count = @ - Len(objs),
                       !.vals = [k \in DOMAIN @ |-> IF k \in ended
                                   THEN [@[k] EXCEPT !.end = Size(e)] ELSE @[k]]],
       offs |-> [k \in DOMAIN objs |-> objs[k].off]]

Release(popped) ==
  IF popped.offs = <<>> THEN popped.e
  ELSE LET n == Len(popped.offs)
           r == I("ObjectRelease", IF n = 1 THEN popped.offs[1] ELSE 1, 0)
       IN  [popped.e EXCEPT !.code = Append(@, r @@ [f |-> popped.offs])]

(* emit_jump_index: where in a vector the jump out of n loops goes.  Room  *)
(* is made at the end, and counts as the innermost loop.  -2 stands for    *)
(* the jump.                                                               *)
JumpIndex(v, n) ==
  LET room == Append(v, Mark)
      marks == {i \in 3 .. Len(room) : room[i] = Mark}
      at == {i \in marks : Cardinality({k \in marks : k >= i}) = n - 1}
  IN  IF at = {} THEN <<>>
      ELSE LET i == Max(at)
           IN  [k \in DOMAIN room |-> IF k = i - 1 THEN -2
                                      ELSE IF k > i THEN room[k - 1] ELSE room[k]]

Placed(v, jump) == [k \in DOMAIN v |-> IF v[k] = -2 THEN jump ELSE v[k]]
Jumped(v, n, jump) == IF n = 1 THEN Append(v, jump) ELSE Placed(JumpIndex(v, n), jump)

(* set_pcs: the jumps of the innermost loop, and the vector without them. *)
Inner(v) ==
  LET m == Max({k \in DOMAIN v : v[k] = Mark})
  IN  [jumps |-> {v[k] : k \in m + 1 .. Len(v)}, left |-> SubSeq(v, 1, m - 1)]

push_stack(e) ==
  [frame_push(e) EXCEPT !.cont = Append(@, Mark), !.brk = Append(@, Mark)]

-----------------------------------------------------------------------------
(* Expressions.                                                            *)

Void(e, x) == x.t = "perform" \/ (x.t = "call" /\ e.sig[x.f].ret = 0)

(* What a call passes becomes the first words of its frame.                *)
emit_args(e, n) ==
  CASE n = 0 -> e
    [] n = 1 -> Add(e, "RegToMem", 0, 0)
    [] n > 1 -> Add(e, "RegToMem4", 0, n)

(* Recurs for the function itself, SetCode for another, whose code is on   *)
(* the stack; b is how far behind it the call returns.                     *)
get_prelude(e, f) ==
  LET n == e.sig[f].args
      set == Add(e, IF f = e.fn THEN "Recurs" ELSE "SetCode",
                 IF f = e.fn THEN -n ELSE -n - 1, IF n = 0 THEN 1 ELSE 2)
  IN  [set EXCEPT !.code[Size(set)].c = e.off + FRAME]

call_finish(e, f) ==
  LET set == get_prelude(Add(e, "RegSetImm", e.off, 0), f)
  IN  Add(emit_args(set, e.sig[f].args), "Overflow", 0, e.off)

(* @conditional, or @unconditional *)
Branch(e, if) == Add(e, IF if THEN "BranchEqInt" ELSE "BranchNeqInt", 0, 0)

(* emit_exp_if gives back what an expression has taken of the frame. *)
Restored(e, f) ==
  [f EXCEPT !.off = e.off, !.count = e.count,
            !.vals = SubSeq(@, 1, Len(e.vals)), !.stack = SubSeq(@, 1, Len(e.stack))]

(* Statements and expressions.                                             *)
RECURSIVE Emit(_, _)
EmitAll(e, nodes) == FoldLeft(LAMBDA f, n : Emit(f, n), e, nodes)

(* What a branch takes of the frame is free again in the other.            *)
emit_exp_if(e, x) ==
  LET ask == Branch(Add(Emit(local(e, FALSE), x.cond), "NoOp", 0, 0), TRUE)
      yes == Add(Restored(ask, Emit(ask, x.then)), "Goto", 0, 0)
      no == Restored(ask, Emit(Target(yes, Size(ask) - 1, Size(yes)), x.else))
  IN  Target(no, Size(yes) - 1, Size(no))

emit_exp_call(e, x) ==
  LET args == EmitAll(e, x.args)
      code == [args EXCEPT !.code = Append(@, I("SetFunc", 0, 0) @@ [f |-> x.f])]
  IN  call_finish(IF x.f = e.fn THEN args ELSE code, x.f)

(* new object @=> v: an object, and the variable it is assigned to.  The   *)
(* class says what its field holds.                                        *)
emit_decl(e, x) ==
  LET new == Add(e, "ObjectInstantiate", x.field, 0)
      at == Add(local(new, TRUE), "RegPushMem4", new.off, 0)
  IN  Add([at EXCEPT !.vars = <<<<x.v, new.off>>>> \o @], "Assign", 0, 0)

(* The offset of a variable. *)
Offset(e, v) == SelectSeq(e.vars, LAMBDA p : p[1] = v)[1][2]

(* <<< x >>>: the text so far, a value, its type and its size. *)
emit_prim_hack(e, x) ==
  LET value == Emit(pushimm(e, 0), x.exp)
      kind == Add(Add(value, "RegSetImm", 0, 0), "RegSetImm", 1, 1)
  IN  Add(Add(kind, "Gack", kind.off, 0), "GackEnd", 0, 0)

emit_prim_array(e, x) ==
  LET elems == EmitAll(e, x.elems)
  IN  localx(Add(Add(elems, "RegSetImm", Len(x.elems), 0), "ArrayInit", 0, 0))

(* A slip: what a call returns stays on the stack. *)
SlipPop(e, x) == IF Void(e, x) \/ x.t = "call" THEN e ELSE regmove(e, -1)
pop_exp(e, x) == IF Void(e, x) THEN e ELSE regmove(e, -1)

_flow(e, c, if) == Branch(Emit(e, c), if)

-----------------------------------------------------------------------------
(* Deferred statements, which are expressions here.                        *)

EmitStmtExp(e, x) == pop_exp(Emit(e, x), x)

Deferred(v) == SelectSeq(Reverse(v), LAMBDA d : d # None)

(* Those of every scope, and none is left. *)
emit_defers(e) ==
  [FoldLeft(EmitStmtExp, e, Deferred(e.defer)) EXCEPT !.defer = <<>>]

(* Those of the innermost scope. *)
emit_defers2(e) ==
  LET marks == {k \in DOMAIN e.defer : e.defer[k] = None}
      top == IF marks = {} THEN 0 ELSE Max(marks)
  IN  FoldLeft(EmitStmtExp, e, Reverse(SubSeq(e.defer, top + 1, Len(e.defer))))

emit_pop_scope(e) == Release(FramePop(emit_defers(e)))

(* The jumps of the innermost loop get their targets, and its scope ends.  *)
emit_pop_stack(e, index) ==
  LET cont == Inner(e.cont)
      brk == Inner(e.brk)
      set == Targets(Targets(e, cont.jumps, index), brk.jumps, Size(e))
  IN  emit_pop_scope([set EXCEPT !.cont = cont.left, !.brk = brk.left])

-----------------------------------------------------------------------------
(* Statements.                                                             *)

scoped_stmt(e, s) == emit_pop_scope(Emit(frame_push(e), s))

(* A number as a condition is decided here. *)
Const(x) == x.t = "num"
emit_if_const(e, s) == Emit(e, IF s.cond.n # 0 THEN s.then ELSE s.else)

emit_if(e, s) ==
  LET ask == _flow(e, s.cond, TRUE)
      yes == Add(scoped_stmt(ask, s.then), "Goto", 0, 0)
      other == Target(yes, Size(ask) - 1, Size(yes))
      no == IF s.else = None THEN other ELSE scoped_stmt(other, s.else)
  IN  IF Const(s.cond) THEN emit_if_const(e, s) ELSE Target(no, Size(yes) - 1, Size(no))

emit_stmt_if(e, s) == emit_pop_scope(emit_if(frame_push(e), s))
emit_stmt_code(e, s) ==
  IF s.list = <<>> THEN e ELSE emit_pop_scope(EmitAll(frame_push(e), s.list))

(* The call of the function itself in a return: its arguments, and back to *)
(* the start.                                                              *)
optimize_tail_call(e, x) ==
  LET args == EmitAll(e, x.args)
      put == IF x.args = <<>> THEN e
             ELSE emit_args(regmove(args, -Len(x.args)), Len(x.args))
  IN  Add(put, "Goto", 0, 0)

emit_stmt_return(e, s) ==
  LET d == emit_defers2(e)
      value == IF s.exp = None THEN d ELSE Emit(d, s.exp)
      leave == [Add(value, "Goto", 0, 0) EXCEPT !.ret = Append(@, Size(value))]
  IN  IF s.exp # None /\ s.exp.t = "call" /\ s.exp.f = e.fn
        THEN optimize_tail_call(d, s.exp) ELSE leave

(* A jump that has not as many loops around it is an error.                *)
emit_jump(e, n, v) ==
  LET d == emit_defers2(e)
      w == Jumped(d[v], n, Size(d))
  IN  IF w = <<>> THEN [d EXCEPT !.ok = FALSE] ELSE [Add(d, "Goto", 0, 0) EXCEPT ![v] = w]
emit_stmt_continue(e, s) == emit_jump(e, s.n, "cont")
emit_stmt_break(e, s) == emit_jump(e, s.n, "brk")

(* while, until, do while and do until.                                    *)
Endless(s) == Const(s.cond) /\ s.while = (s.cond.n # 0)
flow_do(e, s, index) ==
  LET body == scoped_stmt(e, s.body)
      ask == _flow(body, s.cond, ~s.while)
  IN  IF ~Const(s.cond) THEN Target(ask, Size(ask) - 1, index)
      ELSE IF Endless(s) THEN Add(body, "Goto", index, 0) ELSE body
flow_while(e, s, index) ==
  LET ask == IF Const(s.cond) THEN e ELSE _flow(e, s.cond, s.while)
      back == Add(scoped_stmt(ask, s.body), "Goto", index, 0)
  IN  IF Const(s.cond) /\ ~Endless(s) THEN e
      ELSE IF Const(s.cond) THEN back ELSE Target(back, Size(ask) - 1, Size(back))
emit_stmt_flow(e, s) ==
  LET in == push_stack(e)
  IN  emit_pop_stack(IF s.do THEN flow_do(in, s, Size(e)) ELSE flow_while(in, s, Size(e)),
                     Size(e))

emit_stmt_for(e, s) ==
  LET ini == Emit(push_stack(e), s.c1)
      ask == _flow(ini, s.c2, TRUE)
      body == scoped_stmt(ask, s.body)
      action == IF s.c3 = None THEN body ELSE EmitStmtExp(body, s.c3)
      back == Add(action, "Goto", Size(ini), 0)
  IN  emit_pop_stack(Target(back, Size(ask) - 1, Size(back)), Size(body))

(* A loop that rolls: the instruction at the top leaves behind the Goto.   *)
roll(e, op, offset, body) ==
  LET top == Add(e, op, 0, offset)
      end == scoped_stmt(top, body)
  IN  Add(Target(end, Size(e), Size(end) + 1), "Goto", Size(e), 0)

emit_stmt_loop(e, s) ==
  LET in == local(push_stack(e), FALSE)
      offset == e.off
      idx == local(in, FALSE)
      set == Add(Add(idx, "MemSetImm", offset + 1, 0), "MemSetImm", offset, -1)
      named == IF s.idx = "" THEN in ELSE [set EXCEPT !.vars = <<<<s.idx, offset>>>> \o @]
      count == regmove(Emit(named, s.cond), -1)
      put == Add(count, "RegToMem", IF s.idx = "" THEN offset ELSE offset + 1, 0)
      op == IF s.idx = "" THEN "Repeat" ELSE "RepeatIdx"
  IN  emit_pop_stack(roll(put, op, offset, s.body), Size(put))

(* foreach: the array, the index and the address of the element.           *)
emit_stmt_each(e, s) ==
  LET in == push_stack(regmove(Emit(e, s.exp), -1))
      all == localn(local(local(in, FALSE), FALSE))
      put == Add(Add(all, "RegToMem", in.off, 0), "MemSetImm", in.off + 1, -1)
      named == [put EXCEPT !.vars = <<<<s.v, in.off + 2>>>> \o @]
      end == roll(named, "AutoLoop", in.off + 1, s.body)
  IN  emit_pop_stack(end, Size(end) - 1)

(* A case: one value, and a condition behind when.  A value that differs   *)
(* goes past the end of the scope.                                         *)
emit_stmt_match_case(base, m, c) ==
  LET e == m.e
      eq == Add(Add(Emit(Emit(frame_push(e), base), c.value), "IntEq", 0, 0),
                "BranchEqInt", 0, 0)
      ask == IF c.when = None THEN eq ELSE _flow(eq, c.when, TRUE)
      body == Add(EmitAll(ask, c.list), "Goto", 0, 0)
      when == IF c.when = None THEN body ELSE Target(body, Size(ask) - 1, Size(body))
      end == emit_pop_scope(when)
  IN  [e |-> Target(end, Size(eq) - 1, Size(end)), vec |-> m.vec \cup {Size(body) - 1}]

emit_stmt_match(e, s) ==
  LET Case(m, c) == emit_stmt_match_case(s.base, m, c)
      end == FoldLeft(Case, [e |-> frame_push(e), vec |-> {}], s.cases)
  IN  emit_pop_scope(Targets(end.e, end.vec, Size(end.e)))

emit_handler(m, h) ==
  LET head == Add(m.e, "HandleEffect", 0, h.tag)
      end == Add(scoped_stmt(head, h.body), "Goto", 0, 0)
  IN  [e |-> Target(end, Size(m.e), Size(end)), vec |-> m.vec \cup {Size(end) - 1}]

emit_stmt_try(e, s) ==
  LET ini == [Add(e, "TryIni", 0, 0) EXCEPT !.top = Size(e)]
      body == Add(scoped_stmt(ini, s.body), "Goto", 0, 0)
      list == FoldLeft(emit_handler, [e |-> local(frame_push(body), FALSE),
                                      vec |-> {Size(body) - 1}], s.handlers)
      end == emit_pop_scope(list.e)
  IN  [Add(Targets(end, list.vec, Size(end)), "TryEnd", 0, 0) EXCEPT !.top = e.top]

-----------------------------------------------------------------------------
(* Functions and programs.                                                 *)

(* Before the body of a function that memoizes: meet what is stored, one   *)
(* entry after the other, and return what one with these arguments has.    *)
emit_memoize(e, args) ==
  LET offset == args
      top == Add(Add(e, "MemSetImm", offset, 0), "MemSetImm", offset + 1, 0)
      ini == Add(top, "MemoizeIni", offset, args + 1)
      Arg(f, k) == Add(Add(Add(Add(f, "RegPushMem", k - 1, 0), "RegPushMem", offset + 2, 0),
                           "IntEq", 0, 0), "BranchEqInt", 0, 0)
      arg == FoldLeft(Arg, ini, [k \in 1 .. args |-> k])
      ret == Add(Add(arg, "RegPushMem", (offset + 1) * 2, 0), "Goto", 0, 0)
      next == Targets(ret, {Size(ini) + 4 * k - 1 : k \in 1 .. args}, Size(ret))
      inc == Add(Add(next, "RegPushMem4", offset, 0), "IntPreInc", 0, 0)
      back == Add(regmove(inc, -1), "Goto", Size(top), 0)
  IN  [back EXCEPT !.code[Size(top)].b = Size(back), !.ret = Append(@, Size(ret) - 1)]

(* A function.                                                             *)
emit_func_def(e, def) ==
  LET n == Len(def.args)
      ini == frame_push(e)
      memo == IF def.memo = 0 THEN ini ELSE emit_memoize(ini, n)
      arg == FoldLeft(LAMBDA f, v : [localn(f) EXCEPT !.vars = <<<<v, f.off>>>> \o @],
                      memo, def.args)
      body == emit_pop_scope(EmitAll(frame_push(arg), def.body))
      ret == Targets(emit_defers(body), ToSet(body.ret), Size(body))
      store == IF def.memo = 0 THEN ret ELSE Add(ret, "MemoizeStore", n, 0)
  IN  Add(emit_pop_scope(store), "FuncReturn", 0, 0)

emit_ast(e, n) ==
  Add(emit_pop_scope(emit_defers(EmitAll(frame_push(e), n.list))), "EOC", 0, 0)

Emit(e, n) ==
  IF ~e.ok THEN e
  ELSE CASE n.t = "none" -> e
         [] n.t = "exp" -> EmitStmtExp(e, n.exp)
         [] n.t = "if" -> emit_stmt_if(e, n)
         [] n.t = "block" -> emit_stmt_code(e, n)
         [] n.t = "flow" -> emit_stmt_flow(e, n)
         [] n.t = "for" -> emit_stmt_for(e, n)
         [] n.t = "loop" -> emit_stmt_loop(e, n)
         [] n.t = "each" -> emit_stmt_each(e, n)
         [] n.t = "match" -> emit_stmt_match(e, n)
         [] n.t = "break" -> emit_stmt_break(e, n)
         [] n.t = "continue" -> emit_stmt_continue(e, n)
         [] n.t = "return" -> emit_stmt_return(e, n)
         [] n.t = "try" -> emit_stmt_try(e, n)
         [] n.t = "retry" -> Add(e, "Goto", e.top + 1, 0)
         [] n.t = "defer" -> [e EXCEPT !.defer = Append(@, n.exp)]
         [] n.t = "num" -> pushimm(e, n.n)
         [] n.t = "maybe" -> Add(e, "RegPushMaybe", 0, 0)
         [] n.t = "var" -> Add(e, "RegPushMem", Offset(e, n.v), 0)
         [] n.t = "out" -> emit_prim_hack(e, n)
         [] n.t = "new" -> emit_decl(e, n)
         [] n.t = "member" -> Add(Add(e, "RegPushMem", Offset(e, n.v), 0), "DotMember", n.n, 0)
         [] n.t = "array" -> emit_prim_array(e, n)
         [] n.t = "perform" -> Add(e, "PerformEffect", n.effect, 0)
         [] n.t = "choose" -> emit_exp_if(e, n)
         [] n.t = "call" -> emit_exp_call(e, n)
         [] n.t = "fun" -> emit_func_def(e, n)
         [] n.t = "main" -> emit_ast(e, n)

(* The code of a function, or of the program.                              *)
VMCode(e) == tobytecode(e.code) @@ [vals |-> e.vals]
=============================================================================
