------------------------------ MODULE Machine ------------------------------
(***************************************************************************)
(* The VM of vm/vm.c on the bytecode of one shred, and what the programs   *)
(* that the emitter takes must do on it.                                   *)
(*                                                                         *)
(* A value is a tuple: a number, a text, an address, a frame, a code or an *)
(* object.  A maybe answers anything; the answers are kept, and the run is *)
(* cut after MaxBits of them.                                              *)
(***************************************************************************)
EXTENDS Emitter

CONSTANTS Programs,       \* the programs: [main, defs]
          MaxBits,        \* the number of answers after which a run is cut
          MaxReg, MaxMem, \* the words of the stack and of the memory
          Deepest,        \* the calls that fit in one another, at least
          StackOverflow   \* the effect of a call beyond MaxMem

VARIABLES prog,    \* the program
          codes,   \* its bytecode: name -> VM_Code
          s,       \* the shred: [fn, pc, next, reg, top, mem, base, tries]
          heap,    \* the objects: their counts and what they hold
          memo,    \* what functions remember: name -> [v, curr]
          bits, out, status

vars == <<prog, codes, s, heap, memo, bits, out, status>>

Number(n) == <<"int", n>>
Text(t) == <<"text", t>>
Addr(a) == <<"addr", a>>
Frame(f, p, push) == <<"frame", f, p, push>>
Obj(o) == <<"obj", o>>

Sig(defs) == [f \in DOMAIN defs |-> [args |-> Len(defs[f].args), ret |-> defs[f].ret,
                                     memo |-> defs[f].memo]]
Compiled(p) ==
  LET Node(f) == IF f = "main" THEN [t |-> "main", list |-> p.main]
                 ELSE [t |-> "fun"] @@ p.defs[f]
  IN  [f \in DOMAIN p.defs \cup {"main"} |-> VMCode(Emit(new_code(f, Sig(p.defs)), Node(f)))]

Init ==
  /\ prog \in Programs
  /\ codes = Compiled(prog)
  /\ s = [fn |-> "main", pc |-> 0, top |-> 0, base |-> 0, tries |-> <<>>, next |-> "main",
          reg |-> [i \in 0 .. MaxReg |-> Number(0)],
          mem |-> [i \in 0 .. 2 * MaxMem |-> Number(0)]]
  /\ heap = <<>>
  /\ memo = [f \in DOMAIN prog.defs |-> [v |-> <<>>, curr |-> 0]]
  /\ bits = <<>> /\ out = <<>> /\ status = "run"

-----------------------------------------------------------------------------
Here == At(codes[s.fn].bytecode, s.pc)
Is(op) == status = "run" /\ Here.op = op

(* DISPATCH, and BRANCH_DISPATCH *)
On(t) == [t EXCEPT !.pc = @ + 1]
Dispatch(t, check) == [t EXCEPT !.pc = IF check THEN Here.a ELSE @ + 1]

Push(t, x) == [t EXCEPT !.reg[t.top] = x, !.top = @ + 1]
Pop(t, n) == [t EXCEPT !.top = @ - n]
Peek(n) == s.reg[s.top - n]
Poke(t, n, x) == [t EXCEPT !.reg[t.top - n] = x]
Mem(a) == s.mem[s.base + a]
Put(t, a, x) == [t EXCEPT !.mem[t.base + a] = x]

(* A step that changes nothing but the shred. *)
To(t) == s' = t /\ UNCHANGED <<prog, codes, heap, memo, bits, out, status>>

(* release: a word that holds no object is NULL.                           *)
Released(h, x) == IF x[1] = "obj" THEN [h EXCEPT ![x[2]].ref = @ - 1] ELSE h

-----------------------------------------------------------------------------
(* Values and moves.                                                       *)

RegPushImm == Is("RegPushImm") /\ To(On(Push(s, Number(Here.a))))
SetFunc    == Is("SetFunc") /\ To(On(Push(s, <<"code", Here.f>>)))
RegPushMem == Is("RegPushMem") /\ To(On(Push(s, Mem(Here.a))))
RegPushMem4 == Is("RegPushMem4") /\ To(On(Push(s, Addr(s.base + Here.a))))
RegSetImm  == Is("RegSetImm") /\ To(On(Poke(s, -Here.b, Number(Here.a))))
RegMove    == Is("RegMove") /\ To(On(Pop(s, -Here.a)))
RegToMem   == Is("RegToMem") /\ To(On(Put(s, Here.a, Peek(-Here.b))))
RegToMem4 ==
  /\ Is("RegToMem4")
  /\ To(On([s EXCEPT !.mem = [a \in DOMAIN @ |->
              IF a - s.base - Here.a \in 0 .. Here.b - 1
              THEN s.reg[s.top + a - s.base - Here.a] ELSE @[a]]]))
MemSetImm  == Is("MemSetImm") /\ To(On(Put(s, Here.a, Number(Here.b))))

RegPushMaybe ==
  /\ Is("RegPushMaybe")
  /\ \E b \in {0, 1} :
       IF Len(bits) = MaxBits
         THEN status' = "cut" /\ UNCHANGED <<s, bits>>
         ELSE /\ bits' = Append(bits, b) /\ s' = On(Push(s, Number(b)))
              /\ UNCHANGED status
  /\ UNCHANGED <<prog, codes, heap, memo, out>>

Truth(b) == Number(IF b THEN 1 ELSE 0)
IntEq == Is("IntEq") /\ To(On(Poke(Pop(s, 1), 1, Truth(Peek(2) = Peek(1)))))
(* A slip: the variable keeps its value. *)
SlipPreInc ==
  /\ Is("IntPreInc")
  /\ To(On(Poke(s, 1, Number(s.mem[Peek(1)[2]][2] + 1))))
IntPreInc ==
  /\ Is("IntPreInc")
  /\ LET a == Peek(1)[2]
         x == Number(s.mem[a][2] + 1)
     IN  To(On(Poke([s EXCEPT !.mem[a] = x], 1, x)))

-----------------------------------------------------------------------------
(* Jumps.                                                                  *)

Zero(x) == x = Number(0)
Goto == Is("Goto") /\ To(Dispatch(s, TRUE))
BranchEqInt == Is("BranchEqInt") /\ To(Dispatch(Pop(s, 1), Zero(Peek(1))))
BranchNeqInt == Is("BranchNeqInt") /\ To(Dispatch(Pop(s, 1), ~Zero(Peek(1))))

Repeat ==
  /\ Is("Repeat")
  /\ To(Dispatch(Put(s, Here.b, Number(Mem(Here.b)[2] - 1)), Zero(Mem(Here.b))))
RepeatIdx ==
  /\ Is("RepeatIdx")
  /\ LET x == Number(Mem(Here.b)[2] + 1)
     IN  To(Dispatch(Put(s, Here.b, x), Mem(Here.b + 1) = x))
AutoLoop ==
  /\ Is("AutoLoop")
  /\ LET elems == heap[Mem(Here.b - 1)[2]].elems
         x == Mem(Here.b)[2] + 1
         t == Put(s, Here.b, Number(x))
     IN  To(Dispatch(IF x = Len(elems) THEN t ELSE Put(t, Here.b + 1, elems[x + 1]),
                    x = Len(elems)))

-----------------------------------------------------------------------------
(* Effects: unwind and handle.  A HandleEffect only marks a handler: no     *)
(* path runs it.                                                           *)

(* clean_values: from the last live value on, until one starts behind pc.  *)
clean_values(t, h) ==
  LET vals == codes[t.fn].vals
      late == {k \in DOMAIN vals : t.pc <= vals[k].start}
      from == IF late = {} THEN 1 ELSE Max(late) + 1
      live == {k \in DOMAIN vals : k >= from /\ t.pc < vals[k].end}
  IN  FoldSet(LAMBDA k, g : Released(g, t.mem[t.base + vals[k].off]), h, live)

(* find_pc: the first handler behind pc that names the effect, or none.    *)
(* Handlers are indices of bytecode, and read the listing.                 *)
find_pc(t, eff) ==
  LET code == codes[t.fn]
      start == Last(t.tries).pc
      ours == SelectSeq(code.handlers, LAMBDA h :
                start < t.pc /\ h > t.pc /\ At(code.instr, h).b \in {0, eff})
  IN  IF start > t.pc THEN 1 ELSE IF ours = <<>> THEN 0 ELSE Head(ours) + 1

(* find_handle: the name of the effect is kept for a handler that performs *)
(* it again.                                                               *)
Caught(t, eff, p) ==
  LET at == At(codes[t.fn].instr, p)
      a == t.base + at.b
      to == [t EXCEPT !.pc = p, !.top = Last(t.tries).top, !.tries = Front(@)]
  IN  IF at.a = 0 /\ a \in DOMAIN t.mem THEN [to EXCEPT !.mem[a] = Text(eff)] ELSE to

shred_unwind(t) ==
  LET frame == t.mem[t.base - 1]
  IN  [t EXCEPT !.fn = frame[2], !.pc = frame[3], !.base = @ - frame[4]]

RECURSIVE unwind(_, _, _, _)
unwind(t, h, eff, size) ==
  LET g == clean_values(t, h)
      p == find_pc(t, eff)
      up == shred_unwind(t)
  IN  IF size = 0 \/ (codes[t.fn].handlers # <<>> /\ p = 0)
         \/ (codes[t.fn].handlers = <<>> /\ t.base = 0)
        THEN [s |-> t, heap |-> g, ok |-> FALSE]
      ELSE IF codes[t.fn].handlers # <<>> THEN [s |-> Caught(t, eff, p), heap |-> g, ok |-> TRUE]
      ELSE unwind(up, g, eff, IF up.fn = t.fn THEN size ELSE size - 1)

handle(t, eff) ==
  LET u == unwind(t, heap, eff, 2 * Len(t.tries))
  IN  /\ s' = u.s /\ heap' = u.heap
      /\ status' = IF u.ok THEN "run" ELSE "effect"
      /\ UNCHANGED <<prog, codes, memo, bits, out>>

PerformEffect == Is("PerformEffect") /\ handle(On(s), Here.a)
TryIni == Is("TryIni") /\ To(On([s EXCEPT !.tries = Append(@, [pc |-> s.pc + 1, top |-> s.top])]))
TryEnd ==
  /\ Is("TryEnd")
  /\ To(On([s EXCEPT !.tries = IF @ = <<>> THEN @ ELSE Front(@)]))

-----------------------------------------------------------------------------
(* Calls.                                                                  *)

(* The frame of the callee begins behind push words of the caller's.       *)
SetCode ==
  /\ Is("SetCode")
  /\ LET push == Peek(0)[2] + FRAME
         frame == Frame(s.fn, s.pc + 1 + Here.b, push)
         t == Put([s EXCEPT !.base = @ + push, !.next = Peek(1)[2]], -1, frame)
     IN  To(On(Pop(t, -Here.a)))
Recurs ==
  /\ Is("Recurs")
  /\ LET t == Put([s EXCEPT !.base = @ + Here.c, !.next = s.fn], -1,
                  Frame(s.fn, Here.b, Here.c))
     IN  To(On(Pop(t, -Here.a)))
Overflow ==
  /\ Is("Overflow")
  /\ IF s.base + Here.b > MaxMem THEN handle(On(s), StackOverflow)
     ELSE To([s EXCEPT !.fn = s.next, !.pc = 0])
FuncReturn ==
  /\ Is("FuncReturn")
  /\ To(shred_unwind(s))

(* What a function remembers: its arguments with its value, the oldest is  *)
(* replaced.                                                               *)
MemoizeIni ==
  /\ Is("MemoizeIni")
  /\ LET idx == Mem(Here.a)[2]
         v == memo[s.fn].v
         found == [s EXCEPT !.mem = [a \in DOMAIN @ |->
                    IF a - s.base - Here.a - 2 \in 0 .. Here.b - 1
                    THEN v[idx + 1][a - s.base - Here.a - 1] ELSE @[a]]]
     IN  To(IF idx < Len(v) THEN On(found) ELSE [s EXCEPT !.pc = Mem(Here.a + 1)[2]])
MemoizeStore ==
  /\ Is("MemoizeStore")
  /\ LET m == memo[s.fn]
         limit == prog.defs[s.fn].memo
         data == [k \in 1 .. Here.a |-> Mem(k - 1)] \o <<Peek(1)>>
     IN  memo' = [memo EXCEPT ![s.fn] =
           IF Len(m.v) >= limit
             THEN [v |-> [m.v EXCEPT ![(m.curr % limit) + 1] = data], curr |-> m.curr + 1]
             ELSE [m EXCEPT !.v = Append(@, data)]]
  /\ s' = On(s) /\ UNCHANGED <<prog, codes, heap, bits, out, status>>

-----------------------------------------------------------------------------
(* Objects, text and the end.                                              *)

New(elems) == heap' = Append(heap, [ref |-> 1, elems |-> elems])
Rest == UNCHANGED <<prog, codes, memo, bits, out, status>>

ObjectInstantiate ==
  /\ Is("ObjectInstantiate")
  /\ New(<<Number(Here.a)>>) /\ s' = On(Push(s, Obj(Len(heap) + 1))) /\ Rest
ArrayInit ==
  /\ Is("ArrayInit")
  /\ LET n == Peek(0)[2]
     IN  /\ New([k \in 1 .. n |-> Peek(n + 1 - k)])
         /\ s' = On(Push(Pop(s, n), Obj(Len(heap) + 1)))
  /\ Rest
Assign ==
  /\ Is("Assign")
  /\ To(On(Pop([s EXCEPT !.mem[Peek(1)[2]] = Peek(2)], 1)))
DotMemberMem ==
  /\ Is("DotMemberMem")
  /\ To(On(Push(s, heap[Mem(Here.b)[2]].elems[Here.a + 1])))
ObjectRelease ==
  /\ Is("ObjectRelease")
  /\ heap' = FoldLeft(LAMBDA h, off : Released(h, Mem(off)), heap, Here.f)
  /\ s' = On(s) /\ Rest

(* A value behind the text so far, and the line that is printed.           *)
Gack ==
  /\ Is("Gack")
  /\ LET text == Peek(2)
         add == IF text[1] = "text" THEN Append(text[2], Peek(1)[2]) ELSE <<Peek(1)[2]>>
     IN  To(On(Poke(Pop(s, 1), 1, Text(add))))
GackEnd ==
  /\ Is("GackEnd")
  /\ out' = out \o Peek(1)[2] /\ s' = On(s)
  /\ UNCHANGED <<prog, codes, heap, memo, bits, status>>
EOC ==
  /\ Is("EOC") /\ status' = "end"
  /\ UNCHANGED <<prog, codes, s, heap, memo, bits, out>>

-----------------------------------------------------------------------------
Move == RegPushImm \/ SetFunc \/ RegPushMem \/ RegPushMem4 \/ RegSetImm \/ RegMove
          \/ RegToMem \/ RegToMem4 \/ MemSetImm \/ RegPushMaybe \/ IntEq \/ IntPreInc
Flow == Goto \/ BranchEqInt \/ BranchNeqInt \/ Repeat \/ RepeatIdx \/ AutoLoop
Effect == PerformEffect \/ TryIni \/ TryEnd
CallStep == SetCode \/ Recurs \/ Overflow \/ FuncReturn \/ MemoizeIni \/ MemoizeStore
Object == ObjectInstantiate \/ ArrayInit \/ Assign \/ DotMemberMem \/ ObjectRelease
Printing == Gack \/ GackEnd \/ EOC
Next == Move \/ Flow \/ Effect \/ CallStep \/ Object \/ Printing

Spec == Init /\ [][Next]_vars
FairSpec == Spec /\ WF_vars(Next)

-----------------------------------------------------------------------------
Meant == INSTANCE Meaning
Outcome(how) == CASE how \in {"run", "return"} -> "end" [] OTHER -> how

(* The code prints what the program means, and ends as it means, whatever  *)
(* jumps, calls, merged moves and handlers it goes through.                *)
Agree ==
  status # "run" =>
    LET m == Meant!Program(prog, bits)
    IN  out = m.out /\ status = Outcome(m.how)

(* Every path through a program leaves the stack, the memory and the try   *)
(* statements as it found them.                                            *)
Balanced == status = "end" => s.top = 0 /\ s.base = 0 /\ s.tries = <<>>

(* No object is released twice, and none is left at the end of a program,  *)
(* whether its scope ends or an effect unwinds it.                         *)
ReleasedOnce ==
  \A o \in DOMAIN heap : heap[o].ref >= 0 /\ (status = "end" => heap[o].ref = 0)

(* Every program ends: no jump of the code goes round for ever.            *)
Ends == <>(status # "run")
=============================================================================
