------------------------------ MODULE Bytecode ------------------------------
(***************************************************************************)
(* From the instructions the emitter lists to the bytecode the VM runs     *)
(* (vm/vm_code.c): moves of the stack are merged, what does nothing is     *)
(* left out, and the targets of jumps follow.                              *)
(*                                                                         *)
(* An instruction has the operands a (m_val) and b (m_val2).  Instructions *)
(* count from 0, elements of sequences from 1.                             *)
(***************************************************************************)
EXTENDS Integers, SequencesExt

At(code, i) == code[i + 1]

isgoto(op) ==
  op \in {"Goto", "BranchEqInt", "BranchNeqInt", "HandleEffect", "Repeat",
          "RepeatIdx", "AutoLoop"}

(* How many instructions from i on are moves. *)
Moves(code, i) == Min({n \in 0 .. Len(code) - i :
  i + n = Len(code) \/ At(code, i + n).op # "RegMove"})

Sum(code, i, n) == FoldLeft(LAMBDA s, c : s + c.a, 0, SubSeq(code, i + 1, i + n))

NoOp(code, is) ==
  [k \in DOMAIN code |-> IF k - 1 \in is THEN [code[k] EXCEPT !.op = "NoOp"] ELSE code[k]]

(* The first pass from i on: the instructions, and those that go, in the   *)
(* order in which it meets them.                                           *)
RECURSIVE Folded(_, _, _)
Folded(code, i, nop) ==
  IF i = Len(code) THEN [code |-> code, nop |-> nop]
  ELSE LET c == At(code, i)
           n == Moves(code, i)
           sum == Sum(code, i, n)
           rest == [k \in 1 .. n - 1 |-> i + k]
           gone == IF sum = 0 THEN Append(rest, i) ELSE rest
           next == IF i + 1 < Len(code) THEN At(code, i + 1) ELSE c
           fused == [At(code, i) EXCEPT !.op = "DotMemberMem", !.a = next.a, !.b = c.a]
       IN  CASE c.op = "RegMove" ->
                  Folded(NoOp([code EXCEPT ![i + 1].a = sum], ToSet(gone)), i + n, nop \o gone)
             [] c.op = "RegPushMem" /\ next.op = "DotMember" ->
                  Folded([NoOp(code, {i + 1}) EXCEPT ![i + 1] = fused], i + 1, nop)
             [] c.op = "NoOp" \/ (c.op = "Goto" /\ c.a = i + 1) ->
                  Folded(NoOp(code, {i}), i + 1, Append(nop, i))
             [] OTHER -> Folded(code, i + 1, nop)

(* A slip: to count what goes at the target, too. *)
SlipMoved(target, nop) ==
  LET past == {k \in DOMAIN nop : target < nop[k]}
      pc == IF past = {} THEN Len(nop) ELSE Min(past) - 1
  IN  IF target > pc THEN target - pc ELSE 0

(* Where a target goes: the loop stops at the first index that is not      *)
(* below it.                                                               *)
Moved(target, nop) ==
  LET past == {k \in DOMAIN nop : target <= nop[k]}
      pc == IF past = {} THEN Len(nop) ELSE Min(past) - 1
  IN  IF target > pc THEN target - pc ELSE 0

Kept(code) == SelectSeq([k \in DOMAIN code |-> k - 1], LAMBDA i : At(code, i).op # "NoOp")

(* The second pass: instr is what the listing becomes, which find_pc reads *)
(* later; handlers has the handlers in order, by their place in the code.  *)
(* Without anything to leave out there is no second pass.                  *)
tobytecode(code) ==
  LET folded == Folded(code, 0, <<>>)
      kept == Kept(folded.code)
      Shift(c) == IF isgoto(c.op) THEN [c EXCEPT !.a = Moved(c.a, folded.nop)] ELSE c
      Place(j) ==
        LET c == Shift(At(folded.code, kept[j]))
        IN  IF c.op = "Recurs" THEN [c EXCEPT !.b = @ + j] ELSE c
  IN  IF folded.nop = <<>>
        THEN [bytecode |-> folded.code, instr |-> folded.code, handlers |-> <<>>]
        ELSE [bytecode |-> [j \in DOMAIN kept |-> Place(j)],
              instr    |-> [k \in DOMAIN code |-> Shift(folded.code[k])],
              handlers |-> SelectSeq([j \in DOMAIN kept |-> j - 1],
                             LAMBDA j : At(folded.code, kept[j + 1]).op = "HandleEffect")]
=============================================================================
