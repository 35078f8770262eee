----------------------------- MODULE MCMachine -----------------------------
(* Programs for Machine: loops with jumps out of them, calls, functions    *)
(* that memoize, scopes with objects, effects with handlers.               *)
EXTENDS Machine

Do(x) == [t |-> "exp", exp |-> x]
Out(x) == Do([t |-> "out", exp |-> x])
Say(n) == Out(Num(n))
If(c, a, b) == [t |-> "if", cond |-> c, then |-> a, else |-> b]
Block(l) == [t |-> "block", list |-> l]
Jump(t, n) == [t |-> t, n |-> n]
Flow1(while, do, c, b) == [t |-> "flow", while |-> while, do |-> do, cond |-> c, body |-> b]
New1(v) == Do([t |-> "new", v |-> v, field |-> 7])
Member(v) == [t |-> "member", v |-> v, n |-> 0]
Array(xs) == [t |-> "array", elems |-> xs]
Perform(n) == Do([t |-> "perform", effect |-> n])
Handler(n, b) == [tag |-> n, body |-> b]
TryDo(b, hs) == [t |-> "try", body |-> b, handlers |-> hs]
Return(x) == [t |-> "return", exp |-> x]
Fun(args, ret, n, body) == [args |-> args, ret |-> ret, memo |-> n, body |-> body]
Main(l) == [main |-> l, defs |-> <<>>]

Loops(b) ==
  {Flow1(w, d, c, b) : w \in BOOLEAN, d \in BOOLEAN, c \in {Maybe}} \cup
  {[t |-> "for", c1 |-> Say(8), c2 |-> Maybe, c3 |-> c, body |-> b] :
     c \in {None, [t |-> "out", exp |-> Num(9)]}} \cup
  {[t |-> "loop", idx |-> "", cond |-> Num(2), body |-> b],
   [t |-> "loop", idx |-> "i", cond |-> Num(2), body |-> Block(<<Out(Var("i")), b>>)],
   [t |-> "each", v |-> "v", exp |-> Array(<<Num(3), Num(4)>>), body |-> Block(<<Out(Var("v")), b>>)]}

Leaves == {Say(1), Jump("break", 1), Jump("continue", 1)}
Bodies == {Block(<<If(Maybe, a, None), Say(2)>>) : a \in Leaves}
(* A jump out of a foreach loop leaves its array alive, so the inner loop  *)
(* of those with two loops that are left at once is another.               *)
Nested(n) == {Block(<<If(Maybe, Jump(t, n), Say(2)), Say(3)>>) : t \in {"break", "continue"}}
Inner1 == UNION {Loops(b) : b \in Nested(1)} \cup
          {l \in UNION {Loops(b) : b \in Nested(2)} : l.t # "each"}
Control ==
  {Main(<<l, Say(5)>>) : l \in UNION {Loops(b) : b \in Bodies}} \cup
  {Main(<<l, Say(5)>>) : l \in UNION {Loops(m) : m \in Inner1}}
Constant ==
  {Main(<<Flow1(w, d, Num(n), Block(<<If(Maybe, Jump("break", 1), None), Say(2)>>)), Say(5)>>) :
     w \in BOOLEAN, d \in BOOLEAN, n \in {0, 1}}

Matches ==
  {Main(<<[t |-> "match", base |-> b,
           cases |-> <<[value |-> Num(1), when |-> w, list |-> <<Say(1)>>],
                       [value |-> Num(0), when |-> None, list |-> <<Say(2)>>]>>], Say(5)>>) :
     b \in {Num(1), Num(0), Num(2), Maybe}, w \in {None, Maybe}}
Defers ==
  {Main(<<Block(<<[t |-> "defer", exp |-> [t |-> "out", exp |-> Num(1)]],
                  [t |-> "defer", exp |-> [t |-> "out", exp |-> Num(2)]], Say(3)>>), Say(5)>>),
   Main(<<Flow1(TRUE, FALSE, Maybe, Block(<<If(Maybe, Block(<<
             [t |-> "defer", exp |-> [t |-> "out", exp |-> Num(1)]], Jump("break", 1)>>), None),
             Say(2)>>)), Say(5)>>)}

-----------------------------------------------------------------------------
ExpIf(a, b) == [t |-> "choose", cond |-> Maybe, then |-> a, else |-> b]
F(def) == ("f" :> def)
Calls ==
  { [main |-> <<Out(Call("f", <<Num(3)>>)), Say(5)>>,
     defs |-> F(Fun(<<"a">>, 1, 0, b))] :
      b \in {<<If(Maybe, Return(Var("a")), None), Out(Var("a")), Return(Num(4))>>,
             <<Return(ExpIf(Var("a"), Num(6)))>>,
             <<Say(1), If(Maybe, Return(Call("f", <<Num(2)>>)), None), Return(Var("a"))>>,
             <<Say(1), If(Maybe, Out(Call("f", <<Num(2)>>)), None), Return(Var("a"))>>,
             <<[t |-> "loop", idx |-> "i", cond |-> Num(2), body |->
                 Block(<<If(Maybe, Out(Call("f", <<Var("i")>>)), None), Out(Var("i"))>>)],
               Return(Var("a"))>>,
             <<Flow1(TRUE, FALSE, Maybe, If(Maybe, Return(Num(1)), Say(2))), Return(Var("a"))>>} } \cup
  { [main |-> <<Do(Call("f", <<Num(3)>>)), Say(5)>>,
     defs |-> F(Fun(<<"a">>, 1, 0, <<If(Maybe, Return(Num(2)), None), Return(Var("a"))>>))],
    [main |-> <<Do(Call("f", <<Num(3), Num(4)>>)), Say(5)>>,
     defs |-> F(Fun(<<"a", "b">>, 0, 0, <<Out(Var("b")), If(Maybe, Do(Call("f", <<Var("b"), Var("a")>>)), None)>>))] } \cup
  { [main |-> <<Out(Call("g", <<Call("f", <<Num(1)>>), Call("f", <<Num(2)>>)>>)), Say(5)>>,
     defs |-> ("f" :> Fun(<<"a">>, 1, 0, <<If(Maybe, Return(Num(8)), None), Return(Var("a"))>>)) @@
              ("g" :> Fun(<<"a", "b">>, 1, 0, <<Out(Var("a")), Return(Var("b"))>>))] }
Remembers ==
  { [main |-> <<Out(Call("f", <<ExpIf(Num(0), Num(1))>>)), Out(Call("f", <<Num(1)>>)),
                Out(Call("f", <<ExpIf(Num(0), Num(1))>>))>>,
     defs |-> F(Fun(<<"a">>, 1, limit,
                    <<If(Var("a"), Return(Num(2)), None), Return(Num(3))>>))] : limit \in {1, 2} }

-----------------------------------------------------------------------------
Objects ==
  { Main(<<Block(<<New1("o"), Out(Member("o")), If(Maybe, Block(<<New1("p"), New1("q"), Out(Member("q"))>>), Say(1)),
                   Say(2)>>), Say(5)>>),
    Main(<<[t |-> "loop", idx |-> "i", cond |-> Num(2),
            body |-> Block(<<New1("o"), If(Maybe, Out(Member("o")), Block(<<New1("p"), Say(1)>>))>>)]>>),
    [main |-> <<Do(Call("f", <<>>)), Say(5)>>,
     defs |-> F(Fun(<<>>, 0, 0, <<New1("o"), If(Maybe, Do(Call("f", <<>>)), None), Out(Member("o"))>>))] }

Six == [k \in 1 .. 6 |-> Num(k)]
Effects ==
  { Main(<<TryDo(Block(<<Say(1), If(Maybe, Perform(1), Say(2)), Say(3)>>),
                 <<Handler(1, Block(<<Say(4)>>))>>), Say(5)>>),
    Main(<<TryDo(Block(<<New1("o"), If(Maybe, Perform(1), Perform(2)), Say(7)>>),
                 <<Handler(1, Block(<<Say(4)>>)), Handler(2, Block(<<Say(6)>>))>>), Say(5)>>),
    [main |-> <<TryDo(Block(<<Do(Call("f", <<>>)), Say(3)>>),
                      <<Handler(1, Block(<<Say(4)>>)), Handler(0, Block(<<Say(6)>>))>>), Say(5)>>,
     defs |-> F(Fun(<<>>, 0, 0, <<Block(<<New1("o"), If(Maybe, Perform(1), Perform(2)), Say(7)>>)>>))],
    [main |-> <<TryDo(Block(<<Do(Call("f", Six)), Say(3)>>),
                      <<Handler(9, Block(<<Say(4)>>))>>), Say(5)>>,
     defs |-> F(Fun(<<"a", "b", "c", "d", "e", "f">>, 0, 0, <<Do(Call("f", Six))>>))],
    Main(<<If(Maybe, Perform(1), Say(2)), Say(5)>>) }

AllPrograms == Control \cup Constant \cup Matches \cup Defers \cup Calls \cup Remembers
                 \cup Objects \cup Effects
=============================================================================
