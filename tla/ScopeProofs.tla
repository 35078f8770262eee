---------------------------- MODULE ScopeProofs ----------------------------
(***************************************************************************)
(* The functions of the front end leave the environment as they found it,  *)
(* also when they give up, whatever the trees are and however many of the  *)
(* claims fail: for the sessions that the faults of the source do not      *)
(* reach (Sober, Level).                                                   *)
(*                                                                         *)
(* A plan is followed step by step from the view that its call began with  *)
(* (View, Moves, Leads).  A function keeps its view (Still, Home) when     *)
(* each place where its plan may be cut short is one where the view is     *)
(* back; and what it keeps its caller may rely on.                         *)
(***************************************************************************)
EXTENDS FrontProofs

-----------------------------------------------------------------------------
(* What is kept, as one value: where the function is, the depth, flags and *)
(* counts, and the scopes of values and of types.                          *)

Flags == {"func", "in_try", "breaks", "effects", "in_func", "handling"}

(* The templates of classes, and what is global and a type of a function,  *)
(* pop to depth 0 wherever they are; an if whose body returns counts its   *)
(* depth down, and up again only when all goes well.                       *)
Level(u) ==
  \A n \in DOMAIN u.tree :
    /\ u.tree[n].kind = "class" => Child(u.tree, n, "types") = <<>>
    /\ Child(u.tree, n, "consts") = <<>>
    /\ u.tree[n].kind = "fptr" => "global" \notin ToSet(Child(u.tree, n, "flags"))
    /\ "returns" \notin ToSet(Child(u.tree, n, "flags"))

Depth(u, d) == IF Level(u) THEN d ELSE 0
At(place, depth, flags, open, types) ==
  [place |-> place, depth |-> depth, flags |-> flags, open |-> open, types |-> types]
View(u, e) ==
  At(<<e.curr, e.class, e.nspcs>>, Depth(u, e.depth), [g \in Flags |-> e[g]], e.open, e.types)

IsView(u, f, x) ==
  /\ x = At(x.place, x.depth, x.flags, x.open, x.types)
  /\ x.place = <<x.place[1], x.place[2], x.place[3]>> /\ IsSeq(x.place[3])
  /\ x.depth \in Nat /\ (~Level(u) => x.depth = 0)
  /\ x.flags = [g \in Flags |-> x.flags[g]] /\ x.flags["breaks"] \in Int /\ x.flags["effects"] \in Int
  /\ f \notin SemaFns => x.flags["in_func"] = FALSE /\ x.flags["handling"] = FALSE
  /\ IsABag(x.open) /\ IsABag(x.types)

-----------------------------------------------------------------------------
(* What steps do to it.                                                    *)

Deep(x, d) == At(x.place, d, x.flags, x.open, x.types)
Put(x, g, v) == At(x.place, x.depth, [x.flags EXCEPT ![g] = v], x.open, x.types)
Pushed(x, class, nspc) ==
  At(<<nspc, class, Append(x.place[3], <<x.place[1], x.place[2]>>)>>, 0,
     [x.flags EXCEPT !["effects"] = x.flags["effects"] + 1], x.open, x.types)
Popped(x, d) ==
  At(<<Last(x.place[3])[1], Last(x.place[3])[2], Front(x.place[3])>>, d,
     [x.flags EXCEPT !["effects"] = x.flags["effects"] - 1], x.open, x.types)
Opened(x) == At(x.place, x.depth, x.flags, BagAdd(x.open, x.place[1]), x.types)
Closed(x) == At(x.place, x.depth, x.flags, BagRemove(x.open, x.place[1]), x.types)
Typing(x) == At(x.place, x.depth, x.flags, x.open, BagAdd(x.types, x.place[1]))
Untyped(x) == At(x.place, x.depth, x.flags, x.open, BagRemove(x.types, x.place[1]))

LEMMA BagLaws ==
  ASSUME NEW b, IsABag(b), NEW k
  PROVE  IsABag(BagAdd(b, k)) /\ BagRemove(BagAdd(b, k), k) = b
<1>1. \A m : m \in Nat /\ m > 0 => m + 1 \in Nat /\ m + 1 > 0 /\ m + 1 # 1 /\ (m + 1) - 1 = m
  OBVIOUS
<1>2. b = [e \in DOMAIN b |-> b[e]] /\ \A e \in DOMAIN b : b[e] \in Nat /\ b[e] > 0
  BY DEF IsABag
<1>3. CASE k \in DOMAIN b
  <2> DEFINE a == [e \in DOMAIN b |-> IF e = k THEN b[e] + 1 ELSE b[e]]
  <2>1. BagAdd(b, k) = a
    BY <1>3 DEF BagAdd
  <2>2. a \in [DOMAIN b -> {m \in Nat : m > 0}] /\ DOMAIN a = DOMAIN b
    BY <1>1, <1>2
  <2>3. a[k] = b[k] + 1 /\ a[k] # 1 /\ a[k] - 1 = b[k] /\ \A e \in DOMAIN b : e # k => a[e] = b[e]
    BY <1>1, <1>2, <1>3
  <2> HIDE DEF a
  <2>4. BagRemove(a, k) = [e \in DOMAIN a |-> IF e = k THEN a[e] - 1 ELSE a[e]]
    BY <2>2, <2>3, <1>3 DEF BagRemove
  <2>5. \A e \in DOMAIN b : (IF e = k THEN a[e] - 1 ELSE a[e]) = b[e]
    BY <2>3
  <2>6. BagRemove(a, k) = [e \in DOMAIN b |-> b[e]]
    BY <2>2, <2>4, <2>5, Zenon
  <2> QED  BY <2>1, <2>2, <2>6, <1>2 DEF IsABag
<1>4. CASE k \notin DOMAIN b
  <2> DEFINE a == [e \in DOMAIN b \cup {k} |-> IF e = k THEN 1 ELSE b[e]]
  <2>1. BagAdd(b, k) = a
    BY <1>4 DEF BagAdd
  <2>2. a \in [DOMAIN b \cup {k} -> {m \in Nat : m > 0}] /\ DOMAIN a = DOMAIN b \cup {k}
    BY <1>2
  <2>3. a[k] = 1 /\ k \in DOMAIN a /\ DOMAIN a \ {k} = DOMAIN b /\ \A e \in DOMAIN b : a[e] = b[e]
    BY <1>4
  <2> HIDE DEF a
  <2>4. BagRemove(a, k) = [e \in DOMAIN b |-> a[e]]
    BY <2>3 DEF BagRemove
  <2>5. BagRemove(a, k) = [e \in DOMAIN b |-> b[e]]
    BY <2>3, <2>4
  <2> QED  BY <2>1, <2>2, <2>5, <1>2 DEF IsABag
<1> QED  BY <1>3, <1>4

LEMMA StackLaws ==
  ASSUME NEW s, IsSeq(s), NEW e
  PROVE  IsSeq(Append(s, e)) /\ Last(Append(s, e)) = e /\ Front(Append(s, e)) = s
<1>1. s \in Seq({s[i] : i \in DOMAIN s} \cup {e}) /\ Len(s) \in Nat
  <2>1. s \in Seq({s[i] : i \in DOMAIN s})
    BY SeqShape
  <2> QED  BY <2>1, SeqMonotonic
<1>2. Append(s, e) \in Seq({s[i] : i \in DOMAIN s} \cup {e}) /\ Len(Append(s, e)) = Len(s) + 1
  BY <1>1
<1>3. \A i \in 1 .. Len(s) : Append(s, e)[i] = s[i]
  BY <1>1
<1>4. Append(s, e)[Len(s) + 1] = e
  BY <1>1
<1>5. Front(Append(s, e)) = [i \in 1 .. Len(s) |-> Append(s, e)[i]]
  BY <1>1, <1>2 DEF Front
<1>6. Front(Append(s, e)) = s
  BY <1>1, <1>3, <1>5
<1> QED  BY <1>1, <1>2, <1>4, <1>6 DEF Last, IsSeq

(* Each is undone.                                                         *)
LEMMA Undone ==
  ASSUME NEW u, NEW f, NEW x, IsView(u, f, x)
  PROVE  /\ \A d, class, nspc, e : Popped(Deep(Pushed(x, class, nspc), e), d) = Deep(x, d)
         /\ \A d, class, nspc : Popped(Pushed(x, class, nspc), d) = Deep(x, d)
         /\ Closed(Opened(x)) = x /\ Untyped(Typing(x)) = x
         /\ \A d : Closed(Deep(Opened(x), d)) = Deep(x, d)
         /\ Deep(x, x.depth) = x /\ \A d, e : Deep(Deep(x, d), e) = Deep(x, e)
         /\ \A g \in Flags : Put(x, g, x.flags[g]) = x /\ \A v : Put(Put(x, g, v), g, x.flags[g]) = x
<1> DEFINE p == x.place
           fl == x.flags
<1>1. x = At(p, x.depth, fl, x.open, x.types) /\ p = <<p[1], p[2], p[3]>> /\ IsSeq(p[3])
      /\ fl = [g \in Flags |-> fl[g]] /\ fl["effects"] \in Int
  BY DEF IsView
<1>2. \A e : Last(Append(p[3], e)) = e /\ Front(Append(p[3], e)) = p[3]
  BY <1>1, StackLaws
<1>3. \A a, b, c, d, e : /\ At(a, b, c, d, e).place = a /\ At(a, b, c, d, e).depth = b
                         /\ At(a, b, c, d, e).flags = c /\ At(a, b, c, d, e).open = d /\ At(a, b, c, d, e).types = e
  BY DEF At
<1>4. \A g \in Flags : \A v, o : [[fl EXCEPT ![g] = v] EXCEPT ![g] = o] = [fl EXCEPT ![g] = o]
                                 /\ [fl EXCEPT ![g] = v][g] = v
  BY <1>1
<1>5. \A g \in Flags : [fl EXCEPT ![g] = fl[g]] = fl
  BY <1>1
<1>6. "effects" \in Flags
  BY DEF Flags
<1> DEFINE q == [fl EXCEPT !["effects"] = fl["effects"] + 1]
<1>7. [q EXCEPT !["effects"] = q["effects"] - 1] = fl
  <2>1. q["effects"] - 1 = fl["effects"]
    BY <1>1, <1>4, <1>6
  <2> QED  BY <2>1, <1>4, <1>5, <1>6
<1>8. BagRemove(BagAdd(x.open, p[1]), p[1]) = x.open /\ BagRemove(BagAdd(x.types, p[1]), p[1]) = x.types
  BY BagLaws DEF IsView
<1> HIDE DEF p, fl, q
<1>9. \A class, nspc, e, d :
        LET y == At(<<nspc, class, Append(p[3], <<p[1], p[2]>>)>>, e, q, x.open, x.types)
        IN  Popped(y, d) = At(p, d, fl, x.open, x.types)
  <2> SUFFICES ASSUME NEW class, NEW nspc, NEW e, NEW d, NEW y,
                      y = At(<<nspc, class, Append(p[3], <<p[1], p[2]>>)>>, e, q, x.open, x.types)
               PROVE  Popped(y, d) = At(p, d, fl, x.open, x.types)
    OBVIOUS
  <2>1. y.place = <<nspc, class, Append(p[3], <<p[1], p[2]>>)>> /\ y.flags = q /\ y.open = x.open /\ y.types = x.types
    BY <1>3
  <2> DEFINE st == Append(p[3], <<p[1], p[2]>>)
             pl == <<nspc, class, st>>
             l == <<p[1], p[2]>>
  <2>2. pl[3] = st /\ l[1] = p[1] /\ l[2] = p[2]
    OBVIOUS
  <2>3. Last(st) = l /\ Front(st) = p[3]
    BY <1>2
  <2>4. y.place = pl
    BY <2>1
  <2> HIDE DEF pl, l, st
  <2>5. <<Last(y.place[3])[1], Last(y.place[3])[2], Front(y.place[3])>> = <<p[1], p[2], p[3]>>
    BY <2>2, <2>3, <2>4
  <2>6. <<Last(y.place[3])[1], Last(y.place[3])[2], Front(y.place[3])>> = p
    BY <2>5, <1>1
  <2> QED  BY <2>1, <2>6, <1>7 DEF Popped
<1>10. \A class, nspc : Pushed(x, class, nspc) = At(<<nspc, class, Append(p[3], <<p[1], p[2]>>)>>, 0, q, x.open, x.types)
  BY DEF Pushed, p, q, fl
<1>11. \A d, class, nspc, e : Popped(Deep(Pushed(x, class, nspc), e), d) = Deep(x, d)
  <2> SUFFICES ASSUME NEW class, NEW nspc, NEW d, NEW e
               PROVE  Popped(Deep(Pushed(x, class, nspc), e), d) = Deep(x, d)
    OBVIOUS
  <2> DEFINE y == Pushed(x, class, nspc)
             pl == <<nspc, class, Append(p[3], <<p[1], p[2]>>)>>
  <2>1. y = At(pl, 0, q, x.open, x.types)
    BY <1>10
  <2>2. y.place = pl /\ y.flags = q /\ y.open = x.open /\ y.types = x.types
    BY <2>1, <1>3
  <2>3. Deep(y, e) = At(pl, e, q, x.open, x.types)
    BY <2>2 DEF Deep
  <2>4. Popped(Deep(y, e), d) = At(p, d, fl, x.open, x.types)
    BY <2>3, <1>9
  <2> QED  BY <2>4 DEF Deep, p, fl
<1>12. \A d, class, nspc : Popped(Pushed(x, class, nspc), d) = Deep(x, d)
  <2> SUFFICES ASSUME NEW class, NEW nspc, NEW d
               PROVE  Popped(Pushed(x, class, nspc), d) = Deep(x, d)
    OBVIOUS
  <2> DEFINE y == Pushed(x, class, nspc)
  <2>1. y = At(<<nspc, class, Append(p[3], <<p[1], p[2]>>)>>, 0, q, x.open, x.types)
    BY <1>10
  <2> HIDE DEF y
  <2>2. Popped(y, d) = At(p, d, fl, x.open, x.types)
    BY <2>1, <1>9
  <2> QED  BY <2>2 DEF Deep, p, fl, y
<1>13. Closed(Opened(x)) = x /\ Untyped(Typing(x)) = x
  BY <1>1, <1>3, <1>8 DEF Closed, Opened, Typing, Untyped, p, fl
<1>14. \A d : Closed(Deep(Opened(x), d)) = Deep(x, d)
  BY <1>1, <1>3, <1>8 DEF Closed, Opened, Deep, p, fl
<1>15. Deep(x, x.depth) = x /\ \A d, e : Deep(Deep(x, d), e) = Deep(x, e)
  BY <1>1, <1>3 DEF Deep, p, fl
<1>16. \A g \in Flags : Put(x, g, x.flags[g]) = x /\ \A v : Put(Put(x, g, v), g, x.flags[g]) = x
  <2>1. \A g, v : Put(x, g, v) = At(p, x.depth, [fl EXCEPT ![g] = v], x.open, x.types)
    BY DEF Put, p, fl
  <2>2. \A g, v, o : Put(Put(x, g, v), g, o) = At(p, x.depth, [[fl EXCEPT ![g] = v] EXCEPT ![g] = o], x.open, x.types)
    <3> SUFFICES ASSUME NEW g, NEW v, NEW o
                 PROVE  Put(Put(x, g, v), g, o) = At(p, x.depth, [[fl EXCEPT ![g] = v] EXCEPT ![g] = o], x.open, x.types)
      OBVIOUS
    <3> DEFINE y == Put(x, g, v)
               fv == [fl EXCEPT ![g] = v]
    <3>1. y = At(p, x.depth, fv, x.open, x.types)
      BY <2>1
    <3>2. y.place = p /\ y.depth = x.depth /\ y.flags = fv /\ y.open = x.open /\ y.types = x.types
      BY <3>1, <1>3
    <3> HIDE DEF y, fv
    <3>3. Put(y, g, o) = At(p, x.depth, [fv EXCEPT ![g] = o], x.open, x.types)
      BY <3>2 DEF Put
    <3> QED  BY <3>3 DEF y, fv
  <2>3. x.flags = fl
    BY DEF fl
  <2>4. \A g \in Flags : Put(x, g, fl[g]) = x
    BY <2>1, <1>5, <1>1
  <2>5. \A g \in Flags : \A v : Put(Put(x, g, v), g, fl[g]) = x
    <3> SUFFICES ASSUME NEW g \in Flags, NEW v PROVE Put(Put(x, g, v), g, fl[g]) = x
      OBVIOUS
    <3>1. [[fl EXCEPT ![g] = v] EXCEPT ![g] = fl[g]] = fl
      BY <1>4, <1>5
    <3> QED  BY <2>2, <3>1, <1>1
  <2> QED  BY <2>3, <2>4, <2>5
<1> QED  BY <1>11, <1>12, <1>13, <1>14, <1>15, <1>16

-----------------------------------------------------------------------------
(* Where a plan leads, step by step, in a call that began with w.  Where   *)
(* the function may stop it is back at w.                                  *)

(* Functions that do not go on when something has failed. *)
Firm == {"template_push_types", "_check_class_def"}
Softens(u, s) ==
  \/ s[1] \in {"try", "and", "poison", "flow", "spoil", "blot", "stain", "typed", "sound", "fail", "verdict"}
  \/ s[1] \in {"doubt", "shrug"} /\ s[2] \notin u.sure

Of(w, g) ==
  CASE g \in Flags -> w.flags[g] [] g = "depth" -> w.depth [] g = "curr" -> w.place[1]
    [] g = "class" -> w.place[2] [] OTHER -> ""
Assigned(u, x, g, v) ==
  CASE g \in Flags -> Put(x, g, v)
    [] g = "depth" -> Deep(x, Depth(u, v))
    [] g = "curr" -> At(<<v, x.place[2], x.place[3]>>, x.depth, x.flags, x.open, x.types)
    [] g = "class" -> At(<<x.place[1], v, x.place[3]>>, x.depth, x.flags, x.open, x.types)
    [] OTHER -> x
Shifted(u, x, g, k) ==
  CASE g = "depth" -> Deep(x, Depth(u, x.depth + k))
    [] g \in {"breaks", "effects"} -> Put(x, g, x.flags[g] + k)
    [] OTHER -> x

Moved(u, w, s, x) ==
  CASE s[1] \in Called -> IF s[2] = "template_push_types" THEN Typing(x) ELSE x
    [] s[1] = "push" -> Pushed(x, s[2], s[2])
    [] s[1] = "nspc" -> Pushed(x, "", s[2])
    [] s[1] = "pop" -> Popped(x, IF s[2] = "zero" THEN 0 ELSE w.depth)
    [] s[1] = "open" -> Deep(Opened(x), Depth(u, x.depth + 1))
    [] s[1] = "close" -> Deep(Closed(x), Depth(u, x.depth - 1))
    [] s[1] = "values" -> Opened(x)
    [] s[1] = "unvalue" -> Closed(x)
    [] s[1] = "types" -> Typing(x)
    [] s[1] = "untype" -> Untyped(x)
    [] s[1] = "add" -> Shifted(u, x, s[2], s[3])
    [] s[1] = "set" -> Assigned(u, x, s[2], s[3])
    [] s[1] = "back" -> Assigned(u, x, s[2], Of(w, s[2]))
    [] s[1] = "sema" -> Put(Put(x, "in_func", FALSE), "handling", FALSE)
    [] OTHER -> x

MayStop(u, s) ==
  \/ s[1] \in {"must", "loud", "flow"} /\ s[2] # "template_push_types"
  \/ s[1] \in {"check", "refuse"}
  \/ s[1] \in {"claim", "test"} /\ s[2] \notin u.sure
Moves(u, f, w, s, x, y) ==
  /\ MayStop(u, s) => x = w /\ f # "template_push_types"
  /\ s[1] \in Called /\ s[2] = "template_push_types" => s[1] \in {"must", "loose"}
  /\ s[1] = "failed" => f \in Firm \/ s[2][1] \in {"mark", "error"}
  /\ s[1] \notin {"reset", "load", "unload"}
  /\ s[1] = "add" => s[2] \in {"depth", "breaks", "effects", "conts"}
  /\ s[1] \in {"set", "back"} => s[2] \notin {"nspcs", "open", "types"}
  /\ f \in Firm => ~Softens(u, s)
  /\ y = Moved(u, w, s, x)

Passed(u, f, w, p, x, y, v) ==
  /\ v[1] = x /\ v[Len(p) + 1] = y
  /\ \A i \in 1 .. Len(p) + 1 : IsView(u, f, v[i])
  /\ \A i \in 1 .. Len(p) : Moves(u, f, w, p[i], v[i], v[i+1])
Leads(u, f, w, p, x, y) == IsSeq(p) /\ \E v : Passed(u, f, w, p, x, y, v)

LEMMA LeadsEnds ==
  ASSUME NEW u, NEW f, NEW w, NEW p, NEW x, NEW y, Leads(u, f, w, p, x, y)
  PROVE  IsView(u, f, x) /\ IsView(u, f, y) /\ IsSeq(p)
<1>1. PICK v : Passed(u, f, w, p, x, y, v)
  BY DEF Leads
<1>2. Len(p) \in Nat
  BY SeqShape DEF Leads
<1>3. 1 \in 1 .. Len(p) + 1 /\ Len(p) + 1 \in 1 .. Len(p) + 1
  BY <1>2
<1> QED  BY <1>1, <1>3 DEF Passed, Leads

LEMMA LeadsNone ==
  ASSUME NEW u, NEW f, NEW w, NEW x
  PROVE  /\ IsView(u, f, x) => Leads(u, f, w, <<>>, x, x)
         /\ \A y : Leads(u, f, w, <<>>, x, y) => y = x
<1>1. IsSeq(<<>>) /\ Len(<<>>) = 0
  BY SeqNone
<1>2. 1 .. Len(<<>>) = {} /\ 1 .. Len(<<>>) + 1 = {1} /\ Len(<<>>) + 1 = 1
  BY <1>1
<1>3. IsView(u, f, x) => Passed(u, f, w, <<>>, x, x, [i \in {1} |-> x])
  <2>1. [i \in {1} |-> x][1] = x
    OBVIOUS
  <2> QED  BY <1>2, <2>1 DEF Passed
<1>4. \A y, v : Passed(u, f, w, <<>>, x, y, v) => y = x
  BY <1>2 DEF Passed
<1> QED  BY <1>1, <1>3, <1>4 DEF Leads

LEMMA LeadsCat ==
  ASSUME NEW u, NEW f, NEW w
  PROVE  \A p, q, x, y, z : Leads(u, f, w, p, x, y) /\ Leads(u, f, w, q, y, z) => Leads(u, f, w, p \o q, x, z)
<1> SUFFICES ASSUME NEW p, NEW q, NEW x, NEW y, NEW z, Leads(u, f, w, p, x, y), Leads(u, f, w, q, y, z)
             PROVE  Leads(u, f, w, p \o q, x, z)
  OBVIOUS
<1> DEFINE m == Len(p)
           k == Len(q)
<1>1. IsSeq(p) /\ IsSeq(q) /\ m \in Nat /\ k \in Nat
  BY SeqShape DEF Leads
<1>2. PICK a : Passed(u, f, w, p, x, y, a)
  BY DEF Leads
<1>3. PICK b : Passed(u, f, w, q, y, z, b)
  BY DEF Leads
<1>4. IsSeq(p \o q) /\ Len(p \o q) = m + k
      /\ (\A i \in 1 .. m : (p \o q)[i] = p[i])
      /\ (\A i \in 1 .. m + k : i \notin 1 .. m => i - m \in 1 .. k /\ (p \o q)[i] = q[i - m])
  BY <1>1, SeqCat
<1>5. a[m+1] = y /\ b[1] = y /\ a[1] = x /\ b[k+1] = z
  BY <1>2, <1>3 DEF Passed
<1>6. /\ \A i \in 1 .. m + 1 : IsView(u, f, a[i])
      /\ \A i \in 1 .. m : Moves(u, f, w, p[i], a[i], a[i+1])
      /\ \A i \in 1 .. k + 1 : IsView(u, f, b[i])
      /\ \A i \in 1 .. k : Moves(u, f, w, q[i], b[i], b[i+1])
  BY <1>2, <1>3 DEF Passed
<1> HIDE DEF m, k
<1> DEFINE v == [i \in 1 .. m + k + 1 |-> IF i <= m THEN a[i] ELSE b[i - m]]
<1>7. \A i \in 1 .. m + 1 : v[i] = a[i]
  <2> SUFFICES ASSUME NEW i \in 1 .. m + 1 PROVE v[i] = a[i]
    OBVIOUS
  <2>1. i \in 1 .. m + k + 1
    BY <1>1
  <2>2. CASE i <= m
    BY <2>1, <2>2
  <2>3. CASE i = m + 1
    <3>1. ~(i <= m) /\ i - m = 1
      BY <2>3, <1>1
    <3> QED  BY <2>1, <3>1, <1>5, <2>3
  <2> QED  BY <2>2, <2>3, <1>1
<1>8. \A i \in 1 .. m + k + 1 : i \notin 1 .. m => i - m \in 1 .. k + 1 /\ v[i] = b[i - m]
  <2> SUFFICES ASSUME NEW i \in 1 .. m + k + 1, i \notin 1 .. m PROVE i - m \in 1 .. k + 1 /\ v[i] = b[i - m]
    OBVIOUS
  <2>1. ~(i <= m) /\ i - m \in 1 .. k + 1
    BY <1>1
  <2> QED  BY <2>1
<1>9. v[1] = x /\ v[m + k + 1] = z
  <2>1. 1 \in 1 .. m + 1 /\ m + k + 1 \in 1 .. m + k + 1 /\ m + k + 1 \notin 1 .. m /\ (m + k + 1) - m = k + 1
    BY <1>1
  <2> HIDE DEF v
  <2> QED  BY <2>1, <1>7, <1>8, <1>5
<1> HIDE DEF v
<1>10. \A i \in 1 .. m + k + 1 : IsView(u, f, v[i])
  <2> SUFFICES ASSUME NEW i \in 1 .. m + k + 1 PROVE IsView(u, f, v[i])
    OBVIOUS
  <2>1. CASE i \in 1 .. m
    <3>1. i \in 1 .. m + 1
      BY <2>1, <1>1
    <3> QED  BY <3>1, <1>6, <1>7
  <2>2. CASE i \notin 1 .. m
    BY <2>2, <1>6, <1>8
  <2> QED  BY <2>1, <2>2
<1>11. \A i \in 1 .. m + k : Moves(u, f, w, (p \o q)[i], v[i], v[i+1])
  <2> SUFFICES ASSUME NEW i \in 1 .. m + k PROVE Moves(u, f, w, (p \o q)[i], v[i], v[i+1])
    OBVIOUS
  <2>1. CASE i \in 1 .. m
    <3>1. i \in 1 .. m + 1 /\ i + 1 \in 1 .. m + 1
      BY <2>1, <1>1
    <3>2. v[i] = a[i] /\ v[i+1] = a[i+1] /\ (p \o q)[i] = p[i]
      BY <3>1, <2>1, <1>4, <1>7
    <3> QED  BY <3>2, <2>1, <1>6
  <2>2. CASE i \notin 1 .. m
    <3>1. i \in 1 .. m + k + 1 /\ i + 1 \in 1 .. m + k + 1 /\ i + 1 \notin 1 .. m /\ (i + 1) - m = (i - m) + 1
      BY <2>2, <1>1
    <3>2. i - m \in 1 .. k /\ (p \o q)[i] = q[i - m]
      BY <2>2, <1>4
    <3>3. v[i] = b[i - m] /\ v[i+1] = b[(i - m) + 1]
      BY <3>1, <2>2, <1>8
    <3> QED  BY <3>2, <3>3, <1>6
  <2> QED  BY <2>1, <2>2
<1>12. Passed(u, f, w, p \o q, x, z, v)
  <2>1. Len(p \o q) + 1 = m + k + 1
    BY <1>4
  <2> QED  BY <1>4, <2>1, <1>9, <1>10, <1>11 DEF Passed
<1> QED  BY <1>4, <1>12 DEF Leads

LEMMA LeadsStep ==
  ASSUME NEW u, NEW f, NEW w
  PROVE  \A s, x, y : IsView(u, f, x) /\ IsView(u, f, y) /\ Moves(u, f, w, s, x, y) => Leads(u, f, w, <<s>>, x, y)
<1> SUFFICES ASSUME NEW s, NEW x, NEW y, IsView(u, f, x), IsView(u, f, y), Moves(u, f, w, s, x, y)
             PROVE  Leads(u, f, w, <<s>>, x, y)
  OBVIOUS
<1> DEFINE p == <<s>>
<1>1. IsSeq(p)
  <2>1. p \in Seq({s})
    OBVIOUS
  <2> QED  BY <2>1 DEF IsSeq
<1>2. Len(p) = 1 /\ p[1] = s
  OBVIOUS
<1> HIDE DEF p
<1> DEFINE v == [i \in 1 .. 2 |-> IF i = 1 THEN x ELSE y]
<1>3. v[1] = x /\ v[2] = y
  OBVIOUS
<1> HIDE DEF v
<1>4. 1 .. Len(p) = {1} /\ 1 .. Len(p) + 1 = {1, 2} /\ Len(p) + 1 = 2
  BY <1>2
<1>5. Passed(u, f, w, p, x, y, v)
  BY <1>2, <1>3, <1>4 DEF Passed
<1>6. Leads(u, f, w, p, x, y)
  BY <1>1, <1>5 DEF Leads
<1> QED  BY <1>6 DEF p

LEMMA LeadsTail ==
  ASSUME NEW u, NEW f, NEW w, NEW p, p # <<>>, NEW x, NEW y, Leads(u, f, w, p, x, y)
  PROVE  \E z : IsView(u, f, z) /\ Moves(u, f, w, p[1], x, z) /\ Leads(u, f, w, Tail(p), z, y)
<1>1. PICK v : Passed(u, f, w, p, x, y, v)
  BY DEF Leads
<1> DEFINE S == {p[i] : i \in DOMAIN p}
           m == Len(p)
           q == Tail(p)
<1>2. p \in Seq(S) /\ m \in Nat /\ IsSeq(p)
  BY SeqShape DEF Leads
<1> HIDE DEF S
<1>3. q \in Seq(S) /\ Len(q) = m - 1 /\ m # 0 /\ \A i \in 1 .. m - 1 : q[i] = p[i+1]
  BY <1>2
<1>4. IsSeq(q)
  BY <1>3 DEF IsSeq
<1> HIDE DEF q, m
<1> DEFINE b == [i \in 1 .. m |-> v[i+1]]
<1>5. /\ v[1] = x /\ v[m+1] = y
      /\ \A i \in 1 .. m + 1 : IsView(u, f, v[i])
      /\ \A i \in 1 .. m : Moves(u, f, w, p[i], v[i], v[i+1])
  BY <1>1 DEF Passed, m
<1>6. /\ 1 \in 1 .. m /\ m \in 1 .. m /\ Len(q) + 1 = m
      /\ \A i \in 1 .. m : i + 1 \in 1 .. m + 1
      /\ \A i \in 1 .. Len(q) : i \in 1 .. m /\ i + 1 \in 1 .. m /\ i \in 1 .. m - 1
  BY <1>2, <1>3
<1>7. \A i \in 1 .. m : b[i] = v[i+1]
  OBVIOUS
<1> HIDE DEF b
<1>8. Passed(u, f, w, q, v[2], y, b)
  <2>1. b[1] = v[2] /\ b[Len(q) + 1] = y
    <3>1. b[1] = v[1+1] /\ b[m] = v[m+1]
      BY <1>6, <1>7
    <3> QED  BY <3>1, <1>5, <1>6
  <2>2. \A i \in 1 .. Len(q) + 1 : IsView(u, f, b[i])
    BY <1>5, <1>6, <1>7
  <2>3. \A i \in 1 .. Len(q) : Moves(u, f, w, q[i], b[i], b[i+1])
    BY <1>3, <1>5, <1>6, <1>7
  <2> QED  BY <2>1, <2>2, <2>3 DEF Passed
<1>9. Leads(u, f, w, q, v[2], y)
  BY <1>4, <1>8 DEF Leads
<1>10. IsView(u, f, v[2]) /\ Moves(u, f, w, p[1], x, v[2])
  <2>1. IsView(u, f, v[1+1]) /\ Moves(u, f, w, p[1], v[1], v[1+1])
    BY <1>5, <1>6
  <2> QED  BY <2>1, <1>5
<1> QED  BY <1>9, <1>10 DEF q

(* All steps from the same to the same. *)
LEMMA LeadsBack ==
  ASSUME NEW u, NEW f, NEW w, NEW p, NEW x, IsSeq(p), IsView(u, f, x),
         \A i \in DOMAIN p : Moves(u, f, w, p[i], x, x)
  PROVE  Leads(u, f, w, p, x, x)
<1>1. Len(p) \in Nat /\ DOMAIN p = 1 .. Len(p)
  BY SeqShape
<1> DEFINE v == [i \in 1 .. Len(p) + 1 |-> x]
<1>2. /\ 1 \in 1 .. Len(p) + 1 /\ Len(p) + 1 \in 1 .. Len(p) + 1
      /\ \A i \in 1 .. Len(p) : i \in 1 .. Len(p) + 1 /\ i + 1 \in 1 .. Len(p) + 1
  BY <1>1
<1>3. \A i \in 1 .. Len(p) + 1 : v[i] = x
  OBVIOUS
<1> HIDE DEF v
<1>4. Passed(u, f, w, p, x, x, v)
  BY <1>1, <1>2, <1>3 DEF Passed
<1> QED  BY <1>4 DEF Leads

LEMMA CalmMoves ==
  ASSUME NEW u, NEW f, f \notin Firm, NEW w, NEW n, NEW s
  PROVE  /\ FineStep(u, f, n, "calm", s) => Moves(u, f, w, s, w, w)
         /\ FineStep(u, f, n, "easy", s) => FineStep(u, f, n, "calm", s)
<1>0. f # "template_push_types"
  BY DEF Firm
<1>1. CalmStep(s) => Moves(u, f, w, s, w, w)
  <2> SUFFICES ASSUME CalmStep(s) PROVE Moves(u, f, w, s, w, w)
    OBVIOUS
  <2>1. CASE s[1] \in Called /\ s[2] # "template_push_types"
    BY <1>0, <2>1 DEF Moves, Moved, Called, MayStop
  <2>2. CASE s[1] \in Claims \cup {"check", "refuse", "fail", "verdict", "mark", "error", "unhandled"}
    BY <1>0, <2>2 DEF Moves, Moved, Called, MayStop, Claims
  <2>3. CASE s[1] = "failed" /\ s[2][1] \in {"mark", "error"}
    BY <1>0, <2>3 DEF Moves, Moved, Called, MayStop
  <2> QED  BY <2>1, <2>2, <2>3 DEF CalmStep
<1> QED  BY <1>1 DEF FineStep

LEMMA EasyMoves ==
  ASSUME NEW u, NEW f, f \notin Firm, NEW w, NEW n, NEW s, NEW x, FineStep(u, f, n, "easy", s)
  PROVE  Moves(u, f, w, s, x, x)
<1>1. EasyStep(u, s) /\ CalmStep(s)
  BY DEF FineStep
<1>2. ~MayStop(u, s)
  BY <1>1 DEF EasyStep, MayStop
<1>3. CASE s[1] \in Called /\ s[2] # "template_push_types"
  BY <1>2, <1>3 DEF Moves, Moved, Called
<1>4. CASE s[1] \in Claims \cup {"check", "refuse", "fail", "verdict", "mark", "error", "unhandled"}
  BY <1>2, <1>4 DEF Moves, Moved, Called, Claims
<1>5. CASE s[1] = "failed" /\ s[2][1] \in {"mark", "error"}
  BY <1>2, <1>5 DEF Moves, Moved, Called
<1> QED  BY <1>1, <1>3, <1>4, <1>5 DEF CalmStep

LEMMA LeadsCalm ==
  ASSUME NEW u, NEW f, f \notin Firm, NEW w, IsView(u, f, w), NEW n
  PROVE  \A p : Fine(u, f, n, "calm", p) => Leads(u, f, w, p, w, w)
BY LeadsBack, CalmMoves DEF Fine

LEMMA LeadsEasy ==
  ASSUME NEW u, NEW f, f \notin Firm, NEW w, NEW n
  PROVE  \A p, x : Fine(u, f, n, "easy", p) /\ IsView(u, f, x) => Leads(u, f, w, p, x, x)
BY LeadsBack, EasyMoves DEF Fine

IsDepth(u, d) == d \in Nat /\ (~Level(u) => d = 0)

LEMMA AtFields ==
  \A a, b, c, d, e : /\ At(a, b, c, d, e).place = a /\ At(a, b, c, d, e).depth = b
                     /\ At(a, b, c, d, e).flags = c /\ At(a, b, c, d, e).open = d /\ At(a, b, c, d, e).types = e
BY DEF At

LEMMA Views ==
  ASSUME NEW u, NEW f, NEW x, IsView(u, f, x)
  PROVE  /\ \A class, nspc : IsView(u, f, Pushed(x, class, nspc))
         /\ IsView(u, f, Opened(x)) /\ IsView(u, f, Typing(x))
         /\ \A d : IsDepth(u, d) => IsView(u, f, Deep(x, d))
         /\ IsDepth(u, x.depth) /\ IsDepth(u, 0) /\ IsDepth(u, Depth(u, x.depth + 1))
         /\ \A v : IsView(u, f, Put(x, "func", v)) /\ IsView(u, f, Put(x, "in_try", v))
         /\ \A v \in Int : IsView(u, f, Put(x, "breaks", v)) /\ IsView(u, f, Put(x, "effects", v))
         /\ f \in SemaFns => \A v : IsView(u, f, Put(x, "in_func", v)) /\ IsView(u, f, Put(x, "handling", v))
<1> DEFINE p == x.place
           fl == x.flags
<1>1. /\ x = At(p, x.depth, fl, x.open, x.types) /\ p = <<p[1], p[2], p[3]>> /\ IsSeq(p[3])
      /\ fl = [g \in Flags |-> fl[g]] /\ fl["effects"] \in Int /\ fl["breaks"] \in Int
      /\ x.depth \in Nat /\ (~Level(u) => x.depth = 0)
      /\ f \notin SemaFns => fl["in_func"] = FALSE /\ fl["handling"] = FALSE
      /\ IsABag(x.open) /\ IsABag(x.types)
  BY DEF IsView
<1>2. x.place = p /\ x.flags = fl
  OBVIOUS
<1>3. /\ \A g \in Flags : \A v :
                             /\ [fl EXCEPT ![g] = v] = [h \in Flags |-> [fl EXCEPT ![g] = v][h]]
                             /\ [fl EXCEPT ![g] = v][g] = v
                             /\ \A h \in Flags : h # g => [fl EXCEPT ![g] = v][h] = fl[h]
      /\ Flags = {"func", "in_try", "breaks", "effects", "in_func", "handling"}
  BY <1>1 DEF Flags
<1> HIDE DEF p, fl
<1> DEFINE PlaceOk(q) == q = <<q[1], q[2], q[3]>> /\ IsSeq(q[3])
           FlagsOk(q) == /\ q = [g \in Flags |-> q[g]] /\ q["effects"] \in Int /\ q["breaks"] \in Int
                         /\ f \notin SemaFns => q["in_func"] = FALSE /\ q["handling"] = FALSE
<1>4. \A a, d, c, o, t : PlaceOk(a) /\ IsDepth(u, d) /\ FlagsOk(c) /\ IsABag(o) /\ IsABag(t) => IsView(u, f, At(a, d, c, o, t))
  <2> SUFFICES ASSUME NEW a, NEW d, NEW c, NEW o, NEW t, PlaceOk(a), IsDepth(u, d), FlagsOk(c), IsABag(o), IsABag(t)
               PROVE  IsView(u, f, At(a, d, c, o, t))
    OBVIOUS
  <2> DEFINE y == At(a, d, c, o, t)
  <2>1. y.place = a /\ y.depth = d /\ y.flags = c /\ y.open = o /\ y.types = t
    BY AtFields
  <2>2. y = At(y.place, y.depth, y.flags, y.open, y.types)
    BY <2>1
  <2> HIDE DEF y
  <2>3. IsView(u, f, y)
    BY <2>1, <2>2 DEF IsView, IsDepth
  <2> QED  BY <2>3 DEF y
<1>5. IsDepth(u, x.depth) /\ IsDepth(u, 0) /\ IsDepth(u, Depth(u, x.depth + 1))
  BY <1>1 DEF IsDepth, Depth
<1>6. PlaceOk(p) /\ FlagsOk(fl)
  BY <1>1
<1>7. \A g \in Flags : \A v :
                          /\ g \in {"func", "in_try"} => FlagsOk([fl EXCEPT ![g] = v])
                          /\ g \in {"breaks", "effects"} /\ v \in Int => FlagsOk([fl EXCEPT ![g] = v])
                          /\ f \in SemaFns /\ g \in {"in_func", "handling"} => FlagsOk([fl EXCEPT ![g] = v])
  <2> SUFFICES ASSUME NEW g \in Flags, NEW v
               PROVE  /\ g \in {"func", "in_try"} => FlagsOk([fl EXCEPT ![g] = v])
                      /\ g \in {"breaks", "effects"} /\ v \in Int => FlagsOk([fl EXCEPT ![g] = v])
                      /\ f \in SemaFns /\ g \in {"in_func", "handling"} => FlagsOk([fl EXCEPT ![g] = v])
    OBVIOUS
  <2> DEFINE q == [fl EXCEPT ![g] = v]
  <2>1. q = [h \in Flags |-> q[h]] /\ q[g] = v /\ \A h \in Flags : h # g => q[h] = fl[h]
    BY <1>3
  <2> HIDE DEF q
  <2>2. /\ g \in {"func", "in_try"} => FlagsOk(q)
        /\ g \in {"breaks", "effects"} /\ v \in Int => FlagsOk(q)
        /\ f \in SemaFns /\ g \in {"in_func", "handling"} => FlagsOk(q)
    BY <2>1, <1>1, <1>3
  <2> QED  BY <2>2 DEF q
<1>8. \A class, nspc : PlaceOk(<<nspc, class, Append(p[3], <<p[1], p[2]>>)>>)
  <2>1. \A class, nspc : <<nspc, class, Append(p[3], <<p[1], p[2]>>)>>[3] = Append(p[3], <<p[1], p[2]>>)
    OBVIOUS
  <2>2. IsSeq(Append(p[3], <<p[1], p[2]>>))
    BY <1>1, StackLaws
  <2>3. \A a, b, c : <<a, b, c>> = <<<<a, b, c>>[1], <<a, b, c>>[2], <<a, b, c>>[3]>>
    OBVIOUS
  <2> QED  BY <2>1, <2>2, <2>3
<1>9. \A k : IsABag(BagAdd(x.open, k)) /\ IsABag(BagAdd(x.types, k))
  BY <1>1, BagLaws
<1>10. "func" \in Flags /\ "in_try" \in Flags /\ "breaks" \in Flags /\ "effects" \in Flags /\ "in_func" \in Flags
       /\ "handling" \in Flags
  BY DEF Flags
<1>11. \A g, v : FlagsOk([fl EXCEPT ![g] = v]) => IsView(u, f, Put(x, g, v))
  BY <1>1, <1>2, <1>4, <1>5, <1>6 DEF Put
<1>12. fl["effects"] + 1 \in Int
  BY <1>1
<1> HIDE DEF PlaceOk, FlagsOk
<1>13. \A class, nspc : IsView(u, f, Pushed(x, class, nspc))
  BY <1>1, <1>2, <1>4, <1>5, <1>7, <1>8, <1>10, <1>12 DEF Pushed
<1>14. IsView(u, f, Opened(x)) /\ IsView(u, f, Typing(x))
  BY <1>1, <1>2, <1>4, <1>5, <1>6, <1>9 DEF Opened, Typing
<1>15. \A d : IsDepth(u, d) => IsView(u, f, Deep(x, d))
  BY <1>1, <1>2, <1>4, <1>5, <1>6 DEF Deep
<1>16. /\ \A v : IsView(u, f, Put(x, "func", v)) /\ IsView(u, f, Put(x, "in_try", v))
       /\ \A v \in Int : IsView(u, f, Put(x, "breaks", v)) /\ IsView(u, f, Put(x, "effects", v))
       /\ f \in SemaFns => \A v : IsView(u, f, Put(x, "in_func", v)) /\ IsView(u, f, Put(x, "handling", v))
  BY <1>7, <1>10, <1>11
<1> QED  BY <1>5, <1>13, <1>14, <1>15, <1>16

(* Steps that are no calls.                                                *)
Ops == {"push", "nspc", "pop", "open", "close", "values", "unvalue", "types", "untype", "add", "set", "back", "sema"}

LEMMA OpSteps ==
  ASSUME NEW u, NEW f, NEW w, NEW x, IsView(u, f, x)
  PROVE  \A s, y : /\ s[1] \in Ops /\ y = Moved(u, w, s, x) /\ IsView(u, f, y)
                   /\ s[1] = "add" => s[2] \in {"depth", "breaks", "effects", "conts"}
                   /\ s[1] \in {"set", "back"} => s[2] \notin {"nspcs", "open", "types"}
                   => Leads(u, f, w, <<s>>, x, y)
<1> SUFFICES ASSUME NEW s, NEW y, s[1] \in Ops, y = Moved(u, w, s, x), IsView(u, f, y),
                    s[1] = "add" => s[2] \in {"depth", "breaks", "effects", "conts"},
                    s[1] \in {"set", "back"} => s[2] \notin {"nspcs", "open", "types"}
             PROVE  Leads(u, f, w, <<s>>, x, y)
  OBVIOUS
<1>1. s[1] \notin Called \cup Claims \cup {"check", "refuse", "failed", "reset", "load", "unload"} /\ ~Softens(u, s)
  BY DEF Ops, Called, Claims, Softens
<1>2. Moves(u, f, w, s, x, y)
  BY <1>1 DEF Moves, MayStop, Called, Claims
<1> QED  BY <1>2, LeadsStep

LEMMA PushSteps ==
  ASSUME NEW u, NEW f, NEW w, NEW x, IsView(u, f, x)
  PROVE  /\ \A n : Leads(u, f, w, PushType(n), x, Pushed(x, n, n)) /\ Leads(u, f, w, PushNspc(n), x, Pushed(x, "", n))
         /\ Leads(u, f, w, Do("values", ""), x, Opened(x)) /\ Leads(u, f, w, Do("types", ""), x, Typing(x))
         /\ Leads(u, f, w, Do("open", ""), x, Deep(Opened(x), Depth(u, x.depth + 1)))
         /\ IsView(u, f, Deep(Opened(x), Depth(u, x.depth + 1)))
<1>1. \A n : <<"push", n>>[1] = "push" /\ <<"push", n>>[2] = n /\ <<"nspc", n>>[1] = "nspc" /\ <<"nspc", n>>[2] = n
             /\ <<"values", n>>[1] = "values" /\ <<"types", n>>[1] = "types" /\ <<"open", n>>[1] = "open"
  OBVIOUS
<1>2. \A n : Moved(u, w, <<"push", n>>, x) = Pushed(x, n, n) /\ Moved(u, w, <<"nspc", n>>, x) = Pushed(x, "", n)
  BY <1>1 DEF Moved, Called
<1>3. /\ Moved(u, w, <<"values", "">>, x) = Opened(x) /\ Moved(u, w, <<"types", "">>, x) = Typing(x)
      /\ Moved(u, w, <<"open", "">>, x) = Deep(Opened(x), Depth(u, x.depth + 1))
  BY <1>1 DEF Moved, Called
<1>4. IsView(u, f, Deep(Opened(x), Depth(u, x.depth + 1)))
  <2>1. IsView(u, f, Opened(x)) /\ IsDepth(u, Depth(u, x.depth + 1))
    BY Views
  <2> QED  BY <2>1, Views
<1>5. \A k \in {"push", "nspc", "values", "types", "open"} : k \in Ops /\ k \notin {"add", "set", "back"}
  BY DEF Ops
<1>6. IsView(u, f, Opened(x)) /\ IsView(u, f, Typing(x)) /\ \A n : IsView(u, f, Pushed(x, n, n)) /\ IsView(u, f, Pushed(x, "", n))
  BY Views
<1>7. \A n : Leads(u, f, w, <<<<"push", n>>>>, x, Pushed(x, n, n)) /\ Leads(u, f, w, <<<<"nspc", n>>>>, x, Pushed(x, "", n))
  BY <1>1, <1>2, <1>5, <1>6, OpSteps
<1>8. /\ Leads(u, f, w, <<<<"values", "">>>>, x, Opened(x)) /\ Leads(u, f, w, <<<<"types", "">>>>, x, Typing(x))
      /\ Leads(u, f, w, <<<<"open", "">>>>, x, Deep(Opened(x), Depth(u, x.depth + 1)))
  BY <1>1, <1>3, <1>4, <1>5, <1>6, OpSteps
<1> QED  BY <1>4, <1>7, <1>8 DEF PushType, PushNspc, Do

(* ... and back. *)
LEMMA PopSteps ==
  ASSUME NEW u, NEW f, NEW w, IsView(u, f, w), NEW x, IsView(u, f, x)
  PROVE  /\ \A class, nspc : /\ Leads(u, f, w, Pop, Pushed(x, class, nspc), Deep(x, w.depth))
                             /\ Leads(u, f, w, PopTo0, Pushed(x, class, nspc), Deep(x, 0))
                             /\ \A d : IsDepth(u, d) =>
                                  Leads(u, f, w, Pop, Deep(Pushed(x, class, nspc), d), Deep(x, w.depth))
         /\ Leads(u, f, w, Do("unvalue", ""), Opened(x), x) /\ Leads(u, f, w, Do("untype", ""), Typing(x), x)
         /\ Leads(u, f, w, Do("close", ""), Deep(Opened(x), Depth(u, x.depth + 1)), x)
         /\ IsView(u, f, Deep(x, w.depth)) /\ IsView(u, f, Deep(x, 0))
<1>1. \A n : <<"pop", n>>[1] = "pop" /\ <<"pop", n>>[2] = n /\ <<"unvalue", n>>[1] = "unvalue"
             /\ <<"untype", n>>[1] = "untype" /\ <<"close", n>>[1] = "close"
  OBVIOUS
<1>2. \A y : /\ Moved(u, w, <<"pop", "depth">>, y) = Popped(y, w.depth) /\ Moved(u, w, <<"pop", "zero">>, y) = Popped(y, 0)
             /\ Moved(u, w, <<"unvalue", "">>, y) = Closed(y) /\ Moved(u, w, <<"untype", "">>, y) = Untyped(y)
             /\ Moved(u, w, <<"close", "">>, y) = Deep(Closed(y), Depth(u, y.depth - 1))
  BY <1>1 DEF Moved, Called
<1>3. \A k \in {"pop", "unvalue", "untype", "close"} : k \in Ops /\ k \notin {"add", "set", "back"}
  BY DEF Ops
<1>4. /\ IsDepth(u, w.depth) /\ IsDepth(u, 0) /\ IsView(u, f, Deep(x, w.depth)) /\ IsView(u, f, Deep(x, 0))
      /\ IsView(u, f, Opened(x)) /\ IsView(u, f, Typing(x)) /\ \A class, nspc : IsView(u, f, Pushed(x, class, nspc))
  BY Views
<1>5. \A class, nspc, d : IsDepth(u, d) => IsView(u, f, Deep(Pushed(x, class, nspc), d))
  BY <1>4, Views
<1>10. \A y, z : IsView(u, f, y) /\ IsView(u, f, z)
        => /\ z = Popped(y, w.depth) => Leads(u, f, w, <<<<"pop", "depth">>>>, y, z)
           /\ z = Popped(y, 0) => Leads(u, f, w, <<<<"pop", "zero">>>>, y, z)
  <2> SUFFICES ASSUME NEW y, NEW z, IsView(u, f, y), IsView(u, f, z)
               PROVE  /\ z = Popped(y, w.depth) => Leads(u, f, w, <<<<"pop", "depth">>>>, y, z)
                      /\ z = Popped(y, 0) => Leads(u, f, w, <<<<"pop", "zero">>>>, y, z)
    OBVIOUS
  <2> QED  BY <1>1, <1>2, <1>3, OpSteps
<1>6. \A class, nspc : /\ Leads(u, f, w, <<<<"pop", "depth">>>>, Pushed(x, class, nspc), Deep(x, w.depth))
                       /\ Leads(u, f, w, <<<<"pop", "zero">>>>, Pushed(x, class, nspc), Deep(x, 0))
  <2>1. \A class, nspc, d : Popped(Pushed(x, class, nspc), d) = Deep(x, d)
    BY Undone
  <2> QED  BY <1>10, <1>4, <2>1
<1>7. \A class, nspc, d : IsDepth(u, d) =>
        Leads(u, f, w, <<<<"pop", "depth">>>>, Deep(Pushed(x, class, nspc), d), Deep(x, w.depth))
  <2>1. \A class, nspc, d, e : Popped(Deep(Pushed(x, class, nspc), e), d) = Deep(x, d)
    BY Undone
  <2> QED  BY <1>10, <1>4, <1>5, <2>1
<1>8. Leads(u, f, w, <<<<"unvalue", "">>>>, Opened(x), x) /\ Leads(u, f, w, <<<<"untype", "">>>>, Typing(x), x)
  BY <1>1, <1>2, <1>3, <1>4, Undone, OpSteps
<1>9. Leads(u, f, w, <<<<"close", "">>>>, Deep(Opened(x), Depth(u, x.depth + 1)), x)
  <2> DEFINE d == Depth(u, x.depth + 1)
             y == Deep(Opened(x), d)
  <2>1. IsView(u, f, y)
    BY PushSteps
  <2>2. y.depth = d
    BY AtFields DEF Deep
  <2>3. Depth(u, d - 1) = x.depth
    <3>1. x.depth \in Nat /\ (~Level(u) => x.depth = 0)
      BY DEF IsView
    <3> QED  BY <3>1 DEF Depth
  <2> HIDE DEF d
  <2>4. Closed(y) = Deep(x, d)
    BY Undone
  <2>5. Deep(Deep(x, d), x.depth) = x
    BY Undone
  <2> HIDE DEF y
  <2>6. Moved(u, w, <<"close", "">>, y) = x
    BY <1>2, <2>2, <2>3, <2>4, <2>5
  <2>7. Leads(u, f, w, <<<<"close", "">>>>, y, x)
    BY <1>1, <1>3, <2>1, <2>6, OpSteps
  <2> QED  BY <2>7 DEF y, d
<1> QED  BY <1>4, <1>6, <1>7, <1>8, <1>9 DEF Pop, PopTo0, Do

(* Fields that are set and set back. *)
LEMMA FieldSteps ==
  ASSUME NEW u, NEW f, NEW w, IsView(u, f, w), NEW x, IsView(u, f, x)
  PROVE  /\ \A g \in {"func", "in_try"} : \A v :
              /\ Leads(u, f, w, Set(g, v), x, Put(x, g, v)) /\ IsView(u, f, Put(x, g, v))
              /\ Leads(u, f, w, Back(g), Put(w, g, v), w) /\ Leads(u, f, w, Back(g), w, w)
         /\ f \in SemaFns => \A g \in {"in_func", "handling"} : \A v :
              /\ Leads(u, f, w, Set(g, v), x, Put(x, g, v)) /\ IsView(u, f, Put(x, g, v))
              /\ Leads(u, f, w, Back(g), Put(w, g, v), w)
         /\ Leads(u, f, w, Set("depth", 0), x, Deep(x, 0)) /\ IsView(u, f, Deep(x, 0))
         /\ Leads(u, f, w, Back("depth"), Deep(w, 0), w)
         /\ \A g \in {"in_defer", "in_variadic", "code", "tmpls"} : \A v :
              Leads(u, f, w, Set(g, v), x, x) /\ Leads(u, f, w, Back(g), x, x)
         /\ \A k \in Int : Leads(u, f, w, Add("conts", k), x, x)
         /\ \A g \in {"breaks", "effects"} :
              /\ Leads(u, f, w, Add(g, 1), x, Put(x, g, x.flags[g] + 1)) /\ IsView(u, f, Put(x, g, x.flags[g] + 1))
              /\ Leads(u, f, w, Add(g, -1), Put(x, g, x.flags[g] + 1), x)
<1>1. \A g, v : /\ <<"set", g, v>>[1] = "set" /\ <<"set", g, v>>[2] = g /\ <<"set", g, v>>[3] = v
                /\ <<"add", g, v>>[1] = "add" /\ <<"add", g, v>>[2] = g /\ <<"add", g, v>>[3] = v
                /\ <<"back", g>>[1] = "back" /\ <<"back", g>>[2] = g
  OBVIOUS
<1>2. \A y, g, v : /\ Moved(u, w, <<"set", g, v>>, y) = Assigned(u, y, g, v)
                   /\ Moved(u, w, <<"add", g, v>>, y) = Shifted(u, y, g, v)
                   /\ Moved(u, w, <<"back", g>>, y) = Assigned(u, y, g, Of(w, g))
  BY <1>1 DEF Moved, Called
<1>3. "set" \in Ops /\ "add" \in Ops /\ "back" \in Ops
  BY DEF Ops
<1>4. \A g, v, y, z : /\ IsView(u, f, y) /\ IsView(u, f, z)
                      => /\ g \notin {"nspcs", "open", "types"} /\ z = Assigned(u, y, g, v) => Leads(u, f, w, Set(g, v), y, z)
                         /\ g \notin {"nspcs", "open", "types"} /\ z = Assigned(u, y, g, Of(w, g)) => Leads(u, f, w, Back(g), y, z)
                         /\ g \in {"depth", "breaks", "effects", "conts"} /\ z = Shifted(u, y, g, v)
                              => Leads(u, f, w, Add(g, v), y, z)
  <2> SUFFICES ASSUME NEW g, NEW v, NEW y, NEW z, IsView(u, f, y), IsView(u, f, z)
               PROVE  /\ g \notin {"nspcs", "open", "types"} /\ z = Assigned(u, y, g, v) => Leads(u, f, w, Set(g, v), y, z)
                      /\ g \notin {"nspcs", "open", "types"} /\ z = Assigned(u, y, g, Of(w, g)) => Leads(u, f, w, Back(g), y, z)
                      /\ g \in {"depth", "breaks", "effects", "conts"} /\ z = Shifted(u, y, g, v)
                           => Leads(u, f, w, Add(g, v), y, z)
    OBVIOUS
  <2> QED  BY <1>1, <1>2, <1>3, OpSteps DEF Set, Back, Add, Do
<1>5. \A g \in {"func", "in_try", "in_func", "handling", "breaks", "effects"} : \A y, v, k :
        /\ Assigned(u, y, g, v) = Put(y, g, v) /\ Of(w, g) = w.flags[g] /\ g \in Flags
        /\ g \in {"breaks", "effects"} => Shifted(u, y, g, k) = Put(y, g, y.flags[g] + k)
  <2> SUFFICES ASSUME NEW g \in {"func", "in_try", "in_func", "handling", "breaks", "effects"}, NEW y, NEW v, NEW k
               PROVE  /\ Assigned(u, y, g, v) = Put(y, g, v) /\ Of(w, g) = w.flags[g] /\ g \in Flags
                      /\ g \in {"breaks", "effects"} => Shifted(u, y, g, k) = Put(y, g, y.flags[g] + k)
    OBVIOUS
  <2>1. g \in Flags
    BY DEF Flags
  <2>2. Assigned(u, y, g, v) = Put(y, g, v)
    BY <2>1 DEF Assigned
  <2>3. Of(w, g) = w.flags[g]
    BY <2>1 DEF Of
  <2>4. g \in {"breaks", "effects"} => Shifted(u, y, g, k) = Put(y, g, y.flags[g] + k)
    BY DEF Shifted
  <2> QED  BY <2>1, <2>2, <2>3, <2>4
<1>6. \A g \in {"func", "in_try"} : \A v :
              /\ Leads(u, f, w, Set(g, v), x, Put(x, g, v)) /\ IsView(u, f, Put(x, g, v))
              /\ Leads(u, f, w, Back(g), Put(w, g, v), w) /\ Leads(u, f, w, Back(g), w, w)
  <2> SUFFICES ASSUME NEW g \in {"func", "in_try"}, NEW v
               PROVE  /\ Leads(u, f, w, Set(g, v), x, Put(x, g, v)) /\ IsView(u, f, Put(x, g, v))
                      /\ Leads(u, f, w, Back(g), Put(w, g, v), w) /\ Leads(u, f, w, Back(g), w, w)
    OBVIOUS
  <2>1. IsView(u, f, Put(x, g, v)) /\ IsView(u, f, Put(w, g, v))
    BY Views
  <2>2. Put(Put(w, g, v), g, w.flags[g]) = w /\ Put(w, g, w.flags[g]) = w
    BY <1>5, Undone
  <2> QED  BY <1>4, <1>5, <2>1, <2>2
<1>7. f \in SemaFns => \A g \in {"in_func", "handling"} : \A v :
              /\ Leads(u, f, w, Set(g, v), x, Put(x, g, v)) /\ IsView(u, f, Put(x, g, v))
              /\ Leads(u, f, w, Back(g), Put(w, g, v), w)
  <2> SUFFICES ASSUME f \in SemaFns, NEW g \in {"in_func", "handling"}, NEW v
               PROVE  /\ Leads(u, f, w, Set(g, v), x, Put(x, g, v)) /\ IsView(u, f, Put(x, g, v))
                      /\ Leads(u, f, w, Back(g), Put(w, g, v), w)
    OBVIOUS
  <2>1. IsView(u, f, Put(x, g, v)) /\ IsView(u, f, Put(w, g, v))
    BY Views
  <2>2. Put(Put(w, g, v), g, w.flags[g]) = w
    BY <1>5, Undone
  <2> QED  BY <1>4, <1>5, <2>1, <2>2
<1>8. Leads(u, f, w, Set("depth", 0), x, Deep(x, 0)) /\ IsView(u, f, Deep(x, 0)) /\ Leads(u, f, w, Back("depth"), Deep(w, 0), w)
  <2>1. IsView(u, f, Deep(x, 0)) /\ IsView(u, f, Deep(w, 0))
    BY Views
  <2>2. Depth(u, 0) = 0 /\ Depth(u, w.depth) = w.depth
    BY DEF Depth, IsView
  <2>3. \A y, v : Assigned(u, y, "depth", v) = Deep(y, Depth(u, v)) /\ Of(w, "depth") = w.depth
    BY DEF Assigned, Of, Flags
  <2>4. Deep(Deep(w, 0), w.depth) = w
    BY Undone
  <2> QED  BY <1>4, <2>1, <2>2, <2>3, <2>4
<1>9. \A g \in {"in_defer", "in_variadic", "code", "tmpls"} : \A v :
              Leads(u, f, w, Set(g, v), x, x) /\ Leads(u, f, w, Back(g), x, x)
  <2>1. \A g \in {"in_defer", "in_variadic", "code", "tmpls"} : \A v : Assigned(u, x, g, v) = x
    BY DEF Assigned, Flags
  <2> QED  BY <1>4, <2>1
<1>10. \A k \in Int : Leads(u, f, w, Add("conts", k), x, x)
  <2>1. \A k : Shifted(u, x, "conts", k) = x
    BY DEF Shifted
  <2> QED  BY <1>4, <2>1
<1>11. \A g \in {"breaks", "effects"} :
              /\ Leads(u, f, w, Add(g, 1), x, Put(x, g, x.flags[g] + 1)) /\ IsView(u, f, Put(x, g, x.flags[g] + 1))
              /\ Leads(u, f, w, Add(g, -1), Put(x, g, x.flags[g] + 1), x)
  <2> SUFFICES ASSUME NEW g \in {"breaks", "effects"}
               PROVE  /\ Leads(u, f, w, Add(g, 1), x, Put(x, g, x.flags[g] + 1)) /\ IsView(u, f, Put(x, g, x.flags[g] + 1))
                      /\ Leads(u, f, w, Add(g, -1), Put(x, g, x.flags[g] + 1), x)
    OBVIOUS
  <2> DEFINE v == x.flags[g]
             y == Put(x, g, v + 1)
  <2>1. v \in Int /\ v + 1 \in Int /\ (v + 1) + (-1) = v
    BY DEF IsView
  <2>2. IsView(u, f, y)
    BY <2>1, Views
  <2>3. y.flags[g] = v + 1
    <3>1. y.flags = [x.flags EXCEPT ![g] = v + 1]
      BY AtFields DEF Put
    <3>2. g \in DOMAIN x.flags
      <4>1. x.flags = [h \in Flags |-> x.flags[h]]
        BY DEF IsView
      <4> QED  BY <4>1, <1>5
    <3> QED  BY <3>1, <3>2
  <2>4. Put(y, g, v) = x
    BY <1>5, Undone
  <2> HIDE DEF y
  <2>5. Shifted(u, y, g, -1) = x /\ Shifted(u, x, g, 1) = Put(x, g, v + 1)
    <3>1. y.flags[g] + (-1) = v
      BY <2>1, <2>3
    <3> QED  BY <1>5, <2>4, <3>1
  <2>6. Shifted(u, x, g, 1) = y
    BY <2>5 DEF y
  <2>7. Leads(u, f, w, Add(g, 1), x, y) /\ Leads(u, f, w, Add(g, -1), y, x)
    BY <1>4, <2>2, <2>5, <2>6
  <2> QED  BY <2>2, <2>7 DEF y
<1> QED  BY <1>6, <1>7, <1>8, <1>9, <1>10, <1>11

-----------------------------------------------------------------------------
(* Plans that leave everything where it is, wherever it is (Idle), or at   *)
(* least where the call began (Still).                                     *)

Idle(u, f, w, p) == \A x : IsView(u, f, x) => Leads(u, f, w, p, x, x)
Still(u, f, w, p) == Leads(u, f, w, p, w, w)

LEMMA TypesCall ==
  ASSUME NEW u, NEW f, NEW w, NEW x, IsView(u, f, x), NEW n
  PROVE  /\ Leads(u, f, w, Must("template_push_types", <<n>>), x, Typing(x))
         /\ Leads(u, f, w, Loose("template_push_types", <<n>>), x, Typing(x))
<1>1. \A mode \in {"must", "loose"} : Leads(u, f, w, <<<<mode, "template_push_types", n>>>>, x, Typing(x))
  <2> SUFFICES ASSUME NEW mode \in {"must", "loose"}
               PROVE  Leads(u, f, w, <<<<mode, "template_push_types", n>>>>, x, Typing(x))
    OBVIOUS
  <2> DEFINE s == <<mode, "template_push_types", n>>
  <2>1. s[1] = mode /\ s[2] = "template_push_types"
    OBVIOUS
  <2> HIDE DEF s
  <2>2. Moves(u, f, w, s, x, Typing(x))
    BY <2>1 DEF Moves, Moved, MayStop, Called, Softens
  <2>3. IsView(u, f, Typing(x))
    BY Views
  <2>4. Leads(u, f, w, <<s>>, x, Typing(x))
    BY <2>2, <2>3, LeadsStep
  <2> QED  BY <2>4 DEF s
<1>2. \A mode : Call(mode, "template_push_types", <<n>>) = <<<<mode, "template_push_types", n>>>>
  BY DEF Call
<1> QED  BY <1>1, <1>2 DEF Must, Loose

LEMMA LeadsWhen ==
  ASSUME NEW u, NEW f, NEW w, NEW c, NEW p, NEW x, IsView(u, f, x), NEW y,
         c => Leads(u, f, w, p, x, y), ~c => y = x
  PROVE  Leads(u, f, w, When(c, p), x, y)
<1>1. CASE c
  BY <1>1 DEF When
<1>2. CASE ~c
  BY <1>2, LeadsNone DEF When
<1> QED  BY <1>1, <1>2

LEMMA IdleRules ==
  ASSUME NEW u, NEW f, NEW w
  PROVE  /\ Idle(u, f, w, <<>>)
         /\ \A p, q : Idle(u, f, w, p) /\ Idle(u, f, w, q) => Idle(u, f, w, p \o q)
         /\ IsView(u, f, w) => Still(u, f, w, <<>>) /\ \A p : Idle(u, f, w, p) => Still(u, f, w, p)
         /\ \A p, q : Still(u, f, w, p) /\ Still(u, f, w, q) => Still(u, f, w, p \o q)
         /\ f \notin Firm => \A n, p : Fine(u, f, n, "easy", p) => Idle(u, f, w, p)
         /\ f \notin Firm /\ IsView(u, f, w) => \A n, p : Fine(u, f, n, "calm", p) => Still(u, f, w, p)
<1>1. Idle(u, f, w, <<>>)
  BY LeadsNone DEF Idle
<1>2. \A p, q : Idle(u, f, w, p) /\ Idle(u, f, w, q) => Idle(u, f, w, p \o q)
  BY LeadsCat DEF Idle
<1>3. IsView(u, f, w) => Still(u, f, w, <<>>) /\ \A p : Idle(u, f, w, p) => Still(u, f, w, p)
  BY LeadsNone DEF Idle, Still
<1>4. \A p, q : Still(u, f, w, p) /\ Still(u, f, w, q) => Still(u, f, w, p \o q)
  BY LeadsCat DEF Still
<1>5. f \notin Firm => \A n, p : Fine(u, f, n, "easy", p) => Idle(u, f, w, p)
  BY LeadsEasy DEF Idle
<1>6. f \notin Firm /\ IsView(u, f, w) => \A n, p : Fine(u, f, n, "calm", p) => Still(u, f, w, p)
  BY LeadsCalm DEF Still
<1> QED  BY <1>1, <1>2, <1>3, <1>4, <1>5, <1>6

(* Scopes around a plan.                                                   *)
LEMMA Around ==
  ASSUME NEW u, NEW f, NEW w, IsView(u, f, w), NEW p, Idle(u, f, w, p)
  PROVE  /\ Idle(u, f, w, Scoped(p)) /\ Idle(u, f, w, Values(p))
         /\ \A n : /\ Still(u, f, w, PushType(n) \o p \o Pop) /\ Still(u, f, w, PushNspc(n) \o p \o Pop)
                   /\ w.depth = 0 => Still(u, f, w, PushType(n) \o p \o PopTo0) /\ Still(u, f, w, PushNspc(n) \o p \o PopTo0)
<1> DEFINE L(q, x, y) == Leads(u, f, w, q, x, y)
<1>1. \A q, r, x, y, z : L(q, x, y) /\ L(r, y, z) => L(q \o r, x, z)
  BY LeadsCat
<1>2. ASSUME NEW x, IsView(u, f, x) PROVE L(Scoped(p), x, x) /\ L(Values(p), x, x)
  <2> DEFINE y == Deep(Opened(x), Depth(u, x.depth + 1))
  <2>1. IsView(u, f, Opened(x)) /\ IsView(u, f, y)
    BY <1>2, Views, PushSteps
  <2>2. L(Do("open", ""), x, y) /\ L(p, y, y) /\ L(Do("close", ""), y, x)
    BY <1>2, <2>1, PushSteps, PopSteps DEF Idle
  <2>3. L(Do("values", ""), x, Opened(x)) /\ L(p, Opened(x), Opened(x)) /\ L(Do("unvalue", ""), Opened(x), x)
    BY <1>2, <2>1, PushSteps, PopSteps DEF Idle
  <2> HIDE DEF y, L
  <2>4. L(Do("open", "") \o p, x, y) /\ L(Do("values", "") \o p, x, Opened(x))
    BY <1>1, <2>2, <2>3
  <2> QED  BY <1>1, <2>2, <2>3, <2>4 DEF Scoped, Values
<1>3. ASSUME NEW n
      PROVE  /\ Still(u, f, w, PushType(n) \o p \o Pop) /\ Still(u, f, w, PushNspc(n) \o p \o Pop)
             /\ w.depth = 0 => Still(u, f, w, PushType(n) \o p \o PopTo0) /\ Still(u, f, w, PushNspc(n) \o p \o PopTo0)
  <2> DEFINE y == Pushed(w, n, n)
             z == Pushed(w, "", n)
  <2>1. IsView(u, f, y) /\ IsView(u, f, z) /\ Deep(w, w.depth) = w
    BY Views, Undone
  <2>2. /\ L(PushType(n), w, y) /\ L(p, y, y) /\ L(Pop, y, Deep(w, w.depth)) /\ L(PopTo0, y, Deep(w, 0))
        /\ L(PushNspc(n), w, z) /\ L(p, z, z) /\ L(Pop, z, Deep(w, w.depth)) /\ L(PopTo0, z, Deep(w, 0))
    BY <2>1, PushSteps, PopSteps DEF Idle
  <2> HIDE DEF y, z, L
  <2>3. L(PushType(n) \o p, w, y) /\ L(PushNspc(n) \o p, w, z)
    BY <1>1, <2>2
  <2>4. /\ L(PushType(n) \o p \o Pop, w, w) /\ L(PushNspc(n) \o p \o Pop, w, w)
        /\ w.depth = 0 => L(PushType(n) \o p \o PopTo0, w, w) /\ L(PushNspc(n) \o p \o PopTo0, w, w)
    BY <1>1, <2>1, <2>2, <2>3
  <2> QED  BY <2>4 DEF Still, L
<1> QED  BY <1>2, <1>3 DEF Idle

(* The types of a template around a plan.                                  *)
LEMMA AroundTypes ==
  ASSUME NEW u, NEW f, NEW w, IsView(u, f, w), NEW p, Idle(u, f, w, p), NEW x, IsView(u, f, x), NEW c, NEW n
  PROVE  /\ Leads(u, f, w, When(c, Must("template_push_types", <<n>>)) \o p \o When(c, Do("untype", "")), x, x)
         /\ Leads(u, f, w, When(c, Loose("template_push_types", <<n>>)) \o p \o When(c, Do("untype", "")), x, x)
         /\ Leads(u, f, w, Must("template_push_types", <<n>>) \o p \o Do("untype", ""), x, x)
<1> DEFINE L(q, a, b) == Leads(u, f, w, q, a, b)
           y == IF c THEN Typing(x) ELSE x
<1>1. \A q, r, a, b, d : L(q, a, b) /\ L(r, b, d) => L(q \o r, a, d)
  BY LeadsCat
<1>2. IsView(u, f, Typing(x)) /\ IsView(u, f, y)
  BY Views
<1>3. /\ L(Must("template_push_types", <<n>>), x, Typing(x)) /\ L(Loose("template_push_types", <<n>>), x, Typing(x))
      /\ L(Do("untype", ""), Typing(x), x) /\ L(p, Typing(x), Typing(x))
  BY <1>2, TypesCall, PopSteps DEF Idle
<1>4. /\ L(When(c, Must("template_push_types", <<n>>)), x, y) /\ L(When(c, Loose("template_push_types", <<n>>)), x, y)
      /\ L(When(c, Do("untype", "")), y, x) /\ L(p, y, y)
  BY <1>2, <1>3, LeadsWhen DEF Idle
<1> HIDE DEF L, y
<1>5. /\ L(When(c, Must("template_push_types", <<n>>)) \o p, x, y) /\ L(When(c, Loose("template_push_types", <<n>>)) \o p, x, y)
      /\ L(Must("template_push_types", <<n>>) \o p, x, Typing(x))
  BY <1>1, <1>3, <1>4
<1>6. /\ L(When(c, Must("template_push_types", <<n>>)) \o p \o When(c, Do("untype", "")), x, x)
      /\ L(When(c, Loose("template_push_types", <<n>>)) \o p \o When(c, Do("untype", "")), x, x)
      /\ L(Must("template_push_types", <<n>>) \o p \o Do("untype", ""), x, x)
  BY <1>1, <1>3, <1>4, <1>5
<1> QED  BY <1>6 DEF L

-----------------------------------------------------------------------------
(* Namespaces around work on a class of elsewhere, and back.               *)

LEMMA NoneBefore == \A s : IsSeq(s) => <<>> \o s = s
<1> SUFFICES ASSUME NEW S, NEW s \in Seq(S) PROVE <<>> \o s = s
  BY DEF IsSeq
<1> QED  OBVIOUS

(* A plan made of plans, one after the other. *)
LEMMA FlattenChain ==
  ASSUME NEW ss, IsSeq(ss), \A i \in DOMAIN ss : IsSeq(ss[i])
  PROVE  \E g : /\ g[0] = <<>> /\ g[Len(ss)] = FlattenSeq(ss)
                /\ \A i \in 1 .. Len(ss) : g[i] = g[i-1] \o ss[i]
<1>1. Len(ss) \in Nat /\ DOMAIN ss = 1 .. Len(ss)
  BY SeqShape
<1>2. CASE Len(ss) = 0
  <2> DEFINE g == [i \in {0} |-> <<>>]
  <2>1. FlattenSeq(ss) = <<>>
    <3>1. FlattenSeq(ss) = ss
      BY <1>2 DEF FlattenSeq
    <3>2. PICK S : ss \in Seq(S)
      BY DEF IsSeq
    <3> QED  BY <3>1, <3>2, <1>2
  <2>2. g[0] = <<>> /\ 1 .. 0 = {}
    OBVIOUS
  <2> QED  BY <1>2, <2>1, <2>2
<1>3. CASE Len(ss) # 0
  <2>1. PICK h : /\ h = [i \in 1 .. Len(ss) |-> IF i = 1 THEN ss[i] ELSE h[i-1] \o ss[i]]
                 /\ FlattenSeq(ss) = h[Len(ss)]
    BY <1>3, FlattenSteps
  <2> DEFINE g == [i \in 0 .. Len(ss) |-> IF i = 0 THEN <<>> ELSE h[i]]
  <2>2. g[0] = <<>> /\ \A i \in 1 .. Len(ss) : g[i] = h[i]
    BY <1>1
  <2>3. \A i \in 1 .. Len(ss) : h[i] = IF i = 1 THEN ss[i] ELSE h[i-1] \o ss[i]
    BY <2>1
  <2> HIDE DEF g
  <2>4. \A i \in 1 .. Len(ss) : g[i] = g[i-1] \o ss[i]
    <3> SUFFICES ASSUME NEW i \in 1 .. Len(ss) PROVE g[i] = g[i-1] \o ss[i]
      OBVIOUS
    <3>1. CASE i = 1
      <4>1. g[i-1] = <<>> /\ g[i] = ss[i]
        BY <2>2, <2>3, <3>1
      <4>2. <<>> \o ss[i] = ss[i]
        BY <1>1, NoneBefore
      <4> QED  BY <4>1, <4>2
    <3>2. CASE i # 1
      <4>1. i - 1 \in 1 .. Len(ss)
        BY <3>2, <1>1
      <4> QED  BY <4>1, <3>2, <2>2, <2>3
    <3> QED  BY <3>1, <3>2
  <2>5. Len(ss) \in 1 .. Len(ss)
    BY <1>1, <1>3
  <2> QED  BY <2>1, <2>2, <2>4, <2>5
<1> QED  BY <1>2, <1>3

(* One class, and out of it. *)
LEMMA OneClass ==
  ASSUME NEW u, NEW f, NEW w, IsView(u, f, w), NEW x, IsView(u, f, x), NEW c, NEW t
  PROVE  \E y : /\ IsView(u, f, y) /\ y.flags["in_try"] = x.flags["in_try"]
                /\ Leads(u, f, w, PushType(c) \o When(t, Must("template_push_types", <<c>>)), x, y)
                /\ \A d : IsDepth(u, d) =>
                     Leads(u, f, w, When(t, Do("untype", "")) \o Pop, Deep(y, d), Deep(x, w.depth))
<1> DEFINE L(q, a, b) == Leads(u, f, w, q, a, b)
           z == Pushed(x, c, c)
           y == IF t THEN Typing(z) ELSE z
<1>1. \A q, r, a, b, d : L(q, a, b) /\ L(r, b, d) => L(q \o r, a, d)
  BY LeadsCat
<1>2. IsView(u, f, z) /\ IsView(u, f, Typing(z)) /\ IsView(u, f, y)
  BY Views
<1>3. L(PushType(c), x, z)
  BY PushSteps
<1>4. L(Must("template_push_types", <<c>>), z, Typing(z))
  BY <1>2, TypesCall
<1>5. L(When(t, Must("template_push_types", <<c>>)), z, y)
  BY <1>2, <1>4, LeadsWhen
<1>6. y.flags["in_try"] = x.flags["in_try"]
  <2>1. y.flags = [x.flags EXCEPT !["effects"] = x.flags["effects"] + 1]
    BY AtFields DEF Pushed, Typing
  <2>2. x.flags = [g \in Flags |-> x.flags[g]]
    BY DEF IsView
  <2> QED  BY <2>1, <2>2 DEF Flags
<1>7. ASSUME NEW d, IsDepth(u, d) PROVE L(When(t, Do("untype", "")) \o Pop, Deep(y, d), Deep(x, w.depth))
  <2>1. IsView(u, f, Deep(z, d)) /\ IsView(u, f, Deep(y, d))
    BY <1>2, <1>7, Views
  <2>2. t => Deep(y, d) = Typing(Deep(z, d))
    BY AtFields DEF Deep, Typing
  <2>3. t => L(Do("untype", ""), Deep(y, d), Deep(z, d))
    BY <2>1, <2>2, PopSteps
  <2>4. L(When(t, Do("untype", "")), Deep(y, d), Deep(z, d))
    BY <2>1, <2>3, LeadsWhen
  <2>5. L(Pop, Deep(z, d), Deep(x, w.depth))
    BY <1>7, PopSteps
  <2> HIDE DEF L, y, z
  <2> QED  BY <1>1, <2>4, <2>5
<1>8. L(PushType(c) \o When(t, Must("template_push_types", <<c>>)), x, y)
  <2> HIDE DEF L, y, z
  <2> QED  BY <1>1, <1>3, <1>5
<1> HIDE DEF y
<1> QED  BY <1>2, <1>6, <1>7, <1>8

LEMMA Counting ==
  \A l, m \in Nat :
    /\ l - 0 = l /\ l - l = 0 /\ l <= l
    /\ m + 1 <= l => m + 1 \in 1 .. l /\ (m + 1) - 1 = m /\ l + 1 - (m + 1) = l - m
    /\ m # 0 => m - 1 \in Nat /\ (m - 1) + 1 = m /\ ~(m <= m - 1) /\ (m <= l => m - 1 <= l)
OBVIOUS

(* All of them: what the plans of the classes lead to, one by one, is      *)
(* undone in the other order.                                              *)
LEMMA Nested ==
  ASSUME NEW u, NEW f, NEW w, IsView(u, f, w), NEW x, IsView(u, f, x), NEW l \in Nat, NEW a, NEW b,
         a[0] = <<>>, b[0] = <<>>,
         \A i \in 1 .. l : /\ IsSeq(a[i-1]) /\ IsSeq(b[i-1])
                           /\ \E c, t : /\ a[i] = a[i-1] \o (PushType(c) \o When(t, Must("template_push_types", <<c>>)))
                                        /\ b[l+1-i] = b[l-i] \o (When(t, Do("untype", "")) \o Pop)
  PROVE  \E y : /\ IsView(u, f, y) /\ y.flags["in_try"] = x.flags["in_try"] /\ Leads(u, f, w, a[l], x, y)
                /\ \A d : IsDepth(u, d) => \E e : IsDepth(u, e) /\ Leads(u, f, w, b[l], Deep(y, d), Deep(x, e))
<1> DEFINE L(q, y, z) == Leads(u, f, w, q, y, z)
           Back2(m, y) == \A v, d : IsDepth(u, d) /\ L(b[l-m], v, Deep(y, d)) => \E e : IsDepth(u, e) /\ L(b[l], v, Deep(x, e))
           P(m) == \E y : /\ IsView(u, f, y) /\ y.flags["in_try"] = x.flags["in_try"] /\ L(a[m], x, y)
                          /\ Back2(m, y)
           T == {m \in Nat : m <= l /\ ~P(m)}
<1>1. \A q, r, y, z, v : L(q, y, z) /\ L(r, z, v) => L(q \o r, y, v)
  BY LeadsCat
<1>2. P(0)
  <2>1. L(a[0], x, x)
    BY LeadsNone
  <2>2. l - 0 = l
    BY Counting, Zenon
  <2>3. Back2(0, x)
    BY <2>2
  <2> HIDE DEF L, Back2
  <2> QED  BY <2>1, <2>3
<1>3. ASSUME NEW m \in Nat, m + 1 <= l, P(m) PROVE P(m+1)
  <2>1. PICK y : /\ IsView(u, f, y) /\ y.flags["in_try"] = x.flags["in_try"] /\ L(a[m], x, y) /\ Back2(m, y)
    BY <1>3
  <2>2. m + 1 \in 1 .. l /\ (m + 1) - 1 = m /\ l + 1 - (m + 1) = l - m
    BY <1>3, Counting, Zenon
  <2>3. PICK c, t : /\ a[m+1] = a[(m+1)-1] \o (PushType(c) \o When(t, Must("template_push_types", <<c>>)))
                    /\ b[l+1-(m+1)] = b[l-(m+1)] \o (When(t, Do("untype", "")) \o Pop)
    BY <2>2
  <2>4. PICK z : /\ IsView(u, f, z) /\ z.flags["in_try"] = y.flags["in_try"]
                 /\ Leads(u, f, w, PushType(c) \o When(t, Must("template_push_types", <<c>>)), y, z)
                 /\ \A d : IsDepth(u, d) =>
                      Leads(u, f, w, When(t, Do("untype", "")) \o Pop, Deep(z, d), Deep(y, w.depth))
    BY <2>1, OneClass
  <2>5. L(a[m+1], x, z)
    <3> HIDE DEF L
    <3>1. L(PushType(c) \o When(t, Must("template_push_types", <<c>>)), y, z)
      BY <2>4 DEF L
    <3> QED  BY <1>1, <2>1, <2>2, <2>3, <3>1
  <2>6. IsDepth(u, w.depth)
    BY Views
  <2>7. ASSUME NEW v, NEW d, IsDepth(u, d), L(b[l-(m+1)], v, Deep(z, d)) PROVE L(b[l-m], v, Deep(y, w.depth))
    <3> HIDE DEF L
    <3>1. L(When(t, Do("untype", "")) \o Pop, Deep(z, d), Deep(y, w.depth))
      BY <2>4, <2>7 DEF L
    <3>2. L(b[l-(m+1)] \o (When(t, Do("untype", "")) \o Pop), v, Deep(y, w.depth))
      BY <1>1, <2>7, <3>1
    <3> QED  BY <2>2, <2>3, <3>2
  <2>8. Back2(m + 1, z)
    <3> HIDE DEF L
    <3> QED  BY <2>1, <2>6, <2>7
  <2> HIDE DEF L, Back2
  <2> QED  BY <2>1, <2>4, <2>5, <2>8
<1>4. T = {}
  <2> HIDE DEF P
  <2>1. SUFFICES ASSUME T # {} PROVE FALSE
    OBVIOUS
  <2>2. PICK m \in T : \A k \in T : m <= k
    <3>1. T \in SUBSET Nat
      OBVIOUS
    <3> HIDE DEF T
    <3> QED  BY <2>1, <3>1, LeastNumber
  <2>3. m # 0 /\ m \in Nat /\ m <= l /\ ~P(m)
    BY <2>2, <1>2
  <2>4. m - 1 \in Nat /\ m - 1 <= l /\ (m - 1) + 1 = m /\ ~(m <= m - 1)
    BY <2>3, Counting, Zenon
  <2>5. P(m - 1)
    BY <2>2, <2>4
  <2> QED  BY <1>3, <2>3, <2>4, <2>5
<1>5. P(l)
  <2> HIDE DEF P
  <2>1. l <= l
    BY Counting, Zenon
  <2> QED  BY <2>1, <1>4, Zenon
<1>6. PICK y : /\ IsView(u, f, y) /\ y.flags["in_try"] = x.flags["in_try"] /\ L(a[l], x, y) /\ Back2(l, y)
  BY <1>5
<1>7. ASSUME NEW d, IsDepth(u, d) PROVE \E e : IsDepth(u, e) /\ L(b[l], Deep(y, d), Deep(x, e))
  <2>1. IsView(u, f, Deep(y, d))
    BY <1>6, <1>7, Views
  <2>2. l - l = 0
    BY Counting, Zenon
  <2>3. L(b[l - l], Deep(y, d), Deep(y, d))
    BY <2>1, <2>2, LeadsNone
  <2> HIDE DEF L
  <2> QED  BY <1>6, <1>7, <2>3
<1> QED  BY <1>6, <1>7

LEMMA ChainSeq ==
  ASSUME NEW ss, IsSeq(ss), \A i \in DOMAIN ss : IsSeq(ss[i])
  PROVE  \E g : /\ g[0] = <<>> /\ g[Len(ss)] = FlattenSeq(ss)
                /\ \A i \in 1 .. Len(ss) : IsSeq(g[i-1]) /\ g[i] = g[i-1] \o ss[i]
<1>1. Len(ss) \in Nat /\ DOMAIN ss = 1 .. Len(ss)
  BY SeqShape
<1>2. PICK g : /\ g[0] = <<>> /\ g[Len(ss)] = FlattenSeq(ss)
               /\ \A i \in 1 .. Len(ss) : g[i] = g[i-1] \o ss[i]
  BY FlattenChain
<1> DEFINE T == {i \in Nat : i <= Len(ss) /\ ~IsSeq(g[i])}
<1>3. T = {}
  <2>1. SUFFICES ASSUME T # {} PROVE FALSE
    OBVIOUS
  <2>2. T \in SUBSET Nat
    OBVIOUS
  <2>3. PICK i \in T : \A j \in T : i <= j
    <3> HIDE DEF T
    <3> QED  BY <2>1, <2>2, LeastNumber
  <2>4. i # 0
    BY <1>2, SeqNone
  <2>5. i - 1 \in Nat /\ i \in 1 .. Len(ss) /\ i - 1 <= Len(ss) /\ ~(i <= i - 1)
    BY <2>4, <1>1
  <2>6. IsSeq(g[i-1])
    BY <2>3, <2>5
  <2>7. IsSeq(g[i])
    <3>1. g[i] = g[i-1] \o ss[i] /\ IsSeq(ss[i])
      BY <2>5, <1>1, <1>2
    <3> HIDE DEF T
    <3> QED  BY <3>1, <2>6, SeqCat
  <2> QED  BY <2>7
<1>4. \A i \in 1 .. Len(ss) : i - 1 \in Nat /\ i - 1 <= Len(ss)
  BY <1>1
<1>5. \A i \in 1 .. Len(ss) : IsSeq(g[i-1])
  BY <1>3, <1>4
<1> QED  BY <1>2, <1>5

LEMMA PushedFlag ==
  ASSUME NEW u, NEW f, NEW x, IsView(u, f, x), NEW c, NEW n
  PROVE  Pushed(x, c, n).flags["in_try"] = x.flags["in_try"]
<1> DEFINE y == Pushed(x, c, n)
<1>1. y.flags = [x.flags EXCEPT !["effects"] = x.flags["effects"] + 1]
  BY AtFields DEF Pushed
<1>2. x.flags = [g \in Flags |-> x.flags[g]]
  BY DEF IsView
<1> HIDE DEF y
<1>3. y.flags["in_try"] = x.flags["in_try"]
  BY <1>1, <1>2 DEF Flags
<1> QED  BY <1>3 DEF y

(* envset_push, and envset_pop from where it leads. *)
LEMMA EnvsetLeads ==
  ASSUME NEW u, NEW f, NEW w, IsView(u, f, w), NEW chain, IsSeq(chain)
  PROVE  \E y : /\ IsView(u, f, y) /\ y.flags["in_try"] = w.flags["in_try"]
                /\ Leads(u, f, w, envset_push(chain), w, y)
                /\ \A d : IsDepth(u, d) => Leads(u, f, w, envset_pop(chain), Deep(y, d), w)
<1> DEFINE l == Len(chain)
           v == N(Last(chain)).unit
           C(i) == PushType(chain[l+1-i]) \o When(Template(chain[l+1-i]), Must("template_push_types", <<chain[l+1-i]>>))
           s1 == [i \in DOMAIN chain |-> C(i)]
           s2 == [i \in DOMAIN chain |-> When(Template(chain[i]), Do("untype", "")) \o Pop]
           z == Deep(w, 0)
           x == Pushed(z, "", v)
           L(q, a, b) == Leads(u, f, w, q, a, b)
<1>0. \A q, r, a, b, d : L(q, a, b) /\ L(r, b, d) => L(q \o r, a, d)
  BY LeadsCat
<1>1. l \in Nat /\ DOMAIN chain = 1 .. l
  BY SeqShape
<1>2. /\ envset_push(chain) = Set("depth", 0) \o PushNspc(v) \o FlattenSeq(s1)
      /\ envset_pop(chain) = FlattenSeq(s2) \o Pop
  BY DEF envset_push, envset_pop
<1>3. IsView(u, f, z) /\ L(Set("depth", 0), w, z)
  BY FieldSteps
<1>4. IsView(u, f, x) /\ L(PushNspc(v), z, x)
  BY <1>3, PushSteps, Views
<1>5. \A i \in 1 .. l : /\ l + 1 - i \in 1 .. l
                        /\ \E c, t : /\ s1[i] = PushType(c) \o When(t, Must("template_push_types", <<c>>))
                                     /\ s2[l+1-i] = When(t, Do("untype", "")) \o Pop
  <2> SUFFICES ASSUME NEW i \in 1 .. l
               PROVE  /\ l + 1 - i \in 1 .. l
                      /\ \E c, t : /\ s1[i] = PushType(c) \o When(t, Must("template_push_types", <<c>>))
                                   /\ s2[l+1-i] = When(t, Do("untype", "")) \o Pop
    OBVIOUS
  <2>1. l + 1 - i \in 1 .. l
    BY <1>1
  <2>2. s1[i] = C(i)
    BY <1>1
  <2>3. s2[l+1-i] = When(Template(chain[l+1-i]), Do("untype", "")) \o Pop
    BY <1>1, <2>1
  <2> QED  BY <2>1, <2>2, <2>3
<1>6. IsSeq(s1) /\ IsSeq(s2) /\ Len(s1) = l /\ Len(s2) = l
  <2>1. DOMAIN s1 = DOMAIN chain /\ s1 = [i \in DOMAIN chain |-> s1[i]] /\ DOMAIN s2 = DOMAIN chain /\ s2 = [i \in DOMAIN chain |-> s2[i]]
    OBVIOUS
  <2> HIDE DEF s1, s2
  <2> QED  BY <2>1, SeqMap
<1>7. \A i \in DOMAIN chain : IsSeq(s1[i]) /\ IsSeq(s2[i])
  <2>1. IsSeq(Pop) /\ \A c : IsSeq(PushType(c)) /\ IsSeq(Must("template_push_types", <<c>>))
    <3>1. \A c : Leads(u, f, w, PushType(c), w, Pushed(w, c, c)) /\ Leads(u, f, w, Pop, Pushed(w, c, c), Deep(w, w.depth))
                 /\ Leads(u, f, w, Must("template_push_types", <<c>>), w, Typing(w))
      BY PushSteps, PopSteps, TypesCall
    <3> QED  BY <3>1 DEF Leads
  <2>2. IsSeq(<<>>) /\ IsSeq(Do("untype", ""))
    <3>1. Leads(u, f, w, Do("untype", ""), Typing(w), w)
      BY PopSteps
    <3> QED  BY <3>1, SeqNone DEF Leads
  <2>3. \A t, c : IsSeq(When(t, Do("untype", ""))) /\ IsSeq(When(t, Must("template_push_types", <<c>>)))
    BY <2>1, <2>2 DEF When
  <2>4. \A c : IsSeq(C(c))
    <3>1. \A p, q : IsSeq(p) /\ IsSeq(q) => IsSeq(p \o q)
      BY SeqCat
    <3> QED  BY <2>1, <2>3, <3>1
  <2>5. \A t : IsSeq(When(t, Do("untype", "")) \o Pop)
    BY <2>1, <2>3, SeqCat
  <2> QED  BY <2>4, <2>5
<1> HIDE DEF s1, s2, C, v
<1>8. PICK a : /\ a[0] = <<>> /\ a[l] = FlattenSeq(s1)
               /\ \A i \in 1 .. l : IsSeq(a[i-1]) /\ a[i] = a[i-1] \o s1[i]
  <2>1. DOMAIN s1 = DOMAIN chain
    BY <1>1, <1>6, SeqShape
  <2> QED  BY <2>1, <1>6, <1>7, ChainSeq
<1>9. PICK b : /\ b[0] = <<>> /\ b[l] = FlattenSeq(s2)
               /\ \A i \in 1 .. l : IsSeq(b[i-1]) /\ b[i] = b[i-1] \o s2[i]
  <2>1. DOMAIN s2 = DOMAIN chain
    BY <1>1, <1>6, SeqShape
  <2> QED  BY <2>1, <1>6, <1>7, ChainSeq
<1>10. \A i \in 1 .. l : (l + 1 - i) - 1 = l - i
  BY <1>1
<1>11. \A i \in 1 .. l :
          /\ IsSeq(a[i-1]) /\ IsSeq(b[i-1])
          /\ \E c, t : /\ a[i] = a[i-1] \o (PushType(c) \o When(t, Must("template_push_types", <<c>>)))
                       /\ b[l+1-i] = b[l-i] \o (When(t, Do("untype", "")) \o Pop)
  <2> SUFFICES ASSUME NEW i \in 1 .. l
               PROVE  /\ IsSeq(a[i-1]) /\ IsSeq(b[i-1])
                      /\ \E c, t : /\ a[i] = a[i-1] \o (PushType(c) \o When(t, Must("template_push_types", <<c>>)))
                                   /\ b[l+1-i] = b[l-i] \o (When(t, Do("untype", "")) \o Pop)
    OBVIOUS
  <2>1. PICK c, t : /\ s1[i] = PushType(c) \o When(t, Must("template_push_types", <<c>>))
                    /\ s2[l+1-i] = When(t, Do("untype", "")) \o Pop
    BY <1>5
  <2>2. b[l+1-i] = b[l-i] \o s2[l+1-i]
    <3>1. b[l+1-i] = b[(l+1-i)-1] \o s2[l+1-i]
      BY <1>5, <1>9
    <3> QED  BY <3>1, <1>10
  <2>3. a[i] = a[i-1] \o s1[i] /\ IsSeq(a[i-1]) /\ IsSeq(b[i-1])
    BY <1>8, <1>9
  <2> QED  BY <2>1, <2>2, <2>3
<1>12. PICK y : /\ IsView(u, f, y) /\ y.flags["in_try"] = x.flags["in_try"] /\ L(a[l], x, y)
                /\ \A d : IsDepth(u, d) => \E e : IsDepth(u, e) /\ L(b[l], Deep(y, d), Deep(x, e))
  <2> HIDE DEF l, x, z
  <2>1. a[0] = <<>> /\ b[0] = <<>>
    BY <1>8, <1>9
  <2> QED  BY <1>1, <1>4, <1>11, <2>1, Nested
<1>13. x.flags["in_try"] = w.flags["in_try"]
  <2>1. z.flags = w.flags
    BY AtFields DEF Deep
  <2> HIDE DEF z
  <2> QED  BY <2>1, <1>3, PushedFlag
<1>14. ASSUME NEW d, IsDepth(u, d) PROVE L(envset_pop(chain), Deep(y, d), w)
  <2>1. PICK e : IsDepth(u, e) /\ L(b[l], Deep(y, d), Deep(x, e))
    BY <1>12, <1>14
  <2>2. L(Pop, Deep(x, e), Deep(z, w.depth))
    BY <1>3, <2>1, PopSteps
  <2>3. Deep(z, w.depth) = w
    BY Undone
  <2> HIDE DEF L, x, z
  <2>4. envset_pop(chain) = b[l] \o Pop
    BY <1>2, <1>9
  <2> QED  BY <1>0, <2>1, <2>2, <2>3, <2>4
<1>15. L(envset_push(chain), w, y)
  <2> HIDE DEF L, x, z
  <2>1. L(Set("depth", 0) \o PushNspc(v), w, x)
    BY <1>0, <1>3, <1>4
  <2>2. envset_push(chain) = Set("depth", 0) \o PushNspc(v) \o a[l]
    BY <1>2, <1>8
  <2> QED  BY <1>0, <1>12, <2>1, <2>2
<1> QED  BY <1>12, <1>13, <1>14, <1>15

(* A definition of elsewhere: there, something, and back. *)
LEMMA EnvsetAround ==
  ASSUME NEW u, NEW f, NEW w, IsView(u, f, w), NEW t, IsSeq(Kids(t, "owners"))
  PROVE  /\ \E y : /\ IsView(u, f, y) /\ y.flags["in_try"] = w.flags["in_try"]
                   /\ Leads(u, f, w, envset_pushv(t), w, y)
                   /\ Leads(u, f, w, envset_popv(t), y, w)
                   /\ Leads(u, f, w, envset_popv(t), Deep(y, w.depth), w)
         /\ \A g, flag : Idle(u, f, w, Try(g, <<t>>)) => Still(u, f, w, envset_run(t, g, flag))
<1> DEFINE o == Kids(t, "owners")
           L(q, a, b) == Leads(u, f, w, q, a, b)
<1>0. \A q, r, a, b, d : L(q, a, b) /\ L(r, b, d) => L(q \o r, a, d)
  BY LeadsCat
<1>1. L(<<>>, w, w) /\ IsDepth(u, w.depth) /\ Deep(w, w.depth) = w
  BY LeadsNone, Views, Undone
<1>2. PICK y : /\ IsView(u, f, y) /\ y.flags["in_try"] = w.flags["in_try"]
               /\ L(envset_push(o), w, y) /\ \A d : IsDepth(u, d) => L(envset_pop(o), Deep(y, d), w)
  BY EnvsetLeads
<1>3. IsDepth(u, y.depth) /\ Deep(y, y.depth) = y
  BY <1>2, Views, Undone
<1>4. \E z : /\ IsView(u, f, z) /\ z.flags["in_try"] = w.flags["in_try"]
             /\ L(envset_pushv(t), w, z) /\ L(envset_popv(t), z, w) /\ L(envset_popv(t), Deep(z, w.depth), w)
  <2>1. CASE o = <<>>
    <3>1. envset_pushv(t) = When(N(t).in # env.curr, PushNspc(N(t).in)) /\ envset_popv(t) = When(N(t).in # env.curr, Pop)
      BY <2>1 DEF envset_pushv, envset_popv
    <3> DEFINE z == Pushed(w, "", N(t).in)
    <3>2. IsView(u, f, z) /\ L(PushNspc(N(t).in), w, z) /\ L(Pop, z, w) /\ L(Pop, Deep(z, w.depth), w)
      BY <1>1, PushSteps, PopSteps, Views
    <3>3. z.flags["in_try"] = w.flags["in_try"]
      BY PushedFlag
    <3> HIDE DEF z, L
    <3>4. CASE N(t).in # env.curr
      BY <3>1, <3>2, <3>3, <3>4 DEF When
    <3>5. CASE N(t).in = env.curr
      BY <3>1, <3>5, <1>1 DEF When
    <3> QED  BY <3>4, <3>5
  <2>2. CASE o # <<>>
    <3>1. envset_pushv(t) = When(envset_check(o[1]), envset_push(o)) /\ envset_popv(t) = When(envset_check(o[1]), envset_pop(o))
      BY <2>2 DEF envset_pushv, envset_popv
    <3> HIDE DEF L, o
    <3>4. CASE envset_check(o[1])
      <4>1. L(envset_pop(o), y, w) /\ L(envset_pop(o), Deep(y, w.depth), w)
        BY <1>1, <1>2, <1>3
      <4> QED  BY <3>1, <3>4, <4>1, <1>2 DEF When
    <3>5. CASE ~envset_check(o[1])
      BY <3>1, <3>5, <1>1 DEF When
    <3> QED  BY <3>4, <3>5
  <2> QED  BY <2>1, <2>2
<1>5. ASSUME NEW g, NEW flag, Idle(u, f, w, Try(g, <<t>>)) PROVE L(envset_run(t, g, flag), w, w)
  <2> DEFINE run == envset_check(t)
             mid == When(~Marked(t, flag), Try(g, <<t>>) \o Back("in_try"))
  <2>1. envset_run(t, g, flag) = When(run, envset_push(o)) \o mid \o When(run, envset_pop(o))
    BY DEF envset_run
  <2>2. \A a : IsView(u, f, a) /\ a.flags["in_try"] = w.flags["in_try"] => L(mid, a, a)
    <3>0. SUFFICES ASSUME NEW a, IsView(u, f, a), a.flags["in_try"] = w.flags["in_try"] PROVE L(mid, a, a)
      OBVIOUS
    <3>1. L(Back("in_try"), a, a)
      <4> DEFINE s == <<"back", "in_try">>
      <4>1. s[1] = "back" /\ s[2] = "in_try"
        OBVIOUS
      <4>2. Put(a, "in_try", a.flags["in_try"]) = a
        BY <3>0, Undone DEF Flags
      <4> HIDE DEF s
      <4>3. a = Moved(u, w, s, a)
        BY <4>1, <4>2, <3>0 DEF Moved, Assigned, Of, Flags, Called
      <4>4. L(<<s>>, a, a)
        BY <4>1, <4>3, <3>0, OpSteps DEF Ops
      <4> QED  BY <4>4 DEF s, Back, Do
    <3>2. L(Try(g, <<t>>), a, a)
      BY <1>5, <3>0 DEF Idle
    <3>3. L(Try(g, <<t>>) \o Back("in_try"), a, a)
      <4> HIDE DEF L
      <4> QED  BY <1>0, <3>1, <3>2
    <3> QED  BY <3>0, <3>3, LeadsWhen
  <2>3. CASE run
    <3>1. L(envset_pop(o), y, w) /\ L(mid, y, y)
      BY <1>2, <1>3, <2>2
    <3> HIDE DEF L, o, mid
    <3>2. envset_run(t, g, flag) = envset_push(o) \o mid \o envset_pop(o)
      BY <2>1, <2>3 DEF When
    <3> QED  BY <1>0, <1>2, <3>1, <3>2
  <2>4. CASE ~run
    <3>1. L(mid, w, w)
      BY <2>2
    <3>2. envset_run(t, g, flag) = <<>> \o mid \o <<>>
      BY <2>1, <2>4 DEF When
    <3> HIDE DEF L, o, mid
    <3> QED  BY <1>0, <1>1, <3>1, <3>2
  <2> QED  BY <2>3, <2>4
<1> QED  BY <1>4, <1>5 DEF Still

-----------------------------------------------------------------------------
(* A step or two that lead away from where the call began, and what leads  *)
(* back.                                                                   *)

Pair(u, f, w, q, r) == \E x : IsView(u, f, x) /\ Leads(u, f, w, q, w, x) /\ Leads(u, f, w, r, x, w)

LEMMA Wrapped ==
  ASSUME NEW u, NEW f, NEW w, IsView(u, f, w), NEW q, NEW r, Pair(u, f, w, q, r), NEW p, Idle(u, f, w, p), NEW a, Still(u, f, w, a)
  PROVE  /\ Still(u, f, w, q \o p \o r) /\ Still(u, f, w, a \o q \o p \o r)
         /\ \A c : /\ Still(u, f, w, When(c, q) \o p \o When(c, r))
                   /\ Still(u, f, w, a \o When(c, q) \o p \o When(c, r))
<1> DEFINE L(s, x, y) == Leads(u, f, w, s, x, y)
<1>0. \A s, t, x, y, z : L(s, x, y) /\ L(t, y, z) => L(s \o t, x, z)
  BY LeadsCat
<1>1. PICK x : IsView(u, f, x) /\ L(q, w, x) /\ L(r, x, w)
  BY DEF Pair
<1>2. L(p, x, x) /\ L(p, w, w) /\ L(a, w, w) /\ L(<<>>, w, w)
  BY <1>1, LeadsNone DEF Idle, Still
<1> SUFFICES /\ L(q \o p \o r, w, w) /\ L(a \o q \o p \o r, w, w)
             /\ \A c : L(When(c, q) \o p \o When(c, r), w, w) /\ L(a \o When(c, q) \o p \o When(c, r), w, w)
  BY DEF Still
<1> HIDE DEF L
<1>3. L(q \o p \o r, w, w) /\ L(a \o q \o p \o r, w, w)
  <2>1. L(q \o p, w, x) /\ L(a \o q, w, x)
    BY <1>0, <1>1, <1>2
  <2>2. L(a \o q \o p, w, x)
    BY <1>0, <1>2, <2>1
  <2> QED  BY <1>0, <1>1, <2>1, <2>2
<1>4. L(<<>> \o p \o <<>>, w, w) /\ L(a \o <<>> \o p \o <<>>, w, w)
  <2>1. L(<<>> \o p, w, w) /\ L(a \o <<>>, w, w)
    BY <1>0, <1>2
  <2>2. L(a \o <<>> \o p, w, w)
    BY <1>0, <1>2, <2>1
  <2> QED  BY <1>0, <1>2, <2>1, <2>2
<1>5. ASSUME NEW c PROVE L(When(c, q) \o p \o When(c, r), w, w) /\ L(a \o When(c, q) \o p \o When(c, r), w, w)
  <2>1. CASE c
    BY <2>1, <1>3 DEF When
  <2>2. CASE ~c
    BY <2>2, <1>4 DEF When
  <2> QED  BY <2>1, <2>2
<1> QED  BY <1>3, <1>5

LEMMA Pairs ==
  ASSUME NEW u, NEW f, NEW w, IsView(u, f, w)
  PROVE  /\ \A n : /\ Pair(u, f, w, PushType(n), Pop) /\ Pair(u, f, w, PushNspc(n), Pop)
                   /\ w.depth = 0 => Pair(u, f, w, PushType(n), PopTo0) /\ Pair(u, f, w, PushNspc(n), PopTo0)
                   /\ Pair(u, f, w, Must("template_push_types", <<n>>), Do("untype", ""))
                   /\ Pair(u, f, w, Loose("template_push_types", <<n>>), Do("untype", ""))
         /\ Pair(u, f, w, Do("types", ""), Do("untype", ""))
         /\ \A g \in {"func", "in_try"} : \A v : Pair(u, f, w, Set(g, v), Back(g))
         /\ f \in SemaFns => \A g \in {"in_func", "handling"} : \A v : Pair(u, f, w, Set(g, v), Back(g))
         /\ Pair(u, f, w, Set("depth", 0), Back("depth"))
         /\ \A g \in {"breaks", "effects"} : Pair(u, f, w, Add(g, 1), Add(g, -1))
         /\ \A t : IsSeq(Kids(t, "owners")) => Pair(u, f, w, envset_pushv(t), envset_popv(t))
<1>0. Deep(w, w.depth) = w
  BY Undone
<1>1. ASSUME NEW n
      PROVE  /\ Pair(u, f, w, PushType(n), Pop) /\ Pair(u, f, w, PushNspc(n), Pop)
             /\ w.depth = 0 => Pair(u, f, w, PushType(n), PopTo0) /\ Pair(u, f, w, PushNspc(n), PopTo0)
  <2>1. \A c, m : IsView(u, f, Pushed(w, c, m))
    BY Views
  <2>2. \A c, m : /\ Leads(u, f, w, Pop, Pushed(w, c, m), w)
                  /\ w.depth = 0 => Leads(u, f, w, PopTo0, Pushed(w, c, m), w)
    BY <1>0, PopSteps
  <2>3. Leads(u, f, w, PushType(n), w, Pushed(w, n, n)) /\ Leads(u, f, w, PushNspc(n), w, Pushed(w, "", n))
    BY PushSteps
  <2> QED  BY <2>1, <2>2, <2>3 DEF Pair
<1>2. ASSUME NEW n
      PROVE  /\ Pair(u, f, w, Must("template_push_types", <<n>>), Do("untype", ""))
             /\ Pair(u, f, w, Loose("template_push_types", <<n>>), Do("untype", ""))
             /\ Pair(u, f, w, Do("types", ""), Do("untype", ""))
  <2>1. IsView(u, f, Typing(w)) /\ Leads(u, f, w, Do("untype", ""), Typing(w), w) /\ Leads(u, f, w, Do("types", ""), w, Typing(w))
    BY Views, PopSteps, PushSteps
  <2> QED  BY <2>1, TypesCall DEF Pair
<1>3. \A g \in {"func", "in_try"} : \A v : Pair(u, f, w, Set(g, v), Back(g))
  BY FieldSteps DEF Pair
<1>4. f \in SemaFns => \A g \in {"in_func", "handling"} : \A v : Pair(u, f, w, Set(g, v), Back(g))
  BY FieldSteps DEF Pair
<1>5. Pair(u, f, w, Set("depth", 0), Back("depth"))
  BY FieldSteps DEF Pair
<1>6. \A g \in {"breaks", "effects"} : Pair(u, f, w, Add(g, 1), Add(g, -1))
  BY FieldSteps DEF Pair
<1>7. \A t : IsSeq(Kids(t, "owners")) => Pair(u, f, w, envset_pushv(t), envset_popv(t))
  BY EnvsetAround DEF Pair
<1> QED  BY <1>1, <1>2, <1>3, <1>4, <1>5, <1>6, <1>7

(* Inside a class and the types of its template. *)
LEMMA InClass ==
  ASSUME NEW u, NEW f, NEW w, IsView(u, f, w), NEW p, Idle(u, f, w, p), NEW n, NEW c
  PROVE  Still(u, f, w, PushType(n) \o When(c, Loose("template_push_types", <<n>>)) \o p
                          \o When(c, Do("untype", "")) \o Pop)
<1> DEFINE L(s, x, y) == Leads(u, f, w, s, x, y)
           t == When(c, Loose("template_push_types", <<n>>))
           d == When(c, Do("untype", ""))
           x == Pushed(w, n, n)
           y == IF c THEN Typing(x) ELSE x
<1>0. \A s, r, a, b, z : L(s, a, b) /\ L(r, b, z) => L(s \o r, a, z)
  BY LeadsCat
<1>1. IsView(u, f, x) /\ L(PushType(n), w, x) /\ L(Pop, x, w)
  <2>1. L(Pop, x, Deep(w, w.depth)) /\ Deep(w, w.depth) = w
    BY PopSteps, Undone
  <2>2. L(PushType(n), w, x) /\ IsView(u, f, x)
    BY Views, PushSteps
  <2> QED  BY <2>1, <2>2
<1>2. IsView(u, f, Typing(x)) /\ L(Loose("template_push_types", <<n>>), x, Typing(x)) /\ L(Do("untype", ""), Typing(x), x)
  BY <1>1, Views, TypesCall, PopSteps
<1>3. IsView(u, f, y) /\ L(t, x, y) /\ L(d, y, x)
  BY <1>1, <1>2, LeadsWhen
<1>4. L(p, y, y)
  BY <1>3 DEF Idle
<1> HIDE DEF L, t, d, x, y
<1>5. L(PushType(n) \o t, w, y)
  BY <1>0, <1>1, <1>3
<1>6. L(PushType(n) \o t \o p \o d, w, x)
  BY <1>0, <1>3, <1>4, <1>5
<1>7. L(PushType(n) \o t \o p \o d \o Pop, w, w)
  BY <1>0, <1>1, <1>6
<1> QED  BY <1>7 DEF L, Still, t, d

(* Everything else that is needed to follow a plan. *)
LEMMA Rules ==
  ASSUME NEW u, NEW f, f \notin Firm, NEW w, IsView(u, f, w)
  PROVE  /\ Still(u, f, w, <<>>) /\ Idle(u, f, w, <<>>)
         /\ \A p, q : Still(u, f, w, p) /\ Still(u, f, w, q) => Still(u, f, w, p \o q)
         /\ \A p, q : Idle(u, f, w, p) /\ Idle(u, f, w, q) => Idle(u, f, w, p \o q)
         /\ \A p : Idle(u, f, w, p) => Still(u, f, w, p) /\ Idle(u, f, w, Scoped(p)) /\ Idle(u, f, w, Values(p))
         /\ \A n, p : /\ Fine(u, f, n, "calm", p) => Still(u, f, w, p)
                      /\ Fine(u, f, n, "easy", p) => Idle(u, f, w, p)
         /\ \A c, p : /\ Still(u, f, w, p) => Still(u, f, w, When(c, p))
                      /\ Idle(u, f, w, p) => Idle(u, f, w, When(c, p))
         /\ \A g \in {"in_defer", "in_variadic", "code", "tmpls"} : \A v : Idle(u, f, w, Set(g, v)) /\ Idle(u, f, w, Back(g))
         /\ \A k \in Int : Idle(u, f, w, Add("conts", k))
         /\ \A g \in {"func", "in_try"} : Still(u, f, w, Back(g))
<1>1. \A p : Idle(u, f, w, p) => Idle(u, f, w, Scoped(p)) /\ Idle(u, f, w, Values(p))
  BY Around
<1>2. \A c, p : /\ Still(u, f, w, p) => Still(u, f, w, When(c, p))
                /\ Idle(u, f, w, p) => Idle(u, f, w, When(c, p))
  BY IdleRules DEF When
<1>3. \A g \in {"in_defer", "in_variadic", "code", "tmpls"} : \A v : Idle(u, f, w, Set(g, v)) /\ Idle(u, f, w, Back(g))
  BY FieldSteps DEF Idle
<1>4. \A k \in Int : Idle(u, f, w, Add("conts", k))
  BY FieldSteps DEF Idle
<1>5. \A g \in {"func", "in_try"} : Still(u, f, w, Back(g))
  BY FieldSteps DEF Still
<1> QED  BY <1>1, <1>2, <1>3, <1>4, <1>5, IdleRules

-----------------------------------------------------------------------------
(* A plan that is refused half way.                                        *)

Cut(u, f, w, p, x) == \E q, r : IsSeq(r) /\ p = q \o (Refuse \o r) /\ Leads(u, f, w, q, x, w)
Led(u, f, w, p, x, y) == Leads(u, f, w, p, x, y) \/ (f # "template_push_types" /\ Cut(u, f, w, p, x))

LEMMA Associative ==
  \A p, q, r : IsSeq(p) /\ IsSeq(q) /\ IsSeq(r) => (p \o q) \o r = p \o (q \o r)
<1> SUFFICES ASSUME NEW p, NEW q, NEW r, IsSeq(p), IsSeq(q), IsSeq(r) PROVE (p \o q) \o r = p \o (q \o r)
  OBVIOUS
<1> DEFINE S == {p[i] : i \in DOMAIN p} \cup {q[i] : i \in DOMAIN q} \cup {r[i] : i \in DOMAIN r}
<1>1. p \in Seq(S) /\ q \in Seq(S) /\ r \in Seq(S)
  <2>1. /\ p \in Seq({p[i] : i \in DOMAIN p}) /\ q \in Seq({q[i] : i \in DOMAIN q})
        /\ r \in Seq({r[i] : i \in DOMAIN r})
    BY SeqShape
  <2> QED  BY <2>1, SeqMonotonic
<1> HIDE DEF S
<1> QED  BY <1>1, ConcatAssociative

LEMMA Refused == IsSeq(Refuse) /\ Refuse # <<>> /\ Refuse[1][1] = "refuse" /\ Len(Refuse) = 1
<1>1. Refuse \in Seq({<<"refuse">>}) /\ Len(Refuse) = 1
  BY DEF Refuse
<1>2. IsSeq(Refuse)
  BY <1>1 DEF IsSeq
<1> QED  BY <1>1, <1>2 DEF Refuse

LEMMA CutRules ==
  ASSUME NEW u, NEW f, NEW w, IsView(u, f, w)
  PROVE  /\ Cut(u, f, w, Refuse, w)
         /\ \A p, s : Cut(u, f, w, p, w) /\ IsSeq(s) => Cut(u, f, w, p \o s, w)
         /\ \A p, s : Still(u, f, w, s) /\ Cut(u, f, w, p, w) => Cut(u, f, w, s \o p, w)
<1>1. Cut(u, f, w, Refuse, w)
  <2>1. Leads(u, f, w, <<>>, w, w) /\ IsSeq(<<>>)
    BY LeadsNone, SeqNone
  <2>2. Refuse = <<>> \o (Refuse \o <<>>)
    BY DEF Refuse
  <2> QED  BY <2>1, <2>2 DEF Cut
<1>2. ASSUME NEW p, NEW s, Cut(u, f, w, p, w), IsSeq(s) PROVE Cut(u, f, w, p \o s, w)
  <2>1. PICK q, r : IsSeq(r) /\ p = q \o (Refuse \o r) /\ Leads(u, f, w, q, w, w)
    BY <1>2 DEF Cut
  <2>2. IsSeq(q) /\ IsSeq(Refuse \o r) /\ IsSeq(r \o s) /\ IsSeq(Refuse)
    BY <2>1, <1>2, SeqCat, Refused DEF Leads
  <2>3. p \o s = q \o ((Refuse \o r) \o s)
    <3>1. \A t : IsSeq(t) => (q \o t) \o s = q \o (t \o s)
      BY <2>2, <1>2, Associative
    <3> QED  BY <2>1, <2>2, <3>1
  <2>4. (Refuse \o r) \o s = Refuse \o (r \o s)
    BY <2>1, <2>2, <1>2, Associative
  <2> QED  BY <2>1, <2>2, <2>3, <2>4 DEF Cut
<1>3. ASSUME NEW p, NEW s, Still(u, f, w, s), Cut(u, f, w, p, w) PROVE Cut(u, f, w, s \o p, w)
  <2>1. PICK q, r : IsSeq(r) /\ p = q \o (Refuse \o r) /\ Leads(u, f, w, q, w, w)
    BY <1>3 DEF Cut
  <2>2. IsSeq(q) /\ IsSeq(Refuse \o r) /\ IsSeq(s)
    BY <2>1, <1>3, SeqCat, Refused DEF Leads, Still
  <2>3. s \o p = (s \o q) \o (Refuse \o r)
    BY <2>1, <2>2, Associative
  <2>4. Leads(u, f, w, s \o q, w, w)
    BY <2>1, <1>3, LeadsCat DEF Still
  <2> QED  BY <2>1, <2>3, <2>4 DEF Cut
<1> QED  BY <1>1, <1>2, <1>3

(* The next step of such a plan. *)
LEMMA LedTail ==
  ASSUME NEW u, NEW f, NEW w, NEW p, p # <<>>, NEW x, NEW y, Led(u, f, w, p, x, y)
  PROVE  \/ p[1][1] = "refuse" /\ x = w /\ f # "template_push_types"
         \/ \E z : IsView(u, f, z) /\ Moves(u, f, w, p[1], x, z) /\ Led(u, f, w, Tail(p), z, y)
<1>1. CASE Leads(u, f, w, p, x, y)
  BY <1>1, LeadsTail DEF Led
<1>2. ASSUME NEW q, NEW r, f # "template_push_types", IsSeq(r), p = q \o (Refuse \o r), Leads(u, f, w, q, x, w)
      PROVE  \/ p[1][1] = "refuse" /\ x = w /\ f # "template_push_types"
             \/ \E z : IsView(u, f, z) /\ Moves(u, f, w, p[1], x, z) /\ Led(u, f, w, Tail(p), z, y)
  <2> DEFINE s == Refuse \o r
  <2>1. IsSeq(q) /\ IsSeq(s) /\ s[1] = Refuse[1]
    <3>1. 1 \in 1 .. Len(Refuse)
      BY Refused
    <3> QED  BY <1>2, <3>1, SeqCat, Refused DEF Leads
  <2> HIDE DEF s
  <2>2. p = q \o s
    BY <1>2 DEF s
  <2>3. CASE q = <<>>
    <3>1. p = s
      BY <2>1, <2>2, <2>3, NoneBefore
    <3>2. x = w
      BY <1>2, <2>3, LeadsNone
    <3> QED  BY <3>1, <3>2, <2>1, <1>2, Refused
  <2>4. CASE q # <<>>
    <3>1. PICK z : IsView(u, f, z) /\ Moves(u, f, w, q[1], x, z) /\ Leads(u, f, w, Tail(q), z, w)
      BY <1>2, <2>4, LeadsTail
    <3>2. p[1] = q[1] /\ Tail(p) = Tail(q) \o s
      <4> DEFINE S == {q[i] : i \in DOMAIN q} \cup {s[i] : i \in DOMAIN s}
      <4>1. q \in Seq(S) /\ s \in Seq(S)
        <5>1. q \in Seq({q[i] : i \in DOMAIN q}) /\ s \in Seq({s[i] : i \in DOMAIN s})
          BY <2>1, SeqShape
        <5> QED  BY <5>1, SeqMonotonic
      <4> HIDE DEF S
      <4>2. (q \o s)[1] = q[1]
        BY <4>1, <2>4
      <4>3. Tail(q \o s) = Tail(q) \o s
        BY <4>1, <2>4
      <4> QED  BY <4>2, <4>3, <2>2
    <3>3. Cut(u, f, w, Tail(p), z)
      BY <3>1, <3>2, <1>2 DEF Cut, s
    <3> QED  BY <3>1, <3>2, <3>3, <1>2 DEF Led
  <2> QED  BY <2>3, <2>4
<1> QED  BY <1>1, <1>2 DEF Led, Cut

-----------------------------------------------------------------------------
(* More of the same.                                                       *)

LEMMA WrappedTwo ==
  ASSUME NEW u, NEW f, NEW w, IsView(u, f, w), NEW q, NEW r, Pair(u, f, w, q, r),
         NEW p, Idle(u, f, w, p), NEW o, Idle(u, f, w, o), NEW a, Still(u, f, w, a)
  PROVE  /\ Still(u, f, w, q \o r) /\ Still(u, f, w, a \o q \o r)
         /\ Still(u, f, w, q \o p \o o \o r) /\ Still(u, f, w, a \o q \o p \o o \o r)
         /\ \A c : /\ Still(u, f, w, When(c, q) \o When(c, r)) /\ Still(u, f, w, a \o When(c, q) \o When(c, r))
                   /\ Still(u, f, w, When(c, q) \o p \o o \o When(c, r))
                   /\ Still(u, f, w, a \o When(c, q) \o p \o o \o When(c, r))
         /\ Pair(u, f, w, q \o p, r) /\ \A c : Pair(u, f, w, When(c, q), When(c, r))
         /\ Pair(u, f, w, a \o q, r)
<1> DEFINE L(s, x, y) == Leads(u, f, w, s, x, y)
<1>0. \A s, t, x, y, z : L(s, x, y) /\ L(t, y, z) => L(s \o t, x, z)
  BY LeadsCat
<1>1. PICK x : IsView(u, f, x) /\ L(q, w, x) /\ L(r, x, w)
  BY DEF Pair
<1>2. L(p, x, x) /\ L(p, w, w) /\ L(o, x, x) /\ L(o, w, w) /\ L(a, w, w) /\ L(<<>>, w, w)
  BY <1>1, LeadsNone DEF Idle, Still
<1> SUFFICES /\ L(q \o r, w, w) /\ L(a \o q \o r, w, w)
             /\ L(q \o p \o o \o r, w, w) /\ L(a \o q \o p \o o \o r, w, w)
             /\ \A c : /\ L(When(c, q) \o When(c, r), w, w) /\ L(a \o When(c, q) \o When(c, r), w, w)
                       /\ L(When(c, q) \o p \o o \o When(c, r), w, w)
                       /\ L(a \o When(c, q) \o p \o o \o When(c, r), w, w)
             /\ L(q \o p, w, x) /\ L(a \o q, w, x)
  <2>1. Pair(u, f, w, q, r) /\ Pair(u, f, w, <<>>, <<>>)
    BY <1>2 DEF Pair
  <2> QED  BY <1>1, <2>1 DEF Still, Pair, When
<1> HIDE DEF L
<1>3. L(q \o p, w, x) /\ L(a \o q, w, x) /\ L(q \o r, w, w)
  BY <1>0, <1>1, <1>2
<1>4. L(a \o q \o p, w, x) /\ L(q \o p \o o, w, x) /\ L(a \o q \o r, w, w)
  BY <1>0, <1>1, <1>2, <1>3
<1>5. L(a \o q \o p \o o, w, x) /\ L(q \o p \o o \o r, w, w)
  BY <1>0, <1>1, <1>2, <1>4
<1>6. L(a \o q \o p \o o \o r, w, w)
  BY <1>0, <1>1, <1>5
<1>7. L(<<>> \o <<>>, w, w) /\ L(a \o <<>>, w, w) /\ L(<<>> \o p, w, w)
  BY <1>0, <1>2
<1>8. L(a \o <<>> \o <<>>, w, w) /\ L(a \o <<>> \o p, w, w) /\ L(<<>> \o p \o o, w, w)
  BY <1>0, <1>2, <1>7
<1>9. L(a \o <<>> \o p \o o, w, w) /\ L(<<>> \o p \o o \o <<>>, w, w)
  BY <1>0, <1>2, <1>8
<1>10. L(a \o <<>> \o p \o o \o <<>>, w, w)
  BY <1>0, <1>2, <1>9
<1>11. ASSUME NEW c
       PROVE  /\ L(When(c, q) \o When(c, r), w, w) /\ L(a \o When(c, q) \o When(c, r), w, w)
              /\ L(When(c, q) \o p \o o \o When(c, r), w, w)
              /\ L(a \o When(c, q) \o p \o o \o When(c, r), w, w)
  <2>1. CASE c
    BY <2>1, <1>3, <1>4, <1>5, <1>6 DEF When
  <2>2. CASE ~c
    BY <2>2, <1>7, <1>8, <1>9, <1>10 DEF When
  <2> QED  BY <2>1, <2>2
<1> QED  BY <1>3, <1>4, <1>5, <1>6, <1>11

(* Counts that are up around a plan. *)
LEMMA Counted ==
  ASSUME NEW u, NEW f, NEW w, IsView(u, f, w), NEW p, Idle(u, f, w, p), NEW g \in {"breaks", "effects"}
  PROVE  Idle(u, f, w, Add(g, 1) \o p \o Add(g, -1))
<1> DEFINE L(s, x, y) == Leads(u, f, w, s, x, y)
<1>0. \A s, t, x, y, z : L(s, x, y) /\ L(t, y, z) => L(s \o t, x, z)
  BY LeadsCat
<1> SUFFICES ASSUME NEW x, IsView(u, f, x) PROVE L(Add(g, 1) \o p \o Add(g, -1), x, x)
  BY DEF Idle
<1> DEFINE y == Put(x, g, x.flags[g] + 1)
<1>1. L(Add(g, 1), x, y) /\ IsView(u, f, y) /\ L(Add(g, -1), y, x)
  BY FieldSteps
<1> HIDE DEF y
<1>2. L(p, y, y)
  BY <1>1 DEF Idle
<1> HIDE DEF L
<1>3. L(Add(g, 1) \o p, x, y)
  BY <1>0, <1>1, <1>2
<1> QED  BY <1>0, <1>1, <1>3

(* What is not counted: the depth where templates and the like are. *)
LEMMA Uncounted ==
  ASSUME NEW u, NEW f, NEW w, IsView(u, f, w), ~Level(u)
  PROVE  \A k : Idle(u, f, w, Add("depth", k))
<1> SUFFICES ASSUME NEW k, NEW x, IsView(u, f, x) PROVE Leads(u, f, w, Add("depth", k), x, x)
  BY DEF Idle
<1> DEFINE s == <<"add", "depth", k>>
<1>1. s[1] = "add" /\ s[2] = "depth" /\ s[3] = k
  OBVIOUS
<1>2. Deep(x, 0) = x
  <2>1. x.depth = 0
    BY DEF IsView
  <2> QED  BY <2>1, Undone
<1>3. Depth(u, x.depth + k) = 0
  BY DEF Depth
<1> HIDE DEF s
<1>4. Moved(u, w, s, x) = Deep(x, Depth(u, x.depth + s[3]))
  BY <1>1 DEF Moved, Called, Shifted
<1>5. Leads(u, f, w, <<s>>, x, x)
  BY <1>1, <1>2, <1>3, <1>4, OpSteps DEF Ops
<1> QED  BY <1>5 DEF s, Add

(* The state of the first pass, outside it. *)
LEMMA SemaReset ==
  ASSUME NEW u, NEW f, f \notin SemaFns, NEW w, IsView(u, f, w)
  PROVE  \A v : Still(u, f, w, Do("sema", v))
<1> SUFFICES ASSUME NEW v PROVE Leads(u, f, w, Do("sema", v), w, w)
  BY DEF Still
<1> DEFINE s == <<"sema", v>>
<1>1. s[1] = "sema"
  OBVIOUS
<1>2. Put(Put(w, "in_func", FALSE), "handling", FALSE) = w
  <2>1. w.flags["in_func"] = FALSE /\ w.flags["handling"] = FALSE /\ "in_func" \in Flags /\ "handling" \in Flags
    BY DEF IsView, Flags
  <2>2. \A g \in Flags : Put(w, g, w.flags[g]) = w
    BY Undone
  <2>3. Put(w, "in_func", FALSE) = w /\ Put(w, "handling", FALSE) = w
    BY <2>1, <2>2
  <2> QED  BY <2>3
<1> HIDE DEF s
<1>3. Moved(u, w, s, w) = w
  BY <1>1, <1>2 DEF Moved, Called
<1>4. Leads(u, f, w, <<s>>, w, w)
  BY <1>1, <1>3, OpSteps DEF Ops
<1> QED  BY <1>4 DEF s, Do

(* A function that is global is walked in the global namespace. *)
LEMMA InGlobal ==
  ASSUME NEW u, NEW f, NEW w, IsView(u, f, w), NEW p, Idle(u, f, w, p), NEW n, NEW v
  PROVE  /\ Pair(u, f, w, PushNspc(n) \o Set("func", v) \o p \o Back("func"), Pop)
         /\ \A b : Still(u, f, w, b) =>
              Pair(u, f, w, PushNspc(n), Set("func", v) \o p \o Back("func") \o Pop \o b)
<1> DEFINE L(s, x, y) == Leads(u, f, w, s, x, y)
           x == Pushed(w, "", n)
           y == Put(x, "func", v)
           k == "func"
<1>0. \A s, t, a, b, c : L(s, a, b) /\ L(t, b, c) => L(s \o t, a, c)
  BY LeadsCat
<1>1. IsView(u, f, x) /\ L(PushNspc(n), w, x) /\ L(Pop, x, w)
  <2>1. L(Pop, x, Deep(w, w.depth)) /\ Deep(w, w.depth) = w
    BY PopSteps, Undone
  <2>2. L(PushNspc(n), w, x) /\ IsView(u, f, x)
    BY Views, PushSteps
  <2> QED  BY <2>1, <2>2
<1>2. x.flags[k] = w.flags[k] /\ k \in Flags
  <2>1. x.flags = [w.flags EXCEPT !["effects"] = w.flags["effects"] + 1]
    <3>1. \A c, m : Pushed(w, c, m).flags = [w.flags EXCEPT !["effects"] = w.flags["effects"] + 1]
      BY AtFields DEF Pushed
    <3> QED  BY <3>1
  <2>2. w.flags = [g \in Flags |-> w.flags[g]]
    BY DEF IsView
  <2> HIDE DEF x
  <2> QED  BY <2>1, <2>2 DEF Flags
<1>3. L(Set(k, v), x, y) /\ IsView(u, f, y)
  BY <1>1, FieldSteps
<1>4. L(Back(k), y, x)
  <2> DEFINE s == <<"back", k>>
  <2>1. s[1] = "back" /\ s[2] = k
    OBVIOUS
  <2>2. Put(y, k, x.flags[k]) = x
    BY <1>1, <1>2, Undone
  <2>8. k \notin {"depth", "curr", "class"}
    OBVIOUS
  <2> HIDE DEF x, y, k, s
  <2>3. Of(w, k) = x.flags[k]
    BY <1>2, <2>8 DEF Of
  <2>4. Assigned(u, y, k, Of(w, k)) = Put(y, k, Of(w, k))
    BY <1>2, <2>8 DEF Assigned
  <2>5. Moved(u, w, s, y) = x
    BY <2>1, <2>2, <2>3, <2>4 DEF Moved, Called
  <2>6. s[1] \in Ops /\ k \notin {"nspcs", "open", "types"}
    BY <2>1 DEF Ops, k
  <2>7. L(<<s>>, y, x)
    BY <1>1, <1>3, <2>1, <2>5, <2>6, OpSteps
  <2> QED  BY <2>7 DEF Back, Do, s
<1>5. L(p, y, y)
  BY <1>3 DEF Idle
<1> HIDE DEF L, x, y, k
<1>6. L(Set(k, v) \o p \o Back(k), x, x)
  <2>1. L(Set(k, v) \o p, x, y)
    BY <1>0, <1>3, <1>5
  <2> QED  BY <1>0, <1>4, <2>1
<1>7. L(PushNspc(n) \o Set(k, v) \o p \o Back(k), w, x)
  <2>1. L(PushNspc(n) \o Set(k, v), w, y)
    BY <1>0, <1>1, <1>3
  <2>2. L(PushNspc(n) \o Set(k, v) \o p, w, y)
    BY <1>0, <1>5, <2>1
  <2> QED  BY <1>0, <1>4, <2>2
<1>8. L(Set(k, v) \o p \o Back(k) \o Pop, x, w)
  BY <1>0, <1>1, <1>6
<1>9. \A b : Still(u, f, w, b) => L(Set(k, v) \o p \o Back(k) \o Pop \o b, x, w)
  BY <1>0, <1>8 DEF Still, L
<1> QED  BY <1>1, <1>7, <1>9 DEF Pair, L, k

-----------------------------------------------------------------------------
(* Programs in which nothing stops where it would leave something behind:  *)
(* each condition is of a function that does not look after itself.        *)

Flagged(u, n, flag) == flag \in ToSet(Child(u.tree, n, "flags"))
Sober(u) ==
  /\ "as many arguments" \in u.sure
  /\ \A n \in DOMAIN u.tree :
       /\ Child(u.tree, n, "next") = <<>>
       /\ u.tree[n].kind = "enum" => "new names" \in u.sure
       /\ Child(u.tree, n, "traits") # <<>> => "requested traits" \in u.sure
       /\ Flagged(u, n, "global") =>
            /\ u.tree[n].kind = "func" => ~Flagged(u, n, "base") /\ ~Flagged(u, n, "new")
            /\ u.tree[n].kind = "fptr" => ~Flagged(u, n, "base")
            /\ u.tree[n].kind = "union" => "new type" \in u.sure /\ "new name" \in u.sure
            /\ u.tree[n].kind = "typedef" => Child(u.tree, n, "cdef") = <<>>

LEMMA SoberFacts ==
  ASSUME Sober(U), NEW m \in Nodes
  PROVE  /\ "as many arguments" \in U.sure
         /\ ~Has(m, "next")
         /\ N(m).kind = "enum" => "new names" \in U.sure
         /\ Has(m, "traits") => "requested traits" \in U.sure
         /\ Is(m, "global") => /\ (N(m).kind = "func" => ~Is(m, "base") /\ ~Is(m, "new")) /\ (N(m).kind = "fptr" => ~Is(m, "base"))
                               /\ N(m).kind = "union" => "new type" \in U.sure /\ "new name" \in U.sure
                               /\ N(m).kind = "typedef" => Kids(m, "cdef") = <<>>
<1>1. \A f : Kids(m, f) = Child(U.tree, m, f)
  BY DEF Kids, Child, N, U
<1>2. N(m) = U.tree[m]
  BY DEF N, U
<1>3. \A flag : Is(m, flag) <=> Flagged(U, m, flag)
  BY <1>1 DEF Is, Flagged
<1> QED  BY <1>1, <1>2, <1>3 DEF Sober, Nodes, Has

LEMMA LevelFacts ==
  ASSUME Level(U), NEW m \in Nodes
  PROVE  /\ N(m).kind = "class" => ~Has(m, "types")
         /\ ~Has(m, "consts") /\ (N(m).kind = "fptr" => ~Is(m, "global")) /\ ~Is(m, "returns")
<1>1. \A f : Kids(m, f) = Child(U.tree, m, f)
  BY DEF Kids, Child, N, U
<1>2. N(m) = U.tree[m]
  BY DEF N, U
<1> QED  BY <1>1, <1>2 DEF Level, Nodes, Has, Is

-----------------------------------------------------------------------------
(* The functions of the first pass end where they began.                   *)

LEMMA SemaEasy ==
  ASSUME Here, NEW f, f \in SemaFns, NEW w, IsView(U, f, w), NEW m \in Nodes
  PROVE  /\ f \notin Firm
         /\ \A fields \in Seq(Fields) : Idle(U, f, w, sema_on(m, fields))
         /\ \A g \in SemaFns : \A ns \in Seq(Nodes) :
              Idle(U, f, w, Try(g, ns)) /\ Idle(U, f, w, Loose(g, ns))
<1>1. f \notin Firm
  BY DEF Firm, SemaFns
<1>2. \A fields \in Seq(Fields) : Fine(U, f, m, "easy", sema_on(m, fields))
  BY SemaOn
<1>3. \A g \in SemaFns : \A ns \in Seq(Nodes) : Fine(U, f, m, "easy", Try(g, ns)) /\ Fine(U, f, m, "easy", Loose(g, ns))
  BY EasyCalls DEF Common
<1> QED  BY <1>1, <1>2, <1>3, Rules

LEMMA SemaReturns ==
  ASSUME Here, NEW f, f \in SemaFns, NEW w, IsView(U, f, w), NEW m \in Nodes
  PROVE  /\ Still(U, f, w, sema(m)) /\ Still(U, f, w, sema_stmt_list(m)) /\ Still(U, f, w, sema_ast(m))
         /\ Still(U, f, w, sema_func_base(m)) /\ Still(U, f, w, array_not_empty(m)) /\ Still(U, f, w, sema_new_td(m))
<1> DEFINE S(p) == Still(U, f, w, p)
           I(p) == Idle(U, f, w, p)
<1> USE SemaLists
<1>0. f \notin Firm
  BY SemaEasy
<1>1. \A p : Fine(U, f, m, "calm", p) => S(p)
  BY <1>0, Rules
<1>2. (\A p, q : S(p) /\ S(q) => S(p \o q)) /\ (\A p, q : I(p) /\ I(q) => I(p \o q))
      /\ (\A p : I(p) => S(p)) /\ S(<<>>) /\ I(<<>>) /\ (\A c, p : S(p) => S(When(c, p)))
  BY <1>0, Rules
<1>3. \A g \in {"in_defer", "in_variadic"} : \A v : I(Set(g, v)) /\ I(Back(g))
  BY <1>0, Rules
<1>4. I(sema_on(m, <<"body">>)) /\ I(Try("sema", Kids(m, "handlers"))) /\ I(Loose("sema_stmt_list", <<m>>))
  <2>1. <<"body">> \in Seq(Fields)
    BY FieldFacts, FieldLists
  <2>2. Kids(m, "handlers") \in Seq(Nodes) /\ <<m>> \in Seq(Nodes)
    BY SemaLists
  <2>3. "sema" \in SemaFns /\ "sema_stmt_list" \in SemaFns
    BY DEF SemaFns
  <2>4. I(sema_on(m, <<"body">>))
    BY <2>1, SemaEasy
  <2> QED  BY <2>2, <2>3, <2>4, SemaEasy
<1>5. \A v, q, r, p, o, a : q = Set("in_func", v) /\ r = Back("in_func") /\ I(p) /\ S(a) => S(a \o q \o p \o r)
  BY Pairs, Wrapped
<1>6. \A v, p, o : I(p) /\ I(o) => S(Set("handling", v) \o p \o o \o Back("handling"))
  <2>1. S(<<>>)
    BY <1>2
  <2> QED  BY <2>1, Pairs, WrappedTwo
<1>7. /\ Fine(U, f, m, "calm", sema_stmt_list(m)) /\ Fine(U, f, m, "calm", sema_ast(m))
      /\ Fine(U, f, m, "calm", sema_func_base(m))
      /\ Fine(U, f, m, "calm", array_not_empty(m)) /\ Fine(U, f, m, "calm", sema_new_td(m))
      /\ N(m).kind \notin {"try", "defer", "func", "class"} => Fine(U, f, m, "calm", sema(m))
  BY SemaPlans
<1>8. S(fill(m)) /\ S(Try("sema_func_base", <<m>>)) /\ S(sema_type_def(m)) /\ S(Shrug("array bounds")) /\ S(Try("sema_ast", <<m>>))
  <2>1. /\ Fine(U, f, m, "calm", fill(m)) /\ Fine(U, f, m, "calm", Shrug("array bounds"))
    BY CalmSteps DEF fill, When
  <2>2. Fine(U, f, m, "calm", Try("sema_func_base", <<m>>)) /\ Fine(U, f, m, "calm", Try("sema_ast", <<m>>))
    BY CalmCalls, CommonFacts
  <2>3. Fine(U, f, m, "calm", sema_type_def(m))
    BY SemaParts, FieldFacts, FieldLists, CalmSteps DEF sema_type_def
  <2> QED  BY <1>1, <2>1, <2>2, <2>3
<1> HIDE DEF S, I
<1>9. S(sema_stmt_try(m))
  BY <1>4, <1>6 DEF sema_stmt_try
<1>10. S(sema_stmt_defer(m))
  BY <1>2, <1>3, <1>4 DEF sema_stmt_defer
<1>11. S(sema_func_def(m))
  <2> DEFINE a == When(Is(m, "variadic"), Set("in_variadic", TRUE)) \o fill(m) \o Try("sema_func_base", <<m>>)
             b == a \o Set("in_func", TRUE) \o Loose("sema_stmt_list", <<m>>) \o Back("in_func")
  <2>1. S(a)
    BY <1>2, <1>3, <1>8
  <2>2. S(b)
    <3> HIDE DEF a
    <3> QED  BY <2>1, <1>4, <1>5
  <2>3. sema_func_def(m) = b \o Back("in_variadic") \o Back("in_defer")
    BY DEF sema_func_def
  <2> HIDE DEF a, b
  <2> QED  BY <1>2, <1>3, <2>2, <2>3
<1>12. S(sema_class_def(m))
  BY <1>2, <1>3, <1>8 DEF sema_class_def
<1>13. S(sema(m))
  <2>1. N(m).kind = "try" => sema(m) = sema_stmt(m)
    BY DEF sema, Statements, Declarations
  <2>7. N(m).kind = "defer" => sema(m) = sema_stmt(m)
    BY DEF sema, Statements, Declarations
  <2>2. N(m).kind = "try" => sema_stmt(m) = sema_stmt_try(m)
    BY DEF sema_stmt
  <2>3. N(m).kind = "defer" => sema_stmt(m) = sema_stmt_defer(m)
    BY DEF sema_stmt
  <2>4. N(m).kind \in {"func", "class"} => sema(m) = sema_section(m)
    BY DEF sema, Statements, Declarations
  <2>5. N(m).kind = "func" => sema_section(m) = sema_func_def(m)
    BY DEF sema_section
  <2>6. N(m).kind = "class" => sema_section(m) = sema_class_def(m)
    BY DEF sema_section
  <2> QED  BY <1>1, <1>7, <1>9, <1>10, <1>11, <1>12, <2>1, <2>2, <2>3, <2>4, <2>5, <2>6, <2>7
<1> QED  BY <1>1, <1>7, <1>13 DEF S

-----------------------------------------------------------------------------
(* The functions that lead from one class or pass to another.              *)

LEMMA Basics ==
  ASSUME Here, NEW f, f \notin SemaFns, f \notin Firm, NEW w, IsView(U, f, w), NEW m
  PROVE  /\ \A p : /\ Fine(U, f, m, "calm", p) => Still(U, f, w, p)
                   /\ Fine(U, f, m, "easy", p) => Idle(U, f, w, p)
         /\ \A g \in Common(f) : \A ns \in Seq(Nodes) :
              /\ Still(U, f, w, Must(g, ns)) /\ Idle(U, f, w, Try(g, ns)) /\ Idle(U, f, w, And(g, ns))
              /\ Idle(U, f, w, Loose(g, ns)) /\ Idle(U, f, w, Poison(g, ns)) /\ Idle(U, f, w, Typed(g, ns))
         /\ \A p, q : Still(U, f, w, p) /\ Still(U, f, w, q) => Still(U, f, w, p \o q)
         /\ \A p, q : Idle(U, f, w, p) /\ Idle(U, f, w, q) => Idle(U, f, w, p \o q)
         /\ \A p : Idle(U, f, w, p) => Still(U, f, w, p)
         /\ \A c, p : /\ Still(U, f, w, p) => Still(U, f, w, When(c, p))
                      /\ Idle(U, f, w, p) => Idle(U, f, w, When(c, p))
         /\ Still(U, f, w, <<>>) /\ Idle(U, f, w, <<>>)
<1>1. \A p : /\ Fine(U, f, m, "calm", p) => Still(U, f, w, p)
             /\ Fine(U, f, m, "easy", p) => Idle(U, f, w, p)
  BY Rules
<1>2. \A g \in Common(f) : \A ns \in Seq(Nodes) :
              /\ Still(U, f, w, Must(g, ns)) /\ Idle(U, f, w, Try(g, ns)) /\ Idle(U, f, w, And(g, ns))
              /\ Idle(U, f, w, Loose(g, ns)) /\ Idle(U, f, w, Poison(g, ns)) /\ Idle(U, f, w, Typed(g, ns))
  BY <1>1, CalmCalls, EasyCalls
<1> QED  BY <1>1, <1>2, Rules

LEMMA EnvsetReturns ==
  ASSUME Here, NEW f, f \notin SemaFns, f \notin Firm, NEW w, IsView(U, f, w), NEW m \in Nodes
  PROVE  /\ Still(U, f, w, ensure_scan1(m)) /\ Still(U, f, w, ensure_scan2(m))
         /\ Still(U, f, w, ensure_check(m)) /\ Still(U, f, w, ensure_traverse(m))
         /\ IsSeq(Kids(m, "owners")) /\ Pair(U, f, w, envset_pushv(m), envset_popv(m))
<1>1. IsSeq(Kids(m, "owners"))
  BY KidsFact, FieldFacts
<1>2. \A g \in Common(f) : Idle(U, f, w, Try(g, <<m>>))
  BY Basics, NodeRules
<1>3. \A g \in Common(f) : \A flag : Still(U, f, w, envset_run(m, g, flag))
  BY <1>1, <1>2, EnvsetAround
<1>4. \A c, p : Still(U, f, w, p) => Still(U, f, w, When(c, p))
  BY Basics
<1>5. Pair(U, f, w, envset_pushv(m), envset_popv(m))
  BY <1>1, Pairs
<1> QED  BY <1>1, <1>3, <1>4, <1>5, CommonFacts DEF ensure_scan1, ensure_scan2, ensure_check, ensure_traverse

LEMMA TypesReturn ==
  ASSUME Here, Sober(U), NEW f, f \notin SemaFns, f \notin Firm, NEW w, IsView(U, f, w), NEW m \in Nodes, N(m).kind = "type"
  PROVE  /\ Still(U, f, w, known_type(m)) /\ Still(U, f, w, resolve(m))
         /\ Has(m, "instance") => Still(U, f, w, scan_class(m))
<1> DEFINE S(p) == Still(U, f, w, p)
           I(p) == Idle(U, f, w, p)
<1> USE NodeRules, CommonFacts
<1>1. \A p : Fine(U, f, m, "calm", p) => S(p)
  BY Basics
<1>2. (\A p, q : S(p) /\ S(q) => S(p \o q)) /\ (\A c, p : S(p) => S(When(c, p))) /\ S(<<>>)
  BY Basics
<1>3. \A g \in Common(f) : \A ns \in Seq(Nodes) : I(Try(g, ns)) /\ I(And(g, ns))
  BY Basics
<1>4. \A n, p : I(p) => S(PushNspc(n) \o p \o Pop)
  BY Around
<1>5. ~Has(m, "next")
  BY SoberFacts
<1>6. S(known_type(m))
  BY <1>1, TypePlans
<1>7. S(find_type(m)) /\ (~Has(m, "fptr") => S(resolve(m)))
  BY <1>1, <1>5, TypePlans
<1>8. S(Must("known_type", Kids(m, "names")))
  BY <1>1, TypeCalls, FieldFacts
<1>9. I(Try("traverse", Kids(m, "fptr")))
  BY <1>3, FieldFacts
<1>10. S(_scan_type(m))
  <2>1. Fine(U, f, m, "calm", _scan_type(m))
    BY TypeCalls, FieldFacts, CalmSteps DEF _scan_type, check_tmpl, When
  <2> QED  BY <1>1, <2>1
<1>11. S(Refuse)
  BY <1>1, CalmSteps
<1>12. Has(m, "instance") => S(scan_class(m))
  <2>1. SUFFICES ASSUME Has(m, "instance") PROVE S(scan_class(m))
    OBVIOUS
  <2>2. Kids(m, "to")[1] \in Nodes /\ Kids(m, "instance")[1] \in Nodes
    BY <2>1, CompleteFact, FieldFacts
  <2> DEFINE t == Kids(m, "to")[1]
             i == Kids(m, "instance")[1]
  <2>3. t \in Nodes /\ <<i>> \in Seq(Nodes)
    BY <2>2
  <2>4. scan_class(m) = When(~Marked(i, "scan0"),
              envset_pushv(t) \o When(Is(i, "variadic"), Try("sema_variadic", <<i>>))
                \o And("scan0", <<i>>) \o envset_popv(t))
    BY DEF scan_class
  <2> HIDE DEF t, i
  <2>5. I(When(Is(i, "variadic"), Try("sema_variadic", <<i>>))) /\ I(And("scan0", <<i>>))
    BY <2>3, <1>3, Basics
  <2>6. Pair(U, f, w, envset_pushv(t), envset_popv(t)) /\ S(<<>>)
    BY <2>3, EnvsetReturns, Basics
  <2>7. S(envset_pushv(t) \o When(Is(i, "variadic"), Try("sema_variadic", <<i>>)) \o And("scan0", <<i>>) \o envset_popv(t))
    BY <2>5, <2>6, WrappedTwo
  <2> HIDE DEF S
  <2> QED  BY <2>4, <2>7, <1>2
<1> HIDE DEF S, I
<1>13. S(find_fptr(m))
  BY <1>2, <1>4, <1>8, <1>9 DEF find_fptr
<1>14. S(resolve(m))
  BY <1>2, <1>5, <1>7, <1>10, <1>11, <1>13 DEF resolve
<1> QED  BY <1>6, <1>12, <1>14 DEF S

(* template_push_types leaves one scope of types. *)
LEMMA TypesPushed ==
  ASSUME Here, Sober(U), NEW w, IsView(U, "template_push_types", w), NEW m \in Nodes
  PROVE  Leads(U, "template_push_types", w, template_push_types(m), w, Typing(w))
<1> DEFINE L(p, x, y) == Leads(U, "template_push_types", w, p, x, y)
           V(x) == IsView(U, "template_push_types", x)
           y == Typing(w)
           There(a, b) == At(<<a, b, y.place[3]>>, y.depth, y.flags, y.open, y.types)
           Known == Loose("known_type", Kids(m, "types"))
<1>0. \A s, t, x, z, v : L(s, x, z) /\ L(t, z, v) => L(s \o t, x, v)
  BY LeadsCat
<1>1. V(y) /\ L(Do("types", ""), w, y)
  BY Views, PushSteps
<1>2. y.place[1] = w.place[1] /\ y.place[2] = w.place[2]
  BY AtFields DEF Typing
<1>3. y = There(w.place[1], w.place[2])
  <2>1. y = At(<<y.place[1], y.place[2], y.place[3]>>, y.depth, y.flags, y.open, y.types)
    <3> HIDE DEF y
    <3> QED  BY <1>1 DEF IsView
  <2> HIDE DEF y
  <2> QED  BY <1>2, <2>1
<1>4. \A a, b : V(There(a, b)) /\ There(a, b).place[1] = a /\ There(a, b).place[2] = b /\ There(a, b).place[3] = y.place[3]
  <2> HIDE DEF y
  <2> SUFFICES ASSUME NEW a, NEW b
               PROVE  V(There(a, b)) /\ There(a, b).place[1] = a /\ There(a, b).place[2] = b /\ There(a, b).place[3] = y.place[3]
    OBVIOUS
  <2>1. There(a, b).place = <<a, b, y.place[3]>> /\ There(a, b).depth = y.depth /\ There(a, b).flags = y.flags
        /\ There(a, b).open = y.open /\ There(a, b).types = y.types
    BY AtFields
  <2>3. <<a, b, y.place[3]>>[1] = a /\ <<a, b, y.place[3]>>[2] = b /\ <<a, b, y.place[3]>>[3] = y.place[3]
    OBVIOUS
  <2> HIDE DEF There
  <2>2. There(a, b) = At(There(a, b).place, There(a, b).depth, There(a, b).flags, There(a, b).open, There(a, b).types)
    BY <2>1 DEF There
  <2>4. /\ There(a, b).place[1] = a /\ There(a, b).place[2] = b /\ There(a, b).place[3] = y.place[3]
        /\ There(a, b).place = <<There(a, b).place[1], There(a, b).place[2], There(a, b).place[3]>>
    BY <2>1, <2>3
  <2>5. V(There(a, b))
    BY <1>1, <2>1, <2>2, <2>4 DEF IsView
  <2> QED  BY <2>4, <2>5
<1> HIDE DEF y
<1>5. \A a, b, c : /\ L(Set("curr", c), There(a, b), There(c, b)) /\ L(Set("class", c), There(a, b), There(a, c))
  <2> SUFFICES ASSUME NEW a, NEW b, NEW c
               PROVE  L(Set("curr", c), There(a, b), There(c, b)) /\ L(Set("class", c), There(a, b), There(a, c))
    OBVIOUS
  <2> DEFINE x == There(a, b)
             s == <<"set", "curr", c>>
             t == <<"set", "class", c>>
  <2>1. s[1] = "set" /\ s[2] = "curr" /\ s[3] = c /\ t[1] = "set" /\ t[2] = "class" /\ t[3] = c
    OBVIOUS
  <2>2. V(x) /\ x.place[1] = a /\ x.place[2] = b /\ x.place[3] = y.place[3]
    BY <1>4
  <2>3. /\ At(<<c, x.place[2], x.place[3]>>, x.depth, x.flags, x.open, x.types) = There(c, b)
        /\ At(<<x.place[1], c, x.place[3]>>, x.depth, x.flags, x.open, x.types) = There(a, c)
    <3>1. x.depth = y.depth /\ x.flags = y.flags /\ x.open = y.open /\ x.types = y.types
      BY AtFields
    <3> HIDE DEF x
    <3> QED  BY <2>2, <3>1
  <2> HIDE DEF x, s, t, There
  <2>4. Moved(U, w, s, x) = There(c, b) /\ Moved(U, w, t, x) = There(a, c)
    BY <2>1, <2>3 DEF Moved, Called, Assigned, Flags
  <2>5. Leads(U, "template_push_types", w, <<s>>, x, There(c, b))
    BY <1>4, <2>1, <2>2, <2>4, OpSteps DEF Ops
  <2>6. Leads(U, "template_push_types", w, <<t>>, x, There(a, c))
    BY <1>4, <2>1, <2>2, <2>4, OpSteps DEF Ops
  <2> QED  BY <2>5, <2>6 DEF s, t, x, Set
<1>6. \A a, b : /\ L(Back("curr"), There(a, b), There(w.place[1], b)) /\ L(Back("class"), There(a, b), There(a, w.place[2]))
  <2> SUFFICES ASSUME NEW a, NEW b
               PROVE  L(Back("curr"), There(a, b), There(w.place[1], b)) /\ L(Back("class"), There(a, b), There(a, w.place[2]))
    OBVIOUS
  <2> DEFINE x == There(a, b)
             s == <<"back", "curr">>
             t == <<"back", "class">>
  <2>1. s[1] = "back" /\ s[2] = "curr" /\ t[1] = "back" /\ t[2] = "class"
    OBVIOUS
  <2>2. V(x) /\ x.place[1] = a /\ x.place[2] = b /\ x.place[3] = y.place[3]
    BY <1>4
  <2>3. \A c : /\ At(<<c, x.place[2], x.place[3]>>, x.depth, x.flags, x.open, x.types) = There(c, b)
               /\ At(<<x.place[1], c, x.place[3]>>, x.depth, x.flags, x.open, x.types) = There(a, c)
    <3>1. x.depth = y.depth /\ x.flags = y.flags /\ x.open = y.open /\ x.types = y.types
      BY AtFields
    <3> HIDE DEF x
    <3> QED  BY <2>2, <3>1
  <2> HIDE DEF x, s, t, There
  <2>4. Of(w, "curr") = w.place[1] /\ Of(w, "class") = w.place[2]
    BY DEF Of, Flags
  <2>5. Moved(U, w, s, x) = There(w.place[1], b) /\ Moved(U, w, t, x) = There(a, w.place[2])
    BY <2>1, <2>3, <2>4 DEF Moved, Called, Assigned, Flags
  <2>6. Leads(U, "template_push_types", w, <<s>>, x, There(w.place[1], b))
    BY <1>4, <2>1, <2>2, <2>5, OpSteps DEF Ops
  <2>7. Leads(U, "template_push_types", w, <<t>>, x, There(a, w.place[2]))
    BY <1>4, <2>1, <2>2, <2>5, OpSteps DEF Ops
  <2> QED  BY <2>6, <2>7 DEF s, t, x, Do, Back
<1>7. \A x : V(x) => /\ L(Known, x, x)
                     /\ L(When(Has(m, "types"), Shrug("as many arguments")), x, x)
                     /\ L(IfFailed(Do("untype", "")), x, x)
  <2> SUFFICES ASSUME NEW x, V(x)
               PROVE  /\ L(Known, x, x)
                      /\ L(When(Has(m, "types"), Shrug("as many arguments")), x, x)
                      /\ L(IfFailed(Do("untype", "")), x, x)
    OBVIOUS
  <2>1. L(Known, x, x)
    <3> DEFINE ks == Kids(m, "types")
    <3>1. IsSeq(ks)
      BY KidsFact, FieldFacts
    <3> HIDE DEF ks
    <3>2. DOMAIN Call("loose", "known_type", ks) = DOMAIN ks
          /\ Call("loose", "known_type", ks) = [i \in DOMAIN ks |-> Call("loose", "known_type", ks)[i]]
          /\ \A i \in DOMAIN ks : Call("loose", "known_type", ks)[i][1] = "loose" /\ Call("loose", "known_type", ks)[i][2] = "known_type"
      BY DEF Call
    <3>3. IsSeq(Call("loose", "known_type", ks))
      BY <3>1, <3>2, SeqMap
    <3>4. \A i \in DOMAIN ks : Moves(U, "template_push_types", w, Call("loose", "known_type", ks)[i], x, x)
      <4> SUFFICES ASSUME NEW s, s[1] = "loose", s[2] = "known_type" PROVE Moves(U, "template_push_types", w, s, x, x)
        BY <3>2
      <4> QED  BY DEF Moves, Moved, MayStop, Softens, Called
    <3> QED  BY <3>2, <3>3, <3>4, LeadsBack DEF ks, Loose
  <2>2. L(Shrug("as many arguments"), x, x)
    <3> DEFINE s == <<"shrug", "as many arguments">>
    <3>1. s[1] = "shrug" /\ s[2] = "as many arguments" /\ "as many arguments" \in U.sure
      BY SoberFacts
    <3> HIDE DEF s
    <3>2. Moves(U, "template_push_types", w, s, x, x)
      BY <3>1 DEF Moves, Moved, MayStop, Softens, Called
    <3>3. Leads(U, "template_push_types", w, <<s>>, x, x)
      BY <3>2, LeadsStep
    <3> QED  BY <3>3 DEF s, Shrug
  <2>3. L(IfFailed(Do("untype", "")), x, x)
    <3> DEFINE s == <<"failed", <<"untype", "">>>>
    <3>1. s[1] = "failed"
      OBVIOUS
    <3>2. IfFailed(Do("untype", "")) = <<s>>
      <4>1. \A t : IfFailed(<<t>>) = << <<"failed", t>> >>
        BY DEF IfFailed
      <4> QED  BY <4>1 DEF Do
    <3> HIDE DEF s
    <3>3. Moves(U, "template_push_types", w, s, x, x)
      BY <3>1 DEF Moves, Moved, MayStop, Softens, Called, Firm
    <3>4. Leads(U, "template_push_types", w, <<s>>, x, x)
      BY <3>3, LeadsStep
    <3> QED  BY <3>2, <3>4
  <2> QED  BY <2>1, <2>2, <2>3, LeadsWhen
<1> DEFINE Outside == Set("curr", N(env.class).in) \o Set("class", Owner(env.class))
           plan1 == Do("types", "") \o When(env.class # "", Outside)
<1>8. \E a, b : L(plan1, w, There(a, b))
  <2>1. L(Outside, y, There(N(env.class).in, Owner(env.class)))
    <3> HIDE DEF L, There
    <3> QED  BY <1>0, <1>3, <1>5
  <2>2. CASE env.class # ""
    <3> HIDE DEF L, There, Outside
    <3> QED  BY <2>1, <2>2, <1>0, <1>1 DEF When
  <2>3. CASE ~(env.class # "")
    <3>1. L(<<>>, y, y)
      BY <1>1, LeadsNone
    <3> HIDE DEF L, There, Outside
    <3> QED  BY <3>1, <2>3, <1>0, <1>1, <1>3 DEF When
  <2> QED  BY <2>2, <2>3
<1>9. template_push_types(m) = plan1 \o Known \o Back("curr") \o Back("class")
          \o When(Has(m, "types"), Shrug("as many arguments")) \o IfFailed(Do("untype", ""))
  BY DEF template_push_types
<1>10. PICK a, b : L(plan1, w, There(a, b))
  BY <1>8
<1>11. L(plan1 \o Known, w, There(a, b))
  <2> HIDE DEF L, There, Known, plan1
  <2> QED  BY <1>0, <1>4, <1>7, <1>10
<1>12. L(plan1 \o Known \o Back("curr"), w, There(w.place[1], b))
  <2> HIDE DEF L, There, Known, plan1
  <2> QED  BY <1>0, <1>6, <1>11
<1>13. L(plan1 \o Known \o Back("curr") \o Back("class"), w, y)
  <2> HIDE DEF L, There, Known, plan1
  <2> QED  BY <1>0, <1>3, <1>6, <1>12
<1>14. L(plan1 \o Known \o Back("curr") \o Back("class") \o When(Has(m, "types"), Shrug("as many arguments")), w, y)
  <2> HIDE DEF L, There, Known, plan1
  <2> QED  BY <1>0, <1>1, <1>7, <1>13
<1>15. L(template_push_types(m), w, y)
  <2> HIDE DEF L, There, Known, plan1
  <2> QED  BY <1>0, <1>1, <1>7, <1>9, <1>14
<1> QED  BY <1>15 DEF y

-----------------------------------------------------------------------------
(* The pass that makes types ends where it began, or is refused before it  *)
(* goes anywhere.                                                          *)

LEMMA LedRules ==
  ASSUME NEW u, NEW f, f \notin Firm, NEW w, IsView(u, f, w)
  PROVE  /\ \A p : Still(u, f, w, p) => Led(u, f, w, p, w, w)
         /\ \A p : Cut(u, f, w, p, w) => Led(u, f, w, p, w, w)
         /\ \A p, a : Still(u, f, w, a) /\ Led(u, f, w, p, w, w) => Led(u, f, w, a \o p, w, w)
         /\ \A p, a : Led(u, f, w, p, w, w) /\ Still(u, f, w, a) => Led(u, f, w, p \o a, w, w)
<1>1. f # "template_push_types"
  BY DEF Firm
<1>2. \A p : Still(u, f, w, p) => IsSeq(p)
  BY DEF Still, Leads
<1>3. \A p, a : Still(u, f, w, a) /\ Still(u, f, w, p) => Still(u, f, w, a \o p)
  BY Rules
<1>4. \A p : Led(u, f, w, p, w, w) <=> Still(u, f, w, p) \/ Cut(u, f, w, p, w)
  BY <1>1 DEF Led, Still
<1> QED  BY <1>2, <1>3, <1>4, CutRules

(* What is declared global. *)
LEMMA GlobalPlan ==
  ASSUME Here, NEW f, f \notin SemaFns, f \notin Firm, NEW w, IsView(U, f, w), w = View(U, env), NEW m \in Nodes
  PROVE  Cut(U, f, w, scan0_global(m), w) \/ Pair(U, f, w, scan0_global(m), scan0_local(m))
<1> DEFINE S(p) == Still(U, f, w, p)
           g == Is(m, "global")
<1>1. \A p : Fine(U, f, m, "calm", p) => S(p)
  BY Basics
<1>2. (\A p, q : S(p) /\ S(q) => S(p \o q)) /\ S(<<>>)
  BY Basics
<1>3. CASE g /\ env.depth > 0
  <2>1. Cut(U, f, w, Refuse, w)
    BY CutRules
  <2>2. env_access(m) = Refuse
    BY <1>3 DEF env_access, When
  <2>3. IsSeq(When(g /\ env.class # "", Refuse)) /\ IsSeq(When(g, PushNspc(env.global) \o Mark(env.context, "global")))
    <3>1. Fine(U, f, m, "any", PushNspc(env.global) \o Mark(env.context, "global")) /\ Fine(U, f, m, "any", Refuse)
      BY CalmSteps, AnySteps
    <3> QED  BY <3>1, SeqNone DEF When, Fine
  <2>4. Cut(U, f, w, env_storage(m), w)
    BY <2>1, <2>2, <2>3, CutRules DEF env_storage
  <2>5. Cut(U, f, w, scan0_global(m), w)
    BY <2>3, <2>4, CutRules DEF scan0_global
  <2> QED  BY <2>5
<1>4. CASE ~(g /\ env.depth > 0)
  <2> DEFINE q == PushNspc(env.global) \o Mark(env.context, "global")
  <2>1. S(env_storage(m))
    BY <1>1, Scan0Plans
  <2>2. Idle(U, f, w, Mark(env.context, "global")) /\ Idle(U, f, w, <<>>)
    BY EasySteps, Basics
  <2>3. Pair(U, f, w, When(g, q), When(g, PopTo0))
    <3>1. CASE g
      <4>1. w.depth = 0
        <5>1. w.depth = Depth(U, env.depth)
          BY AtFields DEF View
        <5>2. w.depth \in Nat
          BY DEF IsView
        <5> QED  BY <3>1, <1>4, <5>1, <5>2 DEF Depth
      <4>2. Pair(U, f, w, PushNspc(env.global), PopTo0)
        BY <4>1, Pairs
      <4>3. Pair(U, f, w, q, PopTo0)
        BY <4>2, <2>2, <1>2, WrappedTwo
      <4> QED  BY <3>1, <4>3 DEF When
    <3>2. CASE ~g
      <4>1. Pair(U, f, w, <<>>, <<>>)
        BY <1>2 DEF Pair, Still
      <4> QED  BY <3>2, <4>1 DEF When
    <3> QED  BY <3>1, <3>2
  <2>4. Pair(U, f, w, env_storage(m) \o When(g, q), When(g, PopTo0))
    <3> HIDE DEF q
    <3> QED  BY <2>1, <2>2, <2>3, WrappedTwo
  <2> QED  BY <2>4 DEF scan0_global, scan0_local
<1> QED  BY <1>3, <1>4

LEMMA GlobalReturns ==
  ASSUME Here, NEW f, f \notin SemaFns, f \notin Firm, NEW w, IsView(U, f, w), w = View(U, env), NEW m \in Nodes,
         NEW a, Still(U, f, w, a), NEW p, IsSeq(p), Idle(U, f, w, p)
  PROVE  /\ Led(U, f, w, scan0_global(m) \o p \o scan0_local(m), w, w)
         /\ Led(U, f, w, a \o scan0_global(m) \o p \o scan0_local(m), w, w)
         /\ Led(U, f, w, a \o scan0_global(m) \o scan0_local(m), w, w)
<1> DEFINE R(s) == Led(U, f, w, s, w, w)
           q == scan0_global(m)
           r == scan0_local(m)
<1>1. \A s : Still(U, f, w, s) => R(s)
  BY LedRules
<1>2. IsSeq(r)
  <2>1. Fine(U, f, m, "any", PopTo0)
    BY AnySteps
  <2> QED  BY <2>1, SeqNone DEF scan0_local, When, Fine
<1> HIDE DEF q, r
<1>3. CASE Cut(U, f, w, q, w)
  <2>1. Cut(U, f, w, a \o q, w) /\ Cut(U, f, w, q \o p, w)
    BY <1>3, CutRules
  <2>2. Cut(U, f, w, a \o q \o p, w) /\ Cut(U, f, w, a \o q \o r, w) /\ Cut(U, f, w, q \o p \o r, w)
    BY <1>2, <2>1, CutRules
  <2>3. Cut(U, f, w, a \o q \o p \o r, w)
    BY <1>2, <2>2, CutRules
  <2> QED  BY <2>2, <2>3, LedRules DEF q, r
<1>4. CASE Pair(U, f, w, q, r)
  <2>1. Still(U, f, w, q \o p \o r) /\ Still(U, f, w, a \o q \o p \o r)
    BY <1>4, Wrapped
  <2>2. Still(U, f, w, a \o q \o r)
    BY <1>4, WrappedTwo
  <2> QED  BY <1>1, <2>1, <2>2 DEF q, r
<1>5. Cut(U, f, w, q, w) \/ Pair(U, f, w, q, r)
  BY GlobalPlan DEF q, r
<1> QED  BY <1>3, <1>4, <1>5

LEMMA Scan0Returns ==
  ASSUME Here, Sober(U), NEW f, f \notin SemaFns, f \notin Firm, NEW w, IsView(U, f, w), w = View(U, env), NEW m \in Nodes
  PROVE  /\ Led(U, f, w, scan0(m), w, w) /\ Led(U, f, w, scan0_trait_body(m), w, w)
         /\ Still(U, f, w, scanx_body(m, "scan0")) /\ Still(U, f, w, cdef_parent(m))
         /\ Still(U, f, w, scan0_class_def_inner(m)) /\ Still(U, f, w, scan0_class_def_init(m))
         /\ Still(U, f, w, scan0_stmt_list(m)) /\ Still(U, f, w, scan0_ast(m))
<1> DEFINE S(p) == Still(U, f, w, p)
           I(p) == Idle(U, f, w, p)
           R(p) == Led(U, f, w, p, w, w)
<1> USE NodeRules, CommonFacts
<1>1. /\ \A p : Fine(U, f, m, "calm", p) => S(p)
      /\ \A p : Fine(U, f, m, "easy", p) => I(p)
  BY Basics
<1>2. (\A p, q : S(p) /\ S(q) => S(p \o q)) /\ (\A c, p : S(p) => S(When(c, p))) /\ S(<<>>) /\ I(<<>>)
      /\ \A p, q : I(p) /\ I(q) => I(p \o q)
  BY Basics
<1>3. \A g \in Common(f) : \A ns \in Seq(Nodes) : I(Try(g, ns)) /\ I(Loose(g, ns)) /\ S(Must(g, ns)) /\ I(Poison(g, ns))
  BY Basics
<1>4. /\ \A p : S(p) => R(p)
      /\ \A p, a : S(a) /\ R(p) => R(a \o p)
      /\ \A p, a : R(p) /\ S(a) => R(p \o a)
  BY LedRules
<1>5. \A a, p : S(a) /\ IsSeq(p) /\ I(p) =>
        /\ R(scan0_global(m) \o p \o scan0_local(m)) /\ R(a \o scan0_global(m) \o p \o scan0_local(m))
        /\ R(a \o scan0_global(m) \o scan0_local(m))
  BY GlobalReturns
<1>6. S(scan0_defined) /\ S(env_access(m)) /\ S(env_storage(m)) /\ S(Mark(m, "scan0")) /\ S(Doubt("trait sections"))
      /\ S(Must("known_type", Kids(m, "ext")))
  BY <1>1, Scan0Plans, CalmSteps, TypeCalls, FieldFacts DEF scan0_defined
<1>7. \A p : S(p) => IsSeq(p)
  BY DEF Still, Leads
<1>8. /\ N(m).kind \notin {"union", "enum", "typedef", "func", "prim"} /\ ~(N(m).kind = "class" /\ Is(m, "global")) => S(scan0(m))
      /\ S(scan0_class_def_inner(m)) /\ S(scan0_class_def_init(m))
      /\ S(scan0_stmt_list(m)) /\ S(scan0_ast(m))
      /\ Is(m, "base") \/ ~Has(m, "types") \/ ~Has(m, "ext") => S(cdef_parent(m))
  BY <1>1, Scan0Plans
<1>9. S(cdef_parent(m))
  <2>1. CASE Is(m, "base") \/ ~Has(m, "types") \/ ~Has(m, "ext")
    BY <2>1, <1>8
  <2>2. CASE ~(Is(m, "base") \/ ~Has(m, "types") \/ ~Has(m, "ext"))
    <3>1. I(Try("known_type", Kids(m, "ext"))) /\ S(Doubt("literal size"))
      BY <1>1, TypeCalls, FieldFacts, CalmSteps
    <3>2. S(Must("template_push_types", <<m>>) \o Try("known_type", Kids(m, "ext")) \o Do("untype", ""))
      BY <3>1, <1>2, Pairs, Wrapped
    <3>3. cdef_parent(m) = When(Has(m, "ext"), Doubt("literal size"))
             \o When(Has(m, "ext"), Must("template_push_types", <<m>>) \o Try("known_type", Kids(m, "ext")) \o Do("untype", ""))
      BY <2>2 DEF cdef_parent
    <3> HIDE DEF S, I
    <3> QED  BY <3>1, <3>2, <3>3, <1>2
  <2> QED  BY <2>1, <2>2
<1>10. S(scanx_body(m, "scan0"))
  BY <1>3, InClass DEF scanx_body
<1>11. N(m).kind = "class" => R(scan0_class_def(m))
  <2>1. I(Try("scan0_class_def_inner", <<m>>)) /\ IsSeq(Try("scan0_class_def_inner", <<m>>))
    <3>1. I(Try("scan0_class_def_inner", <<m>>)) /\ S(Try("scan0_class_def_inner", <<m>>))
      BY <1>3, Basics
    <3> QED  BY <3>1, <1>7
  <2> HIDE DEF S, I, R
  <2> QED  BY <2>1, <1>2, <1>5 DEF scan0_class_def
<1>12. N(m).kind = "enum" => R(scan0_enum_def(m))
  <2>1. IsSeq(<<>>)
    BY SeqNone
  <2> HIDE DEF S, I, R
  <2> QED  BY <2>1, <1>2, <1>5, <1>6 DEF scan0_enum_def
<1>13. R(scan0_prim_def(m)) /\ R(scan0_trait_body(m))
  <2>1. IsSeq(<<>>)
    BY SeqNone
  <2> HIDE DEF S, I, R
  <2>2. S(env_access(m) \o scan0_defined)
    BY <1>2, <1>6
  <2>3. R(scan0_prim_def(m))
    BY <2>1, <2>2, <1>2, <1>5 DEF scan0_prim_def
  <2>4. R(scan0_defined \o scan0_global(m) \o scan0_local(m))
    BY <2>1, <1>2, <1>5, <1>6
  <2> QED  BY <2>3, <2>4, <1>4, <1>6 DEF scan0_trait_body
<1>14. Is(m, "global") \/ (S(scan0_global(m)) /\ S(scan0_local(m)))
  <2>1. ~Is(m, "global") => scan0_global(m) = env_storage(m) \o <<>> /\ scan0_local(m) = <<>>
    BY DEF scan0_global, scan0_local, When
  <2> HIDE DEF S
  <2> QED  BY <2>1, <1>2, <1>6
<1>15. N(m).kind = "typedef" => R(scan0_type_def(m))
  <2>1. SUFFICES ASSUME N(m).kind = "typedef" PROVE R(scan0_type_def(m))
    OBVIOUS
  <2>2. S(scan0_defined \o env_access(m) \o Must("known_type", Kids(m, "ext")))
    <3> HIDE DEF S
    <3> QED  BY <1>2, <1>6
  <2>3. CASE Is(m, "global")
    <3>1. Must("scan0", Kids(m, "cdef")) = <<>>
      <4>1. Kids(m, "cdef") = <<>>
        BY <2>1, <2>3, SoberFacts
      <4> QED  BY <4>1 DEF Must, Call
    <3>2. IsSeq(<<>>)
      BY SeqNone
    <3> HIDE DEF S, I, R
    <3> QED  BY <2>2, <3>1, <3>2, <1>2, <1>5 DEF scan0_type_def
  <2>4. CASE ~Is(m, "global")
    <3>1. S(Must("scan0", Kids(m, "cdef")))
      BY <1>3, FieldFacts
    <3> HIDE DEF S, I, R
    <3>2. S(scan0_type_def(m))
      BY <2>2, <2>4, <3>1, <1>2, <1>14 DEF scan0_type_def
    <3> QED  BY <3>2, <1>4
  <2> QED  BY <2>3, <2>4
<1>16. N(m).kind = "union" => R(scan0_union_def(m))
  <2>1. SUFFICES ASSUME N(m).kind = "union" PROVE R(scan0_union_def(m))
    OBVIOUS
  <2>2. R(scan0_global(m) \o scan0_defined \o scan0_local(m))
    <3>1. CASE Is(m, "global")
      <4>1. I(scan0_defined)
        <5>1. Fine(U, f, m, "easy", scan0_defined)
          BY <2>1, <3>1, SoberFacts, EasySteps DEF scan0_defined
        <5> QED  BY <5>1, <1>1
      <4>2. IsSeq(scan0_defined)
        BY <1>6, <1>7
      <4> HIDE DEF S, I, R
      <4> QED  BY <4>1, <4>2, <1>2, <1>5
    <3>2. CASE ~Is(m, "global")
      <4> HIDE DEF S, I, R
      <4>1. S(scan0_global(m) \o scan0_defined \o scan0_local(m))
        BY <3>2, <1>2, <1>6, <1>14
      <4> QED  BY <4>1, <1>4
    <3> QED  BY <3>1, <3>2
  <2> HIDE DEF S, I, R
  <2> QED  BY <2>2, <1>4, <1>6 DEF scan0_union_def
<1>17. S(scan0_func_def(m))
  <2>1. S(Set("func", m) \o Loose("scan0_stmt_list", <<m>>) \o Back("func"))
    <3>1. I(Loose("scan0_stmt_list", <<m>>)) /\ S(<<>>)
      BY <1>2, <1>3
    <3> QED  BY <3>1, Pairs, Wrapped
  <2> HIDE DEF S
  <2> QED  BY <2>1, <1>2 DEF scan0_func_def
<1>18. R(scan0(m))
  <2>1. /\ N(m).kind = "class" => scan0(m) = scan0_class_def(m)
        /\ N(m).kind = "union" => scan0(m) = scan0_union_def(m)
        /\ N(m).kind = "enum" => scan0(m) = scan0_enum_def(m)
        /\ N(m).kind = "typedef" => scan0(m) = scan0_type_def(m)
        /\ N(m).kind = "func" => scan0(m) = scan0_func_def(m)
        /\ N(m).kind = "prim" => scan0(m) = scan0_prim_def(m)
    BY DEF scan0
  <2> HIDE DEF S, I, R
  <2> QED  BY <2>1, <1>4, <1>8, <1>11, <1>12, <1>13, <1>15, <1>16, <1>17
<1> QED  BY <1>8, <1>9, <1>10, <1>13, <1>18

-----------------------------------------------------------------------------
(* The pass that declares variables ends where it began.                   *)

LEMMA ScopesReturn ==
  ASSUME Here, NEW f, f \notin SemaFns, f \notin Firm, NEW w, IsView(U, f, w), NEW m \in Nodes
  PROVE  /\ \A g \in Common(f) : Still(U, f, w, In(g, m))
         /\ \A g \in Common(f) : Still(U, f, w, scanx_body(m, g)) /\ Still(U, f, w, scanx_fdef(m, g))
<1> USE NodeRules
<1>1. \A g \in Common(f) : Idle(U, f, w, Try(g, <<m>>)) /\ Idle(U, f, w, Poison(g, Listed(m)))
  BY Basics
<1>2. \A g \in Common(f) : Still(U, f, w, In(g, m))
  BY <1>1, Rules DEF In
<1>3. \A g \in Common(f) : Still(U, f, w, scanx_body(m, g))
  BY <1>1, InClass DEF scanx_body
<1>4. \A g \in Common(f) : Still(U, f, w, scanx_fdef(m, g))
  <2> SUFFICES ASSUME NEW g \in Common(f) PROVE Still(U, f, w, scanx_fdef(m, g))
    OBVIOUS
  <2>1. Still(U, f, w, When(Template(m), Must("template_push_types", <<m>>)) \o Try(g, <<m>>) \o When(Template(m), Do("untype", "")))
    <3>1. Still(U, f, w, <<>>)
      BY Rules
    <3> QED  BY <1>1, <3>1, Pairs, Wrapped
  <2>2. Still(U, f, w, Back("in_try"))
    BY Rules
  <2> QED  BY <2>1, <2>2, Rules DEF scanx_fdef
<1> QED  BY <1>2, <1>3, <1>4

LEMMA Scan1Walks ==
  ASSUME Here, Sober(U), NEW f, f \notin SemaFns, f \notin Firm, NEW w, IsView(U, f, w), NEW m \in Nodes
  PROVE  /\ Still(U, f, w, scan1_exp(m)) /\ Still(U, f, w, scan1_decl(m))
         /\ N(m).kind = "type" => Still(U, f, w, scan1_type(m))
         /\ Still(U, f, w, scan1_in(m)) /\ Still(U, f, w, scan1_stmt_list(m)) /\ Still(U, f, w, scan1_stmt(m))
<1> DEFINE S(p) == Still(U, f, w, p)
           I(p) == Idle(U, f, w, p)
<1> USE NodeRules, CommonFacts
<1>1. \A p : Fine(U, f, m, "calm", p) => S(p)
  BY Basics
<1>2. (\A p, q : S(p) /\ S(q) => S(p \o q)) /\ (\A c, p : S(p) => S(When(c, p))) /\ S(<<>>)
      /\ (\A p : I(p) => S(p))
  BY Basics
<1>3. \A g \in Common(f) : \A ns \in Seq(Nodes) : I(Try(g, ns)) /\ I(Loose(g, ns)) /\ S(Must(g, ns)) /\ I(Poison(g, ns))
  BY Basics
<1>4. /\ \A fields \in Seq(Fields) : S(scan1_on(m, fields))
      /\ S(scan1_on(m, <<"args">>)) /\ S(scan1_on(m, <<"cond">>))
  BY <1>1, Scan1On, FieldFacts, FieldLists
<1>5. S(In("scan1_in", m))
  BY ScopesReturn
<1>6. S(scan1_decl(m)) /\ (N(m).kind = "type" => S(scan1_type(m)))
  BY <1>1, Scan1Expressions
<1>7. S(scan1_exp(m))
  <2>1. CASE ~(N(m).kind = "decl" /\ Is(m, "global"))
    BY <2>1, <1>1, Scan1Expressions
  <2>2. CASE N(m).kind = "decl" /\ Is(m, "global")
    <3>1. S(PushNspc(env.global) \o Try("scan1_decl", <<m>>) \o Pop)
      BY <1>3, Around
    <3>2. S(env_storage(m)) /\ S(Must("scan1_type", Kids(m, "td"))) /\ S(Claim("type of a variable"))
      BY <1>1, Scan0Plans, TypeCalls, FieldFacts, CalmSteps
    <3>3. S(Mark(env.context, "global")) /\ S(Claim("global type")) /\ I(Try("scan1_decl", <<m>>))
      BY <1>1, <1>3, CalmSteps
    <3>4. S(Mark(env.context, "global") \o Claim("global type") \o PushNspc(env.global) \o Try("scan1_decl", <<m>>) \o Pop)
      <4>1. S(Mark(env.context, "global") \o Claim("global type"))
        <5> HIDE DEF S, I
        <5> QED  BY <1>2, <3>3
      <4>2. Pair(U, f, w, PushNspc(env.global), Pop)
        BY Pairs
      <4> QED  BY <3>3, <4>1, <4>2, Wrapped
    <3>5. scan1_exp(m) = scan1_exp_decl(m)
      BY <2>2 DEF scan1_exp
    <3> HIDE DEF S, I
    <3> QED  BY <2>2, <3>2, <3>4, <3>5, <1>2, <1>4 DEF scan1_exp_decl
  <2> QED  BY <2>1, <2>2
<1>8. S(scan1_stmt_if(m))
  <2>1. S(Must("scan1", Kids(m, "body"))) /\ S(Must("scan1", Kids(m, "else_body")))
    BY <1>3, FieldFacts
  <2>2. S(When(Is(m, "returns"), Add("depth", -1)) \o Must("scan1", Kids(m, "else_body")) \o When(Is(m, "returns"), Add("depth", 1)))
    <3>1. S(When(Is(m, "returns"), Add("depth", -1))) /\ S(When(Is(m, "returns"), Add("depth", 1)))
      <4>1. CASE Is(m, "returns")
        <5>1. I(Add("depth", -1)) /\ I(Add("depth", 1))
          BY <4>1, LevelFacts, Uncounted
        <5> HIDE DEF S, I
        <5> QED  BY <5>1, <1>2
      <4>2. CASE ~Is(m, "returns")
        <5> HIDE DEF S, I
        <5> QED  BY <4>2, <1>2 DEF When
      <4> QED  BY <4>1, <4>2
    <3> HIDE DEF S, I
    <3> QED  BY <3>1, <2>1, <1>2
  <2> HIDE DEF S, I
  <2> QED  BY <2>1, <2>2, <1>2, <1>4 DEF scan1_stmt_if
<1>9. S(scan1_in(m))
  <2>1. N(m).kind = "if" => scan1_in(m) = scan1_stmt_if(m)
    BY DEF scan1_in
  <2>2. N(m).kind # "if" => S(scan1_in(m))
    BY <1>1, Scan1Statements
  <2> HIDE DEF S
  <2> QED  BY <2>1, <2>2, <1>8
<1>10. S(scan1_stmt_list(m))
  BY <1>1, Scan1Statements
<1>11. S(scan1_stmt(m))
  <2>1. N(m).kind \in {"exp", "return", "using", "pp", "defer", "spread", "break", "continue", "retry", "import"} => S(scan1_stmt(m))
    BY <1>1, Scan1Statements
  <2>2. S(Poison("scan1", Kids(m, "handlers"))) /\ S(Check)
    BY <1>1, <1>2, <1>3, FieldFacts, CalmSteps
  <2>3. N(m).kind \notin {"exp", "return", "using", "pp", "defer", "spread", "break", "continue", "retry", "import"} => S(scan1_stmt(m))
    <3> HIDE DEF S, I
    <3> QED  BY <2>2, <1>2, <1>4, <1>5 DEF scan1_stmt
  <2> QED  BY <2>1, <2>3
<1> QED  BY <1>6, <1>7, <1>9, <1>10, <1>11

LEMMA Scan1Defs ==
  ASSUME Here, Sober(U), NEW f, f \notin SemaFns, f \notin Firm, NEW w, IsView(U, f, w), NEW m \in Nodes
  PROVE  /\ Still(U, f, w, scan1_arg(m)) /\ Still(U, f, w, scan1_fbody(m)) /\ Still(U, f, w, scan1_fdef(m))
         /\ Still(U, f, w, scan1_in_types(m))
         /\ N(m).kind = "func" => Still(U, f, w, scan1_func_def(m)) /\ Still(U, f, w, _scan1_func_def(m))
<1> DEFINE S(p) == Still(U, f, w, p)
           I(p) == Idle(U, f, w, p)
<1> USE NodeRules, CommonFacts
<1>1. \A p : Fine(U, f, m, "calm", p) => S(p)
  BY Basics
<1>2. (\A p, q : S(p) /\ S(q) => S(p \o q)) /\ (\A c, p : S(p) => S(When(c, p))) /\ S(<<>>)
      /\ (\A p : I(p) => S(p))
  BY Basics
<1>3. \A g \in Common(f) : \A ns \in Seq(Nodes) : I(Try(g, ns)) /\ I(Loose(g, ns))
  BY Basics
<1>4. S(scan1_arg(m)) /\ S(scan1_fbody(m))
  BY <1>1, Scan1Functions
<1>5. S(scan1_in_types(m)) /\ S(In("scan1_fbody", m))
  BY ScopesReturn DEF scan1_in_types
<1>6. S(scan1_fdef(m))
  <2>1. /\ S(Must("known_type", Kids(m, "td"))) /\ S(Claim("type to return")) /\ S(Claim("internal function"))
        /\ S(Loose("scan1_stmt_list", <<m>>))
    BY <1>1, <1>2, <1>3, TypeCalls, FieldFacts, CalmSteps
  <2> HIDE DEF S, I
  <2> QED  BY <2>1, <1>2, <1>5 DEF scan1_fdef
<1>7. N(m).kind = "func" => S(scan1_func_def(m))
  <2>0. SUFFICES ASSUME N(m).kind = "func" PROVE S(scan1_func_def(m))
    OBVIOUS
  <2>1. I(Try("_scan1_func_def", <<m>>)) /\ S(<<>>)
    BY <2>0, <1>2, Basics, FunctionCalls DEF OfFunctions
  <2> QED  BY <2>1, Pairs, Wrapped DEF scan1_func_def
<1>8. N(m).kind = "func" => S(_scan1_func_def(m))
  <2>1. SUFFICES ASSUME N(m).kind = "func" PROVE S(_scan1_func_def(m))
    OBVIOUS
  <2> DEFINE pre == When(Is(m, "abstract") /\ env.class = "", Refuse) \o env_storage(m) \o Claim("new function")
             lone == Do("types", "") \o Try("known_type", Kids(m, "td")) \o Do("untype", "")
             body == Set("func", m) \o Try("scan1_in_types", <<m>>) \o Back("func")
  <2>2. Is(m, "global") => ~Is(m, "base")
    BY <2>1, SoberFacts
  <2>3. S(pre) /\ S(Claim("a return"))
    <3>1. S(Refuse) /\ S(env_storage(m)) /\ S(Claim("new function")) /\ S(Claim("a return"))
      BY <1>1, Scan0Plans, CalmSteps
    <3> HIDE DEF S
    <3> QED  BY <3>1, <1>2 DEF When
  <2>4. S(lone)
    <3>1. Fine(U, f, m, "easy", Try("known_type", Kids(m, "td")))
      BY TypeCalls, FieldFacts
    <3>2. I(Try("known_type", Kids(m, "td"))) /\ S(<<>>)
      BY <3>1, <1>2, Basics
    <3> QED  BY <3>2, Pairs, Wrapped
  <2>5. S(body)
    <3>1. I(Try("scan1_in_types", <<m>>)) /\ S(<<>>)
      BY <1>2, <1>3
    <3> QED  BY <3>1, Pairs, Wrapped
  <2>6. CASE Is(m, "global")
    <3>1. I(Try("scan1_in_types", <<m>>))
      BY <1>2, <1>3
    <3>2. Pair(U, f, w, PushNspc(env.global), body \o Pop \o Claim("a return"))
      BY <2>3, <3>1, InGlobal
    <3> DEFINE q == PushNspc(env.global)
               r == body \o Pop \o Claim("a return")
    <3>3. _scan1_func_def(m) = pre \o q \o r
      BY <2>2, <2>6 DEF _scan1_func_def, When
    <3>4. I(<<>>)
      BY <1>2, Basics
    <3> HIDE DEF pre, q, r, body
    <3>5. S(pre \o q \o r)
      BY <2>3, <3>2, <3>4, WrappedTwo DEF q, r
    <3> QED  BY <3>3, <3>5
  <2>7. CASE ~Is(m, "global")
    <3>1. _scan1_func_def(m) = pre \o <<>> \o IF Is(m, "base") THEN lone ELSE body \o <<>> \o Claim("a return")
      BY <2>7 DEF _scan1_func_def, When
    <3> HIDE DEF S, I, pre, lone, body
    <3> QED  BY <2>3, <2>4, <2>5, <3>1, <1>2
  <2> QED  BY <2>6, <2>7
<1> QED  BY <1>4, <1>5, <1>6, <1>7, <1>8

LEMMA Scan1Kinds ==
  ASSUME Here, Sober(U), NEW f, f \notin SemaFns, f \notin Firm, NEW w, IsView(U, f, w), NEW m \in Nodes
  PROVE  /\ N(m).kind = "enum" => Still(U, f, w, scan1_enum_def(m))
         /\ N(m).kind = "fptr" => Still(U, f, w, scan1_fptr_def(m))
         /\ Still(U, f, w, scan1_type_def(m)) /\ Still(U, f, w, scan1_union_member(m))
         /\ Still(U, f, w, scan1_union_def_inner(m)) /\ Still(U, f, w, scan1_union_def(m))
         /\ Still(U, f, w, scan1_parent(m)) /\ Still(U, f, w, scan1_cdef_parent(m))
         /\ Still(U, f, w, scan1_class_def_body(m)) /\ Still(U, f, w, scanx_body(m, "scan1"))
         /\ N(m).kind = "class" /\ Has(m, "types") => Still(U, f, w, scan1_class_tmpl(m))
         /\ Still(U, f, w, scan1_ast(m))
<1> DEFINE S(p) == Still(U, f, w, p)
           I(p) == Idle(U, f, w, p)
<1> USE NodeRules, CommonFacts
<1>1. (\A p : Fine(U, f, m, "calm", p) => S(p)) /\ (\A p : Fine(U, f, m, "easy", p) => I(p))
  BY Basics
<1>2. (\A p, q : S(p) /\ S(q) => S(p \o q)) /\ (\A c, p : S(p) => S(When(c, p))) /\ S(<<>>) /\ I(<<>>)
      /\ (\A p : I(p) => S(p))
  BY Basics
<1>3. \A g \in Common(f) : \A ns \in Seq(Nodes) : I(Try(g, ns)) /\ I(Loose(g, ns)) /\ I(Poison(g, ns))
  BY Basics
<1>4. /\ S(scan1_type_def(m)) /\ S(scan1_union_member(m)) /\ S(scan1_parent(m))
      /\ S(scan1_class_def_body(m)) /\ S(scan1_ast(m))
  BY <1>1, Scan1Types
<1>5. S(scanx_body(m, "scan1"))
  BY ScopesReturn
<1>6. N(m).kind = "enum" => S(scan1_enum_def(m))
  <2>1. N(m).kind = "enum" => I(Test("new names"))
    BY <1>1, SoberFacts, EasySteps
  <2> QED  BY <2>1, <1>2, Around DEF scan1_enum_def
<1>7. N(m).kind = "fptr" => S(scan1_fptr_def(m))
  <2>1. SUFFICES ASSUME N(m).kind = "fptr" PROVE S(scan1_fptr_def(m))
    OBVIOUS
  <2>2. I(Try("scan1", Kids(m, "cdef")))
    BY <1>3, FieldFacts
  <2>3. CASE Is(m, "global")
    <3>1. w.depth = 0
      BY <2>1, <2>3, LevelFacts DEF IsView
    <3>2. Pair(U, f, w, PushNspc(env.global), PopTo0)
      BY <3>1, Pairs
    <3> QED  BY <2>2, <3>2, <1>2, Wrapped DEF scan1_fptr_def
  <2>4. CASE ~Is(m, "global")
    <3> HIDE DEF S, I
    <3> QED  BY <2>2, <2>4, <1>2 DEF scan1_fptr_def, When
  <2> QED  BY <2>3, <2>4
<1>8. S(scan1_union_def_inner(m))
  <2>1. I(Doubt("new names")) /\ I(Poison("scan1", Kids(m, "members")))
    BY <1>1, <1>3, EasySteps, FieldFacts
  <2>2. Pair(U, f, w, Must("template_push_types", <<m>>), Do("untype", ""))
    BY Pairs
  <2> QED  BY <2>1, <2>2, <1>2, WrappedTwo DEF scan1_union_def_inner
<1>9. S(scan1_union_def(m))
  <2>1. S(PushType(m) \o Try("scan1_union_def_inner", <<m>>) \o Pop)
    BY <1>3, Around
  <2>2. S(Mark(m, "scan1"))
    BY <1>1, CalmSteps
  <2> HIDE DEF S, I
  <2> QED  BY <2>1, <2>2, <1>2 DEF scan1_union_def
<1>10. S(scan1_cdef_parent(m))
  <2>1. S(Must("known_type", Kids(m, "ext"))) /\ S(Claim("not final")) /\ I(Try("scan1_parent", <<m>>))
    BY <1>1, <1>3, TypeCalls, FieldFacts, CalmSteps
  <2>2. S(Must("known_type", Kids(m, "ext")) \o Claim("not final"))
    <3> HIDE DEF S, I
    <3> QED  BY <2>1, <1>2
  <2>3. Pair(U, f, w, Must("template_push_types", <<m>>), Do("untype", ""))
    BY Pairs
  <2> QED  BY <2>1, <2>2, <2>3, Wrapped DEF scan1_cdef_parent
<1>11. N(m).kind = "class" /\ Has(m, "types") => S(scan1_class_tmpl(m))
  <2>1. N(m).kind = "class" /\ Has(m, "types") => w.depth = 0
    BY LevelFacts DEF IsView
  <2>2. I(Poison("scan1", Kids(m, "consts")))
    BY <1>3, FieldFacts
  <2> QED  BY <2>1, <2>2, Around DEF scan1_class_tmpl
<1> QED  BY <1>4, <1>5, <1>6, <1>7, <1>8, <1>9, <1>10, <1>11

LEMMA Scan1Returns ==
  ASSUME Here, Sober(U), NEW w, IsView(U, "scan1", w), NEW m \in Nodes
  PROVE  Still(U, "scan1", w, scan1(m))
<1> DEFINE S(p) == Still(U, "scan1", w, p)
<1> USE NodeRules, CommonFacts
<1>0. "scan1" \notin SemaFns /\ "scan1" \notin Firm
  BY DEF SemaFns, Firm
<1>1. /\ N(m).kind = "class" => S(scan1_class_def(m))
      /\ S(Try("scan1_stmt_list", <<m>>)) /\ S(<<>>)
  BY <1>0, Basics, Scan1Types
<1>2. S(In("scan1_in", m))
  BY <1>0, ScopesReturn
<1>3. S(scan1_exp(m)) /\ S(scan1_stmt(m)) /\ S(scan1_arg(m))
      /\ (N(m).kind = "func" => S(scan1_func_def(m)))
  BY <1>0, Scan1Walks, Scan1Defs
<1>4. /\ N(m).kind = "enum" => S(scan1_enum_def(m))
      /\ N(m).kind = "fptr" => S(scan1_fptr_def(m))
      /\ S(scan1_type_def(m)) /\ S(scan1_union_member(m)) /\ S(scan1_union_def(m))
  BY <1>0, Scan1Kinds
<1>5. N(m).kind = "func" => scan1(m) = scan1_func_def(m)
  BY DEF scan1, Statements
<1>6. S(scan1_arg(m)) /\ S(scan1_stmt(m)) /\ S(scan1_exp(m))
  BY <1>3
<1> HIDE DEF S
<1>7. N(m).kind # "func" => S(scan1(m))
  BY <1>1, <1>2, <1>4, <1>6 DEF scan1
<1>8. S(scan1(m))
  BY <1>3, <1>5, <1>7
<1> QED  BY <1>8 DEF S

-----------------------------------------------------------------------------
(* The pass that makes functions ends where it began.                      *)

LEMMA Scan2Walks ==
  ASSUME Here, NEW f, f \notin SemaFns, f \notin Firm, NEW w, IsView(U, f, w), NEW m \in Nodes
  PROVE  /\ N(m).kind = "decl" => Still(U, f, w, scan2_decl(m))
         /\ Still(U, f, w, scan2_exp(m)) /\ Still(U, f, w, scan2_in(m))
         /\ Still(U, f, w, scan2_stmt_list(m)) /\ Still(U, f, w, scan2_stmt(m))
<1> DEFINE S(p) == Still(U, f, w, p)
           I(p) == Idle(U, f, w, p)
<1> USE NodeRules, CommonFacts, Scan1On
<1>1. \A p : (Fine(U, f, m, "calm", p) => S(p)) /\ (Fine(U, f, m, "easy", p) => I(p))
  BY Basics
<1>2. (\A p, q : S(p) /\ S(q) => S(p \o q)) /\ (\A c, p : S(p) => S(When(c, p))) /\ S(<<>>)
      /\ (\A p : I(p) => S(p))
  BY Basics
<1>3. \A g \in Common(f) : \A ns \in Seq(Nodes) : I(Poison(g, ns))
  BY Basics
<1>4. N(m).kind = "decl" => S(scan2_decl(m))
  BY <1>1, Scan2Parts
<1>5. S(scan2_exp(m))
  <2>1. CASE ~(N(m).kind = "decl" /\ Is(m, "global"))
    BY <2>1, <1>1, Scan2Expressions
  <2>2. CASE N(m).kind = "decl" /\ Is(m, "global")
    <3>1. CallOk(U, f, m, "scan2_decl", m)
      BY <2>2 DEF CallOk, Prepare, Prepared, OfTypes, OfInstances, OfParents, OfDecls, OfTemplates, OfFunctions, Special, Outer, Names, Nodes, N, U
    <3>2. I(Try("scan2_decl", <<m>>))
      BY <3>1, <1>1, OwnCalls
    <3>3. S(scan2_on(m, <<"args">>))
      <4>1. Fine(U, f, m, "calm", scan2_on(m, <<"args">>))
        BY FieldFacts, FieldLists
      <4> QED  BY <4>1, <1>1
    <3>4. Pair(U, f, w, PushNspc(env.global), Pop)
      BY Pairs
    <3>5. S(scan2_exp_decl(m))
      BY <3>2, <3>3, <3>4, Wrapped DEF scan2_exp_decl
    <3>6. scan2_exp(m) = scan2_exp_decl(m)
      BY <2>2 DEF scan2_exp
    <3> QED  BY <3>5, <3>6
  <2> QED  BY <2>1, <2>2
<1>6. S(scan2_in(m)) /\ S(scan2_stmt_list(m))
  BY <1>1, Scan2Parts
<1>7. S(In("scan2_in", m))
  BY ScopesReturn
<1>8. S(scan2_stmt(m))
  <2>1. N(m).kind \in {"exp", "return", "using", "pp", "defer", "spread", "break", "continue", "retry", "import"} => S(scan2_stmt(m))
    BY <1>1, Scan2Parts
  <2>2. S(Poison("scan2", Kids(m, "handlers"))) /\ S(Check) /\ S(scan2_on(m, <<"cond">>))
    <3>1. Fine(U, f, m, "calm", scan2_on(m, <<"cond">>))
      BY FieldFacts, FieldLists
    <3>2. S(Check)
      BY <1>1, CalmSteps
    <3>3. S(Poison("scan2", Kids(m, "handlers")))
      BY <1>2, <1>3, FieldFacts
    <3> QED  BY <3>1, <3>2, <3>3, <1>1
  <2>3. N(m).kind \notin {"exp", "return", "using", "pp", "defer", "spread", "break", "continue", "retry", "import"} => S(scan2_stmt(m))
    <3> HIDE DEF S, I
    <3> QED  BY <2>2, <1>2, <1>7 DEF scan2_stmt
  <2> QED  BY <2>1, <2>3
<1> QED  BY <1>4, <1>5, <1>6, <1>8

LEMMA Scan2Defs ==
  ASSUME Here, Sober(U), NEW f, f \notin SemaFns, f \notin Firm, NEW w, IsView(U, f, w), NEW m \in Nodes
  PROVE  /\ Still(U, f, w, scan2_func_def_code(m)) /\ Still(U, f, w, scan2_fdef(m))
         /\ Still(U, f, w, scan2_in_types(m))
         /\ N(m).kind = "func" => Still(U, f, w, scan2_func_def(m)) /\ Still(U, f, w, _scan2_func_def(m))
<1> DEFINE S(p) == Still(U, f, w, p)
           I(p) == Idle(U, f, w, p)
<1> USE NodeRules, CommonFacts
<1>1. \A p : Fine(U, f, m, "calm", p) => S(p)
  BY Basics
<1>2. \A p : Fine(U, f, m, "easy", p) => I(p)
  BY Basics
<1>3. S(scan2_func_def_code(m))
  <2>1. CASE Is(m, "ctor")
    <3>1. I(Try("scan2_stmt_list", <<m>>))
      BY Basics
    <3>2. Pair(U, f, w, Set("func", m), Back("func")) /\ S(<<>>)
      BY Pairs, Basics
    <3>3. S(Set("func", m) \o Try("scan2_stmt_list", <<m>>) \o Back("func"))
      BY <3>1, <3>2, Wrapped
    <3> QED  BY <2>1, <3>3 DEF scan2_func_def_code
  <2>2. CASE ~Is(m, "ctor")
    <3>1. I(Scoped(Try("scan2_stmt_list", <<m>>)))
      BY Basics, Rules
    <3>2. Pair(U, f, w, Set("func", m), Back("func")) /\ S(<<>>)
      BY Pairs, Basics
    <3>3. S(Set("func", m) \o Scoped(Try("scan2_stmt_list", <<m>>)) \o Back("func"))
      BY <3>1, <3>2, Wrapped
    <3> QED  BY <2>2, <3>3 DEF scan2_func_def_code, In
  <2> QED  BY <2>1, <2>2
<1>4. S(scan2_fdef(m))
  BY <1>1, Scan2Functions
<1>5. S(scan2_in_types(m))
  BY ScopesReturn DEF scan2_in_types
<1>6. N(m).kind = "func" => S(scan2_func_def(m))
  <2>0. SUFFICES ASSUME N(m).kind = "func" PROVE S(scan2_func_def(m))
    OBVIOUS
  <2>1. I(Try("_scan2_func_def", <<m>>)) /\ S(<<>>)
    BY <2>0, <1>2, Basics, FunctionCalls DEF OfFunctions
  <2> QED  BY <2>1, Pairs, Wrapped DEF scan2_func_def
<1>7. N(m).kind = "func" => S(_scan2_func_def(m))
  <2>0. SUFFICES ASSUME N(m).kind = "func" PROVE S(_scan2_func_def(m))
    OBVIOUS
  <2>1. CASE ~Is(m, "global")
    BY <2>1, <1>1, Scan2Functions
  <2>2. CASE Is(m, "global")
    <3> DEFINE pre == When(Is(m, "new") /\ env.class = "", Refuse)
                 \o When(Is(m, "global") /\ env.class = "", Mark(env.context, "global")) \o scan2_cpy_fdef(m)
    <3>1. Fine(U, f, m, "calm", scan2_cpy_fdef(m))
      BY CalmCalls, CalmSteps DEF scan2_cpy_fdef, When
    <3>2. S(scan2_cpy_fdef(m)) /\ S(Refuse) /\ S(Mark(env.context, "global")) /\ S(<<>>)
      BY <1>1, <3>1, CalmSteps
    <3>3. S(pre)
      <4>1. (\A p, q : S(p) /\ S(q) => S(p \o q)) /\ (\A c, p : S(p) => S(When(c, p)))
        BY Basics
      <4> HIDE DEF S
      <4> QED  BY <3>2, <4>1
    <3>4. I(Try("scan2_in_types", <<m>>))
      BY Basics
    <3>5. Pair(U, f, w, PushNspc(env.global), Pop)
      BY Pairs
    <3>6. _scan2_func_def(m) = pre \o PushNspc(env.global) \o Try("scan2_in_types", <<m>>) \o Pop
      BY <2>2 DEF _scan2_func_def, When
    <3> HIDE DEF pre
    <3> QED  BY <3>3, <3>4, <3>5, <3>6, Wrapped
  <2> QED  BY <2>1, <2>2
<1> QED  BY <1>3, <1>4, <1>5, <1>6, <1>7

LEMMA Scan2Kinds ==
  ASSUME Here, Sober(U), NEW f, f \notin SemaFns, f \notin Firm, NEW w, IsView(U, f, w), NEW m \in Nodes
  PROVE  /\ N(m).kind = "fptr" => Still(U, f, w, scan2_fptr_def(m))
         /\ Still(U, f, w, scan2_type_def(m)) /\ Still(U, f, w, scan2_union_def(m))
         /\ Still(U, f, w, scan2_parent(m)) /\ Still(U, f, w, scan2_cdef_parent(m))
         /\ Still(U, f, w, scan2_class_body(m)) /\ Still(U, f, w, scan2_ast(m))
<1> DEFINE S(p) == Still(U, f, w, p)
           I(p) == Idle(U, f, w, p)
<1> USE NodeRules, CommonFacts
<1>1. \A p : Fine(U, f, m, "calm", p) => S(p)
  BY Basics
<1>2. (\A p, q : S(p) /\ S(q) => S(p \o q)) /\ S(<<>>)
      /\ (\A p : I(p) => S(p))
  BY Basics
<1>3. I(Try("scan2_parent", <<m>>)) /\ I(Try("scan2", Kids(m, "cdef"))) /\ I(<<>>)
  BY Basics, FieldFacts
<1>4. /\ S(scan2_type_def(m)) /\ S(scan2_union_def(m)) /\ S(scan2_parent(m))
      /\ S(scan2_class_body(m)) /\ S(scan2_ast(m))
  BY <1>1, Scan2Types
<1>5. S(scan2_cdef_parent(m))
  <2>1. Pair(U, f, w, Must("template_push_types", <<m>>), Do("untype", ""))
    BY Pairs
  <2> QED  BY <2>1, <1>2, <1>3, Wrapped DEF scan2_cdef_parent
<1>6. N(m).kind = "fptr" => S(scan2_fptr_def(m))
  <2>0. SUFFICES ASSUME N(m).kind = "fptr" PROVE S(scan2_fptr_def(m))
    OBVIOUS
  <2>1. CASE ~Is(m, "global")
    BY <2>1, <1>1, Scan2Types
  <2>2. CASE Is(m, "global") /\ MarkedAll(Kids(m, "cdef"), "invalid")
    <3>1. S(Fail)
      BY <1>1, CalmSteps
    <3> QED  BY <2>2, <3>1 DEF scan2_fptr_def
  <2>3. CASE Is(m, "global") /\ ~MarkedAll(Kids(m, "cdef"), "invalid")
    <3>1. ~Is(m, "base")
      BY <2>0, <2>3, SoberFacts
    <3>2. S(PushNspc(env.global) \o Try("scan2", Kids(m, "cdef")) \o <<>> \o PopTo0)
      <4>1. w.depth = 0
        BY <2>0, <2>3, LevelFacts DEF IsView
      <4>2. Pair(U, f, w, PushNspc(env.global), PopTo0)
        BY <4>1, Pairs
      <4> QED  BY <4>2, <1>2, <1>3, WrappedTwo
    <3>3. scan2_fptr_def(m) = PushNspc(env.global) \o Try("scan2", Kids(m, "cdef")) \o <<>> \o PopTo0
      BY <2>3, <3>1 DEF scan2_fptr_def, When
    <3> QED  BY <3>2, <3>3
  <2> QED  BY <2>1, <2>2, <2>3
<1> QED  BY <1>4, <1>5, <1>6

LEMMA Scan2Returns ==
  ASSUME Here, Sober(U), NEW w, IsView(U, "scan2", w), NEW m \in Nodes
  PROVE  Still(U, "scan2", w, scan2(m))
<1> DEFINE S(p) == Still(U, "scan2", w, p)
           I(p) == Idle(U, "scan2", w, p)
<1> USE NodeRules, CommonFacts
<1>0. "scan2" \notin SemaFns /\ "scan2" \notin Firm
  BY DEF SemaFns, Firm
<1>1. (\A p, q : S(p) /\ S(q) => S(p \o q)) /\ (\A c, p : S(p) => S(When(c, p))) /\ S(<<>>)
      /\ (\A p : I(p) => S(p))
  BY <1>0, Basics
<1>2. S(Try("scan2_stmt_list", <<m>>)) /\ S(Mark(m, "scan2")) /\ S(Must("scan2_cdef_parent", <<m>>))
      /\ I(Try("scan2_class_body", <<m>>))
  BY <1>0, Basics, SpecialCalls, CalmSteps
<1>3. S(PushType(m) \o When(Template(m), Loose("template_push_types", <<m>>)) \o Try("scan2_class_body", <<m>>)
          \o When(Template(m), Do("untype", "")) \o Pop)
  BY <1>0, <1>2, InClass
<1>4. S(In("scan2_in", m))
  BY <1>0, ScopesReturn
<1>5. S(scan2_exp(m)) /\ S(scan2_stmt(m)) /\ (N(m).kind = "func" => S(scan2_func_def(m)))
  BY <1>0, Scan2Walks, Scan2Defs
<1>6. (N(m).kind = "fptr" => S(scan2_fptr_def(m))) /\ S(scan2_type_def(m)) /\ S(scan2_union_def(m))
  BY <1>0, Scan2Kinds
<1>7. N(m).kind = "func" => scan2(m) = scan2_func_def(m)
  BY DEF scan2, Statements
<1> HIDE DEF S, I
<1>8. S(scan2_class_def(m))
  BY <1>1, <1>2, <1>3 DEF scan2_class_def
<1>9. N(m).kind # "func" => S(scan2(m))
  BY <1>1, <1>2, <1>4, <1>5, <1>6, <1>8 DEF scan2
<1>10. S(scan2(m))
  BY <1>5, <1>7, <1>9
<1> QED  BY <1>10 DEF S

-----------------------------------------------------------------------------
(* The pass that gives types ends where it began.                          *)

LEMMA CheckWalks ==
  ASSUME Here, NEW f, f \notin SemaFns, f \notin Firm, NEW w, IsView(U, f, w), NEW m \in Nodes
  PROVE  /\ N(m).kind = "decl" => Still(U, f, w, check_decl(m))
         /\ Still(U, f, w, partial_type(m)) /\ Still(U, f, w, check_lambda_call(m))
         /\ Still(U, f, w, check_cond(m)) /\ Still(U, f, w, check_exp(m))
<1> DEFINE S(p) == Still(U, f, w, p)
           I(p) == Idle(U, f, w, p)
<1> USE NodeRules, CommonFacts
<1>1. \A p : (Fine(U, f, m, "calm", p) => S(p)) /\ (Fine(U, f, m, "easy", p) => I(p))
  BY Basics
<1>2. (\A p, q : S(p) /\ S(q) => S(p \o q)) /\ (\A c, p : S(p) => S(When(c, p))) /\ S(<<>>)
      /\ (\A p : I(p) => S(p))
  BY Basics
<1>3. \A g \in Common(f) : \A ns \in Seq(Nodes) : I(Try(g, ns))
  BY Basics
<1>4. \A p : I(p) => I(Values(p))
  BY Rules
<1>5. /\ N(m).kind = "decl" => S(check_decl(m))
      /\ S(check_lambda_call(m)) /\ S(check_cond(m))
  BY <1>1, CheckPrimaries
<1>6. S(partial_type(m))
  <2>1. S(check_on(m, <<"args">>)) /\ S(Claim("one function"))
    BY <1>1, CheckOn, FieldFacts, CalmSteps
  <2>2. S(Values(Try("traverse", Kids(m, "def"))))
    BY <1>2, <1>3, <1>4, FieldFacts
  <2> HIDE DEF S, I
  <2> QED  BY <2>1, <2>2, <1>2 DEF partial_type
<1>7. S(opck_spork(m))
  <2>1. S(Test("captures")) /\ S(Check)
    BY <1>1, CalmSteps
  <2>2. I(Values(Try("check_stmt_list", <<m>>)))
    BY <1>3, <1>4
  <2>3. Pair(U, f, w, Set("func", "in spork"), Back("func"))
    BY Pairs
  <2>4. S(Test("captures") \o Set("func", "in spork") \o Values(Try("check_stmt_list", <<m>>)) \o Back("func"))
    BY <2>1, <2>2, <2>3, Wrapped
  <2> HIDE DEF S, I
  <2> QED  BY <2>1, <2>4, <1>2 DEF opck_spork
<1>8. N(m).kind = "decl" /\ Is(m, "global") => S(check_exp_decl(m))
  <2>0. SUFFICES ASSUME N(m).kind = "decl", Is(m, "global") PROVE S(check_exp_decl(m))
    OBVIOUS
  <2> DEFINE td == Kids(m, "td")[1]
             a == check_on(td, <<"array">>) \o check_on(m, <<"new">>)
                    \o When(Is(m, "auto"), Poison("scan1", <<m>>) \o Check \o Poison("scan2", <<m>>) \o Check)
                    \o Claim("type of a variable") \o Must("ensure_check", Resolved(td)) \o Claim("can be inferred")
  <2>1. td \in Nodes
    BY <2>0, CompleteFact, FieldFacts
  <2>2. check_exp_decl(m) = a \o When(Is(m, "global"), PushNspc(env.global))
                              \o Try("check_decl", <<m>>) \o When(Is(m, "global"), Pop)
    BY DEF check_exp_decl
  <2>3. S(a)
    <3>1. Fine(U, f, m, "calm", check_on(td, <<"array">>)) /\ Fine(U, f, m, "calm", check_on(m, <<"new">>))
      BY <2>1, CheckOn, FieldFacts
    <3>2. Fine(U, f, m, "calm", Must("ensure_check", Resolved(td)))
      BY <2>1, ResolvedRule, CalmCalls
    <3>3. Fine(U, f, m, "calm", Poison("scan1", <<m>>)) /\ Fine(U, f, m, "calm", Poison("scan2", <<m>>))
      BY CalmCalls
    <3>4. Fine(U, f, m, "calm", When(Is(m, "auto"), Poison("scan1", <<m>>) \o Check \o Poison("scan2", <<m>>) \o Check))
      BY <3>3, CalmSteps DEF When
    <3> HIDE DEF td
    <3>5. Fine(U, f, m, "calm", a)
      BY <3>1, <3>2, <3>4, CalmSteps
    <3> QED  BY <3>5, <1>1
  <2>4. I(Try("check_decl", <<m>>))
    <3>1. CallOk(U, f, m, "check_decl", m)
      BY <2>0 DEF CallOk, Prepare, Prepared, OfTypes, OfInstances, OfParents, OfDecls, OfTemplates, OfFunctions, Special, Outer, Names, Nodes, N, U
    <3> QED  BY <3>1, <1>1, OwnCalls
  <2>5. Pair(U, f, w, PushNspc(env.global), Pop)
    BY Pairs
  <2> HIDE DEF a
  <2>6. S(a \o When(Is(m, "global"), PushNspc(env.global)) \o Try("check_decl", <<m>>) \o When(Is(m, "global"), Pop))
    BY <2>3, <2>4, <2>5, Wrapped
  <2> QED  BY <2>2, <2>6
<1>9. S(check_exp(m))
  <2>1. CASE N(m).kind # "spork" /\ ~(N(m).kind = "decl" /\ Is(m, "global"))
    BY <2>1, <1>1, CheckExpressions
  <2>2. CASE N(m).kind = "decl" /\ Is(m, "global")
    <3>1. check_exp(m) = check_exp_decl(m)
      BY <2>2 DEF check_exp
    <3> QED  BY <2>2, <3>1, <1>8
  <2>3. CASE N(m).kind = "spork"
    <3>1. check_exp(m) = opck_spork(m)
      BY <2>3 DEF check_exp, check_exp_unary
    <3> QED  BY <3>1, <1>7
  <2> QED  BY <2>1, <2>2, <2>3
<1> QED  BY <1>5, <1>6, <1>9

LEMMA CheckFlow ==
  ASSUME Here, NEW f, f \notin SemaFns, f \notin Firm, NEW w, IsView(U, f, w), NEW m \in Nodes
  PROVE  /\ Still(U, f, w, check_breaks(m)) /\ Still(U, f, w, check_match(m)) /\ Still(U, f, w, match_case(m))
         /\ Still(U, f, w, check_handlers(m)) /\ Still(U, f, w, check_stmt_list(m))
         /\ Still(U, f, w, check_in(m)) /\ Still(U, f, w, check_stmt(m))
<1> DEFINE S(p) == Still(U, f, w, p)
           I(p) == Idle(U, f, w, p)
<1> USE NodeRules, CommonFacts
<1>1. \A p : (Fine(U, f, m, "calm", p) => S(p)) /\ (Fine(U, f, m, "easy", p) => I(p))
  BY Basics
<1>2. (\A p, q : S(p) /\ S(q) => S(p \o q)) /\ (\A c, p : S(p) => S(When(c, p))) /\ S(<<>>)
      /\ (\A p : I(p) => S(p))
  BY Basics
<1>3. \A g \in Common(f) : \A ns \in Seq(Nodes) : I(Try(g, ns)) /\ S(Must(g, ns))
  BY Basics
<1>4. (\A p : I(p) => I(Scoped(p))) /\ \A k \in Int : I(Add("conts", k))
  BY Rules
<1>5. S(check_match(m)) /\ S(match_case(m)) /\ S(check_stmt_list(m))
  BY <1>1, CheckLoops
<1>6. S(check_breaks(m))
  <2>1. I(Scoped(Try("check", Kids(m, "body"))))
    BY <1>3, <1>4, FieldFacts
  <2>2. I(Add("breaks", 1) \o Scoped(Try("check", Kids(m, "body"))) \o Add("breaks", -1))
    BY <2>1, Counted
  <2> HIDE DEF S, I
  <2> QED  BY <2>2, <1>2 DEF check_breaks
<1>7. S(check_handlers(m))
  <2>1. I(Try("check", Kids(m, "handlers"))) /\ I(IfFailed(Noise))
    BY <1>1, <1>3, FieldFacts, EasySteps
  <2>2. Pair(U, f, w, Set("in_try", TRUE), Back("in_try"))
    BY Pairs
  <2>3. S(Set("in_try", TRUE) \o Try("check", Kids(m, "handlers")) \o IfFailed(Noise) \o Back("in_try"))
    BY <2>1, <2>2, <1>2, WrappedTwo
  <2> QED  BY <2>3 DEF check_handlers
<1>8. S(check_conts(m))
  <2>1. I(Add("conts", 1)) /\ I(Add("conts", -1)) /\ S(Must("check_breaks", <<m>>))
    <3>1. 1 \in Int /\ -1 \in Int
      OBVIOUS
    <3> HIDE DEF S, I
    <3> QED  BY <3>1, <1>3, <1>4
  <2> HIDE DEF S, I
  <2> QED  BY <2>1, <1>2 DEF check_conts
<1>9. S(In("check_in", m)) /\ S(In("check_match", m))
  BY ScopesReturn
<1>10. S(check_in(m))
  <2>1. /\ S(flow(m, "cond")) /\ S(op_check(m)) /\ S(check_on(m, <<"exp">>)) /\ S(check_on(m, <<"step">>))
        /\ S(check_on(m, <<"cond">>)) /\ S(Claim("repeats an integer"))
    BY <1>1, CheckParts, CheckOn, FieldFacts, CalmSteps
  <2>2. /\ S(Must("check", Kids(m, "init"))) /\ S(Must("check", Kids(m, "test"))) /\ S(Must("check", Kids(m, "body")))
        /\ S(Must("check", Kids(m, "else_body"))) /\ S(Must("check", Kids(m, "where")))
        /\ S(Must("check_stmt_list", <<m>>)) /\ S(Must("match_case", <<m>>))
    BY <1>3, FieldFacts
  <2> HIDE DEF S, I
  <2> QED  BY <2>1, <2>2, <1>2, <1>8, <1>9 DEF check_in
<1>11. S(check_stmt_try(m))
  <2>1. I(In("check_in", m))
    BY <1>3, <1>4 DEF In
  <2>2. Pair(U, f, w, Add("effects", 1), Add("effects", -1))
    BY Pairs
  <2>3. S(Must("check_handlers", <<m>>))
    BY <1>3
  <2>4. S(Must("check_handlers", <<m>>) \o Add("effects", 1) \o In("check_in", m) \o Add("effects", -1))
    BY <2>1, <2>2, <2>3, Wrapped
  <2> QED  BY <2>4 DEF check_stmt_try
<1>12. S(check_stmt(m))
  <2>1. N(m).kind \in {"exp", "return", "break", "continue", "defer", "using", "pp", "retry", "spread", "import"} => S(check_stmt(m))
    BY <1>1, CheckStatements
  <2>2. N(m).kind = "try" => check_stmt(m) = check_stmt_try(m)
    BY DEF check_stmt
  <2>3. N(m).kind \notin {"try", "exp", "return", "break", "continue", "defer", "using", "pp", "retry", "spread", "import"}
          => check_stmt(m) = In("check_in", m)
    BY DEF check_stmt
  <2> HIDE DEF S, I
  <2> QED  BY <2>1, <2>2, <2>3, <1>9, <1>11
<1> QED  BY <1>5, <1>6, <1>7, <1>10, <1>12

-----------------------------------------------------------------------------
(* Instances of template functions, functions, and types with types.       *)

LEMMA CheckInstances ==
  ASSUME Here, NEW f, f \notin SemaFns, f \notin Firm, NEW w, IsView(U, f, w), NEW m \in Nodes
  PROVE  /\ Still(U, f, w, check_traverse_fdef(m)) /\ Still(U, f, w, tmpl_valid(m)) /\ Still(U, f, w, ensure_tmpl(m))
         /\ Has(m, "instance") => Still(U, f, w, find_tmpl(m)) /\ Still(U, f, w, find_template_match(m))
<1> DEFINE S(p) == Still(U, f, w, p)
           I(p) == Idle(U, f, w, p)
<1> USE NodeRules, CommonFacts
<1>1. \A p : (Fine(U, f, m, "calm", p) => S(p)) /\ (Fine(U, f, m, "easy", p) => I(p))
  BY Basics
<1>2. (\A p, q : S(p) /\ S(q) => S(p \o q)) /\ S(<<>>) /\ (\A p : I(p) => S(p))
  BY Basics
<1>3. \A g \in Common(f) : \A ns \in Seq(Nodes) : I(Try(g, ns)) /\ S(Must(g, ns))
  BY Basics
<1>4. S(check_traverse_fdef(m))
  <2>1. I(Try("traverse", <<m>>))
    BY <1>3
  <2>2. Pair(U, f, w, Set("depth", 0), Back("depth"))
    BY Pairs
  <2> QED  BY <2>1, <2>2, <1>2, Wrapped DEF check_traverse_fdef
<1>5. S(tmpl_valid(m))
  BY <1>1, CheckTemplates
<1>6. S(ensure_tmpl(m))
  <2>1. I(Shrug("matching function"))
    BY <1>1, EasySteps
  <2>2. Pair(U, f, w, Must("template_push_types", <<m>>), Do("untype", ""))
    BY Pairs
  <2>3. S(Must("tmpl_valid", <<m>>))
    BY <1>3
  <2>4. S(Must("tmpl_valid", <<m>>) \o Must("template_push_types", <<m>>) \o Shrug("matching function") \o Do("untype", ""))
    BY <2>1, <2>2, <2>3, Wrapped
  <2> QED  BY <2>4 DEF ensure_tmpl
<1>7. ASSUME Has(m, "instance") PROVE S(find_tmpl(m))
  <2> DEFINE g == Kids(m, "instance")[1]
             o == Kids(g, "owners")
             tmpl == o # <<>> /\ Template(o[1])
             mid == IF env.func = g THEN Shrug("matching function") ELSE Try("ensure_tmpl", <<g>>)
             in == IF o = <<>> THEN PushNspc(N(g).in) ELSE PushType(o[1])
             on == When(tmpl, Loose("template_push_types", <<o[1]>>))
             off == When(tmpl, Do("untype", ""))
             L(p, x, y) == Leads(U, f, w, p, x, y)
  <2>1. find_tmpl(m) = envset_pushv(g) \o in \o on \o mid \o off \o Pop \o envset_popv(g) \o Back("func")
    BY DEF find_tmpl
  <2>2. g \in Nodes
    BY <1>7, FieldFacts
  <2>3. IsSeq(Kids(g, "owners"))
    BY <2>2, KidsFact, FieldFacts
  <2>4. I(mid)
    <3>1. I(Shrug("matching function")) /\ I(Try("ensure_tmpl", <<g>>))
      BY <1>1, <1>3, <2>2, EasySteps
    <3> HIDE DEF g, I
    <3> QED  BY <3>1
  <2> HIDE DEF g, mid
  <2>5. PICK y : /\ IsView(U, f, y) /\ L(envset_pushv(g), w, y) /\ L(envset_popv(g), Deep(y, w.depth), w)
    BY <2>3, EnvsetAround
  <2>6. \E z : IsView(U, f, z) /\ L(in, y, z) /\ L(Pop, z, Deep(y, w.depth))
    <3>1. \A c, n : IsView(U, f, Pushed(y, c, n)) /\ L(Pop, Pushed(y, c, n), Deep(y, w.depth))
      BY <2>5, Views, PopSteps
    <3>2. \A n : L(PushType(n), y, Pushed(y, n, n)) /\ L(PushNspc(n), y, Pushed(y, "", n))
      BY <2>5, PushSteps
    <3> HIDE DEF o, L
    <3>3. CASE o = <<>>
      BY <3>1, <3>2, <3>3
    <3>4. CASE o # <<>>
      BY <3>1, <3>2, <3>4
    <3> QED  BY <3>3, <3>4
  <2>7. PICK z : IsView(U, f, z) /\ L(in, y, z) /\ L(Pop, z, Deep(y, w.depth))
    BY <2>6
  <2>8. L(on \o mid \o off, z, z)
    <3> HIDE DEF o, tmpl
    <3> QED  BY <2>4, <2>7, AroundTypes
  <2>9. \A p, q, a, b, c : L(p, a, b) /\ L(q, b, c) => L(p \o q, a, c)
    BY LeadsCat
  <2>10. L(Back("func"), w, w)
    BY FieldSteps
  <2>11. IsSeq(envset_pushv(g) \o in) /\ IsSeq(on) /\ IsSeq(mid) /\ IsSeq(off) /\ IsSeq(on \o mid)
    <3>1. L(envset_pushv(g) \o in, w, z)
      <4> HIDE DEF L, in
      <4> QED  BY <2>5, <2>7, <2>9
    <3>2. IsSeq(Loose("template_push_types", <<o[1]>>)) /\ IsSeq(Do("untype", ""))
      <4>1. \A n : IsSeq(Loose("template_push_types", <<n>>))
        BY <2>7, TypesCall DEF Leads
      <4>2. IsSeq(Do("untype", ""))
        BY PopSteps, <2>7 DEF Leads
      <4> QED  BY <4>1, <4>2
    <3>3. IsSeq(on) /\ IsSeq(off)
      <4> HIDE DEF tmpl, o
      <4> QED  BY <3>2, SeqNone DEF When
    <3>4. IsSeq(mid)
      BY <2>4, <2>7 DEF Idle, Leads
    <3> HIDE DEF on, off, in
    <3> QED  BY <3>1, <3>3, <3>4, SeqCat DEF Leads
  <2> HIDE DEF L, in, on, off
  <2>12. L((envset_pushv(g) \o in) \o (on \o mid \o off), w, z)
    BY <2>5, <2>7, <2>8, <2>9
  <2>13. envset_pushv(g) \o in \o on \o mid \o off = (envset_pushv(g) \o in) \o (on \o mid \o off)
    <3> DEFINE q == envset_pushv(g) \o in
               r == on \o mid
    <3>0. IsSeq(q) /\ IsSeq(on) /\ IsSeq(mid) /\ IsSeq(off) /\ IsSeq(r)
      BY <2>11
    <3> HIDE DEF q
    <3>1. (q \o on) \o mid = q \o r
      BY <3>0, Associative
    <3> HIDE DEF r
    <3>2. (q \o r) \o off = q \o (r \o off)
      BY <3>0, Associative
    <3> USE DEF q, r
    <3> QED  BY <3>1, <3>2
  <2>14. L(envset_pushv(g) \o in \o on \o mid \o off, w, z)
    BY <2>12, <2>13
  <2>15. L(envset_pushv(g) \o in \o on \o mid \o off \o Pop, w, Deep(y, w.depth))
    BY <2>14, <2>7, <2>9
  <2>16. L(envset_pushv(g) \o in \o on \o mid \o off \o Pop \o envset_popv(g), w, w)
    BY <2>15, <2>5, <2>9
  <2>17. L(find_tmpl(m), w, w)
    BY <2>16, <2>1, <2>9, <2>10
  <2> QED  BY <2>17 DEF L, Still
<1>8. Has(m, "instance") => S(find_template_match(m))
  BY <1>1, CheckTemplates
<1> QED  BY <1>4, <1>5, <1>6, <1>7, <1>8

LEMMA CheckDefs ==
  ASSUME Here, Sober(U), NEW f, f \notin SemaFns, f \notin Firm, NEW w, IsView(U, f, w), NEW m \in Nodes
  PROVE  /\ Still(U, f, w, check_fdef(m)) /\ Still(U, f, w, check_in_types(m))
         /\ N(m).kind = "func" => Still(U, f, w, check_func_def(m))
         /\ N(m).kind = "func" /\ f = "_check_func_def" => Still(U, f, w, _check_func_def(m))
<1> DEFINE S(p) == Still(U, f, w, p)
           I(p) == Idle(U, f, w, p)
<1> USE NodeRules, CommonFacts
<1>1. \A p : (Fine(U, f, m, "calm", p) => S(p)) /\ (Fine(U, f, m, "easy", p) => I(p))
  BY Basics
<1>2. (\A p, q : S(p) /\ S(q) => S(p \o q)) /\ (\A c, p : S(p) => S(When(c, p))) /\ S(<<>>) /\ (\A p : I(p) => S(p))
  BY Basics
<1>3. I(Loose("check_stmt_list", <<m>>)) /\ \A p : I(p) => I(Scoped(p)) /\ I(Values(p))
  BY Basics, Rules
<1>4. S(check_fdef(m))
  <2>1. S(check_fdef_code(m))
    <3> HIDE DEF S, I
    <3> QED  BY <1>2, <1>3 DEF check_fdef_code
  <2>2. /\ S(Doubt("new names")) /\ S(IfFailed(Noise)) /\ S(Check) /\ S(Doubt("constants"))
        /\ S(Claim("no effects in a destructor"))
    BY <1>1, CalmSteps
  <2> HIDE DEF S, I
  <2> QED  BY <1>2, <2>1, <2>2 DEF check_fdef
<1>5. S(check_in_types(m))
  BY ScopesReturn DEF check_in_types
<1>6. N(m).kind = "func" => S(check_func_def(m))
  <2>0. SUFFICES ASSUME N(m).kind = "func" PROVE S(check_func_def(m))
    OBVIOUS
  <2>1. I(Try("_check_func_def", <<m>>)) /\ S(<<>>)
    BY <2>0, <1>1, <1>2, FunctionCalls DEF OfFunctions
  <2> QED  BY <2>1, Pairs, Wrapped DEF check_func_def
<1>7. ASSUME N(m).kind = "func", f = "_check_func_def" PROVE S(_check_func_def(m))
  <2>1. Is(m, "global") => ~Is(m, "new")
    BY <1>7, SoberFacts
  <2>2. I(Try("check_in_types", <<m>>))
    BY <1>1, <1>7, SpecialCalls
  <2> DEFINE vs == Values(Add("effects", 1) \o Try("check_in_types", <<m>>) \o Add("effects", -1))
             g == Is(m, "global")
             body == When(g, PushNspc(env.global)) \o Set("func", m) \o vs \o Back("func")
             fits == When(env.class # "" /\ ~g, Check \o Claim("effects of the override"))
             made == When(Is(m, "new"), Claim("a parent constructor"))
  <2>3. I(vs)
    BY <1>3, <2>2, Counted
  <2>4. /\ S(Blame("signature")) /\ S(Claim("override")) /\ S(Mark(m, "valid")) /\ S(Check)
        /\ S(Claim("effects of the override")) /\ S(Claim("a parent constructor"))
    BY <1>1, CalmSteps
  <2>5. S(check_override(m))
    <3> HIDE DEF S, I
    <3> QED  BY <1>2, <2>4 DEF check_override
  <2>6. ASSUME g PROVE S(body \o fits \o made \o When(g, Pop))
    <3>1. Pair(U, f, w, PushNspc(env.global) \o Set("func", m) \o vs \o Back("func"), Pop)
      BY <2>3, InGlobal
    <3>2. I(<<>>) /\ S(<<>>)
      BY Basics
    <3>3. fits = <<>> /\ made = <<>> /\ When(g, Pop) = Pop
          /\ body = PushNspc(env.global) \o Set("func", m) \o vs \o Back("func")
      BY <2>1, <2>6 DEF When
    <3> HIDE DEF g, fits, made, body, vs
    <3>4. Pair(U, f, w, body, Pop)
      BY <3>1, <3>3
    <3>5. S(body \o <<>> \o <<>> \o Pop)
      BY <3>2, <3>4, WrappedTwo
    <3> QED  BY <3>3, <3>5
  <2>7. ASSUME ~g PROVE S(body \o fits \o made \o When(g, Pop))
    <3>1. S(body)
      <4>1. Pair(U, f, w, Set("func", m), Back("func")) /\ S(<<>>)
        BY Pairs, Basics
      <4>2. body = <<>> \o Set("func", m) \o vs \o Back("func")
        BY <2>7 DEF When
      <4> HIDE DEF body, vs, g
      <4> QED  BY <2>3, <4>1, <4>2, Wrapped
    <3>2. When(g, Pop) = <<>>
      BY <2>7 DEF When
    <3> HIDE DEF S, I, body
    <3>3. S(fits) /\ S(made)
      BY <1>2, <2>4
    <3> HIDE DEF fits, made, g
    <3> QED  BY <1>2, <3>1, <3>2, <3>3
  <2>8. S(body \o fits \o made \o When(g, Pop))
    BY <2>6, <2>7
  <2> HIDE DEF S, I, body, fits, made
  <2>9. S(check_override(m) \o When(~Is(m, "base"), body \o fits \o made \o When(g, Pop)))
    BY <1>2, <2>5, <2>8
  <2> QED  BY <1>2, <2>4, <2>5, <2>8 DEF _check_func_def, body, fits, made
<1> QED  BY <1>4, <1>5, <1>6, <1>7

LEMMA CheckKinds ==
  ASSUME Here, Sober(U), NEW f, f \notin SemaFns, f \notin Firm, NEW w, IsView(U, f, w), NEW m \in Nodes
  PROVE  /\ N(m).kind = "fptr" => Still(U, f, w, check_fptr_def(m))
         /\ Still(U, f, w, check_type_def(m)) /\ Still(U, f, w, check_trait_body(m))
         /\ Has(m, "ext") => Still(U, f, w, check_parent(m)) /\ Still(U, f, w, check_cdef_parent(m))
         /\ Still(U, f, w, check_class_tmpl(m)) /\ Still(U, f, w, check_class_body(m)) /\ Still(U, f, w, check_ast(m))
<1> DEFINE S(p) == Still(U, f, w, p)
           I(p) == Idle(U, f, w, p)
<1> USE NodeRules, CommonFacts
<1>1. \A p : (Fine(U, f, m, "calm", p) => S(p)) /\ (Fine(U, f, m, "easy", p) => I(p))
  BY Basics
<1>2. (\A p, q : S(p) /\ S(q) => S(p \o q)) /\ S(<<>>) /\ (\A p : I(p) => S(p))
  BY Basics
<1>3. I(Try("check", Kids(m, "cdef"))) /\ I(Typed("check", Kids(m, "consts"))) /\ I(<<>>)
  BY Basics, FieldFacts
<1>4. /\ S(check_type_def(m)) /\ S(check_trait_body(m)) /\ S(check_ast(m))
      /\ Has(m, "ext") => S(check_parent(m))
  BY <1>1, CheckTypes
<1>5. S(check_class_body(m))
  BY ScopesReturn DEF check_class_body
<1>6. Has(m, "ext") => S(check_cdef_parent(m))
  <2>0. SUFFICES ASSUME Has(m, "ext") PROVE S(check_cdef_parent(m))
    OBVIOUS
  <2>1. Pair(U, f, w, Must("template_push_types", <<m>>), Do("untype", ""))
    BY Pairs
  <2>2. I(Try("check_parent", <<m>>))
    <3>1. \A k, field : Kids(k, field) = Child(U.tree, k, field)
      BY DEF Kids, Child, N, U
    <3>2. CallOk(U, f, m, "check_parent", m)
      BY <2>0, <3>1 DEF CallOk, Prepare, Prepared, OfTypes, OfInstances, OfParents, OfDecls, OfTemplates, OfFunctions, Special, Outer, Names, Nodes, Has
    <3> QED  BY <3>2, <1>1, OwnCalls
  <2> QED  BY <2>1, <2>2, <1>2, Wrapped DEF check_cdef_parent
<1>7. S(check_class_tmpl(m))
  <2>1. CASE ~Has(m, "consts")
    BY <2>1, <1>2 DEF check_class_tmpl, When
  <2>2. CASE Has(m, "consts")
    <3>1. w.depth = 0
      BY <2>2, LevelFacts DEF IsView
    <3>2. Pair(U, f, w, PushType(m), PopTo0)
      BY <3>1, Pairs
    <3>3. I(IfFailed(Noise))
      BY <1>1, EasySteps
    <3>4. S(PushType(m) \o Typed("check", Kids(m, "consts")) \o IfFailed(Noise) \o PopTo0)
      BY <3>2, <3>3, <1>2, <1>3, WrappedTwo
    <3> QED  BY <2>2, <3>4 DEF check_class_tmpl, When
  <2> QED  BY <2>1, <2>2
<1>8. N(m).kind = "fptr" => S(check_fptr_def(m))
  <2>0. SUFFICES ASSUME N(m).kind = "fptr" PROVE S(check_fptr_def(m))
    OBVIOUS
  <2>1. CASE ~Is(m, "global")
    BY <2>1, <1>1, CheckTypes
  <2>2. CASE Is(m, "global") /\ MarkedAll(Kids(m, "cdef"), "invalid")
    <3>1. S(Fail)
      BY <1>1, CalmSteps
    <3> QED  BY <2>2, <3>1 DEF check_fptr_def
  <2>3. CASE Is(m, "global") /\ ~MarkedAll(Kids(m, "cdef"), "invalid")
    <3>1. w.depth = 0
      BY <2>0, <2>3, LevelFacts DEF IsView
    <3>2. Pair(U, f, w, PushNspc(env.global), PopTo0)
      BY <3>1, Pairs
    <3>3. S(When(Is(m, "global"), PushNspc(env.global)) \o Try("check", Kids(m, "cdef")) \o When(Is(m, "global"), PopTo0))
      BY <3>2, <1>2, <1>3, Wrapped
    <3> QED  BY <2>3, <3>3 DEF check_fptr_def
  <2> QED  BY <2>1, <2>2, <2>3
<1> QED  BY <1>4, <1>5, <1>6, <1>7, <1>8

LEMMA CheckReturns ==
  ASSUME Here, Sober(U), NEW w, IsView(U, "check", w), NEW m \in Nodes
  PROVE  Still(U, "check", w, check(m))
<1> DEFINE S(p) == Still(U, "check", w, p)
           I(p) == Idle(U, "check", w, p)
<1> USE NodeRules, CommonFacts
<1>0. "check" \notin SemaFns /\ "check" \notin Firm
  BY DEF SemaFns, Firm
<1>1. (\A c, p : S(p) => S(When(c, p))) /\ S(<<>>) /\ I(<<>>) /\ (\A p : I(p) => S(p))
      /\ \A p : Fine(U, "check", m, "calm", p) => S(p)
  BY <1>0, Basics
<1>2. S(Try("check_stmt_list", <<m>>)) /\ S(Mark(m, "check")) /\ S(check_extend_def(m)) /\ S(check_class_def(m))
  <2>1. I(Try("check_stmt_list", <<m>>))
    BY <1>0, Basics
  <2>2. S(check_class_def(m))
    BY <1>0, <1>1, CheckTypes
  <2> QED  BY <1>1, <2>1, <2>2, CalmSteps DEF check_extend_def
<1>3. S(PushType(m) \o Pop)
  BY <1>0, <1>1, Pairs, WrappedTwo
<1>4. S(In("check_in", m)) /\ S(In("check_trait_body", m))
  BY <1>0, ScopesReturn
<1>5. S(check_exp(m)) /\ S(check_stmt(m)) /\ (N(m).kind = "func" => S(check_func_def(m)))
  BY <1>0, CheckWalks, CheckFlow, CheckDefs
<1>6. (N(m).kind = "fptr" => S(check_fptr_def(m))) /\ S(check_type_def(m))
  BY <1>0, CheckKinds
<1>7. N(m).kind = "func" => check(m) = check_func_def(m)
  BY DEF check, Statements
<1>8. N(m).kind \in Statements => check(m) = check_stmt(m)
  BY DEF check, Statements
<1> HIDE DEF S, I
<1>9. N(m).kind \notin Statements \cup {"func"} => S(check(m))
  BY <1>1, <1>2, <1>3, <1>4, <1>5, <1>6 DEF check
<1>10. S(check(m))
  BY <1>5, <1>7, <1>8, <1>9
<1> QED  BY <1>10 DEF S

(* What checks a class goes on past what is requested of it, and only      *)
(* there looks whether it has failed.                                      *)
LEMMA ClassReturns ==
  ASSUME Here, Sober(U), NEW w, IsView(U, "_check_class_def", w), NEW m \in Nodes
  PROVE  Still(U, "_check_class_def", w, _check_class_def(m))
<1> DEFINE S(p) == Still(U, "_check_class_def", w, p)
           M(s) == Moves(U, "_check_class_def", w, s, w, w)
<1>1. \A s : M(s) => S(<<s>>)
  BY LeadsStep DEF Still
<1>2. (\A p, q : S(p) /\ S(q) => S(p \o q)) /\ S(<<>>)
  BY IdleRules
<1>3. \A g : g # "template_push_types" => S(Must(g, <<m>>)) /\ S(Loose(g, <<m>>))
  <2> SUFFICES ASSUME NEW g, g # "template_push_types" PROVE S(Must(g, <<m>>)) /\ S(Loose(g, <<m>>))
    OBVIOUS
  <2>1. \A s : s[1] \in {"must", "loose"} /\ s[2] = g => M(s)
    BY DEF Moves, Moved, MayStop, Softens, Called
  <2>2. \A mode : Call(mode, g, <<m>>) = <<<<mode, g, m>>>>
    BY DEF Call
  <2>3. M(<<"must", g, m>>) /\ M(<<"loose", g, m>>)
    <3> HIDE DEF M
    <3> QED  BY <2>1
  <2> HIDE DEF S, M
  <2> QED  BY <2>2, <2>3, <1>1 DEF Must, Loose
<1>4. S(Check) /\ \A c : S(Claim(c))
  <2>1. \A s : s[1] \in {"check", "claim"} => M(s)
    BY DEF Moves, Moved, MayStop, Softens, Called
  <2>2. M(<<"check">>) /\ \A c : M(<<"claim", c>>)
    <3> HIDE DEF M
    <3> QED  BY <2>1
  <2> HIDE DEF S, M
  <2> QED  BY <2>2, <1>1 DEF Check, Claim
<1>5. Has(m, "traits") => S(Doubt("requested traits"))
  <2> SUFFICES ASSUME Has(m, "traits") PROVE S(Doubt("requested traits"))
    OBVIOUS
  <2>1. "requested traits" \in U.sure
    BY SoberFacts
  <2>2. \A s : s[1] = "doubt" /\ s[2] = "requested traits" => M(s)
    BY <2>1 DEF Moves, Moved, MayStop, Softens, Called
  <2>3. M(<<"doubt", "requested traits">>)
    <3> HIDE DEF M
    <3> QED  BY <2>2
  <2> HIDE DEF S, M
  <2> QED  BY <2>3, <1>1 DEF Doubt
<1>6. S(IfFailed(Set("class", m)))
  <2>1. \A s : s[1] = "failed" => M(s)
    BY DEF Moves, Moved, MayStop, Softens, Called, Firm
  <2>2. M(<<"failed", <<"set", "class", m>>>>)
    <3> HIDE DEF M
    <3> QED  BY <2>1
  <2>3. \A t : IfFailed(<<t>>) = << <<"failed", t>> >>
    BY DEF IfFailed
  <2> HIDE DEF S, M
  <2> QED  BY <2>2, <2>3, <1>1 DEF Set
<1> HIDE DEF S, M
<1>7. S(_check_class_def(m))
  BY <1>2, <1>3, <1>4, <1>5, <1>6 DEF _check_class_def, check_abstract, check_trait_requests, recursive_type, When
<1> QED  BY <1>7 DEF S

-----------------------------------------------------------------------------
(* The passes, and what puts them together.                                *)

LEMMA PassesReturn ==
  ASSUME Here, NEW f, f \notin SemaFns, f \notin Firm, NEW w, IsView(U, f, w), NEW m \in Nodes
  PROVE  /\ Still(U, f, w, traverse(m)) /\ \A g \in {"scan1", "scan2", "check"} : Still(U, f, w, once(m, g))
         /\ Still(U, f, w, sema_pass(m)) /\ Still(U, f, w, sema_variadic(m)) /\ Still(U, f, w, sema_verdict(m))
         /\ Still(U, f, w, validate(m)) /\ Still(U, f, w, ast_validation(m))
         /\ Still(U, f, w, _passes(m)) /\ Still(U, f, w, typecheck_ast(m)) /\ Still(U, f, w, emit_ast(m))
<1> DEFINE S(p) == Still(U, f, w, p)
           I(p) == Idle(U, f, w, p)
<1> USE NodeRules, CommonFacts
<1>1. \A p : Fine(U, f, m, "calm", p) => S(p)
  BY Basics
<1>2. (\A p, q : S(p) /\ S(q) => S(p \o q)) /\ (\A c, p : S(p) => S(When(c, p))) /\ (\A p : I(p) => S(p))
  BY Basics
<1>3. \A g \in Common(f) : \A ns \in Seq(Nodes) : S(Must(g, ns)) /\ I(Try(g, ns)) /\ I(Loose(g, ns))
  BY Basics
<1>4. S(traverse(m))
  <2>1. CASE Expression(m)
    BY <2>1, <1>1, Traversal
  <2>2. CASE ~Expression(m)
    <3> DEFINE P == Passes(m)
               ss == [i \in DOMAIN P |-> Must(P[i], <<m>>)]
    <3>1. IsSeq(P) /\ \A i \in DOMAIN P : P[i] \in Common(f)
      BY PassesFact
    <3>2. \A i \in DOMAIN P : Fine(U, f, m, "calm", ss[i])
      BY <3>1, CalmCalls
    <3>3. DOMAIN ss = DOMAIN P /\ ss = [i \in DOMAIN P |-> ss[i]]
      OBVIOUS
    <3>4. traverse(m) = FlattenSeq(ss) \o Back("func")
      BY <2>2 DEF traverse
    <3> HIDE DEF ss, P
    <3>5. Fine(U, f, m, "calm", FlattenSeq(ss))
      BY <3>1, <3>2, <3>3, SeqMap, FineFlatten
    <3>6. S(FlattenSeq(ss)) /\ S(Back("func"))
      BY <3>5, <1>1, Rules
    <3> HIDE DEF S
    <3> QED  BY <3>4, <3>6, <1>2
  <2> QED  BY <2>1, <2>2
<1>5. \A g \in {"scan1", "scan2", "check"} : S(once(m, g))
  BY <1>2, <1>3 DEF once
<1>6. S(sema_pass(m)) /\ S(sema_variadic(m))
  <2>1. \A v : S(Do("sema", v))
    BY SemaReset
  <2>2. S(Try("sema_ast", <<m>>)) /\ S(Must("sema", <<m>>))
    BY <1>2, <1>3
  <2> HIDE DEF S, I
  <2> QED  BY <2>1, <2>2, <1>2 DEF sema_pass, sema_variadic
<1>7. /\ S(sema_verdict(m)) /\ S(validate(m)) /\ S(ast_validation(m)) /\ S(typecheck_ast(m))
  BY <1>1, FilePlans, Validation
<1>8. S(emit_ast(m))
  <2>1. S(Claim("emitted"))
    BY <1>1, CalmSteps
  <2>2. S(Set("code", m))
    BY <1>2, Rules
  <2> HIDE DEF S, I
  <2> QED  BY <2>1, <2>2, <1>2 DEF emit_ast
<1>9. S(_passes(m))
  <2>1. /\ S(Try("sema_verdict", <<m>>)) /\ S(Try("typecheck_ast", <<m>>)) /\ S(Check) /\ S(Loose("emit_ast", <<m>>))
    BY <1>1, <1>2, <1>3, CalmSteps
  <2> HIDE DEF S, I
  <2> QED  BY <2>1, <1>2 DEF _passes
<1> QED  BY <1>4, <1>5, <1>6, <1>7, <1>8, <1>9

-----------------------------------------------------------------------------
(* So each function leads back to where it is called, or stops there;      *)
(* template_push_types leaves a scope of types.                            *)

Out(f, w) == IF f = "template_push_types" THEN Typing(w) ELSE w
Home(f) ==
  \A m \in Nodes : \A w :
    Prepare(U.tree, f, m) /\ IsView(U, f, w) /\ w = View(U, env) => Led(U, f, w, Plan(f, m), w, Out(f, w))

LEMMA StillHome ==
  ASSUME NEW f, f # "template_push_types",
         \A m \in Nodes : \A w : Prepare(U.tree, f, m) /\ IsView(U, f, w) => Still(U, f, w, Plan(f, m))
  PROVE  Home(f)
BY DEF Home, Led, Still, Out

LEMMA HomeFiles ==
  ASSUME Here
  PROVE  /\ \A f \in SemaFns : Home(f)
         /\ \A f \in {"traverse", "scan1_once", "scan2_once", "check_once", "sema_pass",
                          "sema_variadic", "sema_verdict", "validate", "ast_validation",
                          "_passes", "typecheck_ast", "emit_ast"} : Home(f)
         /\ \A f \in {"ensure_scan1", "ensure_scan2", "ensure_check", "ensure_traverse"} : Home(f)
<1>1. \A f \in SemaFns : Home(f)
  <2>1. \A f \in SemaFns : f # "template_push_types"
    BY DEF SemaFns
  <2>2. \A f \in SemaFns : \A m \in Nodes : \A w : IsView(U, f, w) => Still(U, f, w, Plan(f, m))
    <3> SUFFICES ASSUME NEW f \in SemaFns, NEW m \in Nodes, NEW w, IsView(U, f, w) PROVE Still(U, f, w, Plan(f, m))
      OBVIOUS
    <3>1. /\ Still(U, f, w, sema(m)) /\ Still(U, f, w, sema_stmt_list(m))
          /\ Still(U, f, w, sema_ast(m)) /\ Still(U, f, w, sema_func_base(m))
          /\ Still(U, f, w, array_not_empty(m)) /\ Still(U, f, w, sema_new_td(m))
      BY SemaReturns
    <3> QED  BY <3>1, PlanNames1 DEF SemaFns
  <2> QED  BY <2>1, <2>2, StillHome
<1>2. \A f \in {"traverse", "scan1_once", "scan2_once", "check_once", "sema_pass",
                         "sema_variadic", "sema_verdict", "validate", "ast_validation",
                         "_passes", "typecheck_ast", "emit_ast"} : Home(f)
  <2> DEFINE F == {"traverse", "scan1_once", "scan2_once", "check_once", "sema_pass",
                  "sema_variadic", "sema_verdict", "validate", "ast_validation", "_passes",
                  "typecheck_ast", "emit_ast"}
  <2>1. \A f \in F : f \notin SemaFns /\ f \notin Firm /\ f # "template_push_types"
    BY DEF SemaFns, Firm
  <2>2. ASSUME NEW f, f \notin SemaFns, f \notin Firm, NEW m \in Nodes, NEW w, IsView(U, f, w)
        PROVE  /\ Still(U, f, w, traverse(m)) /\ Still(U, f, w, once(m, "scan1"))
               /\ Still(U, f, w, once(m, "scan2")) /\ Still(U, f, w, once(m, "check"))
               /\ Still(U, f, w, sema_pass(m)) /\ Still(U, f, w, sema_variadic(m))
               /\ Still(U, f, w, sema_verdict(m)) /\ Still(U, f, w, validate(m))
               /\ Still(U, f, w, ast_validation(m)) /\ Still(U, f, w, _passes(m))
               /\ Still(U, f, w, typecheck_ast(m)) /\ Still(U, f, w, emit_ast(m))
    BY <2>2, PassesReturn
  <2>3. \A f \in F : \A m \in Nodes : \A w : IsView(U, f, w) => Still(U, f, w, Plan(f, m))
    <3> SUFFICES ASSUME NEW f \in F, NEW m \in Nodes, NEW w, IsView(U, f, w) PROVE Still(U, f, w, Plan(f, m))
      OBVIOUS
    <3>1. f \notin SemaFns /\ f \notin Firm
      BY <2>1
    <3>2. /\ Still(U, f, w, traverse(m)) /\ Still(U, f, w, once(m, "scan1"))
          /\ Still(U, f, w, once(m, "scan2")) /\ Still(U, f, w, once(m, "check"))
          /\ Still(U, f, w, sema_pass(m)) /\ Still(U, f, w, sema_variadic(m))
          /\ Still(U, f, w, sema_verdict(m)) /\ Still(U, f, w, validate(m))
          /\ Still(U, f, w, ast_validation(m)) /\ Still(U, f, w, _passes(m))
          /\ Still(U, f, w, typecheck_ast(m)) /\ Still(U, f, w, emit_ast(m))
      BY <2>2, <3>1
    <3> QED  BY <3>2, PlanNames1, PlanNames4
  <2>4. \A f \in F : Home(f)
    <3> HIDE DEF F
    <3> QED  BY <2>1, <2>3, StillHome
  <2> QED  BY <2>4
<1>3. \A f \in {"ensure_scan1", "ensure_scan2", "ensure_check", "ensure_traverse"} : Home(f)
  <2> DEFINE F == {"ensure_scan1", "ensure_scan2", "ensure_check", "ensure_traverse"}
  <2>1. \A f \in F : f \notin SemaFns /\ f \notin Firm /\ f # "template_push_types"
    BY DEF SemaFns, Firm
  <2>2. ASSUME NEW f, f \notin SemaFns, f \notin Firm, NEW m \in Nodes, NEW w, IsView(U, f, w)
        PROVE  /\ Still(U, f, w, ensure_scan1(m)) /\ Still(U, f, w, ensure_scan2(m))
               /\ Still(U, f, w, ensure_check(m)) /\ Still(U, f, w, ensure_traverse(m))
    BY <2>2, EnvsetReturns
  <2>3. \A f \in F : \A m \in Nodes : \A w : IsView(U, f, w) => Still(U, f, w, Plan(f, m))
    <3> SUFFICES ASSUME NEW f \in F, NEW m \in Nodes, NEW w, IsView(U, f, w) PROVE Still(U, f, w, Plan(f, m))
      OBVIOUS
    <3>1. f \notin SemaFns /\ f \notin Firm
      BY <2>1
    <3>2. /\ Still(U, f, w, ensure_scan1(m)) /\ Still(U, f, w, ensure_scan2(m))
          /\ Still(U, f, w, ensure_check(m)) /\ Still(U, f, w, ensure_traverse(m))
      BY <2>2, <3>1
    <3> QED  BY <3>2, PlanNames1
  <2>4. \A f \in F : Home(f)
    <3> HIDE DEF F
    <3> QED  BY <2>1, <2>3, StillHome
  <2> QED  BY <2>4
<1> QED  BY <1>1, <1>2, <1>3

LEMMA HomeScans ==
  ASSUME Here, Sober(U)
  PROVE  /\ \A f \in {"scan1_in", "scan1_stmt_list", "scan1_decl", "scan1_fbody",
                          "scan1_fdef", "scan1_in_types", "scan1_union_def_inner",
                          "scan1_parent", "scan1_cdef_parent", "scan1_class_def_body",
                          "scan1_body", "scan1_ast"} : Home(f)
         /\ \A f \in {"scan2_in", "scan2_stmt_list", "scan2_func_def_code", "scan2_fdef",
                          "scan2_in_types", "scan2_parent", "scan2_cdef_parent",
                          "scan2_class_body", "scan2_ast"} : Home(f)
         /\ Home("scan1") /\ Home("scan2")
<1>1. \A f \in {"scan1_in", "scan1_stmt_list", "scan1_decl", "scan1_fbody",
                         "scan1_fdef", "scan1_in_types", "scan1_union_def_inner",
                         "scan1_parent", "scan1_cdef_parent", "scan1_class_def_body",
                         "scan1_body", "scan1_ast"} : Home(f)
  <2> DEFINE F == {"scan1_in", "scan1_stmt_list", "scan1_decl", "scan1_fbody", "scan1_fdef",
                  "scan1_in_types", "scan1_union_def_inner", "scan1_parent",
                  "scan1_cdef_parent", "scan1_class_def_body", "scan1_body", "scan1_ast"}
  <2>1. \A f \in F : f \notin SemaFns /\ f \notin Firm /\ f # "template_push_types"
    BY DEF SemaFns, Firm
  <2>2. ASSUME NEW f, f \notin SemaFns, f \notin Firm, NEW m \in Nodes, NEW w, IsView(U, f, w)
        PROVE  /\ Still(U, f, w, scan1_in(m)) /\ Still(U, f, w, scan1_stmt_list(m))
               /\ Still(U, f, w, scan1_decl(m)) /\ Still(U, f, w, scan1_fbody(m))
               /\ Still(U, f, w, scan1_fdef(m)) /\ Still(U, f, w, scan1_in_types(m))
               /\ Still(U, f, w, scan1_union_def_inner(m)) /\ Still(U, f, w, scan1_parent(m))
               /\ Still(U, f, w, scan1_cdef_parent(m)) /\ Still(U, f, w, scan1_class_def_body(m))
               /\ Still(U, f, w, scanx_body(m, "scan1")) /\ Still(U, f, w, scan1_ast(m))
    BY <2>2, Scan1Walks, Scan1Defs, Scan1Kinds
  <2>3. \A f \in F : \A m \in Nodes : \A w : IsView(U, f, w) => Still(U, f, w, Plan(f, m))
    <3> SUFFICES ASSUME NEW f \in F, NEW m \in Nodes, NEW w, IsView(U, f, w) PROVE Still(U, f, w, Plan(f, m))
      OBVIOUS
    <3>1. f \notin SemaFns /\ f \notin Firm
      BY <2>1
    <3>2. /\ Still(U, f, w, scan1_in(m)) /\ Still(U, f, w, scan1_stmt_list(m))
          /\ Still(U, f, w, scan1_decl(m)) /\ Still(U, f, w, scan1_fbody(m))
          /\ Still(U, f, w, scan1_fdef(m)) /\ Still(U, f, w, scan1_in_types(m))
          /\ Still(U, f, w, scan1_union_def_inner(m)) /\ Still(U, f, w, scan1_parent(m))
          /\ Still(U, f, w, scan1_cdef_parent(m)) /\ Still(U, f, w, scan1_class_def_body(m))
          /\ Still(U, f, w, scanx_body(m, "scan1")) /\ Still(U, f, w, scan1_ast(m))
      BY <2>2, <3>1
    <3> QED  BY <3>2, PlanNames2
  <2>4. \A f \in F : Home(f)
    <3> HIDE DEF F
    <3> QED  BY <2>1, <2>3, StillHome
  <2> QED  BY <2>4
<1>2. \A f \in {"scan2_in", "scan2_stmt_list", "scan2_func_def_code", "scan2_fdef",
                         "scan2_in_types", "scan2_parent", "scan2_cdef_parent",
                         "scan2_class_body", "scan2_ast"} : Home(f)
  <2> DEFINE F == {"scan2_in", "scan2_stmt_list", "scan2_func_def_code", "scan2_fdef",
                  "scan2_in_types", "scan2_parent", "scan2_cdef_parent", "scan2_class_body",
                  "scan2_ast"}
  <2>1. \A f \in F : f \notin SemaFns /\ f \notin Firm /\ f # "template_push_types"
    BY DEF SemaFns, Firm
  <2>2. ASSUME NEW f, f \notin SemaFns, f \notin Firm, NEW m \in Nodes, NEW w, IsView(U, f, w)
        PROVE  /\ Still(U, f, w, scan2_in(m)) /\ Still(U, f, w, scan2_stmt_list(m))
               /\ Still(U, f, w, scan2_func_def_code(m)) /\ Still(U, f, w, scan2_fdef(m))
               /\ Still(U, f, w, scan2_in_types(m)) /\ Still(U, f, w, scan2_parent(m))
               /\ Still(U, f, w, scan2_cdef_parent(m)) /\ Still(U, f, w, scan2_class_body(m))
               /\ Still(U, f, w, scan2_ast(m))
    BY <2>2, Scan2Walks, Scan2Defs, Scan2Kinds
  <2>3. \A f \in F : \A m \in Nodes : \A w : IsView(U, f, w) => Still(U, f, w, Plan(f, m))
    <3> SUFFICES ASSUME NEW f \in F, NEW m \in Nodes, NEW w, IsView(U, f, w) PROVE Still(U, f, w, Plan(f, m))
      OBVIOUS
    <3>1. f \notin SemaFns /\ f \notin Firm
      BY <2>1
    <3>2. /\ Still(U, f, w, scan2_in(m)) /\ Still(U, f, w, scan2_stmt_list(m))
          /\ Still(U, f, w, scan2_func_def_code(m)) /\ Still(U, f, w, scan2_fdef(m))
          /\ Still(U, f, w, scan2_in_types(m)) /\ Still(U, f, w, scan2_parent(m))
          /\ Still(U, f, w, scan2_cdef_parent(m)) /\ Still(U, f, w, scan2_class_body(m))
          /\ Still(U, f, w, scan2_ast(m))
      BY <2>2, <3>1
    <3> QED  BY <3>2, PlanNames2, PlanNames3
  <2>4. \A f \in F : Home(f)
    <3> HIDE DEF F
    <3> QED  BY <2>1, <2>3, StillHome
  <2> QED  BY <2>4
<1>3. Home("scan1") /\ Home("scan2")
  <2>1. \A m \in Nodes : \A w : Prepare(U.tree, "scan1", m) /\ IsView(U, "scan1", w) => Still(U, "scan1", w, Plan("scan1", m))
    BY Scan1Returns, PlanNames2
  <2>2. \A m \in Nodes : \A w : Prepare(U.tree, "scan2", m) /\ IsView(U, "scan2", w) => Still(U, "scan2", w, Plan("scan2", m))
    BY Scan2Returns, PlanNames2
  <2>3. Home("scan1")
    BY <2>1, StillHome
  <2>4. Home("scan2")
    BY <2>2, StillHome
  <2> QED  BY <2>3, <2>4
<1> QED  BY <1>1, <1>2, <1>3

LEMMA HomeChecks ==
  ASSUME Here, Sober(U)
  PROVE  /\ \A f \in {"check_in", "check_cond", "check_stmt_list", "check_lambda_call",
                          "partial_type", "check_traverse_fdef", "tmpl_valid", "ensure_tmpl",
                          "check_breaks", "check_match", "match_case", "check_handlers",
                          "check_fdef", "check_in_types", "check_trait_body",
                          "check_class_tmpl", "check_class_body", "check_ast"} : Home(f)
         /\ Home("check") /\ Home("_check_class_def")
<1>1. \A f \in {"check_in", "check_cond", "check_stmt_list", "check_lambda_call",
                         "partial_type", "check_traverse_fdef", "tmpl_valid", "ensure_tmpl",
                         "check_breaks", "check_match", "match_case", "check_handlers",
                         "check_fdef", "check_in_types", "check_trait_body",
                         "check_class_tmpl", "check_class_body", "check_ast"} : Home(f)
  <2> DEFINE F == {"check_in", "check_cond", "check_stmt_list", "check_lambda_call",
                  "partial_type", "check_traverse_fdef", "tmpl_valid", "ensure_tmpl",
                  "check_breaks", "check_match", "match_case", "check_handlers", "check_fdef",
                  "check_in_types", "check_trait_body", "check_class_tmpl",
                  "check_class_body", "check_ast"}
  <2>1. \A f \in F : f \notin SemaFns /\ f \notin Firm /\ f # "template_push_types"
    BY DEF SemaFns, Firm
  <2>2. ASSUME NEW f, f \notin SemaFns, f \notin Firm, NEW m \in Nodes, NEW w, IsView(U, f, w)
        PROVE  /\ Still(U, f, w, check_in(m)) /\ Still(U, f, w, check_cond(m))
               /\ Still(U, f, w, check_stmt_list(m)) /\ Still(U, f, w, check_lambda_call(m))
               /\ Still(U, f, w, partial_type(m)) /\ Still(U, f, w, check_traverse_fdef(m))
               /\ Still(U, f, w, tmpl_valid(m)) /\ Still(U, f, w, ensure_tmpl(m))
               /\ Still(U, f, w, check_breaks(m)) /\ Still(U, f, w, check_match(m))
               /\ Still(U, f, w, match_case(m)) /\ Still(U, f, w, check_handlers(m))
               /\ Still(U, f, w, check_fdef(m)) /\ Still(U, f, w, check_in_types(m))
               /\ Still(U, f, w, check_trait_body(m)) /\ Still(U, f, w, check_class_tmpl(m))
               /\ Still(U, f, w, check_class_body(m)) /\ Still(U, f, w, check_ast(m))
    BY <2>2, CheckWalks, CheckFlow, CheckInstances, CheckDefs, CheckKinds
  <2>3. \A f \in F : \A m \in Nodes : \A w : IsView(U, f, w) => Still(U, f, w, Plan(f, m))
    <3> SUFFICES ASSUME NEW f \in F, NEW m \in Nodes, NEW w, IsView(U, f, w) PROVE Still(U, f, w, Plan(f, m))
      OBVIOUS
    <3>1. f \notin SemaFns /\ f \notin Firm
      BY <2>1
    <3>2. /\ Still(U, f, w, check_in(m)) /\ Still(U, f, w, check_cond(m))
          /\ Still(U, f, w, check_stmt_list(m)) /\ Still(U, f, w, check_lambda_call(m))
          /\ Still(U, f, w, partial_type(m)) /\ Still(U, f, w, check_traverse_fdef(m))
          /\ Still(U, f, w, tmpl_valid(m)) /\ Still(U, f, w, ensure_tmpl(m))
          /\ Still(U, f, w, check_breaks(m)) /\ Still(U, f, w, check_match(m))
          /\ Still(U, f, w, match_case(m)) /\ Still(U, f, w, check_handlers(m))
          /\ Still(U, f, w, check_fdef(m)) /\ Still(U, f, w, check_in_types(m))
          /\ Still(U, f, w, check_trait_body(m)) /\ Still(U, f, w, check_class_tmpl(m))
          /\ Still(U, f, w, check_class_body(m)) /\ Still(U, f, w, check_ast(m))
      BY <2>2, <3>1
    <3> QED  BY <3>2, PlanNames3, PlanNames4
  <2>4. \A f \in F : Home(f)
    <3> HIDE DEF F
    <3> QED  BY <2>1, <2>3, StillHome
  <2> QED  BY <2>4
<1>2. Home("check") /\ Home("_check_class_def")
  <2>1. \A m \in Nodes : \A w : Prepare(U.tree, "check", m) /\ IsView(U, "check", w) => Still(U, "check", w, Plan("check", m))
    BY CheckReturns, PlanNames3, PlanNames4
  <2>2. \A m \in Nodes : \A w : Prepare(U.tree, "_check_class_def", m) /\ IsView(U, "_check_class_def", w) => Still(U, "_check_class_def", w, Plan("_check_class_def", m))
    BY ClassReturns, PlanNames3, PlanNames4
  <2>3. Home("check")
    BY <2>1, StillHome
  <2>4. Home("_check_class_def")
    BY <2>2, StillHome
  <2> QED  BY <2>3, <2>4
<1> QED  BY <1>1, <1>2

LEMMA HomeTypes ==
  ASSUME Here, Sober(U)
  PROVE  /\ \A f \in OfTypes \cup OfInstances \cup OfParents : Home(f)
         /\ \A f \in OfDecls \cup OfTemplates \cup OfFunctions : Home(f)
<1>1. \A f \in Prepared : f \notin SemaFns /\ f \notin Firm /\ f # "template_push_types"
  BY DEF Prepared, SemaFns, OfTypes, OfInstances, OfParents, OfDecls, OfTemplates, OfFunctions, Firm
<1> DEFINE Ends(f) == \A m \in Nodes : \A w : Prepare(U.tree, f, m) /\ IsView(U, f, w) => Still(U, f, w, Plan(f, m))
<1>2. \A f \in OfTypes : Ends(f)
  <2> SUFFICES ASSUME NEW f \in OfTypes, NEW m \in Nodes, NEW w, Prepare(U.tree, f, m), IsView(U, f, w)
               PROVE  Still(U, f, w, Plan(f, m))
    OBVIOUS
  <2>1. N(m).kind = "type" /\ f \notin SemaFns /\ f \notin Firm
    BY <1>1, PrepareFacts DEF Prepared
  <2>2. /\ Still(U, f, w, known_type(m)) /\ Still(U, f, w, resolve(m)) /\ Still(U, f, w, scan1_type(m))
        /\ Has(m, "instance") => Still(U, f, w, scan_class(m))
    BY <2>1, TypesReturn, Scan1Walks
  <2>3. (f = "scan_class" => Has(m, "instance")) /\ f # "scan_next"
    BY PrepareFacts, SoberFacts
  <2> QED  BY <2>2, <2>3, PlanNames1, PlanNames2 DEF OfTypes
<1>3. \A f \in OfInstances : Ends(f)
  <2> SUFFICES ASSUME NEW f \in OfInstances, NEW m \in Nodes, NEW w, Prepare(U.tree, f, m), IsView(U, f, w)
               PROVE  Still(U, f, w, Plan(f, m))
    OBVIOUS
  <2>1. Has(m, "instance") /\ f \notin SemaFns /\ f \notin Firm
    BY <1>1, PrepareFacts DEF Prepared
  <2>2. Still(U, f, w, find_tmpl(m)) /\ Still(U, f, w, find_template_match(m))
    BY <2>1, CheckInstances
  <2> QED  BY <2>2, PlanNames3 DEF OfInstances
<1>4. \A f \in OfParents : Ends(f)
  <2> SUFFICES ASSUME NEW f \in OfParents, NEW m \in Nodes, NEW w, Prepare(U.tree, f, m), IsView(U, f, w)
               PROVE  Still(U, f, w, Plan(f, m))
    OBVIOUS
  <2>1. Has(m, "ext") /\ f \notin SemaFns /\ f \notin Firm
    BY <1>1, PrepareFacts DEF Prepared
  <2>2. Still(U, f, w, check_parent(m)) /\ Still(U, f, w, check_cdef_parent(m))
    BY <2>1, CheckKinds
  <2> QED  BY <2>2, PlanNames4 DEF OfParents
<1>5. \A f \in OfDecls : Ends(f)
  <2> SUFFICES ASSUME NEW f \in OfDecls, NEW m \in Nodes, NEW w, Prepare(U.tree, f, m), IsView(U, f, w)
               PROVE  Still(U, f, w, Plan(f, m))
    OBVIOUS
  <2>1. N(m).kind = "decl" /\ f \notin SemaFns /\ f \notin Firm
    BY <1>1, PrepareFacts DEF Prepared
  <2>2. Still(U, f, w, scan2_decl(m)) /\ Still(U, f, w, check_decl(m))
    BY <2>1, Scan2Walks, CheckWalks
  <2> QED  BY <2>2, PlanNames3 DEF OfDecls
<1>6. \A f \in OfTemplates : Ends(f)
  <2> SUFFICES ASSUME NEW f \in OfTemplates, NEW m \in Nodes, NEW w, Prepare(U.tree, f, m), IsView(U, f, w)
               PROVE  Still(U, f, w, Plan(f, m))
    OBVIOUS
  <2>1. N(m).kind = "class" /\ Has(m, "types") /\ f \notin SemaFns /\ f \notin Firm
    BY <1>1, PrepareFacts DEF Prepared
  <2>2. Still(U, f, w, scan1_class_tmpl(m))
    BY <2>1, Scan1Kinds
  <2> QED  BY <2>2, PlanNames2 DEF OfTemplates
<1>7. \A f \in OfFunctions : Ends(f)
  <2> SUFFICES ASSUME NEW f \in OfFunctions, NEW m \in Nodes, NEW w, Prepare(U.tree, f, m), IsView(U, f, w)
               PROVE  Still(U, f, w, Plan(f, m))
    OBVIOUS
  <2>1. N(m).kind = "func" /\ f \notin SemaFns /\ f \notin Firm
    BY <1>1, PrepareFacts DEF Prepared
  <2>2. /\ Still(U, f, w, _scan1_func_def(m)) /\ Still(U, f, w, _scan2_func_def(m))
        /\ f = "_check_func_def" => Still(U, f, w, _check_func_def(m))
    BY <2>1, Scan1Defs, Scan2Defs, CheckDefs
  <2> QED  BY <2>2, PlanNames2, PlanNames3, PlanNames4 DEF OfFunctions
<1>8. \A f \in Prepared : Ends(f)
  <2> HIDE DEF Ends
  <2> QED  BY <1>2, <1>3, <1>4, <1>5, <1>6, <1>7 DEF Prepared
<1>9. \A f \in Prepared : Home(f)
  BY <1>1, <1>8, StillHome
<1> QED  BY <1>9 DEF Prepared

LEMMA HomeMakers ==
  ASSUME Here, Sober(U)
  PROVE  /\ \A f \in {"scan0", "scan0_body", "scan0_class_def_inner", "scan0_class_def_init", "cdef_parent",
                      "scan0_stmt_list", "scan0_trait_body", "scan0_ast"} : Home(f)
         /\ Home("template_push_types")
<1> DEFINE F == {"scan0", "scan0_body", "scan0_class_def_inner", "scan0_class_def_init", "cdef_parent",
                 "scan0_stmt_list", "scan0_trait_body", "scan0_ast"}
<1>1. \A f \in F : f \notin SemaFns /\ f \notin Firm /\ f # "template_push_types"
  BY DEF SemaFns, Firm
<1>2. \A f \in F : \A m \in Nodes : \A w : IsView(U, f, w) /\ w = View(U, env) => Led(U, f, w, Plan(f, m), w, w)
  <2> SUFFICES ASSUME NEW f \in F, NEW m \in Nodes, NEW w, IsView(U, f, w), w = View(U, env)
               PROVE  Led(U, f, w, Plan(f, m), w, w)
    OBVIOUS
  <2>1. f \notin SemaFns /\ f \notin Firm
    BY <1>1
  <2>2. /\ Led(U, f, w, scan0(m), w, w) /\ Led(U, f, w, scan0_trait_body(m), w, w)
        /\ Still(U, f, w, scanx_body(m, "scan0")) /\ Still(U, f, w, cdef_parent(m))
        /\ Still(U, f, w, scan0_class_def_inner(m)) /\ Still(U, f, w, scan0_class_def_init(m))
        /\ Still(U, f, w, scan0_stmt_list(m)) /\ Still(U, f, w, scan0_ast(m))
    BY <2>1, Scan0Returns
  <2>3. \A p : Still(U, f, w, p) => Led(U, f, w, p, w, w)
    BY DEF Still, Led
  <2> QED  BY <2>2, <2>3, PlanNames1, PlanNames2
<1>3. \A f \in F : Home(f)
  <2> HIDE DEF F
  <2> QED  BY <1>1, <1>2 DEF Home, Out
<1>4. Home("template_push_types")
  <2>1. \A m \in Nodes : \A w : IsView(U, "template_push_types", w) =>
          Led(U, "template_push_types", w, template_push_types(m), w, Typing(w))
    BY TypesPushed DEF Led
  <2> QED  BY <2>1, PlanNames1 DEF Home, Out
<1> QED  BY <1>3, <1>4

LEMMA Homes ==
  ASSUME Here, Sober(U)
  PROVE  \A f \in Names \ Outer : Home(f)
<1>1. \A f \in Plain : Home(f)
  BY HomeFiles, HomeScans, HomeChecks, HomeMakers DEF Plain
<1>2. \A f \in Special : Home(f)
  BY HomeScans, HomeChecks DEF Special
<1>3. \A f \in Prepared : Home(f)
  BY HomeTypes DEF Prepared
<1> QED  BY <1>1, <1>2, <1>3, HomeFiles DEF Names

-----------------------------------------------------------------------------
(* What a step does to the environment is what it does to the view of it.  *)

EnvFields ==
  {"curr", "class", "nspcs", "depth", "func", "in_try", "breaks", "conts", "effects", "global", "globals", "context",
   "in_func", "handling", "in_defer", "in_variadic", "tmpls", "open", "types", "code", "shred"}

LEMMA EnvFacts == DOMAIN Bare = EnvFields /\ Flags \subseteq EnvFields
BY DEF Bare, EnvFields, Flags

With(e, g, v) == [e EXCEPT ![g] = v]

LEMMA OneField ==
  ASSUME NEW e, DOMAIN e = EnvFields
  PROVE  \A g, v : /\ DOMAIN With(e, g, v) = EnvFields
                   /\ g \in EnvFields => With(e, g, v)[g] = v
                   /\ \A h \in EnvFields : h # g => With(e, g, v)[h] = e[h]
BY DEF With

LEMMA PushShown ==
  ASSUME NEW u, NEW e, DOMAIN e = EnvFields, NEW class, NEW nspc
  PROVE  View(u, env_push(e, class, nspc)) = Pushed(View(u, e), class, nspc) /\ DOMAIN env_push(e, class, nspc) = EnvFields
<1> DEFINE p == env_push(e, class, nspc)
           x == View(u, e)
           fl == [g \in Flags |-> e[g]]
<1>1. /\ DOMAIN p = EnvFields /\ p.curr = nspc /\ p.class = class /\ p.depth = 0 /\ p.effects = e.effects + 1
      /\ p.nspcs = Append(e.nspcs, <<e.curr, e.class>>)
      /\ \A g \in EnvFields \ {"curr", "class", "depth", "effects", "nspcs"} : p[g] = e[g]
  BY DEF env_push, EnvFields
<1> HIDE DEF p
<1>2. p.open = e.open /\ p.types = e.types
  BY <1>1 DEF EnvFields
<1>3. \A g \in Flags : g # "effects" => p[g] = e[g]
  BY <1>1 DEF EnvFields, Flags
<1>4. [g \in Flags |-> p[g]] = [fl EXCEPT !["effects"] = fl["effects"] + 1]
  BY <1>1, <1>3 DEF Flags
<1>5. x.place = <<e.curr, e.class, e.nspcs>> /\ x.flags = fl /\ x.open = e.open /\ x.types = e.types
  BY AtFields DEF View
<1>6. x.place[1] = e.curr /\ x.place[2] = e.class /\ x.place[3] = e.nspcs
  BY <1>5
<1> HIDE DEF fl, x
<1>7. Pushed(x, class, nspc) = At(<<nspc, class, Append(e.nspcs, <<e.curr, e.class>>)>>, 0,
                                  [fl EXCEPT !["effects"] = fl["effects"] + 1], e.open, e.types)
  BY <1>5, <1>6 DEF Pushed
<1>8. Depth(u, 0) = 0
  BY DEF Depth
<1>9. View(u, p) = At(<<nspc, class, Append(e.nspcs, <<e.curr, e.class>>)>>, 0,
                      [fl EXCEPT !["effects"] = fl["effects"] + 1], e.open, e.types)
  BY <1>1, <1>2, <1>4, <1>8 DEF View
<1> QED  BY <1>1, <1>7, <1>9 DEF p, x

LEMMA PopShown ==
  ASSUME NEW u, NEW e, DOMAIN e = EnvFields, NEW d
  PROVE  View(u, env_pop(e, d)) = Popped(View(u, e), Depth(u, d)) /\ DOMAIN env_pop(e, d) = EnvFields
<1> DEFINE p == env_pop(e, d)
           x == View(u, e)
           fl == [g \in Flags |-> e[g]]
<1>1. /\ DOMAIN p = EnvFields /\ p.curr = Last(e.nspcs)[1] /\ p.class = Last(e.nspcs)[2] /\ p.depth = d
      /\ p.effects = e.effects - 1 /\ p.nspcs = Front(e.nspcs)
      /\ \A g \in EnvFields \ {"curr", "class", "depth", "effects", "nspcs"} : p[g] = e[g]
  BY DEF env_pop, EnvFields
<1> HIDE DEF p
<1>2. p.open = e.open /\ p.types = e.types
  BY <1>1 DEF EnvFields
<1>3. \A g \in Flags : g # "effects" => p[g] = e[g]
  BY <1>1 DEF EnvFields, Flags
<1>4. [g \in Flags |-> p[g]] = [fl EXCEPT !["effects"] = fl["effects"] - 1]
  BY <1>1, <1>3 DEF Flags
<1>5. x.place = <<e.curr, e.class, e.nspcs>> /\ x.flags = fl /\ x.open = e.open /\ x.types = e.types
  BY AtFields DEF View
<1>6. x.place[3] = e.nspcs
  BY <1>5
<1> HIDE DEF fl, x
<1>7. Popped(x, Depth(u, d)) = At(<<Last(e.nspcs)[1], Last(e.nspcs)[2], Front(e.nspcs)>>, Depth(u, d),
                                  [fl EXCEPT !["effects"] = fl["effects"] - 1], e.open, e.types)
  BY <1>5, <1>6 DEF Popped
<1>8. View(u, p) = At(<<Last(e.nspcs)[1], Last(e.nspcs)[2], Front(e.nspcs)>>, Depth(u, d),
                      [fl EXCEPT !["effects"] = fl["effects"] - 1], e.open, e.types)
  BY <1>1, <1>2, <1>4 DEF View
<1> QED  BY <1>1, <1>7, <1>8 DEF p, x

(* One field, and what else it is. *)
LEMMA Assigns ==
  ASSUME NEW u, NEW e, DOMAIN e = EnvFields, NEW g, g \notin {"nspcs", "open", "types"}, NEW v
  PROVE  View(u, With(e, g, v)) = Assigned(u, View(u, e), g, v) /\ DOMAIN With(e, g, v) = EnvFields
<1> DEFINE x == View(u, e)
           fl == [h \in Flags |-> e[h]]
<1>1. x.place = <<e.curr, e.class, e.nspcs>> /\ x.depth = Depth(u, e.depth) /\ x.flags = fl /\ x.open = e.open /\ x.types = e.types
  BY AtFields DEF View
<1>2. x.place[1] = e.curr /\ x.place[2] = e.class /\ x.place[3] = e.nspcs
  BY <1>1
<1>3. x = At(<<e.curr, e.class, e.nspcs>>, Depth(u, e.depth), fl, e.open, e.types)
  BY DEF View
<1> HIDE DEF x
<1>4. View(u, With(e, g, v)) = Assigned(u, x, g, v)
  <2> DEFINE p == With(e, g, v)
  <2>1. p.nspcs = e.nspcs /\ p.open = e.open /\ p.types = e.types
    BY OneField DEF EnvFields
  <2>2. (g = "curr" => p.curr = v) /\ (g # "curr" => p.curr = e.curr) /\ (g = "class" => p.class = v) /\ (g # "class" => p.class = e.class)
        /\ (g = "depth" => p.depth = v) /\ (g # "depth" => p.depth = e.depth)
    BY OneField DEF EnvFields
  <2>3. \A h \in Flags : (h = g => p[h] = v) /\ (h # g => p[h] = e[h])
    BY OneField, EnvFacts
  <2> HIDE DEF p
  <2>4. g \in Flags => [h \in Flags |-> p[h]] = [fl EXCEPT ![g] = v]
    BY <2>3
  <2>5. g \notin Flags => [h \in Flags |-> p[h]] = fl
    BY <2>3
  <2> HIDE DEF fl
  <2>6. "curr" \notin Flags /\ "class" \notin Flags /\ "depth" \notin Flags
    BY DEF Flags
  <2>7. CASE g \in Flags
    <3>1. Assigned(u, x, g, v) = Put(x, g, v) /\ g # "curr" /\ g # "class" /\ g # "depth"
      BY <2>6, <2>7 DEF Assigned
    <3>2. View(u, p) = At(<<e.curr, e.class, e.nspcs>>, Depth(u, e.depth), [fl EXCEPT ![g] = v], e.open, e.types)
      BY <2>1, <2>2, <2>4, <2>7, <3>1 DEF View
    <3> QED  BY <3>1, <3>2, <1>1 DEF Put, p
  <2>8. CASE g = "depth"
    <3>1. Assigned(u, x, g, v) = Deep(x, Depth(u, v))
      BY <2>6, <2>8 DEF Assigned
    <3>2. View(u, p) = At(<<e.curr, e.class, e.nspcs>>, Depth(u, v), fl, e.open, e.types)
      BY <2>1, <2>2, <2>5, <2>6, <2>8 DEF View
    <3> QED  BY <3>1, <3>2, <1>1 DEF Deep, p
  <2>9. CASE g = "curr"
    <3>1. Assigned(u, x, g, v) = At(<<v, x.place[2], x.place[3]>>, x.depth, x.flags, x.open, x.types)
      BY <2>6, <2>9 DEF Assigned
    <3>2. View(u, p) = At(<<v, e.class, e.nspcs>>, Depth(u, e.depth), fl, e.open, e.types)
      BY <2>1, <2>2, <2>5, <2>6, <2>9 DEF View
    <3> QED  BY <3>1, <3>2, <1>1, <1>2 DEF p
  <2>10. CASE g = "class"
    <3>1. Assigned(u, x, g, v) = At(<<x.place[1], v, x.place[3]>>, x.depth, x.flags, x.open, x.types)
      BY <2>6, <2>10 DEF Assigned
    <3>2. View(u, p) = At(<<e.curr, v, e.nspcs>>, Depth(u, e.depth), fl, e.open, e.types)
      BY <2>1, <2>2, <2>5, <2>6, <2>10 DEF View
    <3> QED  BY <3>1, <3>2, <1>1, <1>2 DEF p
  <2>11. CASE g \notin Flags /\ g \notin {"depth", "curr", "class"}
    <3>1. Assigned(u, x, g, v) = x
      BY <2>11 DEF Assigned
    <3>2. View(u, p) = At(<<e.curr, e.class, e.nspcs>>, Depth(u, e.depth), fl, e.open, e.types)
      BY <2>1, <2>2, <2>5, <2>11 DEF View
    <3> QED  BY <3>1, <3>2, <1>3 DEF p
  <2> QED  BY <2>7, <2>8, <2>9, <2>10, <2>11
<1>5. DOMAIN With(e, g, v) = EnvFields
  BY OneField
<1> QED  BY <1>4, <1>5 DEF x

LEMMA BagsShown ==
  ASSUME NEW u, NEW e, DOMAIN e = EnvFields
  PROVE  \A v : /\ View(u, With(e, "open", v)) =
                      At(<<e.curr, e.class, e.nspcs>>, Depth(u, e.depth), [g \in Flags |-> e[g]], v, e.types)
                /\ View(u, With(e, "types", v)) =
                      At(<<e.curr, e.class, e.nspcs>>, Depth(u, e.depth), [g \in Flags |-> e[g]], e.open, v)
<1> DEFINE fl == [h \in Flags |-> e[h]]
<1>5. ASSUME NEW v, NEW k \in {"open", "types"}
      PROVE  LET p == With(e, k, v)
             IN  /\ <<p.curr, p.class, p.nspcs>> = <<e.curr, e.class, e.nspcs>> /\ Depth(u, p.depth) = Depth(u, e.depth)
                 /\ [h \in Flags |-> p[h]] = fl
                 /\ (k = "open" => p.open = v /\ p.types = e.types) /\ (k = "types" => p.types = v /\ p.open = e.open)
  <2> DEFINE p == With(e, k, v)
  <2>1. p.curr = e.curr /\ p.class = e.class /\ p.nspcs = e.nspcs /\ p.depth = e.depth
        /\ (k = "open" => p.open = v /\ p.types = e.types) /\ (k = "types" => p.types = v /\ p.open = e.open)
    BY OneField DEF EnvFields
  <2>2. \A h \in Flags : h # "open" /\ h # "types"
    BY DEF Flags
  <2>3. \A h \in Flags : p[h] = e[h]
    BY <2>2, OneField, EnvFacts
  <2> HIDE DEF p
  <2>4. [h \in Flags |-> p[h]] = fl
    BY <2>3
  <2> HIDE DEF fl
  <2>5. /\ <<p.curr, p.class, p.nspcs>> = <<e.curr, e.class, e.nspcs>> /\ Depth(u, p.depth) = Depth(u, e.depth)
        /\ [h \in Flags |-> p[h]] = fl
        /\ (k = "open" => p.open = v /\ p.types = e.types) /\ (k = "types" => p.types = v /\ p.open = e.open)
    BY <2>1, <2>4
  <2> QED  BY <2>5 DEF p
<1> HIDE DEF fl
<1>6. \A v : /\ View(u, With(e, "open", v)) = At(<<e.curr, e.class, e.nspcs>>, Depth(u, e.depth), fl, v, e.types)
             /\ View(u, With(e, "types", v)) = At(<<e.curr, e.class, e.nspcs>>, Depth(u, e.depth), fl, e.open, v)
  BY <1>5 DEF View
<1> QED  BY <1>6 DEF fl

LEMMA ScopeShown ==
  ASSUME NEW u, NEW e, DOMAIN e = EnvFields
  PROVE  LET x == View(u, e)
         IN  /\ View(u, With(e, "open", BagAdd(e.open, e.curr))) = Opened(x)
             /\ View(u, With(e, "open", BagRemove(e.open, e.curr))) = Closed(x)
             /\ View(u, With(e, "types", BagAdd(e.types, e.curr))) = Typing(x)
             /\ View(u, With(e, "types", BagRemove(e.types, e.curr))) = Untyped(x)
<1> DEFINE x == View(u, e)
           fl == [g \in Flags |-> e[g]]
<1>1. /\ x.place = <<e.curr, e.class, e.nspcs>> /\ x.depth = Depth(u, e.depth) /\ x.flags = fl /\ x.open = e.open
      /\ x.types = e.types
  BY AtFields DEF View
<1>2. x.place[1] = e.curr
  BY <1>1
<1>3. \A v : /\ View(u, With(e, "open", v)) = At(<<e.curr, e.class, e.nspcs>>, Depth(u, e.depth), fl, v, e.types)
             /\ View(u, With(e, "types", v)) = At(<<e.curr, e.class, e.nspcs>>, Depth(u, e.depth), fl, e.open, v)
  BY BagsShown
<1> HIDE DEF x, fl
<1>4. /\ View(u, With(e, "open", BagAdd(e.open, e.curr))) = Opened(x)
      /\ View(u, With(e, "open", BagRemove(e.open, e.curr))) = Closed(x)
      /\ View(u, With(e, "types", BagAdd(e.types, e.curr))) = Typing(x)
      /\ View(u, With(e, "types", BagRemove(e.types, e.curr))) = Untyped(x)
  BY <1>1, <1>2, <1>3 DEF Opened, Closed, Typing, Untyped
<1> QED  BY <1>4 DEF x

(* Of the steps that a plan other than that of a file may have.            *)
LEMMA Shown ==
  ASSUME NEW u, NEW f, NEW e, DOMAIN e = EnvFields, NEW was, NEW s, s[1] \notin Called, NEW y,
         Moves(u, f, View(u, was), s, View(u, e), y)
  PROVE  View(u, Effect(e, was, s)) = y /\ DOMAIN Effect(e, was, s) = EnvFields
<1> DEFINE x == View(u, e)
           w == View(u, was)
<1>1. /\ y = Moved(u, w, s, x) /\ s[1] \notin {"reset", "load", "unload"}
      /\ s[1] = "add" => s[2] \in {"depth", "breaks", "effects", "conts"}
      /\ s[1] \in {"set", "back"} => s[2] \notin {"nspcs", "open", "types"}
  BY DEF Moves
<1>2. /\ x.depth = Depth(u, e.depth) /\ x.flags = [g \in Flags |-> e[g]] /\ x.place = <<e.curr, e.class, e.nspcs>>
      /\ w.depth = Depth(u, was.depth) /\ w.flags = [g \in Flags |-> was[g]]
      /\ w.place = <<was.curr, was.class, was.nspcs>>
  BY AtFields DEF View
<1>3. w.place[1] = was.curr /\ w.place[2] = was.class
  BY <1>2
<1>4. \A g \in Flags : x.flags[g] = e[g] /\ w.flags[g] = was[g]
  BY <1>2
<1>5. \A g, v : DOMAIN With(e, g, v) = EnvFields
  BY OneField
<1>6. \A g, v : g \notin {"nspcs", "open", "types"} => View(u, With(e, g, v)) = Assigned(u, x, g, v)
  BY Assigns
<1>7. \A d, k : Depth(u, Depth(u, d) + k) = Depth(u, d + k) /\ Depth(u, Depth(u, d)) = Depth(u, d)
                /\ Depth(u, Depth(u, d) - k) = Depth(u, d - k) /\ Depth(u, 0) = 0
  BY DEF Depth
<1> DEFINE ef == Effect(e, was, s)
<1> SUFFICES ef = ef /\ View(u, ef) = Moved(u, w, s, x) /\ DOMAIN ef = EnvFields
  BY <1>1
<1>10. CASE s[1] \in {"push", "nspc"}
  <2> DEFINE class == IF s[1] = "push" THEN s[2] ELSE ""
  <2>1. ef = env_push(e, class, s[2])
    BY <1>10 DEF Effect
  <2>2. Moved(u, w, s, x) = Pushed(x, class, s[2])
    BY <1>10 DEF Moved, Called
  <2> HIDE DEF ef, class
  <2> QED  BY <2>1, <2>2, PushShown
<1>11. CASE s[1] = "pop"
  <2> DEFINE d == IF s[2] = "zero" THEN 0 ELSE was.depth
  <2>1. ef = env_pop(e, d)
    BY <1>11 DEF Effect
  <2>2. Depth(u, d) = IF s[2] = "zero" THEN 0 ELSE w.depth
    BY <1>2, <1>7
  <2>3. Moved(u, w, s, x) = Popped(x, IF s[2] = "zero" THEN 0 ELSE w.depth)
    BY <1>11 DEF Moved, Called
  <2> HIDE DEF d
  <2> QED  BY <2>1, <2>2, <2>3, PopShown
<1>12. CASE s[1] \in {"values", "unvalue", "types", "untype"}
  <2>1. /\ s[1] = "values" => ef = With(e, "open", BagAdd(e.open, e.curr)) /\ Moved(u, w, s, x) = Opened(x)
        /\ s[1] = "unvalue" => ef = With(e, "open", BagRemove(e.open, e.curr)) /\ Moved(u, w, s, x) = Closed(x)
        /\ s[1] = "types" => ef = With(e, "types", BagAdd(e.types, e.curr)) /\ Moved(u, w, s, x) = Typing(x)
        /\ s[1] = "untype" => ef = With(e, "types", BagRemove(e.types, e.curr)) /\ Moved(u, w, s, x) = Untyped(x)
    BY DEF Effect, Moved, Called, With
  <2>2. /\ View(u, With(e, "open", BagAdd(e.open, e.curr))) = Opened(x)
        /\ View(u, With(e, "open", BagRemove(e.open, e.curr))) = Closed(x)
        /\ View(u, With(e, "types", BagAdd(e.types, e.curr))) = Typing(x)
        /\ View(u, With(e, "types", BagRemove(e.types, e.curr))) = Untyped(x)
    BY ScopeShown
  <2> HIDE DEF ef, x, w
  <2> QED  BY <1>12, <2>1, <2>2, <1>5
<1>13. CASE s[1] \in {"open", "close"}
  <2> DEFINE b == IF s[1] = "open" THEN BagAdd(e.open, e.curr) ELSE BagRemove(e.open, e.curr)
             d == IF s[1] = "open" THEN e.depth + 1 ELSE e.depth - 1
             m == With(e, "open", b)
  <2>1. ef = With(With(e, "depth", d), "open", b)
    BY <1>13 DEF Effect, With
  <2>2. With(With(e, "depth", d), "open", b) = With(m, "depth", d)
    BY DEF With
  <2>3. View(u, m) = IF s[1] = "open" THEN Opened(x) ELSE Closed(x)
    BY ScopeShown
  <2>4. DOMAIN m = EnvFields
    BY <1>5
  <2>5. x.depth = Depth(u, e.depth)
    BY <1>2
  <2>6. Depth(u, d) = IF s[1] = "open" THEN Depth(u, x.depth + 1) ELSE Depth(u, x.depth - 1)
    BY <2>5, <1>7
  <2>7. Moved(u, w, s, x) = IF s[1] = "open" THEN Deep(Opened(x), Depth(u, x.depth + 1))
                            ELSE Deep(Closed(x), Depth(u, x.depth - 1))
    BY <1>13 DEF Moved, Called
  <2> HIDE DEF m, d, b, ef
  <2>11. "depth" \notin {"nspcs", "open", "types"}
    OBVIOUS
  <2>8. View(u, With(m, "depth", d)) = Assigned(u, View(u, m), "depth", d) /\ DOMAIN With(m, "depth", d) = EnvFields
    BY <2>4, <2>11, Assigns
  <2>9. Assigned(u, View(u, m), "depth", d) = Deep(View(u, m), Depth(u, d))
    BY DEF Assigned, Flags
  <2> QED  BY <2>1, <2>2, <2>3, <2>6, <2>7, <2>8, <2>9
<1>14. CASE s[1] = "add"
  <2> DEFINE g == s[2]
             k == s[3]
  <2>1. ef = With(e, g, e[g] + k)
    <3>1. g \in DOMAIN e
      BY <1>1, <1>14 DEF EnvFields
    <3> QED  BY <3>1, <1>14 DEF Effect, With
  <2>2. Moved(u, w, s, x) = Shifted(u, x, g, k)
    BY <1>14 DEF Moved, Called
  <2>5. "depth" \notin Flags /\ "curr" \notin Flags /\ "class" \notin Flags
    BY DEF Flags
  <2>3. Assigned(u, x, g, e[g] + k) = Shifted(u, x, g, k)
    <3>1. CASE g = "depth"
      BY <3>1, <1>2, <1>7 DEF Assigned, Shifted, Flags
    <3>2. CASE g \in {"breaks", "effects"}
      <4>1. g \in Flags
        BY <3>2 DEF Flags
      <4>2. x.flags[g] = e[g]
        BY <4>1, <1>4
      <4>3. \A v : Assigned(u, x, g, v) = Put(x, g, v)
        BY <4>1, <2>5 DEF Assigned
      <4>4. Shifted(u, x, g, k) = Put(x, g, x.flags[g] + k)
        BY <3>2 DEF Shifted
      <4> QED  BY <4>2, <4>3, <4>4
    <3>3. CASE g = "conts"
      BY <3>3 DEF Assigned, Shifted, Flags
    <3> QED  BY <3>1, <3>2, <3>3, <1>1, <1>14
  <2>4. g \notin {"nspcs", "open", "types"}
    BY <1>1, <1>14
  <2> HIDE DEF g, k, x, w, ef
  <2> QED  BY <2>1, <2>2, <2>3, <2>4, <1>5, <1>6
<1>15. CASE s[1] = "set"
  <2>1. ef = With(e, s[2], s[3]) /\ Moved(u, w, s, x) = Assigned(u, x, s[2], s[3])
    BY <1>15 DEF Effect, Moved, Called, With
  <2> HIDE DEF ef, x, w
  <2> QED  BY <2>1, <1>1, <1>5, <1>6, <1>15
<1>16. CASE s[1] = "back"
  <2> DEFINE g == s[2]
  <2>1. ef = With(e, g, was[g]) /\ Moved(u, w, s, x) = Assigned(u, x, g, Of(w, g))
    BY <1>16 DEF Effect, Moved, Called, With
  <2>2. Assigned(u, x, g, was[g]) = Assigned(u, x, g, Of(w, g))
    <3>1. CASE g \in Flags
      <4>2. "depth" \notin Flags /\ "curr" \notin Flags /\ "class" \notin Flags
        BY DEF Flags
      <4>1. Of(w, g) = w.flags[g]
        BY <3>1, <4>2 DEF Of
      <4> QED  BY <4>1, <3>1, <1>4
    <3>2. CASE g = "depth"
      BY <3>2, <1>2, <1>7 DEF Of, Assigned, Flags
    <3>3. CASE g \in {"curr", "class"}
      BY <3>3, <1>3 DEF Of, Flags
    <3>4. CASE g \notin Flags /\ g \notin {"depth", "curr", "class"}
      BY <3>4 DEF Assigned
    <3> QED  BY <3>1, <3>2, <3>3, <3>4
  <2>3. g \notin {"nspcs", "open", "types"}
    BY <1>1, <1>16
  <2> HIDE DEF ef, x, w, g
  <2> QED  BY <2>1, <2>2, <2>3, <1>5, <1>6
<1>17. CASE s[1] = "sema"
  <2> DEFINE no == FALSE
             a == With(e, "in_func", no)
             b == With(a, "handling", no)
             c == With(b, "in_defer", no)
             d == With(c, "in_variadic", no)
  <2>1. ef = With(d, "tmpls", s[2])
    BY <1>17 DEF Effect, With
  <2>8. Moved(u, w, s, x) = Put(Put(x, "in_func", no), "handling", no)
    BY <1>17 DEF Moved, Called
  <2> HIDE DEF no, x, w, ef
  <2>9. \A g \in {"in_func", "handling", "in_defer", "in_variadic", "tmpls"} : g \notin {"nspcs", "open", "types"}
    OBVIOUS
  <2>2. View(u, a) = Assigned(u, x, "in_func", no) /\ DOMAIN a = EnvFields
    BY <1>5, <1>6
  <2> HIDE DEF a
  <2>3. View(u, b) = Assigned(u, View(u, a), "handling", no) /\ DOMAIN b = EnvFields
    BY <2>2, <2>9, Assigns
  <2> HIDE DEF b
  <2>4. View(u, c) = Assigned(u, View(u, b), "in_defer", no) /\ DOMAIN c = EnvFields
    BY <2>3, <2>9, Assigns
  <2> HIDE DEF c
  <2>5. View(u, d) = Assigned(u, View(u, c), "in_variadic", no) /\ DOMAIN d = EnvFields
    BY <2>4, <2>9, Assigns
  <2> HIDE DEF d
  <2>6. View(u, ef) = Assigned(u, View(u, d), "tmpls", s[2]) /\ DOMAIN ef = EnvFields
    BY <2>1, <2>5, <2>9, Assigns
  <2>7. \A z, v : /\ Assigned(u, z, "in_func", v) = Put(z, "in_func", v) /\ Assigned(u, z, "handling", v) = Put(z, "handling", v)
                  /\ Assigned(u, z, "in_defer", v) = z /\ Assigned(u, z, "in_variadic", v) = z /\ Assigned(u, z, "tmpls", v) = z
    BY DEF Assigned, Flags
  <2> QED  BY <2>2, <2>3, <2>4, <2>5, <2>6, <2>7, <2>8
<1>18. CASE s[1] \notin {"push", "nspc", "pop", "values", "unvalue", "types", "untype", "open", "close", "add", "set", "back", "sema"}
  <2>1. ef = e /\ Moved(u, w, s, x) = x
    BY <1>1, <1>18 DEF Effect, Moved
  <2> QED  BY <2>1
<1> QED  BY <1>10, <1>11, <1>12, <1>13, <1>14, <1>15, <1>16, <1>17, <1>18

-----------------------------------------------------------------------------
(* The functions of a file change namespaces, and the others start from    *)
(* what they leave.                                                        *)

OuterStep(s) ==
  (s[1] \in Called /\ s[2] # "template_push_types") \/ s[1] \in {"reset", "load", "unload", "spork", "assert"}
OuterPlan(p) == IsSeq(p) /\ \A i \in DOMAIN p : OuterStep(p[i])

LEMMA OuterCat == \A p, q : OuterPlan(p) /\ OuterPlan(q) => OuterPlan(p \o q)
<1> SUFFICES ASSUME NEW p, NEW q, OuterPlan(p), OuterPlan(q) PROVE OuterPlan(p \o q)
  OBVIOUS
<1>1. IsSeq(p) /\ IsSeq(q) /\ (\A i \in DOMAIN p : OuterStep(p[i])) /\ (\A i \in DOMAIN q : OuterStep(q[i]))
  BY DEF OuterPlan
<1>2. /\ IsSeq(p \o q) /\ DOMAIN (p \o q) = 1 .. Len(p) + Len(q)
      /\ DOMAIN p = 1 .. Len(p) /\ DOMAIN q = 1 .. Len(q)
      /\ \A i \in 1 .. Len(p) : (p \o q)[i] = p[i]
      /\ \A i \in 1 .. Len(p) + Len(q) : i \notin 1 .. Len(p) => i - Len(p) \in 1 .. Len(q)
                                                  /\ (p \o q)[i] = q[i - Len(p)]
  <2>1. IsSeq(p \o q) /\ Len(p \o q) = Len(p) + Len(q)
    BY <1>1, SeqCat
  <2> QED  BY <2>1, <1>1, SeqCat, SeqShape
<1>3. \A i \in DOMAIN (p \o q) : OuterStep((p \o q)[i])
  BY <1>1, <1>2
<1> QED  BY <1>2, <1>3 DEF OuterPlan

LEMMA OuterPlans == \A f \in Outer : \A m \in Nodes : OuterPlan(Plan(f, m))
<1> SUFFICES ASSUME NEW f \in Outer, NEW m \in Nodes PROVE OuterPlan(Plan(f, m))
  OBVIOUS
<1>1. \A s : OuterStep(s) => OuterPlan(<<s>>)
  <2> SUFFICES ASSUME NEW s, OuterStep(s) PROVE OuterPlan(<<s>>)
    OBVIOUS
  <2>1. IsSeq(<<s>>) /\ DOMAIN <<s>> = {1} /\ <<s>>[1] = s
    BY OneFrame
  <2> QED  BY <2>1 DEF OuterPlan
<1>2. \A mode, g : Call(mode, g, <<m>>) = <<<<mode, g, m>>>>
  BY DEF Call
<1>3. OuterPlan(Must("compile", <<m>>)) /\ OuterPlan(Must("passes", <<m>>)) /\ OuterPlan(Try("_passes", <<m>>))
  <2>1. \A s : s[1] \in Called /\ s[2] # "template_push_types" => OuterStep(s)
    BY DEF OuterStep
  <2>2. /\ <<"must", "compile", m>>[1] = "must" /\ <<"must", "compile", m>>[2] = "compile"
        /\ <<"must", "passes", m>>[1] = "must" /\ <<"must", "passes", m>>[2] = "passes"
        /\ <<"try", "_passes", m>>[1] = "try" /\ <<"try", "_passes", m>>[2] = "_passes"
    OBVIOUS
  <2>3. "must" \in Called /\ "try" \in Called
    BY DEF Called
  <2>4. OuterStep(<<"must", "compile", m>>) /\ OuterStep(<<"must", "passes", m>>) /\ OuterStep(<<"try", "_passes", m>>)
    BY <2>1, <2>2, <2>3
  <2> QED  BY <1>1, <1>2, <2>4 DEF Must, Try
<1>4. \A op \in {"reset", "load", "unload", "spork", "assert"} : \A x : OuterPlan(Do(op, x))
  <2> SUFFICES ASSUME NEW op \in {"reset", "load", "unload", "spork", "assert"}, NEW x PROVE OuterPlan(Do(op, x))
    OBVIOUS
  <2>1. <<op, x>>[1] = op
    OBVIOUS
  <2>2. OuterStep(<<op, x>>)
    BY <2>1 DEF OuterStep
  <2> QED  BY <1>1, <2>2 DEF Do
<1>5. OuterPlan(<<>>)
  <2>1. DOMAIN <<>> = {}
    OBVIOUS
  <2> QED  BY <2>1, SeqNone DEF OuterPlan
<1>6. \A c : OuterPlan(When(c, Do("assert", m)))
  BY <1>4, <1>5 DEF When
<1>7. OuterPlan(compile_xid(m))
  BY <1>3, <1>6, OuterCat DEF compile_xid
<1>8. OuterPlan(compile(m))
  BY <1>3, <1>4, OuterCat DEF compile
<1>9. OuterPlan(passes(m))
  BY <1>3, <1>4, OuterCat DEF passes
<1> QED  BY <1>7, <1>8, <1>9, PlanNames4 DEF Outer

(* An environment with these is seen. *)
Seeable(u, e) ==
  /\ DOMAIN e = EnvFields /\ IsSeq(e.nspcs) /\ e.breaks \in Int /\ e.effects \in Int
  /\ e.in_func = FALSE /\ e.handling = FALSE /\ IsABag(e.open) /\ IsABag(e.types)
  /\ Depth(u, e.depth) \in Nat

LEMMA ViewFields ==
  ASSUME NEW u
  PROVE  \A d : View(u, d).place = <<d.curr, d.class, d.nspcs>> /\ View(u, d).depth = Depth(u, d.depth)
             /\ View(u, d).flags = [g \in Flags |-> d[g]] /\ View(u, d).open = d.open /\ View(u, d).types = d.types
BY AtFields DEF View

LEMMA ViewShown ==
  ASSUME NEW u, NEW f, NEW d, Seeable(u, d)
  PROVE  IsView(u, f, View(u, d))
<1> DEFINE x == View(u, d)
           pl == <<d.curr, d.class, d.nspcs>>
           fl == [g \in Flags |-> d[g]]
<1>0. /\ IsSeq(d.nspcs) /\ d.breaks \in Int /\ d.effects \in Int /\ d.in_func = FALSE /\ d.handling = FALSE
      /\ IsABag(d.open) /\ IsABag(d.types) /\ Depth(u, d.depth) \in Nat
  BY DEF Seeable
<1>1. x.place = pl /\ x.depth = Depth(u, d.depth) /\ x.flags = fl /\ x.open = d.open /\ x.types = d.types
  BY ViewFields
<1>2. pl = <<pl[1], pl[2], pl[3]>> /\ pl[3] = d.nspcs
  OBVIOUS
<1>3. /\ fl["breaks"] = d.breaks /\ fl["effects"] = d.effects /\ fl["in_func"] = d.in_func
      /\ fl["handling"] = d.handling /\ fl = [g \in Flags |-> fl[g]]
  BY DEF Flags
<1>4. x = At(pl, Depth(u, d.depth), fl, d.open, d.types)
  BY DEF View
<1>5. ~Level(u) => Depth(u, d.depth) = 0
  BY DEF Depth
<1> HIDE DEF x, pl, fl
<1>6. x = At(x.place, x.depth, x.flags, x.open, x.types)
  BY <1>1, <1>4
<1>7. x.place = <<x.place[1], x.place[2], x.place[3]>> /\ x.place[3] = d.nspcs
  BY <1>1, <1>2
<1>8. x.flags["in_func"] = FALSE /\ x.flags["handling"] = FALSE
  BY <1>0, <1>1, <1>3, Zenon
<1>9. x.flags = [g \in Flags |-> x.flags[g]]
  BY <1>1, <1>3, Zenon
<1>10. x.depth \in Nat /\ (~Level(u) => x.depth = 0) /\ x.flags["breaks"] \in Int /\ x.flags["effects"] \in Int
  BY <1>0, <1>1, <1>3, <1>5
<1>11. IsABag(x.open) /\ IsABag(x.types) /\ IsSeq(x.place[3])
  BY <1>0, <1>1, <1>7
<1>12. x.place = <<x.place[1], x.place[2], x.place[3]>>
  BY <1>7
<1>13. f \notin SemaFns => x.flags["in_func"] = FALSE /\ x.flags["handling"] = FALSE
  BY <1>8
<1>14. IsView(u, f, x)
  BY <1>6, <1>12, <1>13, <1>9, <1>10, <1>11, Zenon DEF IsView
<1> QED  BY <1>14 DEF x

(* What a file starts from and leaves is as good a view as any. *)
LEMMA FileShown ==
  ASSUME NEW f \in Outer, NEW e, DOMAIN e = EnvFields, NEW u, IsView(u, f, View(u, e)), NEW n
  PROVE  /\ IsView(u, f, View(u, env_reset(e))) /\ DOMAIN env_reset(e) = EnvFields
         /\ IsView(u, f, View(u, load_context(e, n))) /\ DOMAIN load_context(e, n) = EnvFields
         /\ \A kept : IsView(u, f, View(u, unload_context(e, kept))) /\ DOMAIN unload_context(e, kept) = EnvFields
<1>1. f \notin SemaFns
  BY DEF Outer, SemaFns
<1> DEFINE Ok(d) == Seeable(u, d)
<1>2. \A d : View(u, d).place = <<d.curr, d.class, d.nspcs>> /\ View(u, d).depth = Depth(u, d.depth)
             /\ View(u, d).flags = [g \in Flags |-> d[g]] /\ View(u, d).open = d.open /\ View(u, d).types = d.types
  BY ViewFields
<1> USE DEF Seeable
<1>3. \A d : Ok(d) => IsView(u, f, View(u, d))
  BY ViewShown
<1>4. Ok(e)
  <2> DEFINE x == View(u, e)
             pl == <<e.curr, e.class, e.nspcs>>
             fl == [g \in Flags |-> e[g]]
  <2>1. x.place = pl /\ x.depth = Depth(u, e.depth) /\ x.flags = fl /\ x.open = e.open /\ x.types = e.types
    BY <1>2
  <2>2. pl[3] = e.nspcs
    OBVIOUS
  <2>3. /\ fl["breaks"] = e.breaks /\ fl["effects"] = e.effects /\ fl["in_func"] = e.in_func
        /\ fl["handling"] = e.handling
    BY DEF Flags
  <2> HIDE DEF pl, fl, x
  <2>4. IsView(u, f, x)
    BY DEF x
  <2>5. /\ IsSeq(x.place[3]) /\ x.depth \in Nat /\ x.flags["breaks"] \in Int /\ x.flags["effects"] \in Int
        /\ x.flags["in_func"] = FALSE /\ x.flags["handling"] = FALSE /\ IsABag(x.open) /\ IsABag(x.types)
    BY <1>1, <2>4 DEF IsView
  <2> QED  BY <2>1, <2>2, <2>3, <2>5
<1>5. \A a, b : IsSeq(Append(e.nspcs, a)) /\ IsSeq(<<a, b>>)
  <2>1. \A a, b : <<a, b>> \in Seq({a, b})
    OBVIOUS
  <2>2. IsSeq(e.nspcs)
    BY <1>4
  <2> QED  BY <2>1, <2>2, StackLaws DEF IsSeq
<1>6. IsSeq(Front(e.nspcs))
  <2>1. CASE e.nspcs = <<>>
    <3>1. Front(<<>>) = <<>>
      BY DEF Front
    <3> QED  BY <2>1, <3>1, SeqNone
  <2>2. CASE e.nspcs # <<>>
    BY <2>2, <1>4, FrontFacts
  <2> QED  BY <2>1, <2>2
<1>7. Depth(u, 0) \in Nat
  BY DEF Depth
<1>8. Ok(env_reset(e))
  <2> DEFINE d == env_reset(e)
  <2>1. /\ DOMAIN d = EnvFields /\ d.nspcs = <<<<"root", "">>, <<e.global, "">>>> /\ d.breaks = 0 /\ d.depth = 0
        /\ d.effects = e.effects + 1 /\ d.in_func = e.in_func /\ d.handling = e.handling /\ d.open = e.open /\ d.types = e.types
    BY <1>4 DEF env_reset, EnvFields
  <2> HIDE DEF d
  <2>4. e.effects + 1 \in Int /\ 0 \in Int
    BY <1>4
  <2>5. IsSeq(d.nspcs)
    BY <2>1, <1>5
  <2>2. IsSeq(d.nspcs) /\ d.effects \in Int /\ d.breaks \in Int
    BY <2>1, <2>4, <2>5
  <2>3. Ok(d)
    BY <2>1, <2>2, <1>4, <1>7
  <2> QED  BY <2>3 DEF d
<1>9. Ok(load_context(e, n))
  <2> DEFINE d == load_context(e, n)
  <2>1. /\ DOMAIN d = EnvFields /\ d.nspcs = Append(e.nspcs, <<e.curr, "">>) /\ d.breaks = e.breaks /\ d.depth = e.depth
        /\ d.effects = e.effects /\ d.in_func = e.in_func /\ d.handling = e.handling /\ d.open = e.open /\ d.types = e.types
    BY <1>4 DEF load_context, EnvFields
  <2> HIDE DEF d
  <2>2. IsSeq(d.nspcs)
    BY <2>1, <1>5
  <2>3. Ok(d)
    BY <2>1, <2>2, <1>4
  <2> QED  BY <2>3 DEF d
<1>10. ASSUME NEW kept PROVE Ok(unload_context(e, kept))
  <2> DEFINE d == unload_context(e, kept)
  <2>1. /\ DOMAIN d = EnvFields /\ d.nspcs = Front(e.nspcs) /\ d.breaks = e.breaks /\ d.depth = e.depth
        /\ d.effects = e.effects /\ d.in_func = e.in_func /\ d.handling = e.handling /\ d.open = e.open /\ d.types = e.types
    BY <1>4 DEF unload_context, EnvFields
  <2> HIDE DEF d
  <2>2. IsSeq(d.nspcs)
    BY <2>1, <1>6
  <2>3. Ok(d)
    BY <2>1, <2>2, <1>4
  <2> QED  BY <2>3 DEF d
<1>11. \A d : Ok(d) => IsView(u, f, View(u, d)) /\ DOMAIN d = EnvFields
  BY <1>3
<1> HIDE DEF Ok
<1> QED  BY <1>8, <1>9, <1>10, <1>11

-----------------------------------------------------------------------------
(* Each function that runs is on its way home: what is left of its plan    *)
(* leads from what it sees to where it is to be.                           *)

Within(u, c, x) ==
  LET w == View(u, c.was)
  IN  /\ IsView(u, c.f, w) /\ IsView(u, c.f, x)
      /\ c.f \notin Outer => Led(u, c.f, w, c.plan, x, Out(c.f, w))
      /\ c.f \in Outer => OuterPlan(c.plan)
      /\ c.f \in Firm => c.ok = TRUE \/ (c.plan = <<>> /\ c.f # "template_push_types")

LEMMA FrameFields ==
  ASSUME NEW c, IsFrame(c)
  PROVE  /\ \A d \in {Goes(c), Fails(c), Stops(c), [c EXCEPT !.plan = <<>>]} :
              IsFrame(d) /\ d.f = c.f /\ d.n = c.n /\ d.mode = c.mode /\ d.was = c.was
         /\ Goes(c).plan = Tail(c.plan) /\ Goes(c).ok = c.ok
         /\ Fails(c).plan = Tail(c.plan) /\ Stops(c).plan = <<>>
         /\ [c EXCEPT !.plan = <<>>].plan = <<>>
<1> DEFINE A(p, o) == [f |-> c.f, n |-> c.n, mode |-> c.mode, plan |-> p, ok |-> o, was |-> c.was]
           no == FALSE
<1>1. c = A(c.plan, c.ok)
  BY DEF IsFrame
<1>2. \A p, o, q : /\ [A(p, o) EXCEPT !.plan = q] = A(q, o) /\ [A(p, o) EXCEPT !.ok = q] = A(p, q)
                   /\ A(p, o).f = c.f /\ A(p, o).n = c.n /\ A(p, o).mode = c.mode /\ A(p, o).was = c.was
                   /\ A(p, o).plan = p /\ A(p, o).ok = o /\ IsFrame(A(p, o))
  BY DEF IsFrame
<1>3. /\ Goes(c) = [c EXCEPT !.plan = Tail(c.plan)]
      /\ Fails(c) = [[c EXCEPT !.plan = Tail(c.plan)] EXCEPT !.ok = no]
      /\ Stops(c) = [[c EXCEPT !.plan = <<>>] EXCEPT !.ok = no]
  BY DEF Goes, Fails, Stops
<1>5. \A q : [c EXCEPT !.plan = q] = A(q, c.ok)
  <2> TAKE q
  <2>1. [A(c.plan, c.ok) EXCEPT !.plan = q] = A(q, c.ok)
    OBVIOUS
  <2> HIDE DEF A
  <2> QED  BY <1>1, <2>1
<1>6. \A q : [A(q, c.ok) EXCEPT !.ok = no] = A(q, no)
  BY <1>2
<1> HIDE DEF A, no
<1>4. /\ Goes(c) = A(Tail(c.plan), c.ok) /\ Fails(c) = A(Tail(c.plan), no) /\ Stops(c) = A(<<>>, no)
      /\ [c EXCEPT !.plan = <<>>] = A(<<>>, c.ok)
  <2> DEFINE B(q) == [c EXCEPT !.plan = q]
  <2>1. \A q : B(q) = A(q, c.ok) /\ [B(q) EXCEPT !.ok = no] = A(q, no)
    BY <1>5, <1>6
  <2>2. Goes(c) = B(Tail(c.plan)) /\ Fails(c) = [B(Tail(c.plan)) EXCEPT !.ok = no] /\ Stops(c) = [B(<<>>) EXCEPT !.ok = no]
    BY <1>3
  <2>3. [c EXCEPT !.plan = <<>>] = B(<<>>)
    OBVIOUS
  <2> HIDE DEF B
  <2> QED  BY <2>1, <2>2, <2>3, Zenon
<1> QED  BY <1>2, <1>4

(* Where a function may stop it is back. *)
LEMMA Stopped ==
  ASSUME NEW u, NEW c, IsFrame(c), NEW x, Within(u, c, x), c.f \notin Outer,
         x = View(u, c.was), c.f # "template_push_types"
  PROVE  Within(u, Stops(c), x) /\ Within(u, [c EXCEPT !.plan = <<>>], x)
<1> DEFINE w == View(u, c.was)
<1>1. IsView(u, c.f, w) /\ x = w
  BY DEF Within
<1>2. ASSUME NEW d, d.f = c.f, d.was = c.was, d.plan = <<>> PROVE Within(u, d, x)
  <2>1. Leads(u, c.f, w, <<>>, w, w)
    BY <1>1, LeadsNone
  <2>2. Led(u, d.f, View(u, d.was), d.plan, x, Out(d.f, View(u, d.was)))
    BY <1>1, <1>2, <2>1 DEF Led, Out
  <2> QED  BY <1>1, <1>2, <2>2 DEF Within
<1>3. \A d \in {Stops(c), [c EXCEPT !.plan = <<>>]} : d.f = c.f /\ d.was = c.was /\ d.plan = <<>>
  BY FrameFields
<1> QED  BY <1>2, <1>3

(* And it goes on to where its next step leads. *)
LEMMA Steps ==
  ASSUME NEW u, NEW c, IsFrame(c), NEW x, Within(u, c, x), c.f \notin Outer, c.plan # <<>>
  PROVE  LET s == c.plan[1]
             w == View(u, c.was)
         IN  \/ s[1] = "refuse" /\ x = w /\ c.f # "template_push_types"
             \/ \E z : /\ Moves(u, c.f, w, s, x, z) /\ Within(u, Goes(c), z)
                       /\ Softens(u, s) \/ c.f \notin Firm => Within(u, Fails(c), z)
<1> DEFINE s == c.plan[1]
           w == View(u, c.was)
<1>1. /\ IsView(u, c.f, w) /\ Led(u, c.f, w, c.plan, x, Out(c.f, w))
      /\ c.f \in Firm => c.ok = TRUE
  BY DEF Within
<1>2. CASE s[1] = "refuse" /\ x = w /\ c.f # "template_push_types"
  BY <1>2
<1>3. ASSUME NEW z, IsView(u, c.f, z), Moves(u, c.f, w, s, x, z), Led(u, c.f, w, Tail(c.plan), z, Out(c.f, w))
      PROVE  Within(u, Goes(c), z) /\ (Softens(u, s) \/ c.f \notin Firm => Within(u, Fails(c), z))
  <2>1. \A d \in {Goes(c), Fails(c)} : d.f = c.f /\ d.was = c.was /\ d.plan = Tail(c.plan)
    BY FrameFields
  <2>2. ASSUME NEW d \in {Goes(c), Fails(c)}, d.f \in Firm => d.ok = TRUE PROVE Within(u, d, z)
    <3>1. d.f = c.f /\ d.was = c.was /\ d.plan = Tail(c.plan)
      BY <2>1
    <3>2. Led(u, d.f, View(u, d.was), d.plan, z, Out(d.f, View(u, d.was)))
      BY <1>3, <3>1
    <3>3. IsView(u, d.f, View(u, d.was)) /\ IsView(u, d.f, z) /\ d.f \notin Outer
      BY <1>1, <1>3, <3>1
    <3> QED  BY <2>2, <3>2, <3>3 DEF Within
  <2>3. Softens(u, s) => c.f \notin Firm
    BY <1>3 DEF Moves
  <2>4. Goes(c).ok = c.ok
    BY FrameFields
  <2>5. Within(u, Goes(c), z)
    BY <1>1, <2>1, <2>2, <2>4
  <2>6. c.f \notin Firm => Within(u, Fails(c), z)
    BY <2>1, <2>2
  <2> QED  BY <2>3, <2>5, <2>6
<1>4. \/ s[1] = "refuse" /\ x = w /\ c.f # "template_push_types"
      \/ \E z : IsView(u, c.f, z) /\ Moves(u, c.f, w, s, x, z) /\ Led(u, c.f, w, Tail(c.plan), z, Out(c.f, w))
  BY <1>1, LedTail
<1> QED  BY <1>3, <1>4

(* The functions of a file. *)
LEMMA OuterOn ==
  ASSUME NEW u, NEW c, IsFrame(c), NEW x, Within(u, c, x), c.f \in Outer, c.plan # <<>>, NEW y, IsView(u, c.f, y)
  PROVE  /\ OuterStep(c.plan[1])
         /\ \A d \in {Goes(c), Fails(c), Stops(c), [c EXCEPT !.plan = <<>>]} : Within(u, d, y)
<1>1. OuterPlan(c.plan) /\ IsView(u, c.f, View(u, c.was)) /\ c.f \notin Firm
  BY DEF Within, Outer, Firm
<1>2. IsSeq(c.plan) /\ \A i \in DOMAIN c.plan : OuterStep(c.plan[i])
  BY <1>1 DEF OuterPlan
<1>3. 1 \in DOMAIN c.plan
  <2>1. Len(c.plan) \in Nat /\ DOMAIN c.plan = 1 .. Len(c.plan) /\ c.plan \in Seq({c.plan[i] : i \in DOMAIN c.plan})
    BY <1>2, SeqShape
  <2> QED  BY <2>1
<1>4. OuterPlan(Tail(c.plan)) /\ OuterPlan(<<>>)
  <2>1. IsSeq(Tail(c.plan)) /\ \A i \in DOMAIN Tail(c.plan) : i + 1 \in DOMAIN c.plan /\ Tail(c.plan)[i] = c.plan[i+1]
    BY <1>2, <1>3, TailFacts
  <2>2. DOMAIN <<>> = {}
    OBVIOUS
  <2> QED  BY <1>2, <2>1, <2>2, SeqNone DEF OuterPlan
<1>5. \A d \in {Goes(c), Fails(c), Stops(c), [c EXCEPT !.plan = <<>>]} :
        d.f = c.f /\ d.was = c.was /\ d.plan \in {Tail(c.plan), <<>>}
  BY FrameFields
<1>6. ASSUME NEW d, d.f = c.f, d.was = c.was, OuterPlan(d.plan) PROVE Within(u, d, y)
  BY <1>1, <1>6 DEF Within
<1>7. \A d \in {Goes(c), Fails(c), Stops(c), [c EXCEPT !.plan = <<>>]} : Within(u, d, y)
  BY <1>4, <1>5, <1>6
<1> QED  BY <1>2, <1>3, <1>7

(* What the function of a frame sees: the environment, or what the one it  *)
(* has called has found.                                                   *)
Seen(i) == View(U, IF i = Len(calls) THEN env ELSE calls[i+1].was)
Keeping ==
  /\ DOMAIN env = EnvFields
  /\ calls = <<>> => IsView(U, "compile_xid", View(U, env))
  /\ \A i \in DOMAIN calls : Within(U, calls[i], Seen(i))

LEMMA Renewed ==
  ASSUME Walked, Keeping, NEW k \in DOMAIN calls, IsSeq(calls'), Len(calls') = k,
         \A i \in 1 .. k : i # k => calls'[i] = calls[i], calls'[k].was = calls[k].was,
         session' = session, DOMAIN env' = EnvFields, Within(U, calls'[k], View(U, env'))
  PROVE  Keeping'
<1>1. Len(calls) \in Nat /\ DOMAIN calls = 1 .. Len(calls) /\ DOMAIN calls' = 1 .. k
  BY SeqShape DEF Walked, FramesOk
<1>2. k \in Nat /\ k <= Len(calls) /\ k # 0
  BY <1>1
<1>3. U' = U
  BY DEF U
<1>4. calls' # <<>>
  <2>1. Len(<<>>) = 0
    OBVIOUS
  <2> QED  BY <2>1, <1>2
<1>5. \A i \in DOMAIN calls' : Within(U, calls'[i], View(U, IF i = Len(calls') THEN env' ELSE calls'[i+1].was))
  <2> SUFFICES ASSUME NEW i \in DOMAIN calls'
               PROVE  Within(U, calls'[i], View(U, IF i = Len(calls') THEN env' ELSE calls'[i+1].was))
    OBVIOUS
  <2>1. CASE i = k
    BY <2>1
  <2>2. CASE i # k
    <3>1. i \in DOMAIN calls /\ i # Len(calls) /\ i + 1 \in 1 .. k /\ i \in 1 .. k
      BY <2>2, <1>1, <1>2
    <3>2. Within(U, calls[i], Seen(i)) /\ Seen(i) = View(U, calls[i+1].was)
      BY <3>1 DEF Keeping, Seen
    <3>3. calls'[i] = calls[i] /\ calls'[i+1].was = calls[i+1].was
      <4>1. CASE i + 1 = k
        BY <4>1, <2>2, <3>1
      <4>2. CASE i + 1 # k
        BY <4>2, <2>2, <3>1
      <4> QED  BY <4>1, <4>2
    <3> QED  BY <2>2, <3>2, <3>3
  <2> QED  BY <2>1, <2>2
<1> QED  BY <1>3, <1>4, <1>5 DEF Keeping, Seen

LEMMA TopSees ==
  ASSUME Walked, Keeping, calls # <<>>
  PROVE  Within(U, Top, View(U, env)) /\ IsFrame(Top) /\ DOMAIN env = EnvFields
<1>1. Len(calls) \in DOMAIN calls /\ Top = calls[Len(calls)] /\ IsFrame(Top)
  BY TopFacts
<1>2. Within(U, calls[Len(calls)], Seen(Len(calls)))
  BY <1>1 DEF Keeping
<1> QED  BY <1>1, <1>2 DEF Keeping, Seen

LEMMA OnTop ==
  ASSUME Walked, Keeping, calls # <<>>, NEW d, Update(d), d.was = Top.was, session' = session, DOMAIN env' = EnvFields,
         Within(U, d, View(U, env'))
  PROVE  Keeping'
<1> DEFINE k == Len(calls)
<1>1. /\ IsSeq(calls) /\ k \in Nat \ {0} /\ k \in DOMAIN calls /\ Top = calls[k] /\ DOMAIN calls = 1 .. k
  BY TopFacts
<1>2. /\ IsSeq(Front(calls)) /\ Len(Front(calls)) = k - 1 /\ \A i \in 1 .. k - 1 : Front(calls)[i] = calls[i]
  BY <1>1, FrontFacts
<1>3. calls' = Append(Front(calls), d)
  BY DEF Update
<1>4. /\ IsSeq(calls') /\ Len(calls') = (k - 1) + 1 /\ (\A i \in 1 .. k - 1 : calls'[i] = Front(calls)[i])
      /\ calls'[(k - 1) + 1] = d
  BY <1>2, <1>3, AppendFacts
<1> HIDE DEF k
<1>5. (k - 1) + 1 = k
  BY <1>1
<1>6. IsSeq(calls') /\ Len(calls') = k /\ calls'[k] = d /\ \A i \in 1 .. k : i # k => calls'[i] = calls[i]
  BY <1>1, <1>2, <1>4, <1>5
<1> QED  BY <1>1, <1>6, Renewed

(* Steps that leave the view as it is. *)
LEMMA Quiet ==
  ASSUME NEW u, NEW f, NEW w, NEW s, NEW x, NEW z, Moves(u, f, w, s, x, z),
         s[1] \in Called \cup Claims \cup {"check", "refuse", "fail", "verdict", "failed", "spork"},
         s[1] \in Called => s[2] # "template_push_types"
  PROVE  z = x
BY DEF Moves, Moved, Called, Claims

LEMMA SkipKept == ASSUME Walked, Keeping, Skip PROVE Keeping'
<1> DEFINE x == View(U, env)
           w == View(U, Top.was)
           d == IF Counts(Step) THEN Fails(Top) ELSE Goes(Top)
<1>1. /\ calls # <<>> /\ Top.plan # <<>> /\ Step[1] \in Called /\ Skipped(Step)
      /\ Update(d) /\ session' = session /\ env' = env
  BY DEF Skip
<1>2. Within(U, Top, x) /\ IsFrame(Top) /\ DOMAIN env = EnvFields
  BY <1>1, TopSees
<1>3. d.was = Top.was
  BY <1>2, FrameFields
<1>4. Within(U, d, x)
  <2>1. CASE Top.f \in Outer
    <3>1. IsView(U, Top.f, x)
      BY <1>2 DEF Within
    <3> QED  BY <1>1, <1>2, <2>1, <3>1, OuterOn
  <2>2. CASE Top.f \notin Outer
    <3>1. Step[1] # "refuse" /\ Step[1] \notin {"must", "loose"}
      BY <1>1 DEF Called, Skipped
    <3>2. PICK z : /\ Moves(U, Top.f, w, Step, x, z) /\ Within(U, Goes(Top), z)
                   /\ Softens(U, Step) \/ Top.f \notin Firm => Within(U, Fails(Top), z)
      BY <1>1, <1>2, <2>2, <3>1, Steps DEF Step
    <3>3. z = x
      <4>1. Step[2] # "template_push_types"
        BY <1>1, <3>1, <3>2 DEF Moves
      <4> QED  BY <1>1, <3>2, <4>1, Quiet
    <3>4. Counts(Step) => Softens(U, Step)
      BY DEF Counts, Softens
    <3> QED  BY <3>2, <3>3, <3>4
  <2> QED  BY <2>1, <2>2
<1> HIDE DEF d
<1> QED  BY <1>1, <1>2, <1>3, <1>4, OnTop

LEMMA SporkShown ==
  ASSUME NEW u, NEW e, DOMAIN e = EnvFields
  PROVE  LET d == [e EXCEPT !.shred = e.code, !.code = ""] IN View(u, d) = View(u, e) /\ DOMAIN d = EnvFields
<1> DEFINE a == With(e, "shred", e.code)
<1>1. [e EXCEPT !.shred = e.code, !.code = ""] = With(a, "code", "")
  BY DEF With
<1>2. \A g \in {"shred", "code"} : g \notin {"nspcs", "open", "types"} /\ \A y, v : Assigned(u, y, g, v) = y
  BY DEF Assigned, Flags
<1>3. View(u, a) = View(u, e) /\ DOMAIN a = EnvFields
  BY <1>2, Assigns
<1> HIDE DEF a
<1>4. View(u, With(a, "code", "")) = View(u, a) /\ DOMAIN With(a, "code", "") = EnvFields
  <2> DEFINE none == ""
             g == "code"
  <2>1. g \notin {"nspcs", "open", "types"} /\ \A y : Assigned(u, y, g, none) = y
    BY <1>2
  <2> HIDE DEF none, g
  <2>2. View(u, With(a, g, none)) = View(u, a) /\ DOMAIN With(a, g, none) = EnvFields
    BY <2>1, <1>3, Assigns
  <2> QED  BY <2>2 DEF none, g
<1> QED  BY <1>1, <1>3, <1>4

LEMMA ChangeKept == ASSUME Walked, Keeping, Change PROVE Keeping'
<1> DEFINE x == View(U, env)
           w == View(U, Top.was)
           d == Goes(Top)
           s == Step
<1>1. /\ calls # <<>> /\ Top.plan # <<>> /\ s[1] \notin Called \cup Claims \cup {"check", "refuse", "fail", "verdict"}
      /\ Update(d) /\ session' = session
  BY DEF Change
<1>2. Within(U, Top, x) /\ IsFrame(Top) /\ DOMAIN env = EnvFields
  BY <1>1, TopSees
<1>3. d.was = Top.was
  BY <1>2, FrameFields
<1>4. /\ s[1] = "failed" /\ Top.ok = TRUE => env' \in {env, [env EXCEPT !.shred = env.code, !.code = ""]}
      /\ s[1] = "failed" /\ s[2][1] \in {"mark", "error"} => env' = env
      /\ s[1] = "spork" => env' = [env EXCEPT !.shred = env.code, !.code = ""]
      /\ s[1] \notin {"failed", "spork"} => env' = Effect(env, Top.was, s)
  <2> DEFINE r == IF Step[1] = "failed" THEN Step[2] ELSE Step
             run == Step[1] # "failed" \/ ~Top.ok
  <2>1. env' = CASE ~run -> env [] r[1] = "spork" -> [env EXCEPT !.shred = env.code, !.code = ""]
                 [] OTHER -> Effect(env, Top.was, r)
    BY DEF Change
  <2>6. \A a, b, e : LET m == CASE ~run -> a [] r[1] = "spork" -> b [] OTHER -> e IN ~run => m \in {a, b}
    <3> HIDE DEF run, r
    <3> QED  OBVIOUS
  <2>2. s[1] = "failed" /\ Top.ok = TRUE => env' \in {env, [env EXCEPT !.shred = env.code, !.code = ""]}
    <3>1. s[1] = "failed" /\ Top.ok = TRUE => ~run
      OBVIOUS
    <3> HIDE DEF run, r
    <3> QED  BY <2>1, <2>6, <3>1
  <2>3. s[1] = "failed" /\ s[2][1] \in {"mark", "error"} => env' = env
    <3> SUFFICES ASSUME s[1] = "failed", s[2][1] \in {"mark", "error"} PROVE env' = env
      OBVIOUS
    <3>1. r[1] \in {"mark", "error"}
      OBVIOUS
    <3> HIDE DEF run, r
    <3>2. Effect(env, Top.was, r) = env /\ r[1] # "spork"
      BY <3>1 DEF Effect
    <3> QED  BY <2>1, <3>2
  <2>4. s[1] = "spork" => env' = [env EXCEPT !.shred = env.code, !.code = ""]
    <3> SUFFICES ASSUME s[1] = "spork" PROVE env' = [env EXCEPT !.shred = env.code, !.code = ""]
      OBVIOUS
    <3>1. run /\ r = s
      OBVIOUS
    <3> HIDE DEF run, r
    <3> QED  BY <2>1, <3>1
  <2>5. s[1] \notin {"failed", "spork"} => env' = Effect(env, Top.was, s)
    <3> SUFFICES ASSUME s[1] \notin {"failed", "spork"} PROVE env' = Effect(env, Top.was, s)
      OBVIOUS
    <3>1. run /\ r = s
      OBVIOUS
    <3> HIDE DEF run, r
    <3> QED  BY <2>1, <3>1
  <2> QED  BY <2>2, <2>3, <2>4, <2>5
<1>5. CASE Top.f \in Outer
  <2>1. IsView(U, Top.f, x)
    BY <1>2 DEF Within
  <2>2. s[1] \in {"reset", "load", "unload", "spork", "assert"}
    BY <1>1, <1>2, <1>5, <2>1, OuterOn DEF OuterStep, Step
  <2>3. IsView(U, Top.f, View(U, env')) /\ DOMAIN env' = EnvFields
    <3>1. CASE s[1] = "spork"
      BY <3>1, <1>2, <1>4, <2>1, SporkShown
    <3>2. CASE s[1] = "assert"
      BY <3>2, <1>2, <1>4, <2>1 DEF Effect
    <3>3. CASE s[1] \in {"reset", "load", "unload"}
      <4>1. \/ env' = env_reset(env) \/ env' = load_context(env, s[2])
            \/ env' = unload_context(env, "context" \notin error /\ Marked(s[2], "global"))
        BY <3>3, <1>4 DEF Effect
      <4> QED  BY <4>1, <1>2, <1>5, <2>1, FileShown
    <3> QED  BY <2>2, <3>1, <3>2, <3>3
  <2>4. Within(U, d, View(U, env'))
    BY <1>1, <1>2, <1>5, <2>3, OuterOn
  <2> HIDE DEF d
  <2> QED  BY <1>1, <1>3, <2>3, <2>4, OnTop
<1>6. CASE Top.f \notin Outer
  <2>1. PICK z : Moves(U, Top.f, w, s, x, z) /\ Within(U, Goes(Top), z)
    BY <1>1, <1>2, <1>6, Steps DEF Step
  <2>2. View(U, env') = z /\ DOMAIN env' = EnvFields
    <3>1. CASE s[1] = "failed"
      <4>1. Top.ok = TRUE \/ s[2][1] \in {"mark", "error"}
        <5>1. Top.f \in Firm => Top.ok = TRUE
          BY <1>1, <1>2 DEF Within
        <5> QED  BY <5>1, <2>1, <3>1 DEF Moves
      <4>2. z = x
        BY <2>1, <3>1, <1>1, Quiet
      <4>3. env' \in {env, [env EXCEPT !.shred = env.code, !.code = ""]}
        BY <4>1, <3>1, <1>4
      <4> QED  BY <4>2, <4>3, <1>2, SporkShown
    <3>2. CASE s[1] = "spork"
      <4>1. z = x
        BY <2>1, <3>2, <1>1, Quiet
      <4> QED  BY <4>1, <3>2, <1>2, <1>4, SporkShown
    <3>3. CASE s[1] \notin {"failed", "spork"}
      <4>1. View(U, Effect(env, Top.was, s)) = z /\ DOMAIN Effect(env, Top.was, s) = EnvFields
        BY <1>1, <1>2, <2>1, Shown
      <4> QED  BY <4>1, <3>3, <1>4
    <3> QED  BY <3>1, <3>2, <3>3
  <2> HIDE DEF d
  <2>3. Within(U, d, View(U, env'))
    BY <2>1, <2>2 DEF d
  <2> QED  BY <1>1, <1>3, <2>2, <2>3, OnTop
<1> QED  BY <1>5, <1>6

(* A step that is no call and leaves the environment alone. *)
LEMMA InPlaceKept ==
  ASSUME Walked, Keeping, calls # <<>>, Top.plan # <<>>, NEW d, Update(d), session' = session, env' = env,
         Step[1] \in Claims \cup {"check", "refuse", "fail", "verdict"},
         \/ d = Goes(Top) /\ Step[1] # "refuse"
         \/ d = Fails(Top) /\ Softens(U, Step) /\ Step[1] # "refuse"
         \/ d = Stops(Top) /\ MayStop(U, Step)
  PROVE  Keeping'
<1> DEFINE x == View(U, env)
           w == View(U, Top.was)
           s == Step
<1>1. Within(U, Top, x) /\ IsFrame(Top) /\ DOMAIN env = EnvFields
  BY TopSees
<1>2. d.was = Top.was
  BY <1>1, FrameFields
<1>3. Within(U, d, x)
  <2>1. CASE Top.f \in Outer
    <3>1. IsView(U, Top.f, x)
      BY <1>1 DEF Within
    <3> QED  BY <1>1, <2>1, <3>1, OuterOn
  <2>2. CASE Top.f \notin Outer
    <3>1. \/ s[1] = "refuse" /\ x = w /\ Top.f # "template_push_types"
          \/ \E z : /\ Moves(U, Top.f, w, s, x, z) /\ Within(U, Goes(Top), z)
                    /\ Softens(U, s) \/ Top.f \notin Firm => Within(U, Fails(Top), z)
      BY <1>1, <2>2, Steps DEF Step
    <3>2. \/ s[1] = "refuse" /\ x = w /\ Top.f # "template_push_types"
          \/ /\ Moves(U, Top.f, w, s, x, x) /\ Within(U, Goes(Top), x)
             /\ Softens(U, s) => Within(U, Fails(Top), x)
      <4>1. ASSUME NEW z, Moves(U, Top.f, w, s, x, z) PROVE z = x
        <5>1. s[1] \notin Called
          BY DEF Claims, Called
        <5> QED  BY <4>1, <5>1, Quiet
      <4> QED  BY <3>1, <4>1
    <3>3. MayStop(U, s) => Within(U, Stops(Top), x)
      <4>1. MayStop(U, s) => x = w /\ Top.f # "template_push_types"
        BY <3>2 DEF Moves
      <4> QED  BY <1>1, <2>2, <4>1, Stopped
    <3> QED  BY <3>2, <3>3
  <2> QED  BY <2>1, <2>2
<1> QED  BY <1>1, <1>2, <1>3, OnTop

LEMMA JudgeKept == ASSUME Walked, Keeping, Judge PROVE Keeping'
<1>1. /\ calls # <<>> /\ Top.plan # <<>> /\ Step[1] \in {"check", "refuse", "fail", "verdict"}
      /\ session' = session /\ env' = env
  BY DEF Judge
<1>2. \/ Update(Goes(Top)) /\ Step[1] # "refuse"
      \/ Update(Fails(Top)) /\ Step[1] \in {"fail", "verdict"}
      \/ Update(Stops(Top)) /\ Step[1] \in {"check", "refuse"}
  BY DEF Judge
<1>3. /\ Step[1] \in {"fail", "verdict"} => Softens(U, Step)
      /\ Step[1] \in {"check", "refuse"} => MayStop(U, Step)
  BY DEF Softens, MayStop
<1>4. CASE Update(Goes(Top)) /\ Step[1] # "refuse"
  BY <1>1, <1>4, InPlaceKept
<1>5. CASE Update(Fails(Top)) /\ Step[1] \in {"fail", "verdict"}
  BY <1>1, <1>3, <1>5, InPlaceKept
<1>6. CASE Update(Stops(Top)) /\ Step[1] \in {"check", "refuse"}
  BY <1>1, <1>3, <1>6, InPlaceKept
<1> QED  BY <1>2, <1>4, <1>5, <1>6

LEMMA HoldKept == ASSUME Walked, Keeping, Hold PROVE Keeping'
<1>1. /\ calls # <<>> /\ Top.plan # <<>> /\ Step[1] \in Claims /\ Update(Goes(Top))
      /\ session' = session /\ env' = env
  BY DEF Hold
<1>2. Step[1] # "refuse"
  BY <1>1 DEF Claims
<1> QED  BY <1>1, <1>2, InPlaceKept

LEMMA ErrKept == ASSUME Walked, Keeping, Err PROVE Keeping'
<1>1. /\ calls # <<>> /\ Top.plan # <<>> /\ Step[1] \in Claims /\ Step[2] \notin U.sure
      /\ session' = session /\ env' = env
  BY DEF Err, U
<1>2. \/ Update(Goes(Top))
      \/ Update(Fails(Top)) /\ Step[1] \in {"doubt", "shrug"}
      \/ Update(Stops(Top)) /\ Step[1] \in {"claim", "test"}
  BY DEF Err
<1>3. /\ Step[1] \in {"doubt", "shrug"} => Softens(U, Step)
      /\ Step[1] \in {"claim", "test"} => MayStop(U, Step)
      /\ Step[1] # "refuse"
  BY <1>1 DEF Softens, MayStop, Claims
<1>4. CASE Update(Goes(Top))
  BY <1>1, <1>3, <1>4, InPlaceKept
<1>5. CASE Update(Fails(Top)) /\ Step[1] \in {"doubt", "shrug"}
  BY <1>1, <1>3, <1>5, InPlaceKept
<1>6. CASE Update(Stops(Top)) /\ Step[1] \in {"claim", "test"}
  BY <1>1, <1>3, <1>6, InPlaceKept
<1> QED  BY <1>2, <1>4, <1>5, <1>6

-----------------------------------------------------------------------------
(* Calls and returns.                                                      *)

(* What one function sees is a view of any it may call. *)
LEMMA SeenBy ==
  ASSUME NEW u, NEW f, NEW g, f \in SemaFns => g \in SemaFns, NEW x, IsView(u, f, x)
  PROVE  IsView(u, g, x)
BY DEF IsView

LEMMA Begun ==
  ASSUME Here, Sober(U), NEW d, d.f \in Names, d.n \in Nodes, Prepare(U.tree, d.f, d.n),
         d.plan = Plan(d.f, d.n), d.ok = TRUE, d.was = env, IsView(U, d.f, View(U, env))
  PROVE  Within(U, d, View(U, env))
<1> DEFINE w == View(U, env)
<1>1. CASE d.f \in Outer
  <2>1. OuterPlan(d.plan)
    BY <1>1, OuterPlans
  <2> QED  BY <1>1, <2>1 DEF Within
<1>2. CASE d.f \notin Outer
  <2>1. Home(d.f)
    BY <1>2, Homes
  <2>2. Led(U, d.f, w, d.plan, w, Out(d.f, w))
    BY <2>1 DEF Home
  <2> QED  BY <1>2, <2>2 DEF Within
<1> QED  BY <1>1, <1>2

LEMMA CompileKept == ASSUME Walked, Keeping, Sober(U), Compile PROVE Keeping'
<1> DEFINE u == Head(units)
           d == [f |-> "compile_xid", n |-> u, mode |-> "loose", plan |-> Plan("compile_xid", u), ok |-> TRUE, was |-> env]
<1>1. units \in Seq(Nodes) /\ units # <<>> /\ calls' = <<d>> /\ session' = session /\ env' = env /\ calls = <<>>
  BY DEF Walked, Compile
<1>2. u \in Nodes
  BY <1>1
<1> HIDE DEF u
<1>3. d.f = "compile_xid" /\ d.n = u /\ d.plan = Plan("compile_xid", u) /\ d.ok = TRUE /\ d.was = env
  OBVIOUS
<1> HIDE DEF d
<1>4. "compile_xid" \in Outer /\ "compile_xid" \in Names /\ Prepare(U.tree, "compile_xid", u)
  BY DEF Outer, Names, Prepare, Prepared, OfTypes, OfInstances, OfParents, OfDecls, OfTemplates, OfFunctions
<1>5. IsView(U, "compile_xid", View(U, env)) /\ DOMAIN env = EnvFields
  BY <1>1 DEF Keeping
<1>6. Within(U, d, View(U, env))
  <2>1. Here
    BY DEF Walked
  <2> QED  BY <1>2, <1>3, <1>4, <1>5, <2>1, Begun
<1>7. DOMAIN calls' = {1} /\ calls'[1] = d /\ Len(calls') = 1
  BY <1>1, OneFrame
<1>8. U' = U
  BY <1>1 DEF U
<1>9. calls' # <<>>
  <2>1. Len(<<>>) = 0
    OBVIOUS
  <2> QED  BY <2>1, <1>7
<1>10. \A i \in DOMAIN calls' : Within(U, calls'[i], View(U, IF i = Len(calls') THEN env' ELSE calls'[i+1].was))
  BY <1>1, <1>6, <1>7
<1> QED  BY <1>1, <1>5, <1>8, <1>9, <1>10 DEF Keeping, Seen

LEMMA EnterKept == ASSUME Walked, Keeping, Sober(U), Enter PROVE Keeping'
<1> DEFINE k == Len(calls)
           s == Step
           d == [f |-> s[2], n |-> s[3], mode |-> s[1], plan |-> Plan(s[2], s[3]), ok |-> TRUE, was |-> env]
<1>1. /\ calls # <<>> /\ Top.plan # <<>> /\ s[1] \in Called /\ calls' = Append(calls, d) /\ session' = session /\ env' = env
  BY DEF Enter
<1>2. /\ IsSeq(calls) /\ k \in Nat \ {0} /\ k \in DOMAIN calls /\ Top = calls[k] /\ DOMAIN calls = 1 .. k
      /\ Fine(U, Top.f, Top.n, "any", Top.plan) /\ 1 \in DOMAIN Top.plan
  BY <1>1, TopFacts
<1>3. CallOk(U, Top.f, Top.n, s[2], s[3])
  BY <1>1, <1>2 DEF Fine, FineStep, Step
<1>4. /\ s[2] \in Names /\ s[3] \in Nodes /\ Prepare(U.tree, s[2], s[3])
      /\ Top.f \in SemaFns => s[2] \in SemaFns
  BY <1>3 DEF CallOk, Nodes, Prepare, Prepared, OfTypes
<1>5. Within(U, Top, View(U, env)) /\ DOMAIN env = EnvFields
  BY <1>1, TopSees
<1>6. IsView(U, s[2], View(U, env))
  <2>1. IsView(U, Top.f, View(U, env))
    BY <1>5 DEF Within
  <2> QED  BY <1>4, <2>1, SeenBy
<1>7. d.f = s[2] /\ d.n = s[3] /\ d.plan = Plan(s[2], s[3]) /\ d.ok = TRUE /\ d.was = env
  OBVIOUS
<1> HIDE DEF d, s
<1>8. Within(U, d, View(U, env))
  <2>1. Here
    BY DEF Walked
  <2> QED  BY <1>4, <1>6, <1>7, <2>1, Begun
<1>9. /\ IsSeq(calls') /\ Len(calls') = k + 1 /\ DOMAIN calls' = 1 .. k + 1
      /\ (\A i \in 1 .. k : calls'[i] = calls[i]) /\ calls'[k + 1] = d
  BY <1>1, <1>2, AppendFacts, SeqShape DEF k
<1> HIDE DEF k
<1>10. U' = U
  BY <1>1 DEF U
<1>11. \A i \in DOMAIN calls' : Within(U, calls'[i], View(U, IF i = Len(calls') THEN env' ELSE calls'[i+1].was))
  <2> SUFFICES ASSUME NEW i \in DOMAIN calls'
               PROVE  Within(U, calls'[i], View(U, IF i = Len(calls') THEN env' ELSE calls'[i+1].was))
    OBVIOUS
  <2>1. CASE i = k + 1
    BY <2>1, <1>1, <1>8, <1>9
  <2>2. CASE i = k
    <3>1. i # Len(calls') /\ calls'[i] = Top /\ calls'[i+1] = d /\ d.was = env
      BY <2>2, <1>2, <1>7, <1>9
    <3> QED  BY <3>1, <1>5
  <2>3. CASE i # k + 1 /\ i # k
    <3>1. i \in DOMAIN calls /\ i + 1 \in DOMAIN calls /\ i # Len(calls') /\ i # Len(calls)
      BY <2>3, <1>2, <1>9 DEF k
    <3>2. calls'[i] = calls[i] /\ calls'[i+1] = calls[i+1]
      BY <3>1, <1>2, <1>9
    <3>3. Within(U, calls[i], View(U, calls[i+1].was))
      BY <3>1 DEF Keeping, Seen
    <3> QED  BY <3>1, <3>2, <3>3
  <2> QED  BY <2>1, <2>2, <2>3
<1>12. calls' # <<>>
  <2>1. Len(<<>>) = 0
    OBVIOUS
  <2> QED  BY <2>1, <1>2, <1>9
<1> QED  BY <1>1, <1>5, <1>10, <1>11, <1>12 DEF Keeping, Seen

(* A function with nothing left to do is where it is to be. *)
LEMMA BackHome ==
  ASSUME NEW u, NEW c, NEW x, Within(u, c, x), c.plan = <<>>, c.f \notin Outer
  PROVE  x = Out(c.f, View(u, c.was))
<1> DEFINE w == View(u, c.was)
           y == Out(c.f, w)
<1>1. Led(u, c.f, w, <<>>, x, y)
  BY DEF Within
<1> HIDE DEF w, y
<1>2. Leads(u, c.f, w, <<>>, x, y) => x = y
  BY LeadsNone
<1>3. ~ Cut(u, c.f, w, <<>>, x)
  <2> SUFFICES ASSUME NEW q, NEW r, IsSeq(r), <<>> = q \o (Refuse \o r), Leads(u, c.f, w, q, x, w) PROVE FALSE
    BY DEF Cut
  <2> DEFINE s == Refuse \o r
  <2>1. IsSeq(q) /\ Len(q) \in Nat /\ Len(r) \in Nat /\ Len(<<>>) = 0
    BY SeqShape DEF Leads
  <2>2. IsSeq(s) /\ Len(s) = Len(Refuse) + Len(r)
    BY Refused, SeqCat
  <2> HIDE DEF s
  <2>3. Len(q \o s) = Len(q) + Len(s) /\ <<>> = q \o s
    BY <2>1, <2>2, SeqCat DEF s
  <2> QED  BY <2>1, <2>2, <2>3, Refused
<1> QED  BY <1>1, <1>2, <1>3 DEF Led, w, y

(* So its caller is on its way again, or back where it stops. *)
LEMMA AfterKept ==
  ASSUME NEW u, NEW c, IsFrame(c), c.plan # <<>>, NEW t, Calls(c, t), CallOk(u, c.f, c.n, t.f, t.n), t.plan = <<>>,
         NEW y, Within(u, t, y), Within(u, c, View(u, t.was))
  PROVE  Within(u, After(t.mode, t.n, t.ok, c), y)
<1> DEFINE d == After(t.mode, t.n, t.ok, c)
           x == View(u, t.was)
           s == c.plan[1]
           D == {Goes(c), Fails(c), Stops(c), [c EXCEPT !.plan = <<>>]}
<1>1. s[1] = t.mode /\ s[2] = t.f /\ t.mode \in Called
  BY DEF Calls
<1>2. IsView(u, t.f, y) /\ IsView(u, c.f, View(u, c.was)) /\ IsView(u, c.f, x)
  BY DEF Within
<1>3. \/ d = [c EXCEPT !.plan = <<>>] /\ t.mode = "flow"
      \/ d = Goes(c)
      \/ d = Stops(c) /\ t.mode \in {"must", "loud"} /\ t.ok # TRUE
      \/ d = Fails(c) /\ t.mode \notin {"must", "loud", "loose", "blot"}
  BY DEF After
<1>4. d \in D
  BY <1>3
<1>5. t.f \notin Outer => y = Out(t.f, x)
  BY BackHome
<1>6. t.f = "template_push_types" => t.ok = TRUE
  BY DEF Within, Firm
<1>7. CASE c.f \in Outer
  <2>1. OuterStep(s)
    BY <1>7, OuterOn, <1>2
  <2>2. t.f # "template_push_types"
    BY <1>1, <2>1 DEF OuterStep, Called
  <2>3. IsView(u, c.f, y)
    <3>1. CASE t.f \in Outer
      <4>1. t.f \notin SemaFns
        BY <3>1 DEF Outer, SemaFns
      <4> QED  BY <1>2, <4>1, SeenBy
    <3>2. CASE t.f \notin Outer
      <4>1. y = x
        BY <1>5, <2>2, <3>2 DEF Out
      <4> QED  BY <1>2, <4>1
    <3> QED  BY <3>1, <3>2
  <2> HIDE DEF d
  <2>5. \A e \in D : Within(u, e, y)
    <3> HIDE DEF x
    <3>1. Within(u, c, x) /\ c.f \in Outer /\ c.plan # <<>> /\ IsView(u, c.f, y)
      BY <1>7, <2>3 DEF x
    <3> DEFINE e == [c EXCEPT !.plan = <<>>]
    <3>2. Within(u, e, y)
      BY <3>1, OuterOn
    <3>3. Within(u, Goes(c), y) /\ Within(u, Fails(c), y) /\ Within(u, Stops(c), y)
      BY <3>1, OuterOn
    <3> QED  BY <3>2, <3>3
  <2>4. Within(u, d, y)
    <3> HIDE DEF D
    <3> QED  BY <1>4, <2>5
  <2> QED  BY <2>4 DEF d
<1>8. CASE c.f \notin Outer
  <2>1. t.f \notin Outer
    BY <1>8 DEF CallOk
  <2>2. y = Out(t.f, x)
    BY <1>5, <2>1
  <2>3. s[1] # "refuse"
    BY <1>1 DEF Called
  <2>4. PICK z : /\ Moves(u, c.f, View(u, c.was), s, x, z) /\ Within(u, Goes(c), z)
                 /\ Softens(u, s) \/ c.f \notin Firm => Within(u, Fails(c), z)
    BY <1>8, <2>3, Steps
  <2>5. z = y
    <3>1. z = Moved(u, View(u, c.was), s, x)
      BY <2>4 DEF Moves
    <3> QED  BY <1>1, <2>2, <3>1 DEF Moved, Out, Called
  <2>6. CASE d = Goes(c)
    BY <2>4, <2>5, <2>6
  <2>7. CASE d = Fails(c) /\ t.mode \notin {"must", "loud", "loose", "blot"}
    <3>1. Softens(u, s)
      BY <1>1, <2>7 DEF Softens, Called
    <3> QED  BY <2>4, <2>5, <2>7, <3>1
  <2>8. CASE \/ d = [c EXCEPT !.plan = <<>>] /\ t.mode = "flow"
             \/ d = Stops(c) /\ t.mode \in {"must", "loud"} /\ t.ok # TRUE
    <3>1. t.f # "template_push_types"
      <4>1. s[1] \in Called /\ s[2] = "template_push_types" => s[1] \in {"must", "loose"}
        BY <2>4 DEF Moves
      <4> QED  BY <1>1, <1>6, <2>8, <4>1
    <3>2. MayStop(u, s)
      BY <1>1, <2>8, <3>1 DEF MayStop
    <3>3. x = View(u, c.was) /\ c.f # "template_push_types"
      BY <2>4, <3>2 DEF Moves
    <3>4. y = x
      BY <2>2, <3>1 DEF Out
    <3>5. Within(u, Stops(c), x) /\ Within(u, [c EXCEPT !.plan = <<>>], x)
      BY <1>8, <3>3, Stopped
    <3> QED  BY <2>8, <3>4, <3>5
  <2> QED  BY <1>3, <2>6, <2>7, <2>8
<1> QED  BY <1>7, <1>8

LEMMA ReturnKept == ASSUME Walked, Keeping, Return PROVE Keeping'
<1>1. calls # <<>> /\ session' = session /\ env' = env /\ Top.plan = <<>>
  BY DEF Return
<1>2. Within(U, Top, View(U, env)) /\ DOMAIN env = EnvFields
  BY <1>1, TopSees
<1>3. IsSeq(calls) /\ Len(calls) \in Nat \ {0} /\ DOMAIN calls = 1 .. Len(calls) /\ Top = calls[Len(calls)]
  BY <1>1, TopFacts
<1>4. U' = U
  BY <1>1 DEF U
<1>5. CASE Len(calls) = 1
  <2>1. calls' = <<>>
    BY <1>5 DEF Return
  <2>2. Top.f \in Outer
    <3>1. 1 \in DOMAIN calls
      BY <1>3, <1>5
    <3> QED  BY <3>1, <1>3, <1>5 DEF Walked, Linked
  <2>3. Top.f \notin SemaFns /\ IsView(U, Top.f, View(U, env))
    BY <2>2, <1>2 DEF Within, Outer, SemaFns
  <2>4. IsView(U, "compile_xid", View(U, env))
    BY <2>3, SeenBy
  <2>5. DOMAIN calls' = {}
    BY <2>1, SeqNone
  <2> QED  BY <1>1, <1>2, <1>4, <2>4, <2>5 DEF Keeping
<1>6. CASE Len(calls) # 1
  <2> DEFINE k == Len(calls) - 1
             d == After(Top.mode, Top.n, Top.ok, Last(Front(calls)))
  <2>1. calls' = Append(Front(Front(calls)), d)
    BY <1>6 DEF Return
  <2>3. k \in Nat \ {0} /\ k \in DOMAIN calls /\ k + 1 \in DOMAIN calls /\ (k - 1) + 1 = k /\ k + 1 = Len(calls)
        /\ k # Len(calls)
    <3> DEFINE n == Len(calls)
    <3>1. n \in Nat \ {0} /\ n # 1 /\ k = n - 1 /\ DOMAIN calls = 1 .. n
      BY <1>3, <1>6
    <3> HIDE DEF n, k
    <3>2. k \in Nat \ {0} /\ k \in 1 .. n /\ k + 1 \in 1 .. n /\ (k - 1) + 1 = k /\ k + 1 = n /\ k # n
      BY <3>1
    <3> QED  BY <3>1, <3>2 DEF n
  <2>4. IsSeq(Front(calls)) /\ Len(Front(calls)) = k /\ \A i \in 1 .. k : Front(calls)[i] = calls[i]
    BY <1>1, <1>3, FrontFacts
  <2> HIDE DEF k
  <2>5. Front(calls) # <<>>
    <3>1. Len(<<>>) = 0
      OBVIOUS
    <3> QED  BY <3>1, <2>3, <2>4
  <2>6. /\ IsSeq(Front(Front(calls))) /\ Len(Front(Front(calls))) = k - 1 /\ Last(Front(calls)) = Front(calls)[k]
        /\ \A i \in 1 .. k - 1 : Front(Front(calls))[i] = Front(calls)[i]
    BY <2>4, <2>5, FrontFacts
  <2>7. Last(Front(calls)) = calls[k] /\ \A i \in 1 .. k - 1 : Front(Front(calls))[i] = calls[i]
    BY <2>3, <2>4, <2>6
  <2>8. /\ IsSeq(calls') /\ Len(calls') = (k - 1) + 1
        /\ (\A i \in 1 .. k - 1 : calls'[i] = Front(Front(calls))[i]) /\ calls'[(k - 1) + 1] = d
    BY <2>1, <2>6, AppendFacts
  <2>9. d = After(Top.mode, Top.n, Top.ok, calls[k])
    BY <2>7
  <2> HIDE DEF d
  <2>10. IsSeq(calls') /\ Len(calls') = k /\ calls'[k] = d /\ \A i \in 1 .. k : i # k => calls'[i] = calls[i]
    BY <2>3, <2>7, <2>8
  <2>11. /\ IsFrame(calls[k]) /\ Calls(calls[k], Top) /\ Fine(U, calls[k].f, calls[k].n, "any", calls[k].plan)
    BY <1>3, <2>3 DEF Walked, FramesOk, Linked
  <2>12. CallOk(U, calls[k].f, calls[k].n, Top.f, Top.n) /\ calls[k].plan # <<>>
    <3>1. calls[k].plan # <<>>
      <4>1. DOMAIN <<>> = {}
        OBVIOUS
      <4> QED  BY <4>1, <2>11 DEF Calls
    <3> QED  BY <2>11, <3>1 DEF Calls, Fine, FineStep
  <2>13. Within(U, calls[k], View(U, Top.was))
    <3>1. Within(U, calls[k], Seen(k))
      BY <2>3 DEF Keeping
    <3>2. Seen(k) = View(U, calls[k + 1].was) /\ calls[k + 1] = Top
      BY <1>3, <2>3 DEF Seen
    <3> QED  BY <3>1, <3>2
  <2>14. Within(U, d, View(U, env))
    BY <1>1, <1>2, <2>9, <2>11, <2>12, <2>13, AfterKept
  <2>15. d.was = calls[k].was
    <3>1. d \in {Goes(calls[k]), Fails(calls[k]), Stops(calls[k]), [calls[k] EXCEPT !.plan = <<>>]}
      BY <2>9 DEF After
    <3> QED  BY <3>1, <2>11, FrameFields
  <2> QED  BY <1>1, <1>2, <2>3, <2>10, <2>14, <2>15, Renewed
<1> QED  BY <1>5, <1>6

-----------------------------------------------------------------------------
(* So the environment is left as it was found.                             *)

LEMMA InitKeeping == Init => Keeping
<1> SUFFICES ASSUME Init PROVE Keeping
  OBVIOUS
<1>1. env = Bare /\ calls = <<>>
  BY DEF Init
<1>2. DOMAIN calls = {}
  BY <1>1, SeqNone
<1>3. Seeable(U, Bare)
  <2> DEFINE e == Bare
  <2>1. /\ e.nspcs = <<>> /\ e.breaks = 0 /\ e.effects = 1 /\ e.in_func = FALSE /\ e.handling = FALSE
        /\ e.open = EmptyBag /\ e.types = EmptyBag /\ e.depth = 0
    BY DEF Bare
  <2>2. DOMAIN e = EnvFields
    BY EnvFacts
  <2>3. IsABag(EmptyBag)
    <3>1. DOMAIN EmptyBag = {} /\ EmptyBag = [x \in {} |-> EmptyBag[x]]
      BY DEF EmptyBag, SetToBag
    <3> QED  BY <3>1 DEF IsABag, BagToSet, EmptyBag, SetToBag
  <2>4. Depth(U, 0) \in Nat /\ IsSeq(<<>>)
    BY SeqNone DEF Depth
  <2> HIDE DEF e
  <2>5. Seeable(U, e)
    BY <2>1, <2>2, <2>3, <2>4 DEF Seeable
  <2> QED  BY <2>5 DEF e
<1>4. IsView(U, "compile_xid", View(U, Bare))
  BY <1>3, ViewShown
<1> QED  BY <1>1, <1>2, <1>4, EnvFacts DEF Keeping

LEMMA NextKeeping == Walked /\ Keeping /\ Sober(U) /\ [Next]_vars => Keeping'
<1> SUFFICES ASSUME Walked, Keeping, Sober(U), [Next]_vars PROVE Keeping'
  OBVIOUS
<1>1. CASE UNCHANGED vars
  <2>1. U' = U
    BY <1>1 DEF vars, U
  <2> QED  BY <1>1, <2>1 DEF vars, Keeping, Seen
<1>2. CASE Done
  BY <1>1, <1>2 DEF Done
<1> QED  BY <1>1, <1>2, CompileKept, EnterKept, SkipKept, ChangeKept, JudgeKept, HoldKept,
            ErrKept, ReturnKept DEF Next

LEMMA SameUnit == [Next]_vars => session' = session
BY DEF Next, Compile, Enter, Skip, Change, Judge, Hold, Err, Return, Done, vars

AsFound(fields) ==
  calls # <<>> /\ Top.plan = <<>>
    /\ Top.f \notin {"compile_xid", "compile", "passes", "template_push_types"}
    => \A x \in fields : env[x] = Top.was[x]

LEMMA KeptAsFound ==
  ASSUME Walked, Keeping
  PROVE  AsFound(Kept \ {"depth"}) /\ (Level(U) => AsFound({"depth"}))
<1> SUFFICES ASSUME calls # <<>>, Top.plan = <<>>,
                    Top.f \notin {"compile_xid", "compile", "passes", "template_push_types"}
             PROVE  (\A x \in Kept \ {"depth"} : env[x] = Top.was[x]) /\ (Level(U) => env["depth"] = Top.was["depth"])
  BY DEF AsFound
<1> DEFINE e == env
           o == Top.was
           x == View(U, e)
           y == View(U, o)
<1>1. Within(U, Top, x) /\ Top.f \notin Outer
  BY TopSees DEF Outer
<1>2. x = y
  BY <1>1, BackHome DEF Out
<1>3. /\ x.place = <<e.curr, e.class, e.nspcs>> /\ x.depth = Depth(U, e.depth)
      /\ x.flags = [g \in Flags |-> e[g]] /\ x.open = e.open /\ x.types = e.types
  BY ViewFields
<1>4. /\ y.place = <<o.curr, o.class, o.nspcs>> /\ y.depth = Depth(U, o.depth)
      /\ y.flags = [g \in Flags |-> o[g]] /\ y.open = o.open /\ y.types = o.types
  BY ViewFields
<1> HIDE DEF x, y, e, o
<1>5. e.curr = o.curr /\ e.class = o.class /\ e.nspcs = o.nspcs
  <2>1. <<e.curr, e.class, e.nspcs>> = <<o.curr, o.class, o.nspcs>>
    BY <1>2, <1>3, <1>4
  <2> QED  BY <2>1
<1>6. \A g \in Flags : e[g] = o[g]
  <2> SUFFICES ASSUME NEW g \in Flags PROVE e[g] = o[g]
    OBVIOUS
  <2>1. x.flags[g] = e[g] /\ y.flags[g] = o[g]
    BY <1>3, <1>4
  <2> QED  BY <1>2, <2>1
<1>7. e.open = o.open /\ e.types = o.types
  BY <1>2, <1>3, <1>4
<1>8. Level(U) => e.depth = o.depth
  BY <1>2, <1>3, <1>4 DEF Depth
<1>9. Kept \ {"depth"} = {"curr", "class", "nspcs", "open", "types"} \cup Flags
  BY DEF Kept, Flags
<1>10. \A g \in Kept \ {"depth"} : e[g] = o[g]
  BY <1>5, <1>6, <1>7, <1>9
<1> QED  BY <1>8, <1>10 DEF e, o

LEMMA Returning == Spec => [](Walked /\ (Sober(U) => Keeping))
<1> DEFINE Inv == Walked /\ (Sober(U) => Keeping)
<1>1. Init => Inv
  BY InitWalked, InitKeeping
<1>2. Inv /\ [Next]_vars => Inv'
  <2>1. [Next]_vars => (Sober(U)' <=> Sober(U))
    <3>1. [Next]_vars => U' = U
      BY SameUnit DEF U
    <3> QED  BY <3>1 DEF Sober, Flagged
  <2> QED  BY <2>1, NextWalked, NextKeeping
<1> QED  BY <1>1, <1>2, PTL DEF Spec

(* Whatever fails below it, a function leaves the environment as it found  *)
(* it: what env_push, nspc_push_value, nspc_push_type and the assignments  *)
(* to env->func and its flags change is undone wherever the function ends, *)
(* in every program without what Sober excludes.  The depth aside: see     *)
(* Level.                                                                  *)
THEOREM ScopesAsFound == Spec => [](Sober(U) => AsFound(Kept \ {"depth"}))
<1>1. Walked /\ (Sober(U) => Keeping) => (Sober(U) => AsFound(Kept \ {"depth"}))
  BY KeptAsFound
<1> QED  BY <1>1, Returning, PTL

(* And all of it, the depth too, where nothing pops to depth 0 inside a    *)
(* block (scan1_class_tmpl, check_class_tmpl, the scans of a global type   *)
(* of functions) and no if counts its depth down without a way back.       *)
THEOREM EnvironmentAsFound == Spec => [](Sober(U) /\ Level(U) => LeftAsFound)
<1>1. Walked /\ (Sober(U) => Keeping) => (Sober(U) /\ Level(U) => LeftAsFound)
  BY KeptAsFound DEF LeftAsFound, AsFound
<1> QED  BY <1>1, Returning, PTL

=============================================================================
