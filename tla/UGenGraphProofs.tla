-------------------------- MODULE UGenGraphProofs --------------------------
(***************************************************************************)
(* The invariant of UGenGraph is inductive, for any number of units, of    *)
(* channels and of edges; from it, that the ends of edges agree, and that  *)
(* each pull computes what the blackhole hears, once, and sources first.   *)
(***************************************************************************)
EXTENDS UGenGraph, FiniteSums

-----------------------------------------------------------------------------
(* Nets.                                                                   *)

(* A unit has a channel at least, and one only unless it is multi.         *)
LEMMA ChansFact ==
  ASSUME NEW u \in Units
  PROVE  /\ Ins[u] \in Nat /\ Outs[u] \in Nat /\ Ins[u] >= 1 /\ Outs[u] >= 1
         /\ Chans(u) \in Nat /\ Chans(u) >= 1
         /\ Ins[u] <= Chans(u) /\ Outs[u] <= Chans(u)
         /\ u \notin Multi => Chans(u) = 1
<1>1. /\ Ins[u] \in Nat /\ Outs[u] \in Nat /\ Ins[u] >= 1 /\ Outs[u] >= 1
      /\ u \notin Multi => Ins[u] = 1 /\ Outs[u] = 1
  BY UGenAssumption
<1> QED  BY <1>1 DEF Chans

(* The nets of a unit are its channels and its trigger.                    *)
LEMMA NetsFact ==
  /\ \A u \in Units : /\ NetsOf(u) \subseteq Nets
                      /\ \A i \in 1 .. Chans(u) : <<u, i>> \in NetsOf(u)
                      /\ \A n \in NetsOf(u) : Owner(n) = u
                      /\ u \in Trig => Trigger(u) \in NetsOf(u)
  /\ \A n \in Nets : /\ Owner(n) \in Units
                     /\ n \in NetsOf(Owner(n))
                     /\ Index(n) # 0 => Index(n) \in 1 .. Chans(Owner(n))
                     /\ n = <<Owner(n), Index(n)>>
<1>1. \A u \in Units : /\ NetsOf(u) \subseteq Nets
                       /\ \A i \in 1 .. Chans(u) : <<u, i>> \in NetsOf(u)
                       /\ \A n \in NetsOf(u) : Owner(n) = u
                       /\ u \in Trig => Trigger(u) \in NetsOf(u)
  BY DEF Nets, NetsOf, Owner, Trigger
<1>2. ASSUME NEW n \in Nets
      PROVE  /\ Owner(n) \in Units
             /\ n \in NetsOf(Owner(n))
             /\ Index(n) # 0 => Index(n) \in 1 .. Chans(Owner(n))
             /\ n = <<Owner(n), Index(n)>>
  <2>1. PICK u \in Units : n \in NetsOf(u)
    BY DEF Nets
  <2>2. Owner(n) = u
    BY <1>1, <2>1
  <2>3. \/ \E i \in 1 .. Chans(u) : n = <<u, i>>
        \/ n = <<u, 0>>
    BY <2>1 DEF NetsOf, Trigger
  <2> QED  BY <2>1, <2>2, <2>3 DEF Owner, Index
<1> QED  BY <1>1, <1>2

(* The flag of a unit tells its owner, and is no trigger's.                *)
LEMMA FlagFact ==
  ASSUME NEW u \in Units
  PROVE  /\ Owner(Flag(u)) = u /\ Index(Flag(u)) # 0
         /\ u \notin Multi => Flag(u) = <<u, 1>>
BY DEF Flag, Owner, Index

(* The elements of a concatenation, its head and its tail.                 *)
LEMMA ConcatFact ==
  ASSUME NEW S, NEW a \in Seq(S), NEW b \in Seq(S)
  PROVE  /\ a \o b \in Seq(S) /\ Len(a \o b) = Len(a) + Len(b)
         /\ Len(a) \in Nat /\ Len(b) \in Nat
         /\ a # <<>> => a \o b # <<>> /\ Head(a \o b) = Head(a)
         /\ Range(a \o b) = Range(a) \cup Range(b)
<1>1. /\ a \o b \in Seq(S) /\ Len(a \o b) = Len(a) + Len(b)
      /\ Len(a) \in Nat /\ Len(b) \in Nat
      /\ \A i \in 1 .. Len(a) : (a \o b)[i] = a[i]
      /\ \A i \in 1 .. Len(b) : (a \o b)[Len(a) + i] = b[i]
  OBVIOUS
<1>2. ASSUME a # <<>> PROVE a \o b # <<>> /\ Head(a \o b) = Head(a)
  BY <1>1, <1>2
<1>3. ASSUME NEW x \in Range(a \o b) PROVE x \in Range(a) \cup Range(b)
  <2>1. PICK i \in 1 .. Len(a) + Len(b) : x = (a \o b)[i]
    BY <1>1, <1>3 DEF Range
  <2>2. CASE i <= Len(a)
    BY <2>1, <2>2, <1>1 DEF Range
  <2>3. CASE i > Len(a)
    <3>1. i - Len(a) \in 1 .. Len(b) /\ i = Len(a) + (i - Len(a))
      BY <1>1, <2>3
    <3>2. x = b[i - Len(a)]
      BY <1>1, <2>1, <3>1
    <3> QED  BY <3>1, <3>2 DEF Range
  <2> QED  BY <1>1, <2>2, <2>3
<1>4. ASSUME NEW x \in Range(a) PROVE x \in Range(a \o b)
  BY <1>1, <1>4 DEF Range
<1>5. ASSUME NEW x \in Range(b) PROVE x \in Range(a \o b)
  <2>1. PICK i \in 1 .. Len(b) : x = b[i]
    BY <1>1, <1>5 DEF Range
  <2>2. Len(a) + i \in 1 .. Len(a) + Len(b) /\ x = (a \o b)[Len(a) + i]
    BY <1>1, <2>1
  <2> QED  BY <2>2, <1>1 DEF Range
<1> QED  BY <1>1, <1>2, <1>3, <1>4, <1>5

(* A call starts with the first channel and runs every net of its unit. *)
LEMMA CallFact ==
  ASSUME NEW u \in Units
  PROVE  /\ Call(u) \in Frames
         /\ Call(u).unit = u /\ Call(u).todo = {}
         /\ Call(u).nets # <<>> /\ Head(Call(u).nets) = <<u, 1>>
         /\ Range(Call(u).nets) = NetsOf(u)
<1>1. /\ Chans(u) \in Nat /\ Chans(u) >= 1
      /\ NetsOf(u) \subseteq Nets
      /\ \A i \in 1 .. Chans(u) : <<u, i>> \in NetsOf(u)
      /\ u \in Trig => Trigger(u) \in NetsOf(u)
  BY ChansFact, NetsFact
<1>2. PICK cs : cs = Channels(u)
  OBVIOUS
<1>3. PICK tr : tr = IF u \in Trig THEN <<Trigger(u)>> ELSE <<>>
  OBVIOUS
<1>4. PICK la : la = IF u = Hole THEN <<<<u, 1>>>> ELSE <<>>
  OBVIOUS
<1>5. Call(u) = [unit |-> u, todo |-> {}, nets |-> (cs \o tr) \o la]
  BY <1>2, <1>3, <1>4 DEF Call
<1>6. /\ cs \in Seq(NetsOf(u)) /\ Len(cs) = Chans(u)
      /\ \A i \in 1 .. Chans(u) : cs[i] = <<u, i>>
  <2>1. /\ cs = [i \in 1 .. Chans(u) |-> <<u, i>>]
        /\ \A i \in 1 .. Chans(u) : <<u, i>> \in NetsOf(u)
    BY <1>1, <1>2 DEF Channels
  <2>2. cs \in [1 .. Chans(u) -> NetsOf(u)]
    BY <2>1
  <2>3. cs \in Seq(NetsOf(u)) /\ Len(cs) = Chans(u)
    BY <2>2, <1>1
  <2> QED  BY <2>1, <2>3
<1>7. tr \in Seq(NetsOf(u)) /\ la \in Seq(NetsOf(u))
  BY <1>1, <1>3, <1>4
<1>8. PICK ct : ct = cs \o tr
  OBVIOUS
<1>9. /\ ct \in Seq(NetsOf(u)) /\ ct # <<>> /\ Head(ct) = <<u, 1>>
      /\ Range(ct) = Range(cs) \cup Range(tr)
  <2>1. cs # <<>> /\ Head(cs) = <<u, 1>>
    BY <1>1, <1>6
  <2> QED  BY <1>6, <1>7, <1>8, <2>1, ConcatFact
<1>10. NetsOf(u) \subseteq Range(cs) \cup Range(tr) 
  <2>1. ASSUME NEW n \in NetsOf(u) PROVE n \in Range(cs) \cup Range(tr)
    <3>1. CASE \E i \in 1 .. Chans(u) : n = <<u, i>>
      BY <3>1, <1>6 DEF Range
    <3>2. CASE u \in Trig /\ n = Trigger(u)
      <4>1. tr = <<n>>
        BY <3>2, <1>3
      <4> QED  BY <4>1 DEF Range
    <3> QED  BY <3>1, <3>2 DEF NetsOf
  <2> QED  BY <2>1
<1>11. \A t \in Seq(NetsOf(u)) : Range(t) \subseteq NetsOf(u) /\ t \in Seq(Nets)
  BY <1>1 DEF Range
<1>12. /\ ct \o la \in Seq(NetsOf(u)) /\ ct \o la # <<>> /\ Head(ct \o la) = <<u, 1>>
       /\ Range(ct \o la) = Range(ct) \cup Range(la)
  BY <1>7, <1>9, ConcatFact
<1>13. Range(ct \o la) = NetsOf(u)
  BY <1>6, <1>7, <1>9, <1>10, <1>11, <1>12
<1> QED  BY <1>5, <1>8, <1>11, <1>12, <1>13 DEF Frames

-----------------------------------------------------------------------------
(* What the blackhole hears.                                               *)

(* The heard units contain the blackhole and their own sources.            *)
LEMMA HeardFact ==
  ASSUME TypeOK
  PROVE  /\ \A u \in Units : Sources(u) \subseteq Units
         /\ Hole \in Heard
         /\ \A u \in Heard : Sources(u) \subseteq Heard
         /\ \A S \in SUBSET Units :
              (Hole \in S /\ \A v \in S : Sources(v) \subseteq S) => Heard \subseteq S
<1>1. \A u \in Units : Sources(u) \subseteq Units
  BY NetsFact DEF Sources, SourcesOf
<1>2. Hole \in Heard
  BY UGenAssumption DEF Heard
<1>3. ASSUME NEW u \in Heard, NEW v \in Sources(u) PROVE v \in Heard
  <2>1. u \in Units /\ v \in Units
    BY <1>1 DEF Heard
  <2>2. ASSUME NEW S \in SUBSET Units, Hole \in S, \A w \in S : Sources(w) \subseteq S
        PROVE  v \in S
    <3>1. u \in S
      BY <2>2 DEF Heard
    <3> QED  BY <3>1, <2>2
  <2> QED  BY <2>1, <2>2 DEF Heard
<1>4. \A S \in SUBSET Units :
        (Hole \in S /\ \A v \in S : Sources(v) \subseteq S) => Heard \subseteq S
  BY DEF Heard
<1> QED  BY <1>1, <1>2, <1>3, <1>4

-----------------------------------------------------------------------------
(* What programs do, between the pulls.                                    *)

(* The lone blackhole has no edge and no flag.                             *)
LEMMA InitInv == Init => IInv
<1> SUFFICES ASSUME Init PROVE IInv
  OBVIOUS
<1>1. TypeOK
  BY UGenAssumption DEF Init, TypeOK, Nowhere
<1>2. EdgesAgree /\ EdgesStartAtChannels
  BY DEF Init, EdgesAgree, EdgesStartAtChannels, SourcesOf, Nowhere
<1>3. OncePerSample /\ FlagsSound
  BY DEF Init, OncePerSample, FlagsSound
<1>4. CallsSound /\ TicksSound /\ FromTheHole
  BY DEF Init, CallsSound, TicksSound, FromTheHole, Calm
<1> QED  BY <1>1, <1>2, <1>3, <1>4 DEF IInv

(* A step between the pulls has the graph to answer for, and the flags.    *)
LEMMA CalmStep ==
  ASSUME IInv, Calm, UNCHANGED <<stack, ticks>>,
         live' \subseteq Units, Hole \in live',
         from' \in [Nets -> [Nets -> Nat]], to' \in [Nets -> [Nets -> Nat]],
         DOMAIN size' = Nets, done' \subseteq done,
         \A d \in done' : Owner(d) \in live',
         EdgesAgree', EdgesStartAtChannels'
  PROVE  IInv'
<1>1. TypeOK'
  BY DEF IInv, TypeOK, Flag
<1>2. Calm'
  BY DEF Calm
<1>3. OncePerSample' /\ FlagsSound'
  BY <1>2 DEF IInv, OncePerSample, FlagsSound
<1>4. CallsSound' /\ TicksSound' /\ FromTheHole'
  BY <1>2 DEF CallsSound, TicksSound, FromTheHole, Calm
<1> QED  BY <1>1, <1>3, <1>4 DEF IInv

(* A new unit has no edges yet.                                            *)
LEMMA NewInv ==
  ASSUME IInv, NEW u \in Units, New(u)
  PROVE  IInv'
<1>1. EdgesAgree' /\ EdgesStartAtChannels'
  BY DEF IInv, New, EdgesAgree, EdgesStartAtChannels, SourcesOf
<1>2. \A d \in done' : Owner(d) \in live'
  BY DEF IInv, New, FlagsSound
<1> QED  BY <1>1, <1>2, CalmStep DEF New, IInv, TypeOK, FromTheHole

(* The nets an operator connects are those of units that exist; its left   *)
(* side has no trigger.                                                    *)
LEMMA EndpointsFact ==
  ASSUME TypeOK, NEW ls \in Lefts, NEW rs \in Rights
  PROVE  /\ ls \in Seq(Nets) /\ Len(ls) >= 1
         /\ rs \in Seq(Nets) /\ Len(rs) >= 1
         /\ \A n \in Range(ls) : Owner(n) \in live /\ Index(n) # 0
         /\ \A n \in Range(rs) : Owner(n) \in live
<1>1. ASSUME NEW u \in live, NEW k \in Nat, k >= 1, k <= Chans(u)
      PROVE  /\ FirstNets(u, k) \in Seq(Nets) /\ Len(FirstNets(u, k)) >= 1
             /\ \A n \in Range(FirstNets(u, k)) : Owner(n) = u /\ Index(n) # 0
  <2>1. u \in Units /\ Chans(u) \in Nat
    BY ChansFact DEF TypeOK
  <2>2. \A i \in 1 .. k : <<u, i>> \in Nets
    BY <2>1, <1>1, NetsFact
  <2>3. FirstNets(u, k) \in [1 .. k -> Nets]
    BY <2>2 DEF FirstNets
  <2>4. FirstNets(u, k) \in Seq(Nets) /\ Len(FirstNets(u, k)) = k
    BY <2>3, <1>1
  <2>5. \A n \in Range(FirstNets(u, k)) : Owner(n) = u /\ Index(n) # 0
    BY DEF FirstNets, Range, Owner, Index
  <2> QED  BY <2>4, <2>5, <1>1
<1>2. ASSUME NEW u \in live, NEW s \in Single(u)
      PROVE  /\ s \in Seq(Nets) /\ Len(s) >= 1
             /\ \A n \in Range(s) : Owner(n) = u /\ Index(n) # 0
  <2>1. PICK i \in 1 .. Chans(u) : s = << <<u, i>> >>
    BY DEF Single
  <2>2. <<u, i>> \in Nets
    BY NetsFact DEF TypeOK
  <2>3. Chans(u) \in Nat
    BY ChansFact DEF TypeOK
  <2>4. i # 0
    BY <2>3
  <2>5. s \in Seq(Nets) /\ Len(s) >= 1 /\ Range(s) = {<<u, i>>}
    BY <2>1, <2>2 DEF Range
  <2> QED  BY <2>4, <2>5 DEF Owner, Index
<1>3. ASSUME NEW u \in Trig \cap live
      PROVE  /\ <<Trigger(u)>> \in Seq(Nets) /\ Len(<<Trigger(u)>>) >= 1
             /\ \A n \in Range(<<Trigger(u)>>) : Owner(n) = u
  <2>1. Trigger(u) \in Nets
    BY NetsFact DEF TypeOK
  <2>2. Range(<<Trigger(u)>>) = {Trigger(u)}
    BY DEF Range
  <2>3. Owner(Trigger(u)) = u
    BY DEF Owner, Trigger
  <2> QED  BY <2>1, <2>2, <2>3
<1>4. \A u \in live : /\ Ins[u] \in Nat /\ Ins[u] >= 1 /\ Ins[u] <= Chans(u)
                     /\ Outs[u] \in Nat /\ Outs[u] >= 1 /\ Outs[u] <= Chans(u)
  BY ChansFact DEF TypeOK
<1>5. /\ ls \in Seq(Nets) /\ Len(ls) >= 1
      /\ \A n \in Range(ls) : Owner(n) \in live /\ Index(n) # 0
  <2>1. PICK u \in live : ls = FirstNets(u, Outs[u]) \/ ls \in Single(u)
    BY DEF Lefts
  <2> QED  BY <2>1, <1>1, <1>2, <1>4
<1>6. /\ rs \in Seq(Nets) /\ Len(rs) >= 1
      /\ \A n \in Range(rs) : Owner(n) \in live
  <2>1. CASE \E u \in live : rs = FirstNets(u, Ins[u]) \/ rs \in Single(u)
    BY <2>1, <1>1, <1>2, <1>4
  <2>2. CASE \E u \in Trig \cap live : rs = <<Trigger(u)>>
    BY <2>2, <1>3
  <2> QED  BY <2>1, <2>2 DEF Rights
<1> QED  BY <1>5, <1>6

(* Nets meet only if the operator names both.                              *)
LEMMA PairsFact ==
  ASSUME NEW ls \in Seq(Nets), NEW rs \in Seq(Nets), Len(ls) >= 1, Len(rs) >= 1,
         NEW a \in Nets, NEW b \in Nets
  PROVE  /\ Pairs(ls, rs, a, b) \in Nat
         /\ Pairs(ls, rs, a, b) > 0 => a \in Range(ls) /\ b \in Range(rs)
<1> DEFINE At(s, i) == s[(i % Len(s)) + 1]
<1>1. PICK w \in Nat : w = Wider(ls, rs)
  BY DEF Wider
<1>2. PICK P : P = {i \in 0 .. w - 1 : At(ls, i) = a /\ At(rs, i) = b}
  OBVIOUS
<1>3. Pairs(ls, rs, a, b) = Cardinality(P)
  BY <1>1, <1>2 DEF Pairs
<1>4. IsFiniteSet(P)
  <2>1. P \subseteq 0 .. w - 1
    BY <1>2
  <2>2. IsFiniteSet(0 .. w - 1)
    BY FS_Interval
  <2> QED  BY <2>1, <2>2, FS_Subset
<1>5. ASSUME P # {} PROVE a \in Range(ls) /\ b \in Range(rs)
  <2>1. PICK i : i \in P
    BY <1>5
  <2>2. i \in 0 .. w - 1 /\ At(ls, i) = a /\ At(rs, i) = b
    <3> HIDE DEF At
    <3> QED  BY <1>2, <2>1
  <2>3. i \in Nat
    BY <2>2
  <2>4. ASSUME NEW s \in Seq(Nets), Len(s) >= 1 PROVE At(s, i) \in Range(s)
    <3>1. PICK k \in Nat : k = Len(s) /\ k > 0
      BY <2>4
    <3>2. i % k \in 0 .. k - 1
      BY <3>1, <2>3
    <3>3. (i % k) + 1 \in DOMAIN s
      BY <3>1, <3>2, <2>4
    <3> QED  BY <3>1, <3>3 DEF Range
  <2> QED  BY <2>2, <2>4
<1>6. Cardinality(P) \in Nat /\ (P = {} => Cardinality(P) = 0)
  BY <1>4, FS_CardinalityType, FS_EmptySet
<1> QED  BY <1>3, <1>5, <1>6

(* Connect adds each edge at both ends.                                    *)
LEMMA ConnectInv ==
  ASSUME IInv, NEW ls \in Lefts, NEW rs \in Rights, Connect(ls, rs)
  PROVE  IInv'
<1>1. TypeOK
  BY DEF IInv
<1>2. \A a, b \in Nets :
        /\ Pairs(ls, rs, a, b) \in Nat
        /\ Pairs(ls, rs, a, b) > 0 => /\ Owner(a) \in live /\ Index(a) # 0
                                      /\ Owner(b) \in live
  BY <1>1, EndpointsFact, PairsFact
<1>3. /\ from \in [Nets -> [Nets -> Nat]] /\ to \in [Nets -> [Nets -> Nat]]
      /\ \A a, b \in Nets : from[b][a] \in Nat /\ to[a][b] \in Nat
  BY <1>1 DEF TypeOK
<1>4. \A a, b \in Nets :
        /\ from'[b][a] = from[b][a] + Pairs(ls, rs, a, b)
        /\ to'[a][b] = to[a][b] + Pairs(ls, rs, a, b)
  BY DEF Connect
<1>5. from' \in [Nets -> [Nets -> Nat]] /\ to' \in [Nets -> [Nets -> Nat]]
  BY <1>2, <1>3 DEF Connect
<1>6. EdgesAgree'
  <2>1. SUFFICES ASSUME NEW l \in Nets, NEW r \in Nets
                 PROVE  /\ from'[r][l] = to'[l][r]
                        /\ from'[r][l] > 0 => Owner(l) \in live' /\ Owner(r) \in live'
    BY DEF EdgesAgree
  <2>2. /\ from[r][l] = to[l][r]
        /\ from[r][l] > 0 => Owner(l) \in live /\ Owner(r) \in live
    BY DEF IInv, EdgesAgree
  <2>3. from'[r][l] > 0 => from[r][l] > 0 \/ Pairs(ls, rs, l, r) > 0
    BY <1>2, <1>3, <1>4
  <2>4. live' = live
    BY DEF Connect
  <2> QED  BY <1>2, <1>4, <2>2, <2>3, <2>4
<1>7. EdgesStartAtChannels'
  <2>1. SUFFICES ASSUME NEW n \in Nets, NEW m \in Nets, from'[n][m] > 0
                 PROVE  Index(m) # 0
    BY DEF EdgesStartAtChannels, SourcesOf
  <2>2. from[n][m] > 0 \/ Pairs(ls, rs, m, n) > 0
    BY <1>2, <1>3, <1>4, <2>1
  <2> QED  BY <2>2, <1>2 DEF IInv, EdgesStartAtChannels, SourcesOf
<1>8. \A d \in done' : Owner(d) \in live'
  BY DEF IInv, Connect, FlagsSound
<1> QED  BY <1>1, <1>5, <1>6, <1>7, <1>8, CalmStep DEF Connect, TypeOK, IInv, FromTheHole

(* A removal leaves no more than there was.                                *)
LEMMA RemovedFact ==
  ASSUME NEW n \in Nat, NEW k \in Nat
  PROVE  Removed(n, k) \in Nat /\ Removed(n, k) <= n /\ Removed(n, n) = 0
BY DEF Removed

(* Edges that are only taken away leave a sound graph. *)
LEMMA FewerEdges ==
  ASSUME IInv,
         from' \in [Nets -> [Nets -> Nat]],
         \A l, r \in Nets : /\ from'[r][l] = to'[l][r] /\ from'[r][l] <= from[r][l]
                            /\ from'[r][l] > 0 =>
                                 (Owner(l) \in live => Owner(l) \in live')
                                 /\ (Owner(r) \in live => Owner(r) \in live')
  PROVE  EdgesAgree' /\ EdgesStartAtChannels'
<1>1. \A l, r \in Nets : from[r][l] \in Nat /\ from'[r][l] \in Nat
  BY DEF IInv, TypeOK
<1>2. \A l, r \in Nets : from'[r][l] > 0 => from[r][l] > 0
  BY <1>1
<1> QED  BY <1>2 DEF IInv, EdgesAgree, EdgesStartAtChannels, SourcesOf

(* Disconnect takes each edge off both ends.                               *)
LEMMA DisconnectInv ==
  ASSUME IInv, NEW ls \in Lefts, NEW rs \in Rights, Disconnect(ls, rs)
  PROVE  IInv'
<1>1. TypeOK
  BY DEF IInv
<1>2. \A a, b \in Nets : Pairs(ls, rs, a, b) \in Nat
  BY <1>1, EndpointsFact, PairsFact
<1>3. \A a, b \in Nets : /\ from[b][a] \in Nat /\ from[b][a] = to[a][b]
                         /\ from'[b][a] = Removed(from[b][a], Pairs(ls, rs, a, b))
                         /\ to'[a][b] = Removed(to[a][b], Pairs(ls, rs, a, b))
  BY <1>1 DEF Disconnect, IInv, EdgesAgree, TypeOK
<1>4. \A a, b \in Nets : /\ from'[b][a] = to'[a][b] /\ from'[b][a] <= from[b][a]
                         /\ Removed(from[b][a], Pairs(ls, rs, a, b)) \in Nat
                         /\ Removed(to[a][b], Pairs(ls, rs, a, b)) \in Nat
  <2>1. ASSUME NEW a \in Nets, NEW b \in Nets
        PROVE  LET k == Removed(from[b][a], Pairs(ls, rs, a, b))
               IN  k \in Nat /\ k <= from[b][a]
    BY <1>2, <1>3, RemovedFact
  <2> QED  BY <2>1, <1>3
<1>5. from' \in [Nets -> [Nets -> Nat]] /\ to' \in [Nets -> [Nets -> Nat]]
  BY <1>4 DEF Disconnect
<1>6. live' = live /\ done' = done /\ DOMAIN size' = Nets
  BY DEF Disconnect
<1>7. EdgesAgree' /\ EdgesStartAtChannels'
  BY <1>4, <1>5, <1>6, FewerEdges
<1>8. \A d \in done' : Owner(d) \in live'
  BY <1>6 DEF IInv, FlagsSound
<1> QED  BY <1>1, <1>5, <1>6, <1>7, <1>8, CalmStep DEF Disconnect, TypeOK, IInv, FromTheHole

(* The other ends of its edges forget a destroyed unit.                    *)
LEMMA DestroyInv ==
  ASSUME IInv, NEW u \in Units, Destroy(u)
  PROVE  IInv'
<1>1. TypeOK
  BY DEF IInv
<1>2. \A n, m \in Nets : from[n][m] \in Nat /\ to[m][n] \in Nat /\ from[n][m] = to[m][n]
  BY <1>1 DEF IInv, EdgesAgree, TypeOK
<1>3. \A n, m \in Nets :
        /\ from'[n][m] = IF Owner(n) = u THEN 0
                         ELSE IF Owner(m) = u THEN Removed(from[n][m], to[m][n])
                         ELSE from[n][m]
        /\ to'[n][m] = IF Owner(n) = u THEN 0
                       ELSE IF Owner(m) = u THEN Removed(to[n][m], from[m][n])
                       ELSE to[n][m]
  BY DEF Destroy, Forgotten
<1>4. \A n, m \in Nets :
        /\ from'[n][m] = IF Owner(n) = u \/ Owner(m) = u THEN 0 ELSE from[n][m]
        /\ to'[n][m] = IF Owner(n) = u \/ Owner(m) = u THEN 0 ELSE to[n][m]
  BY <1>2, <1>3, RemovedFact
<1>5. \A l, r \in Nets : /\ from'[r][l] = to'[l][r] /\ from'[r][l] <= from[r][l]
                         /\ from'[r][l] \in Nat /\ to'[l][r] \in Nat
                         /\ from'[r][l] > 0 => Owner(l) # u /\ Owner(r) # u
  BY <1>2, <1>4
<1>6. from' \in [Nets -> [Nets -> Nat]] /\ to' \in [Nets -> [Nets -> Nat]]
  <2>1. /\ from' = [n \in Nets |-> [m \in Nets |-> from'[n][m]]]
        /\ to' = [n \in Nets |-> [m \in Nets |-> to'[n][m]]]
    BY DEF Destroy, Forgotten
  <2> QED  BY <1>5, <2>1
<1>7. live' = live \ {u}
  BY DEF Destroy
<1>8. EdgesAgree' /\ EdgesStartAtChannels'
  BY <1>5, <1>6, <1>7, FewerEdges
<1>9. DOMAIN size' = Nets /\ done' = {d \in done : Owner(d) # u}
  BY DEF Destroy
<1>10. \A d \in done' : Owner(d) \in live'
  BY <1>7, <1>9 DEF IInv, FlagsSound
<1> QED  BY <1>1, <1>6, <1>7, <1>8, <1>9, <1>10, CalmStep DEF Destroy, TypeOK, IInv, FromTheHole

-----------------------------------------------------------------------------
(* The pull.                                                               *)

(* The pull leaves the graph, and so what is heard, as it was.             *)
LEMMA GraphKept ==
  ASSUME IInv, UNCHANGED graph
  PROVE  /\ EdgesAgree' /\ EdgesStartAtChannels' /\ Heard' = Heard
         /\ \A n : SourcesOf(n)' = SourcesOf(n)
         /\ \A u : Sources(u)' = Sources(u)
<1>1. live' = live /\ from' = from /\ to' = to
  BY DEF graph
<1>2. EdgesAgree' /\ EdgesStartAtChannels'
  BY <1>1 DEF IInv, EdgesAgree, EdgesStartAtChannels, SourcesOf
<1>3. \A n : SourcesOf(n)' = SourcesOf(n)
  BY <1>1 DEF SourcesOf
<1>4. \A u : Sources(u)' = Sources(u)
  BY <1>3 DEF Sources
<1>5. Heard' = Heard
  BY <1>4 DEF Heard
<1> QED  BY <1>2, <1>3, <1>4, <1>5

(* A pull starts with the flags cleared and the call of the blackhole.     *)
LEMMA StartSampleInv ==
  ASSUME IInv, StartSample
  PROVE  IInv'
<1>1. /\ UNCHANGED graph /\ live' = live /\ stack' = <<Call(Hole)>>
      /\ ticks' = [u \in Units |-> 0] /\ done' \subseteq done
      /\ \A d \in done' : Owner(d) \in live => Index(d) = 0
  BY DEF StartSample, graph
<1>2. Hole \in Units /\ Hole \notin Multi
  BY UGenAssumption
<1>3. /\ Call(Hole) \in Frames /\ Call(Hole).unit = Hole /\ Call(Hole).todo = {}
      /\ Range(Call(Hole).nets) = NetsOf(Hole)
  BY <1>2, CallFact
<1>4. stack' \in Seq(Frames) /\ Len(stack') = 1 /\ stack'[1] = Call(Hole) /\ DOMAIN stack' = {1}
  BY <1>1, <1>3
<1>5. TypeOK'
  BY <1>1, <1>4 DEF IInv, TypeOK, graph, Flag
<1>6. OncePerSample' /\ TicksSound' /\ FromTheHole'
  BY <1>1, <1>3, <1>4 DEF OncePerSample, TicksSound, FromTheHole, IInv
<1>7. FlagsSound'
  BY <1>1 DEF FlagsSound, IInv
<1>8. Heard' = Heard /\ Hole \in Heard
  BY <1>1, GraphKept, HeardFact DEF IInv
<1>9. CallSound(1)'
  <2>1. Hole \in live /\ ticks'[Hole] = 0
    BY <1>1, <1>2 DEF IInv, FromTheHole
  <2> QED  BY <1>1, <1>2, <1>3, <1>4, <1>8, <2>1 DEF CallSound
<1>10. CallsSound'
  BY <1>4, <1>9 DEF CallsSound
<1> QED  BY <1>1, <1>5, <1>6, <1>7, <1>10, GraphKept DEF IInv

(* The call on top of the stack is replaced. *)
LEMMA TopFact ==
  ASSUME IInv, ~Calm
  PROVE  /\ Len(stack) \in Nat /\ Len(stack) >= 1 /\ DOMAIN stack = 1 .. Len(stack)
         /\ Top = stack[Len(stack)] /\ Top \in Frames /\ CallSound(Len(stack))
         /\ \A i \in DOMAIN stack : stack[i] \in Frames /\ stack[i].unit \in Units
         /\ \A c \in Frames : /\ WithTop(c) \in Seq(Frames)
                              /\ Len(WithTop(c)) = Len(stack)
                              /\ DOMAIN WithTop(c) = DOMAIN stack
                              /\ \A i \in DOMAIN stack :
                                   WithTop(c)[i] = IF i = Len(stack) THEN c ELSE stack[i]
<1>1. stack \in Seq(Frames) /\ stack # <<>>
  BY DEF IInv, TypeOK, Calm
<1>2. Len(stack) \in Nat /\ Len(stack) >= 1 /\ DOMAIN stack = 1 .. Len(stack)
  BY <1>1
<1>3. \A i \in DOMAIN stack : stack[i] \in Frames
  BY <1>1
<1>4. CallSound(Len(stack))
  BY <1>2 DEF IInv, CallsSound
<1>5. ASSUME NEW c \in Frames
      PROVE  /\ WithTop(c) \in Seq(Frames) /\ Len(WithTop(c)) = Len(stack)
             /\ DOMAIN WithTop(c) = DOMAIN stack
             /\ \A i \in DOMAIN stack :
                  WithTop(c)[i] = IF i = Len(stack) THEN c ELSE stack[i]
  BY <1>1, <1>2 DEF WithTop
<1>6. \A i \in DOMAIN stack : stack[i].unit \in Units
  BY <1>3 DEF Frames
<1> QED  BY <1>2, <1>3, <1>4, <1>5, <1>6 DEF Top

(* The net that is turned to moves from the nets to run to the sources to  *)
(* look at.                                                                *)
LEMMA RunNetInv ==
  ASSUME IInv, RunNet
  PROVE  IInv' /\ ~Calm' /\ ticks' = ticks
<1>1. ~Calm /\ Top.todo = {} /\ Top.nets # <<>>
  BY DEF RunNet
<1>2. PICK k \in Nat : k = Len(stack) /\ k >= 1
  BY <1>1, TopFact
<1>3. PICK c \in Frames : c = Top
  BY <1>1, TopFact
<1>4. PICK u \in Units : u = c.unit
  BY DEF Frames
<1>5. PICK n : n = Head(c.nets)
  OBVIOUS
<1>6. PICK rest : rest = Tail(c.nets)
  OBVIOUS
<1>7. /\ n \in Range(c.nets) /\ Range(c.nets) = {n} \cup Range(rest) /\ rest \in Seq(Nets)
      /\ n \in Nets
  <2>1. c.nets \in Seq(Nets) /\ c.nets # <<>>
    BY <1>1, <1>3 DEF Frames
  <2>2. \A s \in Seq(Nets) : s # <<>> =>
          /\ Range(s) = {Head(s)} \cup Range(Tail(s)) /\ Tail(s) \in Seq(Nets)
          /\ Head(s) \in Nets
    <3>1. SUFFICES ASSUME NEW s \in Seq(Nets), s # <<>>
                   PROVE  /\ Range(s) = {Head(s)} \cup Range(Tail(s))
                          /\ Tail(s) \in Seq(Nets) /\ Head(s) \in Nets
      OBVIOUS
    <3>2. /\ Len(s) \in Nat /\ Len(s) >= 1 /\ DOMAIN s = 1 .. Len(s)
          /\ Tail(s) \in Seq(Nets) /\ Head(s) = s[1] /\ Head(s) \in Nets
          /\ Len(Tail(s)) = Len(s) - 1 /\ DOMAIN Tail(s) = 1 .. Len(s) - 1
          /\ \A i \in 1 .. Len(s) - 1 : Tail(s)[i] = s[i + 1]
      BY <3>1
    <3>3. ASSUME NEW x \in Range(s) PROVE x \in {Head(s)} \cup Range(Tail(s))
      <4>1. PICK i \in 1 .. Len(s) : x = s[i]
        BY <3>2, <3>3 DEF Range
      <4>2. CASE i = 1
        BY <3>2, <4>1, <4>2
      <4>3. CASE i # 1
        <5>1. i - 1 \in 1 .. Len(s) - 1 /\ (i - 1) + 1 = i
          BY <3>2, <4>3
        <5>2. Tail(s)[i - 1] = x
          BY <3>2, <4>1, <5>1
        <5> QED  BY <3>2, <5>1, <5>2 DEF Range
      <4> QED  BY <4>2, <4>3
    <3>4. ASSUME NEW x \in {Head(s)} \cup Range(Tail(s)) PROVE x \in Range(s)
      <4>1. CASE x = Head(s)
        BY <3>2, <4>1 DEF Range
      <4>2. CASE x \in Range(Tail(s))
        <5>1. PICK i \in 1 .. Len(s) - 1 : x = Tail(s)[i]
          BY <3>2, <4>2 DEF Range
        <5>2. i + 1 \in 1 .. Len(s) /\ x = s[i + 1]
          BY <3>2, <5>1
        <5> QED  BY <3>2, <5>2 DEF Range
      <4> QED  BY <3>4, <4>1, <4>2
    <3> QED  BY <3>2, <3>3, <3>4
  <2> QED  BY <2>1, <2>2, <1>5, <1>6
<1>8. PICK d \in Frames : /\ d = [c EXCEPT !.nets = rest, !.todo = SourcesOf(n)]
                         /\ d.unit = u /\ d.nets = rest /\ d.todo = SourcesOf(n)
  <2>1. PICK T \in SUBSET Nets : T = SourcesOf(n)
    BY DEF SourcesOf
  <2>2. PICK d : d = [c EXCEPT !.nets = rest, !.todo = T]
    OBVIOUS
  <2>3. d \in Frames /\ d.unit = c.unit /\ d.nets = rest /\ d.todo = T
    BY <1>7, <2>2 DEF Frames
  <2> QED  BY <1>4, <2>1, <2>2, <2>3
<1>9. /\ done' = done \cup {n} /\ stack' = WithTop(d) /\ UNCHANGED graph
      /\ ticks' = ticks /\ live' = live
  <2>1. /\ stack' = WithTop([Top EXCEPT !.nets = Tail(@), !.todo = SourcesOf(Head(Top.nets))])
        /\ done' = done \cup {Head(Top.nets)} /\ UNCHANGED graph /\ ticks' = ticks
    BY DEF RunNet
  <2>2. [Top EXCEPT !.nets = Tail(@), !.todo = SourcesOf(Head(Top.nets))]
          = [Top EXCEPT !.nets = Tail(Top.nets), !.todo = SourcesOf(Head(Top.nets))]
    OBVIOUS
  <2>3. [Top EXCEPT !.nets = Tail(Top.nets), !.todo = SourcesOf(Head(Top.nets))] = d
    BY <1>3, <1>5, <1>6, <1>8
  <2> QED  BY <1>3, <1>5, <2>1, <2>2, <2>3 DEF graph
<1>10. /\ stack' \in Seq(Frames) /\ Len(stack') = k /\ Len(stack) = k
       /\ DOMAIN stack' = 1 .. k /\ DOMAIN stack = 1 .. k
       /\ stack'[k] = d /\ stack[k] = c
       /\ \A i \in 1 .. k : i # k => stack'[i] = stack[i]
       /\ \A i \in 1 .. k : stack'[i].unit = stack[i].unit /\ stack[i].unit \in Units
  <2>1. /\ WithTop(d) \in Seq(Frames) /\ Len(WithTop(d)) = Len(stack)
        /\ DOMAIN WithTop(d) = DOMAIN stack /\ DOMAIN stack = 1 .. Len(stack)
        /\ \A i \in DOMAIN stack : WithTop(d)[i] = IF i = Len(stack) THEN d ELSE stack[i]
        /\ \A i \in DOMAIN stack : stack[i].unit \in Units
        /\ Top = stack[Len(stack)]
    BY <1>1, TopFact
  <2>2. d.unit = c.unit
    BY <1>4, <1>8
  <2>3. /\ stack' = WithTop(d) /\ Len(stack) = k /\ k \in DOMAIN stack /\ stack[k] = c
        /\ DOMAIN stack = 1 .. k
    BY <2>1, <1>2, <1>3, <1>9
  <2>4. /\ stack' \in Seq(Frames) /\ Len(stack') = k /\ DOMAIN stack' = 1 .. k
        /\ stack'[k] = d
        /\ \A i \in 1 .. k : i # k => stack'[i] = stack[i]
    BY <2>1, <2>3
  <2>5. \A i \in 1 .. k : stack'[i].unit = stack[i].unit /\ stack[i].unit \in Units
    BY <2>1, <2>2, <2>3, <2>4
  <2> QED  BY <2>3, <2>4, <2>5
<1>11. \A v : Reached(v)' = Reached(v)
  BY <1>9, <1>10 DEF Reached, InCall
<1>12. n \in NetsOf(u) /\ Range(c.nets) \subseteq NetsOf(u) /\ CallSound(k)
  BY <1>1, <1>2, <1>4, <1>7, <1>10, TopFact DEF CallSound
<1>13. /\ EdgesAgree' /\ EdgesStartAtChannels' /\ Heard' = Heard
       /\ \A m : SourcesOf(m)' = SourcesOf(m)
       /\ \A v : Sources(v)' = Sources(v)
  BY <1>9, GraphKept
<1>14. TypeOK' /\ OncePerSample'
  BY <1>7, <1>9, <1>10 DEF IInv, TypeOK, OncePerSample, graph, Flag
<1>15. ~Calm'
  BY <1>2, <1>10 DEF Calm
<1>16. FlagsSound'
  <2>1. Owner(n) = u /\ u \in live
    BY <1>4, <1>10, <1>12, NetsFact DEF CallSound
  <2>2. Reached(u)
    BY <1>2, <1>4, <1>10 DEF Reached, InCall
  <2> QED  BY <1>1, <1>9, <1>11, <2>1, <2>2 DEF FlagsSound, IInv
<1>17. Flag(u) \in done'
  <2>1. CASE Flag(u) \in done
    BY <2>1, <1>9
  <2>2. CASE u \notin Multi /\ c = Call(u)
    BY <2>2, <1>5, <1>9, CallFact, FlagFact
  <2> QED  BY <2>1, <2>2, <1>4, <1>10, <1>12 DEF CallSound
<1>18. CallSound(k)'
  <2>1. \A m \in Range(rest) : m \in NetsOf(u)
    BY <1>7, <1>12
  <2>2. d.todo = SourcesOf(n) /\ d.unit = u /\ d.nets = rest
    BY <1>8
  <2>3. SourcesOf(n) \subseteq UNION {SourcesOf(m) : m \in NetsOf(u)}
    BY <1>12
  <2>4. ASSUME NEW l \in NetsOf(u) \ Range(rest), NEW m \in SourcesOf(l)
        PROVE  m \in d.todo \/ Reached(Owner(m))
    <3>1. CASE l = n
      BY <3>1, <2>2
    <3>2. CASE l # n
      BY <3>2, <1>1, <1>3, <1>4, <1>7, <1>10, <1>12 DEF CallSound
    <3> QED  BY <3>1, <3>2
  <2>5. u \in live \cap Heard /\ ticks[u] = 0 /\ \A j \in 1 .. k : stack[j].unit = u => j = k
    BY <1>4, <1>10, <1>12 DEF CallSound
  <2>6. stack'[k] = d /\ \A j \in DOMAIN stack' : stack'[j].unit = u => j = k
    BY <1>10, <2>5
  <2> QED  BY <1>9, <1>11, <1>13, <1>17, <2>1, <2>2, <2>3, <2>4, <2>5, <2>6 DEF CallSound
<1>19. ASSUME NEW i \in 1 .. k, i # k PROVE CallSound(i)'
  <2>1. CallSound(i) /\ stack'[i] = stack[i]
    BY <1>10, <1>19 DEF IInv, CallsSound
  <2>2. Flag(stack[i].unit) \in done
    BY <2>1, <1>10, <1>19 DEF CallSound
  <2> QED  BY <2>1, <2>2, <1>9, <1>10, <1>11, <1>13 DEF CallSound
<1>20. CallsSound'
  BY <1>10, <1>18, <1>19 DEF CallsSound
<1>21. TicksSound' /\ FromTheHole'
  <2>1. 1 \in 1 .. k
    BY <1>2
  <2> QED  BY <2>1, <1>1, <1>9, <1>10, <1>11, <1>13 DEF IInv, TicksSound, FromTheHole
<1> QED  BY <1>9, <1>13, <1>14, <1>15, <1>16, <1>20, <1>21 DEF IInv

(* What Visit finds: the source m is of the unit u of the call c on top,   *)
(* and d is what c becomes once it has looked at m.                        *)
LEMMA VisitFact ==
  ASSUME IInv, NEW m \in Nets, Visit(m)
  PROVE  \E d \in Frames :
           /\ ~Calm /\ m \in Top.todo /\ Owner(m) \in Units
           /\ d.unit = Top.unit /\ d.nets = Top.nets /\ d.todo = Top.todo \ {m}
           /\ \/ /\ m \in done \/ Flag(Owner(m)) \in done
                 /\ stack' = WithTop(d) /\ done' = done
              \/ /\ ~(m \in done \/ Flag(Owner(m)) \in done)
                 /\ stack' = Append(WithTop(d), Call(Owner(m)))
                 /\ done' = IF Owner(m) \in Multi THEN done \cup {Flag(Owner(m))} ELSE done
           /\ UNCHANGED graph /\ ticks' = ticks /\ live' = live
<1>1. ~Calm /\ m \in Top.todo /\ Top \in Frames
  BY TopFact DEF Visit
<1>2. PICK d : d = [Top EXCEPT !.todo = Top.todo \ {m}]
  OBVIOUS
<1>3. d \in Frames /\ d.unit = Top.unit /\ d.nets = Top.nets /\ d.todo = Top.todo \ {m}
  BY <1>1, <1>2 DEF Frames
<1>4. [Top EXCEPT !.todo = @ \ {m}] = d
  BY <1>2
<1>5. /\ \/ /\ m \in done \/ Flag(Owner(m)) \in done
            /\ stack' = WithTop(d) /\ done' = done
         \/ /\ ~(m \in done \/ Flag(Owner(m)) \in done)
            /\ stack' = Append(WithTop(d), Call(Owner(m)))
            /\ done' = IF Owner(m) \in Multi THEN done \cup {Flag(Owner(m))} ELSE done
      /\ UNCHANGED graph /\ ticks' = ticks
  BY <1>4 DEF Visit
<1>6. Owner(m) \in Units /\ live' = live
  BY <1>5, NetsFact DEF graph
<1> QED  BY <1>1, <1>3, <1>5, <1>6

(* A source is looked at: it was reached already, or it is called.         *)
LEMMA VisitInv ==
  ASSUME IInv, NEW m \in Nets, Visit(m)
  PROVE  IInv' /\ ~Calm' /\ ticks' = ticks
<1>1. PICK d \in Frames :
        /\ ~Calm /\ m \in Top.todo /\ Owner(m) \in Units
        /\ d.unit = Top.unit /\ d.nets = Top.nets /\ d.todo = Top.todo \ {m}
        /\ \/ /\ m \in done \/ Flag(Owner(m)) \in done
              /\ stack' = WithTop(d) /\ done' = done
           \/ /\ ~(m \in done \/ Flag(Owner(m)) \in done)
              /\ stack' = Append(WithTop(d), Call(Owner(m)))
              /\ done' = IF Owner(m) \in Multi THEN done \cup {Flag(Owner(m))} ELSE done
        /\ UNCHANGED graph /\ ticks' = ticks /\ live' = live
  BY VisitFact
<1>2. PICK k \in Nat : k = Len(stack) /\ k >= 1
  BY <1>1, TopFact
<1>3. PICK c \in Frames : c = Top
  BY <1>1, TopFact
<1>4. PICK u \in Units : u = c.unit
  BY DEF Frames
<1>5. PICK v \in Units : v = Owner(m)
  BY <1>1
<1>6. /\ EdgesAgree' /\ EdgesStartAtChannels' /\ Heard' = Heard
      /\ \A n : SourcesOf(n)' = SourcesOf(n)
      /\ \A w : Sources(w)' = Sources(w)
  BY <1>1, GraphKept
<1>7. /\ WithTop(d) \in Seq(Frames) /\ Len(WithTop(d)) = k /\ DOMAIN WithTop(d) = 1 .. k
      /\ DOMAIN stack = 1 .. k /\ stack[k] = c /\ WithTop(d)[k] = d
      /\ \A i \in 1 .. k : i # k => WithTop(d)[i] = stack[i]
      /\ \A i \in 1 .. k : WithTop(d)[i].unit = stack[i].unit
  <2>1. /\ WithTop(d) \in Seq(Frames) /\ Len(WithTop(d)) = Len(stack)
        /\ DOMAIN WithTop(d) = DOMAIN stack /\ DOMAIN stack = 1 .. Len(stack)
        /\ \A i \in DOMAIN stack : WithTop(d)[i] = IF i = Len(stack) THEN d ELSE stack[i]
        /\ Top = stack[Len(stack)]
    BY <1>1, TopFact
  <2>2. /\ k \in DOMAIN stack /\ stack[k] = c /\ DOMAIN stack = 1 .. k
    BY <2>1, <1>2, <1>3
  <2> QED  BY <2>1, <2>2, <1>1, <1>2, <1>3
<1>8. CallSound(k)
  BY <1>1, <1>2, TopFact
<1>9. /\ c.todo # {} /\ m \in c.todo /\ d.unit = u /\ d.nets = c.nets /\ d.todo = c.todo \ {m}
  BY <1>1, <1>3, <1>4
<1>10. Flag(u) \in done
  BY <1>4, <1>7, <1>8, <1>9, CallFact DEF CallSound
<1>11. PICK n \in NetsOf(u) : m \in SourcesOf(n)
  BY <1>4, <1>7, <1>8, <1>9 DEF CallSound
<1>12. Index(m) # 0 /\ v \in live /\ v \in Heard
  <2>1. n \in Nets
    BY NetsFact
  <2>2. from[n][m] > 0
    BY <1>11 DEF SourcesOf
  <2>3. v \in Sources(u) /\ u \in Heard
    BY <1>4, <1>5, <1>7, <1>8, <1>11 DEF Sources, CallSound
  <2>4. Index(m) # 0
    BY <2>1, <1>11 DEF IInv, EdgesStartAtChannels
  <2>5. v \in live
    BY <2>1, <2>2, <1>5 DEF IInv, EdgesAgree
  <2>6. v \in Heard
    BY <2>3, HeardFact DEF IInv
  <2> QED  BY <2>4, <2>5, <2>6
<1>13. ASSUME m \in done \/ Flag(v) \in done, stack' = WithTop(d), done' = done
       PROVE  IInv' /\ ~Calm'
  <2>1. Reached(v)
    BY <1>1, <1>5, <1>12, <1>13, FlagFact DEF IInv, FlagsSound
  <2>2. DOMAIN stack' = 1 .. k /\ Len(stack') = k /\ stack' \in Seq(Frames)
    BY <1>7, <1>13
  <2>3. \A w : Reached(w)' = Reached(w)
    BY <1>1, <1>7, <1>13 DEF Reached, InCall
  <2>4. ~Calm'
    BY <2>2, <1>2 DEF Calm
  <2>5. TypeOK' /\ OncePerSample' /\ FlagsSound'
    BY <1>1, <1>13, <2>2, <2>3, <2>4 DEF IInv, TypeOK, OncePerSample, FlagsSound, graph, Flag
  <2>6. TicksSound' /\ FromTheHole'
    <3>1. 1 \in 1 .. k
      BY <1>2
    <3>2. stack'[1].unit = stack[1].unit
      BY <3>1, <1>7, <1>13
    <3> QED  BY <3>2, <1>1, <1>6, <1>13, <2>3 DEF IInv, TicksSound, FromTheHole
  <2>7. CallSound(k)'
    <3>1. \A l \in NetsOf(u) \ Range(d.nets) : \A x \in SourcesOf(l) :
            x \in d.todo \/ Reached(Owner(x))
      BY <1>4, <1>5, <1>7, <1>8, <1>9, <2>1 DEF CallSound
    <3>2. /\ u \in live \cap Heard /\ ticks[u] = 0 /\ Range(d.nets) \subseteq NetsOf(u)
          /\ d.todo \subseteq UNION {SourcesOf(l) : l \in NetsOf(u)}
          /\ \A j \in 1 .. k : stack[j].unit = u => j = k
      BY <1>4, <1>7, <1>8, <1>9 DEF CallSound
    <3>3. stack'[k] = d /\ \A j \in DOMAIN stack' : stack'[j].unit = u => j = k
      BY <1>7, <1>13, <2>2, <3>2
    <3> QED  BY <1>1, <1>6, <1>9, <1>10, <1>13, <2>3, <3>1, <3>2, <3>3 DEF CallSound
  <2>8. ASSUME NEW i \in 1 .. k, i # k PROVE CallSound(i)'
    <3>1. CallSound(i) /\ stack'[i] = stack[i]
      BY <1>7, <1>13, <2>8 DEF IInv, CallsSound
    <3>2. Flag(stack[i].unit) \in done
      BY <3>1, <1>2, <2>8 DEF CallSound
    <3> QED  BY <3>1, <3>2, <1>1, <1>6, <1>7, <1>13, <2>2, <2>3 DEF CallSound
  <2>9. CallsSound'
    BY <2>2, <2>7, <2>8 DEF CallsSound
  <2> QED  BY <1>6, <2>4, <2>5, <2>6, <2>9 DEF IInv
<1>14. ASSUME ~(m \in done \/ Flag(v) \in done), stack' = Append(WithTop(d), Call(v)),
              done' = IF v \in Multi THEN done \cup {Flag(v)} ELSE done
       PROVE  IInv' /\ ~Calm'
  <2>1. Call(v) \in Frames /\ Call(v).unit = v /\ Call(v).todo = {} /\ Range(Call(v).nets) = NetsOf(v)
    BY CallFact
  <2>2. /\ stack' \in Seq(Frames) /\ Len(stack') = k + 1 /\ DOMAIN stack' = 1 .. k + 1
        /\ \A i \in 1 .. k : stack'[i] = WithTop(d)[i]
        /\ stack'[k + 1] = Call(v)
    BY <1>2, <1>7, <1>14, <2>1
  <2>3. /\ \A i \in 1 .. k : i \in DOMAIN stack' /\ stack'[i].unit = stack[i].unit
        /\ \A i \in DOMAIN stack' : i \in 1 .. k \/ (i = k + 1 /\ i \notin 1 .. k)
        /\ k + 1 \in DOMAIN stack' /\ stack'[k + 1].unit = v
    BY <1>2, <1>7, <2>1, <2>2
  <2>4. ticks[v] = 0
    <3>1. ticks[v] \in Nat
      BY DEF IInv, TypeOK
    <3>2. ~(ticks[v] > 0)
      BY <1>1, <1>14 DEF IInv, TicksSound
    <3> QED  BY <3>1, <3>2
  <2>5. \A i \in 1 .. k : stack[i].unit # v
    <3>1. SUFFICES ASSUME NEW i \in 1 .. k, stack[i].unit = v PROVE FALSE
      OBVIOUS
    <3>2. CallSound(i)
      BY <1>7 DEF IInv, CallsSound
    <3>3. i = k /\ stack[i] = Call(v)
      BY <3>1, <3>2, <1>2, <1>14 DEF CallSound
    <3> QED  BY <3>3, <1>7, <1>9, <2>1
  <2>6. \A w : Reached(w)' <=> Reached(w) \/ w = v
    <3>1. \A w : InCall(w)' <=> InCall(w) \/ w = v
      BY <1>7, <2>3 DEF InCall
    <3> QED  BY <3>1, <1>1 DEF Reached
  <2>7. ~Calm'
    BY <2>2, <1>2 DEF Calm
  <2>8. TypeOK'
    BY <1>1, <1>14, <2>2 DEF IInv, TypeOK, graph, Flag
  <2>9. OncePerSample'
    BY <1>1 DEF IInv, OncePerSample
  <2>10. FlagsSound'
    <3>1. \A f \in done' : f \in done \/ f = Flag(v)
      BY <1>14
    <3>2. Owner(Flag(v)) = v
      BY FlagFact
    <3> QED  BY <3>1, <3>2, <1>1, <1>12, <2>6 DEF IInv, FlagsSound
  <2>11. TicksSound' /\ FromTheHole'
    <3>1. 1 \in 1 .. k
      BY <1>2
    <3>2. stack'[1].unit = stack[1].unit
      BY <3>1, <2>3
    <3>3. \A f \in done : f \in done'
      BY <1>14
    <3> QED  BY <3>2, <3>3, <1>1, <1>6, <2>6 DEF IInv, TicksSound, FromTheHole
  <2>12. CallSound(k)'
    <3>1. \A l \in NetsOf(u) \ Range(d.nets) : \A x \in SourcesOf(l) :
            x \in d.todo \/ Reached(Owner(x)) \/ Owner(x) = v
      BY <1>4, <1>5, <1>7, <1>8, <1>9 DEF CallSound
    <3>2. /\ u \in live \cap Heard /\ ticks[u] = 0 /\ Range(d.nets) \subseteq NetsOf(u)
          /\ d.todo \subseteq UNION {SourcesOf(l) : l \in NetsOf(u)}
          /\ \A j \in 1 .. k : stack[j].unit = u => j = k
      BY <1>4, <1>7, <1>8, <1>9 DEF CallSound
    <3>3. k \in 1 .. k /\ u # v
      BY <1>2, <1>4, <1>7, <2>5
    <3>4. stack'[k] = d
      BY <3>3, <1>7, <2>2
    <3>5. \A j \in DOMAIN stack' : stack'[j].unit = u => j = k
      BY <2>3, <3>2, <3>3
    <3>6. Flag(u) \in done'
      BY <1>10, <1>14
    <3> QED  BY <1>1, <1>6, <1>9, <2>6, <3>1, <3>2, <3>4, <3>5, <3>6 DEF CallSound
  <2>13. ASSUME NEW i \in 1 .. k, i # k PROVE CallSound(i)'
    <3>1. CallSound(i) /\ stack'[i] = stack[i]
      BY <1>7, <2>2, <2>13 DEF IInv, CallsSound
    <3>2. Flag(stack[i].unit) \in done'
      BY <3>1, <1>2, <1>14, <2>13 DEF CallSound
    <3>3. \A j \in DOMAIN stack' : stack'[j].unit = stack[i].unit => j = i
      BY <3>1, <1>7, <2>3, <2>5 DEF CallSound
    <3> QED  BY <3>1, <3>2, <3>3, <1>1, <1>6, <2>6 DEF CallSound
  <2>14. CallSound(k + 1)'
    <3>1. \A j \in DOMAIN stack' : stack'[j].unit = v => j = k + 1
      BY <2>3, <2>5
    <3>2. Flag(v) \in done' \/ v \notin Multi
      BY <1>14
    <3> QED  BY <3>1, <3>2, <1>1, <1>6, <1>12, <2>1, <2>2, <2>4 DEF CallSound
  <2>15. CallsSound'
    BY <2>3, <2>12, <2>13, <2>14 DEF CallsSound
  <2> QED  BY <1>6, <2>7, <2>8, <2>9, <2>10, <2>11, <2>15 DEF IInv
<1> QED  BY <1>1, <1>5, <1>13, <1>14

(* Tick: the call on top ends, and its unit is computed. *)
LEMMA TickFact ==
  ASSUME IInv, Tick
  PROVE  \E u \in live \cap Heard : \E k \in Nat :
           /\ ~Calm /\ k = Len(stack) /\ k >= 1 /\ DOMAIN stack = 1 .. k
           /\ stack[k].unit = u /\ ticks[u] = 0 /\ Flag(u) \in done
           /\ \A i \in 1 .. k : i # k => stack[i].unit # u
           /\ \A v \in Sources(u) : Reached(v)
           /\ stack' \in Seq(Frames) /\ Len(stack') = k - 1 /\ DOMAIN stack' = 1 .. k - 1
           /\ \A i \in 1 .. k - 1 : stack'[i] = stack[i]
           /\ ticks' = [ticks EXCEPT ![u] = 1]
           /\ UNCHANGED graph /\ done' = done /\ live' = live
<1>1. /\ ~Calm /\ Top.todo = {} /\ Top.nets = <<>> /\ stack' = Callers
      /\ ticks' = [ticks EXCEPT ![Top.unit] = ticks[Top.unit] + 1]
      /\ UNCHANGED graph /\ done' = done
  BY DEF Tick
<1>2. PICK k \in Nat : k = Len(stack) /\ k >= 1
  BY <1>1, TopFact
<1>3. DOMAIN stack = 1 .. k /\ Top = stack[k] /\ CallSound(k) /\ stack \in Seq(Frames)
  BY <1>1, <1>2, TopFact DEF IInv, TypeOK
<1>4. PICK u : u = Top.unit
  OBVIOUS
<1>5. u \in live \cap Heard /\ ticks[u] = 0 /\ u \in Units
  BY <1>3, <1>4 DEF CallSound, IInv, TypeOK
<1>6. Flag(u) \in done
  BY <1>1, <1>3, <1>4, <1>5, CallFact DEF CallSound
<1>7. \A i \in 1 .. k : i # k => stack[i].unit # u
  BY <1>3, <1>4 DEF CallSound
<1>8. ASSUME NEW v \in Sources(u) PROVE Reached(v)
  <2>1. PICK n \in NetsOf(u) : \E m \in SourcesOf(n) : Owner(m) = v
    BY <1>8 DEF Sources
  <2>2. Range(<<>>) = {}
    BY DEF Range
  <2> QED  BY <2>1, <2>2, <1>1, <1>3, <1>4 DEF CallSound
<1>9. /\ stack' \in Seq(Frames) /\ Len(stack') = k - 1 /\ DOMAIN stack' = 1 .. k - 1
      /\ \A i \in 1 .. k - 1 : stack'[i] = stack[i]
  <2>1. stack' = SubSeq(stack, 1, k - 1)
    BY <1>1, <1>2 DEF Callers
  <2>2. k - 1 \in Nat /\ k - 1 <= Len(stack)
    BY <1>2
  <2> QED  BY <2>1, <2>2, <1>2, <1>3
<1>10. ticks' = [ticks EXCEPT ![u] = 1]
  BY <1>1, <1>4, <1>5
<1>11. live' = live
  BY <1>1 DEF graph
<1> QED  BY <1>1, <1>2, <1>3, <1>4, <1>5, <1>6, <1>7, <1>8, <1>9, <1>10, <1>11

(* A unit that makes its sample has all its sources reached.               *)
LEMMA TickInv ==
  ASSUME IInv, Tick
  PROVE  /\ IInv'
         /\ Calm' => {w \in Units : ticks'[w] > 0} = Heard
         /\ \A w \in Units : ticks'[w] > ticks[w] => \A v \in Sources(w) : Reached(v)
<1>1. PICK u \in live \cap Heard : \E k \in Nat :
           /\ ~Calm /\ k = Len(stack) /\ k >= 1 /\ DOMAIN stack = 1 .. k
           /\ stack[k].unit = u /\ ticks[u] = 0 /\ Flag(u) \in done
           /\ \A i \in 1 .. k : i # k => stack[i].unit # u
           /\ \A v \in Sources(u) : Reached(v)
           /\ stack' \in Seq(Frames) /\ Len(stack') = k - 1 /\ DOMAIN stack' = 1 .. k - 1
           /\ \A i \in 1 .. k - 1 : stack'[i] = stack[i]
           /\ ticks' = [ticks EXCEPT ![u] = 1]
           /\ UNCHANGED graph /\ done' = done /\ live' = live
  BY TickFact
<1>2. PICK k \in Nat :
           /\ ~Calm /\ k = Len(stack) /\ k >= 1 /\ DOMAIN stack = 1 .. k
           /\ stack[k].unit = u /\ ticks[u] = 0 /\ Flag(u) \in done
           /\ \A i \in 1 .. k : i # k => stack[i].unit # u
           /\ \A v \in Sources(u) : Reached(v)
           /\ stack' \in Seq(Frames) /\ Len(stack') = k - 1 /\ DOMAIN stack' = 1 .. k - 1
           /\ \A i \in 1 .. k - 1 : stack'[i] = stack[i]
           /\ ticks' = [ticks EXCEPT ![u] = 1]
           /\ UNCHANGED graph /\ done' = done /\ live' = live
  BY <1>1
<1>3. /\ EdgesAgree' /\ EdgesStartAtChannels' /\ Heard' = Heard
      /\ \A n : SourcesOf(n)' = SourcesOf(n)
      /\ \A w : Sources(w)' = Sources(w)
  BY <1>2, GraphKept
<1>4. /\ ticks \in [Units -> Nat] /\ u \in Units /\ live \subseteq Units
      /\ ticks' \in [Units -> Nat]
      /\ \A w \in Units : ticks'[w] = IF w = u THEN 1 ELSE ticks[w]
  BY <1>2 DEF IInv, TypeOK
<1>5. \A i \in 1 .. k : i \in 1 .. k - 1 \/ i = k
  BY <1>2
<1>6. /\ 1 .. k - 1 \subseteq 1 .. k /\ k \in 1 .. k /\ k \notin 1 .. k - 1
  BY <1>2
<1>7. \A w : InCall(w)' <=> InCall(w) /\ w # u
  BY <1>2, <1>5, <1>6 DEF InCall
<1>8. \A w \in Units : Reached(w)' <=> Reached(w)
  <2>1. SUFFICES ASSUME NEW w \in Units PROVE Reached(w)' <=> Reached(w)
    OBVIOUS
  <2>2. CASE w = u
    <3>1. ticks'[u] = 1 /\ InCall(u)
      BY <1>2, <1>4, <1>6 DEF InCall
    <3> QED  BY <2>2, <3>1 DEF Reached
  <2>3. CASE w # u
    <3>1. ticks'[w] = ticks[w] /\ (InCall(w)' <=> InCall(w))
      BY <1>4, <1>7, <2>3
    <3> QED  BY <3>1 DEF Reached
  <2> QED  BY <2>2, <2>3
<1>9. TypeOK'
  BY <1>2, <1>4 DEF IInv, TypeOK, graph, Flag
<1>10. OncePerSample'
  BY <1>4 DEF IInv, OncePerSample
<1>11. FlagsSound'
  <2>1. \A f \in done : Owner(f) \in Units
    BY <1>4 DEF IInv, FlagsSound
  <2> QED  BY <2>1, <1>2, <1>8 DEF IInv, FlagsSound
<1>12. \A w \in Units : Sources(w) \subseteq Units
  BY HeardFact DEF IInv
<1>13. \A w \in Units : ticks'[w] > 0 =>
         /\ w \in Heard /\ Flag(w) \in done
         /\ \A v \in Sources(w) : Reached(v)'
  <2>1. SUFFICES ASSUME NEW w \in Units, ticks'[w] > 0
                 PROVE  /\ w \in Heard /\ Flag(w) \in done
                        /\ \A v \in Sources(w) : Reached(v)
    BY <1>8, <1>12
  <2>2. CASE w = u
    BY <2>2, <1>2
  <2>3. CASE w # u
    <3>1. ticks[w] > 0
      BY <2>1, <2>3, <1>4
    <3> QED  BY <3>1, <1>2 DEF IInv, TicksSound
  <2> QED  BY <2>2, <2>3
<1>14. TicksSound'
  BY <1>2, <1>3, <1>13 DEF TicksSound
<1>15. FromTheHole'
  <2>1. ~Calm' => 1 \in 1 .. k - 1
    <3>1. Len(stack') = 0 => stack' = <<>>
      BY <1>2
    <3>2. ~Calm' => k - 1 # 0
      BY <3>1, <1>2 DEF Calm
    <3> QED  BY <3>2, <1>2
  <2> QED  BY <2>1, <1>2 DEF IInv, FromTheHole
<1>16. CallsSound'
  <2>1. ASSUME NEW i \in 1 .. k - 1 PROVE CallSound(i)'
    <3>1. i \in 1 .. k /\ i # k
      BY <1>6
    <3>2. CallSound(i) /\ stack'[i] = stack[i] /\ stack[i].unit # u
      BY <1>2, <3>1 DEF IInv, CallsSound
    <3>3. Flag(stack[i].unit) \in done /\ stack[i].unit \in Units
      BY <3>1, <3>2, <1>2, <1>4 DEF CallSound
    <3>4. ticks'[stack[i].unit] = 0
      BY <3>2, <3>3, <1>4 DEF CallSound
    <3>5. \A j \in DOMAIN stack' : stack'[j].unit = stack[i].unit => j = i
      BY <3>2, <1>2, <1>6 DEF CallSound
    <3>6. \A n \in NetsOf(stack[i].unit) \ Range(stack[i].nets) : \A m \in SourcesOf(n) :
            m \in stack[i].todo \/ Reached(Owner(m))'
      <4>1. \A n : \A m \in SourcesOf(n) : Owner(m) \in Units
        BY NetsFact DEF SourcesOf
      <4> QED  BY <4>1, <3>2, <1>8 DEF CallSound
    <3> QED  BY <3>2, <3>3, <3>4, <3>5, <3>6, <1>2, <1>3 DEF CallSound
  <2> QED  BY <2>1, <1>2 DEF CallsSound
<1>17. IInv'
  BY <1>3, <1>9, <1>10, <1>11, <1>14, <1>15, <1>16 DEF IInv
<1>18. ASSUME Calm' PROVE {w \in Units : ticks'[w] > 0} = Heard
  <2>1. PICK T \in SUBSET Units : T = {w \in Units : ticks'[w] > 0}
    OBVIOUS
  <2>2. T \subseteq Heard
    BY <1>13, <2>1
  <2>3. \A w \in Units : Reached(w)' => w \in T
    <3>1. DOMAIN stack' = {}
      BY <1>18 DEF Calm
    <3> QED  BY <3>1, <2>1 DEF Reached, InCall
  <2>4. \A w \in T : Sources(w) \subseteq T
    BY <1>12, <1>13, <2>1, <2>3
  <2>5. Hole \in T
    <3>1. k = 1
      <4>1. stack' = <<>>
        BY <1>18 DEF Calm
      <4>2. Len(stack') = 0
        BY <4>1
      <4>3. Len(stack') = k - 1
        BY <1>2
      <4> QED  BY <4>2, <4>3
    <3>2. u = Hole
      BY <3>1, <1>2 DEF IInv, FromTheHole
    <3> QED  BY <3>2, <1>4, <2>1
  <2>6. Heard \subseteq T
    BY <2>4, <2>5, HeardFact DEF IInv
  <2> QED  BY <2>1, <2>2, <2>6
<1>19. ASSUME NEW w \in Units, ticks'[w] > ticks[w] PROVE \A v \in Sources(w) : Reached(v)
  <2>1. w = u
    BY <1>4, <1>19
  <2> QED  BY <2>1, <1>2
<1> QED  BY <1>17, <1>18, <1>19

-----------------------------------------------------------------------------
(* What a step may do to the pull under way. *)
PullSteps ==
  /\ ~Calm /\ Calm' => {u \in Units : ticks'[u] > 0} = Heard
  /\ \A u \in Units : ticks'[u] > ticks[u] =>
       \A v \in Sources(u) : ticks[v] > 0 \/ InCall(v)

(* Every step keeps the invariant. *)
LEMMA NextInv ==
  ASSUME IInv, [Next]_vars
  PROVE  IInv' /\ PullSteps
<1>1. \A u \in Units : ticks[u] \in Nat
  BY DEF IInv, TypeOK
<1>2. ASSUME ticks' = ticks, ~Calm => ~Calm' PROVE PullSteps
  BY <1>1, <1>2 DEF PullSteps
<1>3. ASSUME Calm, UNCHANGED ticks PROVE PullSteps
  BY <1>1, <1>3 DEF PullSteps
<1>4. ASSUME NEW u \in Units, New(u) PROVE IInv' /\ PullSteps
  BY <1>3, <1>4, NewInv DEF New
<1>5. ASSUME NEW u \in Units, Destroy(u) PROVE IInv' /\ PullSteps
  BY <1>3, <1>5, DestroyInv DEF Destroy
<1>6. ASSUME NEW ls \in Lefts, NEW rs \in Rights, Connect(ls, rs) PROVE IInv' /\ PullSteps
  BY <1>3, <1>6, ConnectInv DEF Connect
<1>7. ASSUME NEW ls \in Lefts, NEW rs \in Rights, Disconnect(ls, rs) PROVE IInv' /\ PullSteps
  BY <1>3, <1>7, DisconnectInv DEF Disconnect
<1>8. CASE StartSample
  <2>1. Calm /\ \A u \in Units : ticks'[u] = 0
    BY <1>8 DEF StartSample
  <2>2. PullSteps
    BY <2>1, <1>1 DEF PullSteps
  <2> QED  BY <2>2, <1>8, StartSampleInv
<1>9. CASE RunNet
  BY <1>2, <1>9, RunNetInv
<1>10. ASSUME NEW m \in Nets, Visit(m) PROVE IInv' /\ PullSteps
  BY <1>2, <1>10, VisitInv
<1>11. CASE Tick
  BY <1>11, TickInv DEF PullSteps, Reached
<1>12. CASE UNCHANGED vars
  <2>1. UNCHANGED <<live, from, to, size, done, stack, ticks>>
    BY <1>12 DEF vars, graph
  <2>2. UNCHANGED graph
    BY <2>1 DEF graph
  <2>3. TypeOK' /\ OncePerSample' /\ FlagsSound'
    BY <2>1 DEF IInv, TypeOK, OncePerSample, FlagsSound, Reached, InCall, Calm
  <2>4. TicksSound' /\ FromTheHole'
    BY <2>1, <2>2, GraphKept DEF IInv, TicksSound, FromTheHole, Reached, InCall, Calm
  <2>5. \A u : Reached(u)' = Reached(u)
    BY <2>1 DEF Reached, InCall
  <2>6. CallsSound'
    <3>1. SUFFICES ASSUME NEW i \in DOMAIN stack PROVE CallSound(i)'
      BY <2>1 DEF CallsSound
    <3>2. CallSound(i)
      BY DEF IInv, CallsSound
    <3>3. stack' = stack /\ ticks' = ticks /\ done' = done /\ live' = live
      BY <2>1
    <3>4. Heard' = Heard /\ \A n : SourcesOf(n)' = SourcesOf(n)
      BY <2>2, GraphKept
    <3> QED  BY <3>2, <3>3, <3>4, <2>5 DEF CallSound
  <2>7. Calm' = Calm
    BY <2>1 DEF Calm
  <2> QED  BY <2>1, <2>2, <2>3, <2>4, <2>6, <2>7, <1>2, GraphKept DEF IInv
<1> QED  BY <1>4, <1>5, <1>6, <1>7, <1>8, <1>9, <1>10, <1>11, <1>12 DEF Next, Compute

(* The invariant is inductive. *)
THEOREM Inductive == Spec => []IInv
<1>1. Init => IInv
  BY InitInv
<1>2. IInv /\ [Next]_vars => IInv'
  BY NextInv
<1> QED  BY <1>1, <1>2, PTL DEF Spec

(* The ends of the graph agree, whatever is connected and destroyed, and   *)
(* no edge outlives a unit (ugen_dtor).                                    *)
THEOREM EndsAgree == Spec => []EdgesAgree
<1>1. IInv => EdgesAgree
  BY DEF IInv
<1> QED  BY <1>1, Inductive, PTL

(* No unit is computed twice in a sample (the flags of compute_mono). *)
THEOREM ComputedOnce == Spec => []OncePerSample
<1>1. IInv => OncePerSample
  BY DEF IInv
<1> QED  BY <1>1, Inductive, PTL

(* A pull computes what the blackhole hears, and no more, for any graph. *)
THEOREM PullsTheWholeGraph == Spec => WholeGraph
<1>1. IInv /\ [Next]_vars => (~Calm /\ Calm' => {u \in Units : ticks'[u] > 0} = Heard)
  BY NextInv DEF PullSteps
<1>2. IInv /\ [Next]_vars => [~Calm /\ Calm' => {u \in Units : ticks'[u] > 0} = Heard]_vars
  BY <1>1
<1> QED  BY <1>2, Inductive, PTL DEF Spec, WholeGraph

(* A unit is computed after its sources, except those that wait for it. *)
THEOREM SourcesComeFirst == Spec => SourcesFirst
<1>1. IInv /\ [Next]_vars =>
        [\A u \in Units : ticks'[u] > ticks[u] =>
           \A v \in Sources(u) : ticks[v] > 0 \/ InCall(v)]_vars
  BY NextInv DEF PullSteps
<1> QED  BY <1>1, Inductive, PTL DEF Spec, SourcesFirst

-----------------------------------------------------------------------------
(* The counts of sources, and the depth of the recursion.  Sums and        *)
(* numbers of units are defined where there are finitely many.             *)

(* Then there are finitely many nets. *)
LEMMA NetsFinite ==
  ASSUME IsFiniteSet(Units)
  PROVE  IsFiniteSet(Nets) /\ \A u \in Units : NetsOf(u) \in SUBSET Nets
<1>1. ASSUME NEW u \in Units PROVE IsFiniteSet(NetsOf(u))
  <2> DEFINE C == {<<u, i>> : i \in 1 .. Chans(u)}
             f == [i \in 1 .. Chans(u) |-> <<u, i>>]
  <2>1. IsFiniteSet(1 .. Chans(u))
    BY ChansFact, FS_Interval
  <2>2. f \in Surjection(1 .. Chans(u), C)
    BY DEF Surjection
  <2>3. IsFiniteSet(C)
    BY <2>1, <2>2, FS_Surjection
  <2>4. IsFiniteSet(C \cup {Trigger(u)})
    BY <2>3, FS_AddElement
  <2>5. NetsOf(u) \in SUBSET (C \cup {Trigger(u)})
    BY DEF NetsOf
  <2> QED  BY <2>4, <2>5, FS_Subset
<1> DEFINE N == {NetsOf(u) : u \in Units}
           g == [u \in Units |-> NetsOf(u)]
<1>2. g \in Surjection(Units, N)
  BY DEF Surjection
<1>3. IsFiniteSet(N)
  BY <1>2, FS_Surjection
<1>4. IsFiniteSet(UNION N)
  BY <1>1, <1>3, FS_UNION
<1> QED  BY <1>4, NetsFact DEF Nets

(* A net that an operator does not name to its right keeps its sources.    *)
LEMMA OtherSources ==
  ASSUME IInv, NEW ls \in Lefts, NEW rs \in Rights,
         Connect(ls, rs) \/ Disconnect(ls, rs),
         NEW b \in Nets, b \notin Range(rs)
  PROVE  from'[b] = from[b]
<1>1. TypeOK
  BY DEF IInv
<1>2. \A a \in Nets : from[b][a] \in Nat
  BY <1>1 DEF TypeOK
<1>3. from[b] = [a \in Nets |-> from[b][a]]
  BY <1>1 DEF TypeOK
<1>4. \A a \in Nets : Pairs(ls, rs, a, b) = 0
  <2>1. \A a \in Nets : Pairs(ls, rs, a, b) \in Nat /\ ~(Pairs(ls, rs, a, b) > 0)
    BY <1>1, EndpointsFact, PairsFact
  <2> QED  BY <2>1
<1>5. CASE Connect(ls, rs)
  <2>1. from'[b] = [a \in Nets |-> from[b][a] + Pairs(ls, rs, a, b)]
    BY <1>5 DEF Connect
  <2> QED  BY <1>2, <1>3, <1>4, <2>1
<1>6. CASE Disconnect(ls, rs)
  <2>1. from'[b] = [a \in Nets |-> Removed(from[b][a], Pairs(ls, rs, a, b))]
    BY <1>6 DEF Disconnect
  <2>2. \A n \in Nat : Removed(n, 0) = n
    BY DEF Removed
  <2> QED  BY <1>2, <1>3, <1>4, <2>1, <2>2
<1> QED  BY <1>5, <1>6

(* An operator counts the sources of the nets to its right anew.           *)
LEMMA OperatorSize ==
  ASSUME IInv, SizeExact, NEW ls \in Lefts, NEW rs \in Rights,
         Connect(ls, rs) \/ Disconnect(ls, rs)
  PROVE  SizeExact'
<1>1. SUFFICES ASSUME NEW b \in Nets PROVE size'[b] = Total(from'[b])
  BY DEF SizeExact
<1>2. size'[b] = IF b \in Range(rs) THEN Total(from'[b]) ELSE size[b]
  BY DEF Connect, Disconnect
<1>3. CASE b \in Range(rs)
  BY <1>2, <1>3
<1>4. CASE b \notin Range(rs)
  BY <1>2, <1>4, OtherSources DEF SizeExact
<1> QED  BY <1>3, <1>4

(* A destructor takes from a count as many as it removes edges.            *)
LEMMA DestroySize ==
  ASSUME IsFiniteSet(Units), IInv, SizeExact, NEW u \in Units, Destroy(u)
  PROVE  SizeExact'
<1>1. SUFFICES ASSUME NEW n \in Nets PROVE size'[n] = Total(from'[n])
  BY DEF SizeExact
<1>2. \A m \in Nets : from[n][m] \in Nat /\ from[n][m] = to[m][n]
  BY DEF IInv, TypeOK, EdgesAgree
<1>3. size'[n] = IF Owner(n) = u THEN 0
                 ELSE size[n] - Total([m \in NetsOf(u) |-> to[m][n]])
  BY DEF Destroy
<1>4. from'[n] = [m \in Nets |-> IF Owner(n) = u THEN 0
                                 ELSE IF Owner(m) = u THEN Removed(from[n][m], to[m][n])
                                 ELSE from[n][m]]
  BY DEF Destroy, Forgotten
<1>5. CASE Owner(n) = u
  <2>1. from'[n] = [m \in Nets |-> 0]
    BY <1>4, <1>5
  <2>2. SumFunction([m \in Nets |-> 0]) = 0
    BY NetsFinite, SumZero
  <2> QED  BY <1>3, <1>5, <2>1, <2>2 DEF Total, FoldFunction, SumFunction, SumFunctionOnSet
<1>6. CASE Owner(n) # u
  <2> DEFINE T == NetsOf(u)
             f == [m \in Nets |-> from[n][m]]
  <2>1. from[n] = f /\ f \in [Nets -> Nat]
    BY <1>2 DEF IInv, TypeOK
  <2>2. \A m \in Nets : Owner(m) = u <=> m \in T
    BY NetsFact
  <2>3. \A m \in Nets : Owner(m) = u => Removed(from[n][m], to[m][n]) = 0
    BY <1>2, RemovedFact
  <2>4. from'[n] = [m \in Nets |-> IF m \in T THEN 0 ELSE f[m]]
    BY <1>4, <1>6, <2>2, <2>3
  <2>5. [m \in T |-> to[m][n]] = [m \in T |-> f[m]]
    BY <1>2, NetsFact
  <2>6. size[n] = SumFunction(f)
    BY <2>1 DEF SizeExact, Total, FoldFunction, SumFunction, SumFunctionOnSet
  <2>7. size'[n] = SumFunction(f) - SumFunction([m \in T |-> f[m]])
    BY <1>3, <1>6, <2>5, <2>6 DEF Total, FoldFunction, SumFunction, SumFunctionOnSet
  <2> HIDE DEF f, T
  <2>8. /\ SumFunction([m \in Nets |-> IF m \in T THEN 0 ELSE f[m]]) \in Nat
        /\ SumFunction([m \in T |-> f[m]]) \in Nat
        /\ SumFunction(f) = SumFunction([m \in Nets |-> IF m \in T THEN 0 ELSE f[m]])
                              + SumFunction([m \in T |-> f[m]])
    BY <2>1, NetsFinite, SumSplits DEF T
  <2>9. size'[n] = SumFunction(from'[n])
    BY <2>4, <2>7, <2>8
  <2> QED  BY <2>9 DEF Total, FoldFunction, SumFunction, SumFunctionOnSet
<1> QED  BY <1>5, <1>6

(* The count that ugen_net_ keeps apart is the number of its sources,      *)
(* whatever was connected, disconnected and destroyed: the loop of         *)
(* compute_mono stays within the vector.                                   *)
THEOREM SizesAreExact == ASSUME IsFiniteSet(Units) PROVE Spec => []SizeExact
<1>1. Init => SizeExact
  <2>1. SumFunction([m \in Nets |-> 0]) = 0
    BY NetsFinite, SumZero
  <2> QED  BY <2>1 DEF Init, SizeExact, Nowhere, Total, FoldFunction, SumFunction, SumFunctionOnSet
<1>2. IInv /\ SizeExact /\ [Next]_vars => SizeExact'
  <2>1. SUFFICES ASSUME IInv, SizeExact, [Next]_vars PROVE SizeExact'
    OBVIOUS
  <2>2. ASSUME UNCHANGED <<from, size>> PROVE SizeExact'
    BY <2>1, <2>2 DEF SizeExact
  <2>3. CASE \E u \in Units : New(u)
    BY <2>2, <2>3 DEF New
  <2>4. CASE \E u \in Units : Destroy(u)
    BY <2>1, <2>4, DestroySize
  <2>5. CASE \E ls \in Lefts, rs \in Rights : Connect(ls, rs) \/ Disconnect(ls, rs)
    BY <2>1, <2>5, OperatorSize
  <2>6. CASE StartSample \/ Compute \/ UNCHANGED vars
    BY <2>2, <2>6 DEF StartSample, Compute, RunNet, Tick, Visit, graph, vars
  <2> QED  BY <2>1, <2>3, <2>4, <2>5, <2>6 DEF Next
<1> QED  BY <1>1, <1>2, Inductive, PTL DEF Spec

(* The recursion is no deeper than there are units, whatever cycles there  *)
(* are: compute_mono does not use up the stack of the thread.              *)
THEOREM RecursionIsShallow ==
  ASSUME IsFiniteSet(Units) PROVE Spec => [](Len(stack) <= Cardinality(Units))
<1>1. ASSUME IInv PROVE Len(stack) <= Cardinality(Units)
  <2>1. stack \in Seq(Frames)
    BY <1>1 DEF IInv, TypeOK
  <2>2. PICK k \in Nat : k = Len(stack) /\ DOMAIN stack = 1 .. k
    BY <2>1
  <2> DEFINE f == [i \in 1 .. k |-> stack[i].unit]
  <2>3. \A i \in 1 .. k : f[i] \in Units
    <3>1. \A i \in 1 .. k : stack[i] \in Frames
      BY <2>1, <2>2
    <3>2. \A c \in Frames : c.unit \in Units
      BY DEF Frames
    <3> QED  BY <3>1, <3>2
  <2>4. \A i, j \in 1 .. k : f[i] = f[j] => i = j
    BY <1>1, <2>2 DEF IInv, CallsSound, CallSound
  <2>5. f \in Injection(1 .. k, Units)
    BY <2>3, <2>4 DEF Injection, IsInjective
  <2>6. Cardinality(1 .. k) <= Cardinality(Units) /\ Cardinality(1 .. k) = k
    BY <2>5, FS_Injection, FS_Interval
  <2> QED  BY <2>2, <2>6
<1> QED  BY <1>1, Inductive, PTL
=============================================================================
