----------------------------- MODULE UGenGraph -----------------------------
(***************************************************************************)
(* The graph of unit generators of one VM (lib/ugen.c), and the pull of    *)
(* the blackhole that computes it once per sample (compute_audio).         *)
(*                                                                         *)
(* A net is what has edges: a unit with one channel is one net, a unit     *)
(* with several has a net per channel, and one that can be triggered has   *)
(* another for its triggers.  Each edge is stored at both its ends, in     *)
(* vectors; the model counts how often a net is in a vector, and lets a    *)
(* computation visit the sources of a net in any order.                    *)
(*                                                                         *)
(* Programs run between the samples, so that a pull is never interrupted;  *)
(* it is a recursion, of which `stack' holds the calls under way.          *)
(***************************************************************************)
EXTENDS Integers, Sequences, FiniteSets, Functions

CONSTANTS
  Units,
  Hole,        \* the blackhole
  Multi,       \* units with a net per channel
  Trig,        \* units that can be triggered
  Ins, Outs,   \* the channels of each unit
  RemovesAll,  \* vector_rem2 removes every occurrence, or the first
  MaxEdges     \* a bound on the edges

ASSUME UGenAssumption ==
  /\ Hole \in Units /\ Multi \subseteq Units \ {Hole} /\ Trig \subseteq Units \ {Hole}
  /\ Ins \in [Units -> Nat \ {0}] /\ Outs \in [Units -> Nat \ {0}]
  /\ \A u \in Units \ Multi : Ins[u] = 1 /\ Outs[u] = 1
  /\ RemovesAll \in BOOLEAN
  /\ MaxEdges \in Nat

Chans(u)    == IF Ins[u] > Outs[u] THEN Ins[u] ELSE Outs[u]
Channels(u) == [i \in 1 .. Chans(u) |-> <<u, i>>]
Trigger(u)  == <<u, 0>>
NetsOf(u)   == {<<u, i>> : i \in 1 .. Chans(u)}
               \cup {Trigger(v) : v \in Trig \cap {u}}
Nets        == UNION {NetsOf(u) : u \in Units}
Owner(n)    == n[1]
Index(n)     == n[2]

VARIABLES
  live,    \* VM.ugen: the units that exist
  from,    \* from[n][l]: how often l is among the sources of the net n
  to,      \* to[l][n]: how often n is among the targets of the net l
  size,    \* ugen_net_.size, the number of sources as compute_mono knows it
  done,    \* the flags that are set, of nets and of units
  stack,   \* the computations under way, outermost first
  ticks    \* how often each unit was computed in this sample

graph == <<live, from, to, size>>
vars  == <<graph, done, stack, ticks>>

Nowhere == [n \in Nets |-> 0]
Total(f) == FoldFunction(+, 0, f)
Edges    == Total(size)

(* The endpoints of an operator: the nets a unit, or one of its channels,  *)
(* offers to the left and to the right of it.                              *)
FirstNets(u, k) == [i \in 1 .. k |-> <<u, i>>]
Single(u)  == {<<n>> : n \in {<<u, i>> : i \in 1 .. Chans(u)}}
Lefts      == UNION {{FirstNets(u, Outs[u])} \cup Single(u) : u \in live}
Rights     == {<<Trigger(u)>> : u \in Trig \cap live}
              \cup (UNION {{FirstNets(u, Ins[u])} \cup Single(u) : u \in live})

Wider(ls, rs) == IF Len(ls) > Len(rs) THEN Len(ls) ELSE Len(rs)

(* _do_: how often the net a meets the net b. *)
Pairs(ls, rs, a, b) ==
  LET At(s, i) == s[(i % Len(s)) + 1]
  IN  Cardinality({i \in 0 .. Wider(ls, rs) - 1 : At(ls, i) = a /\ At(rs, i) = b})

(* What k calls of vector_rem2 leave of n occurrences. *)
Removed(n, k) == IF k >= n \/ (RemovesAll /\ k > 0) THEN 0 ELSE n - k

Init ==
  /\ live = {Hole}
  /\ from = [n \in Nets |-> Nowhere]
  /\ to   = [n \in Nets |-> Nowhere]
  /\ size = Nowhere
  /\ done = {} /\ stack = <<>>
  /\ ticks = [u \in Units |-> 0]

Calm == stack = <<>>

-----------------------------------------------------------------------------
(* What programs do.                                                       *)

(* A constructor, and the ugen_ini its class calls. *)
New(u) ==
  /\ Calm /\ u \notin live
  /\ live' = live \cup {u}
  /\ UNCHANGED <<from, to, size, done, stack, ticks>>

(* ~> and :~> *)
Connect(ls, rs) ==
  /\ Calm /\ Edges + Wider(ls, rs) <= MaxEdges
  /\ from' = [b \in Nets |-> [a \in Nets |-> from[b][a] + Pairs(ls, rs, a, b)]]
  /\ to'   = [a \in Nets |-> [b \in Nets |-> to[a][b] + Pairs(ls, rs, a, b)]]
  /\ size' = [b \in Nets |-> IF b \in Range(rs) THEN Total(from'[b]) ELSE size[b]]
  /\ UNCHANGED <<live, done, stack, ticks>>

(* A slip: the target forgets the source, but not the source the target. *)
DisconnectOneWay(ls, rs) ==
  /\ Calm
  /\ from' = [b \in Nets |-> [a \in Nets |-> Removed(from[b][a], Pairs(ls, rs, a, b))]]
  /\ size' = [b \in Nets |-> IF b \in Range(rs) THEN Total(from'[b]) ELSE size[b]]
  /\ UNCHANGED <<live, to, done, stack, ticks>>

(* ~< and :~< *)
Disconnect(ls, rs) ==
  /\ Calm
  /\ from' = [b \in Nets |-> [a \in Nets |-> Removed(from[b][a], Pairs(ls, rs, a, b))]]
  /\ to'   = [a \in Nets |-> [b \in Nets |-> Removed(to[a][b], Pairs(ls, rs, a, b))]]
  /\ size' = [b \in Nets |-> IF b \in Range(rs) THEN Total(from'[b]) ELSE size[b]]
  /\ UNCHANGED <<live, done, stack, ticks>>

(* release_mono for each net of u: the other ends forget it. *)
Forgotten(u, f, g) ==
  [n \in Nets |-> [m \in Nets |->
     IF Owner(n) = u THEN 0
     ELSE IF Owner(m) = u THEN Removed(f[n][m], g[m][n]) ELSE f[n][m]]]

(* A slip: the targets of u keep their size. *)
DestroyKeepingSize(u) ==
  /\ Calm /\ u \in live \ {Hole}
  /\ live' = live \ {u}
  /\ from' = Forgotten(u, from, to)
  /\ to'   = Forgotten(u, to, from)
  /\ size' = [n \in Nets |-> IF Owner(n) = u THEN 0 ELSE size[n]]
  /\ done' = {d \in done : Owner(d) # u}
  /\ UNCHANGED <<stack, ticks>>

(* ugen_dtor *)
Destroy(u) ==
  /\ Calm /\ u \in live \ {Hole}
  /\ live' = live \ {u}
  /\ from' = Forgotten(u, from, to)
  /\ to'   = Forgotten(u, to, from)
  /\ size' = [n \in Nets |->
                IF Owner(n) = u THEN 0
                ELSE size[n] - Total([m \in NetsOf(u) |-> to[m][n]])]
  /\ done' = {d \in done : Owner(d) # u}
  /\ UNCHANGED <<stack, ticks>>

-----------------------------------------------------------------------------
(* The pull.                                                               *)

(* The flag that tells that u was reached: the flag of its net, or one of  *)
(* its own when it has several.                                            *)
Flag(u) == IF u \in Multi THEN <<u, -1>> ELSE <<u, 1>>

(* A call of u->compute: the nets it has still to run, and the sources the *)
(* net it runs has still to look at.  The tick of the blackhole runs its   *)
(* net once more.                                                          *)
Call(u) ==
  [unit |-> u, todo |-> {},
   nets |-> Channels(u)
            \o (IF u \in Trig THEN <<Trigger(u)>> ELSE <<>>)
            \o (IF u = Hole THEN <<<<u, 1>>>> ELSE <<>>)]

Top == stack[Len(stack)]
Callers == SubSeq(stack, 1, Len(stack) - 1)
WithTop(call) == [stack EXCEPT ![Len(stack)] = call]
SourcesOf(n) == {m \in Nets : from[n][m] > 0}

(* A slip: the flags of channels are not cleared. *)
StartSampleUnitsOnly ==
  /\ Calm
  /\ done' = done \ {Flag(u) : u \in live}
  /\ stack' = <<Call(Hole)>>
  /\ ticks' = [u \in Units |-> 0]
  /\ UNCHANGED graph

(* compute_audio *)
StartSample ==
  /\ Calm
  /\ done' = {d \in done : Owner(d) \in live => Index(d) = 0}
  /\ stack' = <<Call(Hole)>>
  /\ ticks' = [u \in Units |-> 0]
  /\ UNCHANGED graph

(* compute_mono turns to the next net of the unit. *)
RunNet ==
  /\ ~Calm /\ Top.todo = {} /\ Top.nets # <<>>
  /\ LET n == Head(Top.nets)
     IN  /\ done' = done \cup {n}
         /\ stack' = WithTop([Top EXCEPT !.nets = Tail(@), !.todo = SourcesOf(n)])
  /\ UNCHANGED <<graph, ticks>>

(* A slip: compute_chan does not look at the flag of the whole unit. *)
VisitUnchecked(m) ==
  /\ ~Calm /\ m \in Top.todo
  /\ LET looked == WithTop([Top EXCEPT !.todo = @ \ {m}])
         u == Owner(m)
     IN  IF m \in done
           THEN stack' = looked /\ done' = done
           ELSE /\ stack' = Append(looked, Call(u))
                /\ done' = IF u \in Multi THEN done \cup {Flag(u)} ELSE done
  /\ UNCHANGED <<graph, ticks>>

(* A slip: the loop over the sources does not advance past a computed one. *)
VisitAgain(m) ==
  /\ ~Calm /\ m \in Top.todo
  /\ LET u == Owner(m)
     IN  IF m \in done \/ Flag(u) \in done
           THEN stack' = stack /\ done' = done
           ELSE /\ stack' = Append(stack, Call(u))
                /\ done' = IF u \in Multi THEN done \cup {Flag(u)} ELSE done
  /\ UNCHANGED <<graph, ticks>>

(* COMPUTE: a source is computed first, unless its flag is set; a channel  *)
(* has its whole unit computed, whose flag is set at once.                 *)
Visit(m) ==
  /\ ~Calm /\ m \in Top.todo
  /\ LET looked == WithTop([Top EXCEPT !.todo = @ \ {m}])
         u == Owner(m)
     IN  IF m \in done \/ Flag(u) \in done
           THEN stack' = looked /\ done' = done
           ELSE /\ stack' = Append(looked, Call(u))
                /\ done' = IF u \in Multi THEN done \cup {Flag(u)} ELSE done
  /\ UNCHANGED <<graph, ticks>>

(* A slip: u ticks before its sources are looked at. *)
TickEarly ==
  /\ ~Calm /\ Top.nets = <<>>
  /\ stack' = Callers
  /\ ticks' = [ticks EXCEPT ![Top.unit] = @ + 1]
  /\ UNCHANGED <<graph, done>>

(* The nets of the unit are computed; it makes its sample. *)
Tick ==
  /\ ~Calm /\ Top.todo = {} /\ Top.nets = <<>>
  /\ stack' = Callers
  /\ ticks' = [ticks EXCEPT ![Top.unit] = @ + 1]
  /\ UNCHANGED <<graph, done>>

Compute == RunNet \/ Tick \/ \E m \in Nets : Visit(m)

Next ==
  \/ \E u \in Units : New(u) \/ Destroy(u)
  \/ \E ls \in Lefts, rs \in Rights : Connect(ls, rs) \/ Disconnect(ls, rs)
  \/ StartSample \/ Compute

Spec == Init /\ [][Next]_vars

-----------------------------------------------------------------------------
(* Properties.                                                             *)

Frames == [unit : Units, nets : Seq(Nets), todo : SUBSET Nets]

TypeOK ==
  /\ live \subseteq Units
  /\ from \in [Nets -> [Nets -> Nat]]
  /\ to \in [Nets -> [Nets -> Nat]]
  /\ DOMAIN size = Nets
  /\ done \subseteq Nets \cup {Flag(u) : u \in Units}
  /\ stack \in Seq(Frames)
  /\ ticks \in [Units -> Nat]

(* Both ends of the graph tell the same edges, how often included, and     *)
(* none of them ends in a unit that was destroyed (release_from and        *)
(* release_to, repeated and self connections, channels spread by _do_).    *)
EdgesAgree ==
  \A l, r \in Nets :
    /\ from[r][l] = to[l][r]
    /\ from[r][l] > 0 => Owner(l) \in live /\ Owner(r) \in live

(* compute_mono reads as many sources as the vector holds: the count kept  *)
(* apart is exact, also when vector_rem2 removes repeated edges at once.   *)
SizeExact == \A n \in Nets : size[n] = Total(from[n])

InCall(u) == \E i \in DOMAIN stack : stack[i].unit = u

(* No unit is computed twice in a sample, whatever cycles there are.       *)
OncePerSample == \A u \in Units : ticks[u] <= 1
Sources(u) == {Owner(m) : m \in UNION {SourcesOf(n) : n \in NetsOf(u)}}

(* The units the blackhole hears, directly or through others. *)
Heard ==
  {u \in Units : \A S \in SUBSET Units :
                   (Hole \in S /\ \A v \in S : Sources(v) \subseteq S) => u \in S}

Reached(u) == InCall(u) \/ ticks[u] > 0

(* What makes the invariants inductive.  The edges start at channels, and  *)
(* flags are those of units that exist and, within a pull, were reached.   *)
EdgesStartAtChannels == \A n \in Nets : \A m \in SourcesOf(n) : Index(m) # 0

FlagsSound ==
  \A d \in done : /\ Owner(d) \in live
                  /\ ~Calm /\ Index(d) # 0 => Reached(Owner(d))

(* A call is of a unit that is heard, not computed yet, and not called for *)
(* twice; its flag is set, unless it has just begun; it has run its nets   *)
(* and looked at their sources, except those it still lists.               *)
CallSound(i) ==
  LET c == stack[i]
  IN  /\ c.unit \in live \cap Heard
      /\ ticks[c.unit] = 0
      /\ \A j \in DOMAIN stack : stack[j].unit = c.unit => j = i
      /\ \/ Flag(c.unit) \in done
         \/ c.unit \notin Multi /\ i = Len(stack) /\ c = Call(c.unit)
      /\ Range(c.nets) \subseteq NetsOf(c.unit)
      /\ c.todo \subseteq UNION {SourcesOf(n) : n \in NetsOf(c.unit)}
      /\ \A n \in NetsOf(c.unit) \ Range(c.nets) :
           \A m \in SourcesOf(n) : m \in c.todo \/ Reached(Owner(m))

CallsSound == \A i \in DOMAIN stack : CallSound(i)

TicksSound ==
  ~Calm => \A u \in Units : ticks[u] > 0 =>
    u \in Heard /\ Flag(u) \in done /\ \A v \in Sources(u) : Reached(v)

FromTheHole == Hole \in live /\ (~Calm => stack[1].unit = Hole)

IInv == TypeOK /\ EdgesAgree /\ OncePerSample /\ EdgesStartAtChannels
        /\ FlagsSound /\ CallsSound /\ TicksSound /\ FromTheHole

(* A pull computes the units the blackhole hears, and no others.           *)
WholeGraph ==
  [][~Calm /\ Calm' => {u \in Units : ticks'[u] > 0} = Heard]_vars

(* When a unit makes its sample, so have its sources, except those that    *)
(* wait for it: feedback is a sample late, and nothing else is.            *)
SourcesFirst ==
  [][\A u \in Units : ticks'[u] > ticks[u] =>
       \A v \in Sources(u) : ticks[v] > 0 \/ InCall(v)]_vars

(* The thread of the VM does not stop within a pull. *)
FairSpec == Spec /\ WF_vars(Compute)

(* Every pull ends, whatever cycles there are.                             *)
PullEnds == ~Calm ~> Calm
=============================================================================
