# A verification of Gwion in TLA+

Gwion is a language for music. A program is compiled to bytecode and runs as
*shreds*: user threads that one virtual machine interleaves by cooperative
scheduling, on a clock that counts samples of sound. This directory holds TLA+
models of that machine, of the bytecode and the emitter that makes it, and of
the passes of the compiler; TLC configurations that check them on small
instances; and proofs of invariants for instances of any size.

## Reading guide

| module | what it is |
|---|---|
| `TickList` | the shreduler's doubly linked list of ticks, pointer by pointer, as operators |
| `RunQueue` | the abstract promise of the shreduler: a queue in order of delay |
| `ShredVM` | one virtual machine: shreds, events, effects, host calls, driver loop |
| `ShredVMProofs` | lemmas about the list; the inductive invariant of `ShredVM` and the theorems that follow |
| `RunQueueProofs` | that `ShredVM` implements `RunQueue` |
| `ForkJoin` | forks: threads, locks, joins, counts and clean-up |
| `ForkJoinProofs` | the inductive invariants of joins, of counts, and of what is left in the end, and the theorems that follow |
| `UGenGraph` | the graph of unit generators and the pull that computes it |
| `UGenGraphProofs` | the inductive invariant of `UGenGraph` and the theorems that follow |
| `FiniteSums` | induction on finite sets as a statement about sets, and sums of functions, for the proofs |
| `Dict` | the abstract promise of a dictionary: a map |
| `HMap` | the hash table that keeps it, turn by turn of its loops |
| `HMapProofs` | the inductive invariant of `HMap`, and that it implements `Dict` |
| `Emitter` | from statements and expressions to a list of instructions |
| `Bytecode` | the compaction of that list |
| `Machine` | the VM on the compacted code of one shred |
| `Meaning` | what a program means, from its statements alone |
| `Walk` | how the passes of the compiler walk a tree, and the environment they push and pop |
| `Types`, `Sema`, `Scan0`, `Scan1`, `Scan2`, `Check`, `Valid` | what each function of each pass does, as plans of `Walk` |
| `Front` | the machine that runs those plans, file by file |
| `FrontProofs`, `ScopeProofs` | what is proved of `Front` for any trees: who is walked once; that the environment is left as it was found |
| `MCShredVM`, `MCForkJoin`, `MCUGenGraph`, `MCHMap`, `MCMachine`, `MCFront` | instances for TLC |

`PROJECT.json` lists the runs, the slip of the code each property is tested
against, the source lines each definition stands for, the hazards and the
theorems.

## Inventory

What the repository consists of, the state each part keeps, its operations, and
what makes it correct. Paths are below `src/` of the repository.

**Shreduler** (`vm/shreduler.c`). State: a doubly linked list of ticks sorted by
wake time (`list`), the tick that runs (`curr`), the vector `active_shreds`;
each tick has `prev`, `next`, `wake_time`, `parent`, `child`, and in `prev` a
sentinel `-1` when the shred is done. Operations: get, remove (with or without
erase), shredule, add. Correct when the pointers always thread the queued ticks
in order, ticks are served when due, first come first served, and a shred that
is done never comes back. Hard: pointers patched in four places, erasure that
recurs through families while the list is in use, handlers that reshredule a
shred that dies.

**Shreds** (`lib/shred.c`, `vm/vm_shred.c`, parts of `vm/vm.c`). State: a stack,
code and pc, reference count of the `Shred` object, try frames, `cancel`.
Operations: spork, exit, yield, cancel, test_cancel, end of code; vm_add_shred
and vm_remove from the host. Correct when counts equal holders, nothing
reachable is freed, families die together.

**Events** (`lib/event.c`). State: a vector of waiting shreds, each counted.
Operations: `=> now`, signal, broadcast, destructor. Hard: a waiter may die, be
killed or be queued by others while it waits.

**Driver loop** (`vm/driver.c`, `next_bbq_pos`, `vm_run`). State: `pos`,
`is_running`. Each sample: run every shred that is due, compute the sound, step
the position, which wraps near 2^24 and moves the wake times with it.

**Effects** (`unwind` and `handle` in `vm/vm.c`). State: a stack of try frames
per shred, a table of handlers per code. An effect unwinds frames, releases
their live values and resumes at a handler, or ends the shred.

**Forks** (`fork_*` in `lib/shred.c`, `vm_lock`, `gwion_end_child`). A fork is a
copy of the VM run by an operating-system thread. Shared: reference counts, the
parent's vector of children, `FORK_DONE`, `cancel`, `is_running`, the event that
join waits on. Hard: everything is.

**Objects** (`lib/object.c`). Reference counts; destruction by type, from the
most derived class up; destructors written in Gwion run later as shreds.

**Unit generators** (`lib/ugen.c`). A graph with both ends of each edge stored;
multi-channel units hold a unit per channel; one pull of the sink per sample.

**Dictionary** (`lib/dict.c`). Open addressing with linear probing and
tombstones; probing calls user code for equality, so that each operation is a
loop of instructions.

**Bytecode** (`vm/vm_code.c`). Removes no-ops from a vector of instructions,
merges moves of the stack, moves branch targets, and records the handlers of
effects. Correct when the short code does what the long one did.

**Emitter** (`emit/emit.c`, `emit/memoize.c`). State: the code of a function, a
stack of locals with marks for scopes, vectors of jumps to be patched, deferred
statements, live values. Correct when a program does what its statements say,
every path leaves the stack as it found it, and what a scope owns is released
once. Hard: jumps out of scopes, effects, and values kept on the stack meanwhile.

**Interpreter** (`vm/vm.c`). State: a register stack, a memory of frames, the
position in a code. An instruction a step.

**Compiler passes** (`compile.c`, `pass.c`, `env/`, `sema/`, `parse/`). State:
a stack of namespaces and classes, scopes of values and types, the function and
class that are walked, flags of types and nodes, an error flag. Six walks over a
tree, each in the environment the walk pushes. Correct when each function leaves
the environment as it found it whatever fails below, no failure is lost before
emission, definitions are walked where they belong, and a class reached early
(by a declaration, a parent or a call that instantiates a template) goes through
the passes in order and once. Hard: early returns by macro between a push and
its pop, and recursion by way of types.

**Compile-time evaluation** (`emit/comptime.c`). Runs the VM from within a
compilation.

**Library and import** (`lib/*`, `import/`, `plug.c`, `arg.c`, `gwion.c`):
arrays, strings, operators, closures, unions; the interface by which native code
declares types; plug-ins; start-up.

Interactions: the driver calls the VM, the VM asks the shreduler for shreds and
runs their instructions; natives (`Event`, `Shred`) call the shreduler back, by
way of `shreduler_remove`, `shredule` and `release`, from the middle of an
instruction; the host calls `vm_add_shred` (through the compiler) and
`vm_remove`; the compiler runs the VM for compile-time blocks; forks run a VM
each and call the parent's lists.

## Plan

The order in which the models were made: the core that everything runs on, then
what threads share, then data that outlives a step, then the compiler.

1. `TickList`, `RunQueue`, `ShredVM`: the core, with proofs.
2. `ForkJoin`: threads and locks at the grain of reads and writes.
3. `UGenGraph`: with proofs.
4. `HMap` against `Dict`, with proofs.
5. `Emitter`, `Bytecode`, `Machine` composed, against `Meaning`.
6. `Walk`, the passes, `Front`.

What is left is under "Not modelled" and "Only model-checked".

### All runs

| run | what it asks | distinct states |
|---|---|---|
| `events` | events, sleep and death under a VM that loops: safety, refinement of `RunQueue`, liveness | 172 380 |
| `family` | parents and children, effects, references | 414 346 |
| `pair` | two shreds, every instruction, a host that interferes; the invariant that is proved | 401 600 |
| `forks` | a fork, a fork in it, the fork of a call; an interrupt at any point | 177 805 |
| `fork_holders` | one fork in variables of programs, counts as racy as they are | 47 258 |
| `fork_lost` | shows a join that never returns | violation |
| `units` | units of one and of two channels and a trigger; safety, and the pull ends | 48 046 |
| `dict` | every way keys may collide, growth, removal, foreach, against `Dict` | 701 240 |
| `dict_lost` | shows an entry that growth loses | violation |
| `code` | 370 programs through emitter, compaction and VM, against `Meaning` | 64 520 |
| `front` | nine sets of files through all passes, with one failure anywhere | 253 994 |
| `defer` | shows a legal return that is refused | violation |

## ShredVM

### State and grain

`q` is the list: `head` and `curr` are `Shreduler.list` and `.curr`, and `prev`,
`next`, `wake` are the fields of every tick. The other variables are `pos` and
`running` (the driver), `active`, `parent`, `children` (the shreduler and the
ticks), `ref` and `handles` (reference counts, and the part of them that
variables and stacks of programs account for), `frames`, `cancel`, `waiters` and
`gone` (events).

A VM is one thread, so a step is one instruction, one host call or one step of
the driver. Two handlers are loops with calls in the body that change what later
rounds see: the recursive `shreduler_erase`, and `broadcast`. They take a step
per round (`EraseChild`, `EraseSelf`, `WakeNext`), and nothing else runs until
they end (`erasing`, `waking`; guard `Calm`). `shreduler_erase` visits children
from the last to the first; the model visits them in any order.

`Shredule` is the walk of `_shredule`: the place where the walk stops is named
by what the loop tests (`Spots`), and the five pointer assignments follow
(`InsertAfter`), including that `prev` of a tick inserted at the head is not
written. So `ListSound` depends on every caller having cleaned the pointers
before (`Loose`), as it does in the code.

Time is counted in fractions of a sample: `Sample` of them make one, and
`GWION_EPSILON` is `Eps` of them. What floats round is left out: a float exact
to 2^24 holds position and epsilon only approximately.

A program is any sequence of instructions of the set `Instrs`. Programs can name
the shreds that `fromId` can find (active ones) and those they hold a reference
to. An effect is caught by a try statement the shred is in or by none: which
effects a handler takes is abstracted to a choice. `EraseSelf` may reshredule a
shred with try statements, as a catch-all handler found by `unwind` does; the
sentinel makes `_shredule` ignore it.

### Disciplined

`yield` called on a shred that waits on an event, and `vm_remove` caught by one,
queue the shred while the event still holds it. The signal that follows inserts
a linked tick, and the list is broken (`Placement` first, `ListSound` later).
The code has no guard. With `Disciplined = TRUE` programs do not do that, which
is what the runs and the theorems assume; with `FALSE` TLC finds the corruption
within a few steps. It is the one assumption on programs in this model.

`test_cancel` of a shred that is done follows the sentinel as a pointer: its
behaviour is undefined, and `TestCancel` leaves the call out.

### What is checked

* `TypeOK`.
* `ListSound`: there is an order of the linked ticks that the pointers follow in
  both directions, wake times do not decrease along it, and `curr` is not in it.
* `Placement`: no shred is queued and waiting, or waiting twice.
* `RefCountExact`: each count is the number of holders; with it `NoDangling`.
* `NoOrphans`: the parent of a live shred lives and lists it; the children a
  live shred lists are alive, except while an erasure is between two steps.
* `NoResurrection`: once done, done, and never on the list.
* `NothingLeftBehind`: the position moves only when no queued shred is due.
* `NeverOversleeps`: a sleeping shred's delay shrinks by a sample a step, or by
  two at the wrap: the position wraps at 16777215 and wake times move back by
  16777216, so a sleep across the wrap is a sample short.
* `KeepsPromise`: `RunQueue` under the mapping that reads the queue along the
  `next` pointers, delays as differences to the position, and `curr` as the shred
  that is served: one at a time, and no sample goes by meanwhile.
* `SleepersWake`, `BroadcastWakesAll`, `EraseEnds`: liveness.

The runs are `events` (three shreds and an event that is signalled, broadcast
and destroyed, with `--loop`, under fairness), `family` (sporks, exits, yields,
references, effects in try statements; the VM stops with its last shred) and
`pair` (two shreds and every instruction and call there is, those of the host
included).

Bounds. Three shreds are a parent, a child and a grandchild or third party:
every operation of the code touches at most one shred, its neighbours in the
list and its family. One event suffices for a shred to wait, die and be woken;
that a shred is not on two lists is part of the proof for any number. The
position has 2 or 3 values before it wraps, and the longest delay (2.5 samples)
sleeps across the wrap. A sample has two fractions, so that a shred can be
shreduled within a sample, at its end and in the next. One try statement and one
extra reference per shred show both values of each test in the code. Symmetry is
used only where shreds other than the first are interchangeable, and only for
safety.

`CHECK_DEADLOCK FALSE` in `family`: a VM that does not loop stops with its last
shred. The other runs loop, and check that the VM never stops.

Fairness is weak fairness of `Machine`: dispatch, the driver's loop, and the
loops of `shreduler_erase` and `broadcast`, all on the one thread of the VM,
which nothing blocks. No instruction is assumed fair, since a program may run
for ever within a sample; liveness of time is conditional on `SamplesEnd`.

### What is proved

`ShredVMProofs` proves, by TLAPS, `Spec => []IInv` for every value of the
constants that meets the assumptions, given `Disciplined`; from it the theorems
`TypeCorrect`, `ListStaysSound`, `OnePlaceEach`, `CountsAreExact`,
`NothingDangles` and `FamiliesDieTogether`, and the action properties
`DoneForGood`, `SamplesComplete` and `DelaysShrink`.

The assumptions are `PointerAssumption` (the null pointer and the sentinel are
no shreds) and `VMAssumption` (the kinds of the constants; an epsilon is less
than a sample).

The invariants are not inductive as they stand. `IInv` adds `Places`: a live
shred is linked, being erased, or off the list with both pointers null, which is
what inserting it needs, and a shred that was never born is known nowhere;
`Lineage`: only the shred that exit was called for is erased without its parent,
which gives `NoOrphans` across the steps of an erasure; and `WakingSound`.

The argument has two layers, both in `ShredVMProofs`. The first shows for each operator of the
list, on any well-formed list, that it returns one, which ticks are linked
afterwards, and that it leaves all other ticks' places alone. The order is not
a sequence but a function `after` from each linked tick to the set of those
behind it, so that no induction on the length is needed: each lemma names the
new `after` for the list it builds. The predicate `Moved` sums up what one
operation does to one tick, and composes. The second has a lemma per
action, most of which follow from three: `OneMoves` (one live shred changes
place), `NoneMoves`, and `EraseStarts`.

`RunQueueProofs` proves the refinement, `Spec => KeepsPromise` (`PromiseKept`),
from the same assumptions. What the shreduler promises is about a sequence, so
here the list is one: `Spells(q, s)` says that the pointers, in both directions,
spell `s`, and the invariant beside `IInv` is `Spelt`, that there is such an `s`.
`QueueFact` shows that the mapping then reads exactly `s`. That a removal
takes one shred out of `s` and leaves the order of the rest, and that an insertion
puts one behind all that wake before it or at the same time, is shown once, for
`tk_remove` and `_shredule` as they patch pointers (`SpellsLess`, `SpellsMore`).
Each kind of step of `ShredVM` then is a step of `RunQueue`, a stutter, or, for
`time`, the passing of a sample in which no shred was due; a shred that is
erased, is woken or is killed by the host falls under the same few.

### Only model-checked

Liveness: `SleepersWake`, `BroadcastWakesAll`, `EraseEnds`.

## ForkJoin

### State and grain

A VM has a thread: `Root` that of the program, each of `Forks` one of its own.
`Up` says which VM makes a fork; the VMs above it are `vm->parent` and on. `pc`
is where a thread is. In `run` it is within a sample, and programs do what they
like, in any order: `Fork`, `Hold` and `Drop` (a variable is assigned, or
released), `SetCancel`, `Guard` (`lock`), `Join`, `Exit`. `look` and `test` are the
two halves of `fork_running`; `halt`, `reap`, `release`, `bury` the loops of
`fork_clean` and `fork_clean2`; `deafen`, `stop`, `join`, `forget` the destructor;
`lock`, `tell`, `told`, `unlock` the tail of `fork_run`. `running`, `cancel`,
`done`, `ref`, `thread` (`FORK_THREAD`), `kids` and `graves` (`child`, `child2`) are
fields of the code; `waits` is the list of a fork's event, which only the body of
the VM above can be in; `holds` says what variables account for, and `deaf`,
`freed`, `gone` what was freed.

A step is a section under one lock, or one access that no lock covers. `++` and
`--` of a count are a load (`Count`) and a store (`Store`), as the code compiles
them. Locks a thread keeps over several steps are in `held`; a section of one step
asks that its lock is `Free`. Locks are reentrant, as `vm_lock` followed by
`shredule` needs.

A VM's other shreds are its body's children and act in the same thread: any of
them may do what programs do while the body sleeps. How shreds are scheduled is
`ShredVM`'s matter; here a VM may run any of them.

What programs are taken to respect: only the VM that made a fork uses it; `lock`
is not held across a time advance. `Calls` are forks of function calls, whose
thread is never launched: the emitter ends them with `SporkEnd` whatever the
keyword. `Cancels` are the forks that programs cancel; `cancel` may be taken back.

Left out: `test_cancel` of a fork, which joins the caller's own thread; the value
that a typed fork copies at its end (typed forks are calls, which are not
launched); the start of a thread before it signals its maker; the release of a
fork by `unwind`, within `shreduler_erase`, under the lock of its VM.

### What is checked

* `TypeOK`.
* `Outlived`: nothing is freed that a thread still uses: its fork's event, object
  and VM, and the VMs above, whose locks it takes.
* `LastRelease`: a fork is destroyed when nothing holds it. True only if no
  variable holds a fork (`MaxHolds = 0`): see below.
* `NoOrphans`: a VM that tells it is done, or has ended, has joined its forks.
* `DoneIsDone`: a fork that its parent sees done has left its loop and cleaned up.
* `NothingLeft`: at the end all threads are joined, and the forks that came to
  their end are freed with their VMs. A fork that was stopped before its body
  ended is not: the reference of its own shred is never released.
* `CleanupEnds`: once the program stops, it ends.
* `CancelStops`: a fork that is cancelled for good ends.

Fairness is weak, of each thread: the operating system runs all threads, the
mutexes are granted, and no program stays within a sample for ever, which the
code cannot prevent and a program may do. Programs are not obliged to act.

The runs are `forks`, with fairness, and `fork_holders`: one fork in two
variables.

Bounds. Three VMs in a line are the least where a fork is both cleaned up and
cleaning, and its lock is taken from above and from below; the fork of a call
beside them is a second child of one VM. `MaxHolds` is two for a release that is
not the last.

Where variables hold a fork, the parent's `++ref` and the thread's `--ref`
overlap, one is lost, and a later release destroys a fork that is still listed
and runs: `LastRelease` and `Outlived` are only claimed for `MaxHolds = 0`.

`fork_lost` shows what the code gets wrong even so: `fork_join` looks at
`is_done`, enters the event's list, and leaves the shreduler's, in three steps
that no lock makes one. A fork that ends between any two of them lets its joiner
sleep for ever. In the trace it broadcasts after the first two: the joiner is
shreduled, and then takes itself off the list.

### What is proved

`ForkJoinProofs` proves `Spec => []JInv` for any tree of forks, any variables that
hold them and whatever programs do with those, given `ForkAssumption` (every fork
has `Root` above it). `JInv` is about who has joined whom, and needs no counts: a
destructor that a lost count starts too early still waits for the thread before
it frees anything. Its parts are what a thread's place says of its list: a
thread that is past the loop of joins has no fork left to join (`Reaping`); a fork
that is not joined yet is in its VM's list, so that the loop finds it
(`Threads`); one is freed only when joined (`Forgetting`, `Dead`). From it follow
`ThreadsEndInOrder`, `FreedAfterTheThread` and `NoThreadIsLeft`.

The last is about forks at any depth, yet is proved without induction on it:
`Above` is the least set closed under `Up`, so that if the set of VMs whose
threads have not ended, which is closed under `Up` by `Threads` and `Reaping`, has
any member, it has `Root`.

The second half of `ForkJoinProofs` assumes `MaxHolds = 0`, as the runs that claim these properties
do, and proves `Spec => []IInv` for any tree of forks; from it
`LastReleaseIsLast`, `WhatThreadsUseOutlives` (`Outlived`, of which events are the
part that needs counts) and `DoneMeansDone`. `IInv` adds to `JInv`:

* `Counted`: the count of a fork is at least the number of its holders, which are
  the list of its VM, its own shred, and the event its body waits for. It is not
  exact: a fork that is stopped keeps its own reference.
* `Stores`: what a thread is about to store is the present count less one, so
  that no update is lost. No lock says so. The argument is who may write a count
  when (`SoleFact`, `EnlistSoleFact`, `DeafenSoleFact`): the VM above releases a
  fork only when it has joined it, and then no thread of it or below it runs;
  the fork itself writes when its body runs, and a fork below it writes only
  while that body waits, for one event.
* `Waiting`: a body waits for one event, and when it is due again the fork that
  told it holds the lock of its VM until it has cleared the list. That is why
  `shreduler_get` does not let it run into a second list too early.
* `StoreFact`: a shred that ends, or is told, is never the last holder, since the
  list of its VM still has it; only `fork_clean` reaches zero.
* `Destroyed`, `Deaf`, `DoneLate`: what is known of a fork that is destroyed or
  marked as done.

The second part of that module is about what happens at all: it proves
`Spec => []EInv` (`ExactCounts`), again for any tree of forks, and from it
`NothingIsLeft` (`NothingLeft`). `EInv` adds to `IInv`:

* `Exact`: a count is the number of its holders, for forks that are `Settled`. The
  proviso is the flaw that `fork_lost` shows: a shred that enters the list of an
  event after the broadcast is cut off with the list, and the reference it took
  is given back by nobody.
* `Kept`: a VM has in its list every fork it is still to release.
* `Spent`, `Buried`: a fork whose count reached zero is destroyed or being
  destroyed, and one that is freed is in the second list of the VM above until
  its own VM is freed too; both lists are empty before that VM tells it is done.
* `Bodies`: what a fork without a thread has not done.

Only model-checked: `CleanupEnds` and `CancelStops`, which are liveness.

## UGenGraph

### State and grain

A *net* is what has edges: `ugen_net_`. A unit of one channel is one net; a unit
of several has one per channel, and one that can be triggered has another for
triggers. `from` and `to` are the two vectors of each net, as the number of times
each other net is in them: the order in a vector only decides the order in which
sources are visited, and the model visits them in any order. `size` is the count
that `ugen_net_` keeps apart. `live` is the vector of units of the VM. `done`
holds the flags of nets and of units, and `ticks` counts what no variable of the
code does: how often each unit was computed in the current sample.

`Connect` and `Disconnect` are the operators `~>`, `~<` and the ones of triggers.
Their sides are units or single channels; `_do_` lets the narrower side go round
(`Pairs`). Units in arrays are loops of the same operations. `vector_rem2` is not
in the repository: `RemovesAll` lets it remove one occurrence or all; the
run takes all, the proofs cover both. `Destroy` is `ugen_dtor`: it edits the other ends of the
edges of every net of the unit. `Init` is the VM with its blackhole; the dac and
the adc are units that `New` makes and `Connect` connects.

`compute_audio` is a recursion. `StartSample` clears the flags and calls the
blackhole; `RunNet` turns a unit to its next net; `Visit` looks at one source,
and calls its unit unless a flag says it was reached; `Tick` is the end of a
call. Programs run between pulls (`Calm`), as the driver computes the sound after
the shreds of the sample have stopped. The net of the blackhole runs once more
in its own tick, and is in the list of its nets twice.

Left out: the samples themselves, what the operators of nets do with them, and
the objects that hold a channel beyond the life of their unit. An operator whose
trigger side has no trigger raises an effect before it changes anything, so that
it is no action.

### What is checked

* `TypeOK`.
* `EdgesAgree`: both ends hold the same edges as often, and no edge ends in a
  unit that was destroyed.
* `SizeExact`: the count of sources is their number, which `compute_mono` trusts.
* `OncePerSample`: no unit is computed twice.
* `WholeGraph`: a pull computes what the blackhole hears and nothing else.
* `SourcesFirst`: a unit is computed after its sources, except those that wait
  for it, so that feedback comes a sample late and nothing else does.
* `PullEnds`: every pull ends, under weak fairness of the pull's own steps, which
  are the machine's own recursion and wait for nobody.

The run is `units`: a unit of two channels and a triggered one, and
`vector_rem2` removes all occurrences.

Bounds. `MaxEdges` is three: a cycle of two units that hangs on the blackhole, a
repeated edge next to another, or two paths to one unit. A further edge adds
paths of the same kinds, and the proofs cover any number.

### What is proved

`UGenGraphProofs` proves `Spec => []IInv` for every set of units, any channels
and any bound on the edges, given `UGenAssumption` (the blackhole is a unit of
one channel without triggers, which have a net per channel only if `Multi`);
from it `EndsAgree`, `ComputedOnce`, and the action properties
`PullsTheWholeGraph` and `SourcesComeFirst`.

`OncePerSample` is not inductive: that a unit was computed is known to `Visit`
only from a flag. `IInv` adds that flags are those of units that were reached
(`FlagsSound`), what is known of each call on the stack (`CallSound`: its unit is
heard, is called for once, is flagged unless it has just begun, and every source
it has seen was reached), and what is known of computed units (`TicksSound`: all
their sources were reached). When the stack is empty, "reached" is "computed",
so the computed units are closed under sources and contain the blackhole: they
contain `Heard`, the least such set. That is `WholeGraph`, without an induction
on paths.

Two theorems are for finitely many units, which a VM has. `SizesAreExact`
(`SizeExact`): every operation changes `size` by what it adds to, or takes from,
the sum of the vector; what sums do when a function changes in one place, or
in all, is in `FiniteSums`. `RecursionIsShallow`: the recursion is never
deeper than there are units, whatever cycles there are, since the calls on the
stack are of different ones.

Only model-checked: `PullEnds`, which is liveness.

## HMap

### State and grain

A dictionary is a table with open addressing (`lib/dict.c`). Hash and equality
are functions of the program, so that the emitter makes a loop of instructions
of every operation; a step of the model is a turn of a loop. `cap` and `count`
are `HMap.capacity` and `.count`; `table` is `state` and `data` together, with a
bucket behind the end, which `hmap_find` may look at: what is there (zeros, or
anything) is a choice made when the table is allocated. `old` and `idx` are the
table that is being rehashed. `bucket` and `tomb` are the words the loops keep on
the stack, `pc` which loop runs, `op` what for. `kept` is what the program has
stored: no variable of the code, but what its answers are compared with.

`Lookup` is `hmap_iter` with the call of equality and `hmap_iter_inc`: a deleted
bucket is noted, and the entry after it is looked at without a test. `Value`
moves what was found onto the deleted bucket. `Grow`, `Rehash`, `Rehashed` are
`hmap_grow_init`, `hmap_grow_dec`, `hmap_find`; `Insert`, `Probe`, `Assign` the
loop of a store; `EachInit`, `EachNext`, `EachEnd` a foreach loop, whose body may
use the dictionary; `Destroy` the destructor.

### What is checked

* `CountExact`: between operations the count is the number of entries, and each
  kept key has one.
* `ImplementsDict`: the table is a `Dict` at every turn of every loop, with what
  growth has not moved yet and without the entry that awaits its value.
* `WorkEnds`: every operation ends, under fairness of the shred that runs it.
* `EachMet`: a foreach loop meets every key that was there when it began.

Bounds. `MCHMap` gives keys hashes, of which the remainders matter: three keys
at any of two places one of which is the last, in a table of four (that does not
grow); four keys that make a table grow to eight; and two keys that are removed,
sought first in different buckets: apart, neighbours, or neighbours around the end.
`Powers` bounds a literal at 255 keys, a bound of the model.
Three keys collide, wrap and interleave in every way that two and a third can.

The code has faults that limit those instances, each of which TLC shows when the
limit is lifted:

* `hmap_find` lets the bucket reach the capacity (dict.c:233): an entry whose
  probe reaches the end of a table that grows is written behind it. `dict_lost`
  shows the lookup that fails. In `dict` the keys of growing tables stay away
  from the end.
* `hmap_iter` skips the test of what follows a tombstone (dict.c:165), and the
  move of an entry onto a tombstone (dict.c:260) can carry it behind a foreach
  loop: in `dict` keys that are removed are not sought first in the same bucket.
* `dict_clear_dtor` starts one too low (dict.c:58): the last bucket is not
  released, as `Destroy` has it.

### What is proved

`HMapProofs` proves `CountIsExact` (`CountExact`), `LoopsMeetAll` (`EachMet`) and
`IsDict` (`ImplementsDict`, the refinement of `Dict`) for any keys and values,
any literal of fewer than 256 keys, any first capacity and any bound on growth,
and for every hash that does not meet one of the first two faults. `Spread` says
which those are:

* a program that removes keys has a hash that is `Perfect` at every capacity of
  its tables, which may grow: no two keys are sought in the same bucket first,
  and two buckets are no key's. It does not use the key 0, which is what a bucket
  holds that was never used. `hmap_iter` looks at what follows a tombstone without
  asking what it is, and `hmap_iter_set` takes a tombstone without looking
  further: one collision is enough for an entry that is found after its removal,
  or for a second one of the same key. Tombstones are not counted, so that they
  may fill a table in which every bucket is some key's.
* a program that makes its table grow, and removes nothing, has a hash that puts
  no key closer to the end of a grown table than there are keys (`Roomy`). Within
  that, keys may collide in every way.
* a program that does neither has any hash.

The first is far stronger than what one would ask of a hash: what the code does
with colliding keys that are removed is no dictionary. `MCHMap` has TLC evaluate
`Spread` for the programs of both runs (`Covered`): it holds of those of `dict`,
and not of those of `dict_lost`.

The invariant is `IInv`. Between the turns of its loops the table is `Good`: an
entry is reached from the first bucket of its key by buckets that are set, no
key has two, and tombstones are only where keys are removed. `Looking`, `Finding`
and `Storing` say what the loops know in the middle: a search for a key has
passed entries of other keys only (`Seeks`), from which `SearchEnds` concludes at
a bucket that is not set that the key is nowhere. `Growing` holds the two tables
together: what the old one has left (`Waits`) are entries of keys that the new
one does not have. `Contents` relates both to `kept`, and `Meeting` puts what a
foreach loop has still to meet ahead of it.

Two facts are about the size of tables. `SpotRoom`: in a table with room,
`hmap_find` finds a bucket and finds it before the end, by the pigeonhole
principle, since fewer buckets are taken than there are keys. `LiteralFact`: a
literal is made by putting its keys one by one in a table that has a bucket more,
by induction on their number.

`IsDict` follows since `Shown`, the refinement mapping, is `kept` in every state
of the invariant (`ShownFact`), so that only the steps that change `kept` or
answer are steps of `Dict`.

Only model-checked: `WorkEnds`, which is liveness.

## Emitter, Bytecode, Machine

### State and grain

The three modules are composed: `Machine!Init` takes a program, a tree, through
`Emit` (`Emitter`) and `tobytecode` (`Bytecode`), and every step is one
instruction. The promise is `Meaning`, an interpreter of the tree that knows
nothing of stacks, jumps or frames.

`Emitter` follows `emit.c` statement by statement: an emitter is a record with
the code so far, the locals with their marks (`stack`), deferred statements,
live values (`vals`, with the range of instructions they are alive in), and the
vectors of jumps to be patched (`cont`, `brk`, `ret`). Every word is one word:
what differs in the code by the size of values is the same here. Expressions
are those that show control: calls, conditions, assignments of objects, members,
arrays.

`Bytecode` follows both passes of `vm_code.c` with their indices. `find_pc` reads
the handlers with indices of the short code from the listing, which is the long
one: `instr` and `bytecode` are kept apart for that.

`Machine` has the shred's stack, memory, frames and try frames (`s`), objects
with counts (`heap`), what functions remember (`memo`), and what was printed
(`out`). A `maybe` answers anything, and the answers are kept: `Meaning` is asked
with the same ones. A run is cut after `MaxBits` answers.

### What is checked

* `Agree`: the code prints what the program means and ends as it means.
* `Balanced`: at the end the stack, the memory and the try frames are as at the
  start.
* `ReleasedOnce`: no object is released twice, and none is left.
* `Ends`: every program ends, under fairness of the VM.

`code` runs 370 programs: every kind of loop with a jump out of it, two loops in
one another with jumps out of both, constant conditions, matches, deferred
statements, calls and recursion, memoization with one and two remembered values,
objects in scopes, loops and functions, effects with handlers in the same and in
another function, and a stack that overflows. `Deepest` is what `MaxMem` holds.
Four answers let each loop go round, end, and go round an inner one. Two loops
show what is different about an inner one; two values of what a jump leaves.

What the programs of the run leave out, since the code does not keep the
promise there:

* `break`, `continue`, `return` and a matched case jump past the release of the
  objects of the scopes they leave, which leak. (A jump runs what every
  enclosing scope deferred, and clears it.)
* Live ranges are indices of the long code and tested against the short one; the
  end of a value is written at a decreasing index; `find_pc` takes the first
  handler behind the instruction, in whichever try statement. Effects in code
  whose handlers do not follow at once go astray.
* A caught effect releases the live values of the whole frame, which the end of
  their scope releases again; a `perform` that is last in its scope leaks them.
  A function whose code has no no-op has no handlers at all.
* `find_handle` pops a try frame that `TryEnd` pops again.
* A branch into merged moves; the target of a `UnionCheck`, which is not moved;
  `break` twice at one place, where the second overwrites the first jump.
* `continue` in a `do` loop asks for no condition. `Meaning` says so too: the
  repository says nothing else.
* A memoized function of more arguments than one compares all with the first.

## The front end

### State and grain

`Walk` says how the passes work, and the other modules what each function does.
A function of the code is a *plan*: a sequence of steps, made when the function
is called on a node. A step calls a function on a child, pushes or pops,
marks a type or a node, or makes a *claim*: a test of the program (a name is
known, a type is right) that may be false. Types are not computed. That is the
abstraction of the model: whether a claim holds is a choice, so that all that is
left of a program is its tree, and what is checked is what the code does when
something is wrong anywhere.

The first word of a call says what the caller does with a failure, after the
macros of the code: `must` is `CHECK_B`, `try` is `if(!...) ok = false`, `poison`
and `flow` are `POISON_NODE`, `loose` drops the result, and so on. `calls` is the
stack of functions that run, each with the rest of its plan and with the
environment it found (`was`, what C keeps in locals). `env` is `Env`,
`Env_Scope`, the flags of `Sema` and the depths of value and type scopes of each
namespace. `marks` has the flags of types and nodes (`scan0` to `check`,
poisoned, typed, global). `Front` has the machine: `Enter` calls, `Change`
changes the environment, `Judge`, `Hold` and `Err` are tests, `Return` goes back
to the caller, with a mark on a node that failed; and `compile`, `passes` and the
loading of contexts around it.

Files are trees in `MCFront`. A template has its instances as nodes of their own
(`instance`), with a plan of their own, and a declaration that mentions one leads
to it. Nine sessions hold every kind of expression, statement and definition:
templates that mention themselves, classes, unions and templates in classes,
reached from outside, function templates that call themselves, variadic ones,
lambdas, partial functions, sporks, traits, typedefs with conditions, default
arguments, and two files that share globals.

### What is checked

* `LeftAsFound`: whatever fails below, a function leaves the environment as it
  found it.
* `NoneLost`: nothing that failed in a file is forgotten when it is emitted.
* `Ordered`: classes are marked by the passes in order, however they are reached.
* `InPlace`: a definition is walked in its class, with its types in scope.
* `Once`: what mentions itself is walked once.
* `Isolated`: the globals of a file that is not well typed are gone, those of the
  others are there.

Bounds. One claim fails in a run (`MaxFailures = 1`), any one, at any call:
after a failure a function either stops or goes on with a flag, so that a second
failure meets a state that the first one reached; where both go on (sema, bodies
of functions) they are of independent nodes. The trees have one of each kind:
kinds differ in their plans, and lists of them are loops.

### What is proved

`FrontProofs` is about any sessions whose trees are as the parser makes them
(`SessionsAssumption`: fields hold nodes of the tree, a declaration has a type,
an instance is one of something; TLC evaluates it for all the trees of
`MCFront`), and any number of failures.

*`BodiesOnce`*: `Once`. A body (`Bodies`) is started by one function only, on its
own node, after that function has looked for the mark of the definition and set
it: `scan1` for `scan1_class_def_body`, and so on (`Starters`). The invariant
(`Walked`) says of the stack of calls that each frame's plan is the end of a plan
that the code may have made (`FramesOk`), that a frame was called by the one
below it for a step that one has yet to finish (`Linked`), that a frame which is
about to start a body has the mark set or is about to set it (`Waits`), and that
no two frames are about to start the same body (`Single`). That a mark is there
when the definition is reached again, by whatever way, is what makes the last
part inductive. Because plans are data, the proof first says of the plan of each
of the eighty functions which calls it may hold (`Fine`), from the rules of how
plans are put together.

*`ScopesAsFound`, `EnvironmentAsFound`*: `LeftAsFound`, in `ScopeProofs`. All of
it but the depth is proved of the programs that are `Sober`, and the depth too of
those that are also `Level`. Each part of these conditions is about a function
that does not put back what it changed:

| `Sober` | what the source does otherwise |
|---|---|
| no name after a dot | `find_type` keeps the class it pushed (env_utils.c:83) |
| the claim "as many arguments" is sure | `template_push_types` pops its scope, and so do callers that ignore its result |
| the claims about the traits of a class are sure | the class stays the one that is walked (`_check_class_def`) |
| those about the names of an enum's values are sure | its namespace stays pushed (scan1.c:440) |
| those about the name of a global union are sure; a global typedef has no class of its own | the global namespace stays pushed (scan0.c:258, scan0.c:152) |
| a global function is no template and no constructor, a global type of functions is no template | likewise (scan1.c:796, check.c:2173, scan2.c:84) |

| `Level` | |
|---|---|
| no template of a class, no constant argument, no global type of functions | these pop to depth 0 wherever they are (scan1.c:918) |
| no `if` that has an `else` and whose body returns | the depth goes down for the `else`, and up again only if that goes well (scan1.c:401) |

Eight of the nine sessions of the run are sober, all but the one with nested
types, and all but that one and the one with templates are level too. What the
theorems leave open of those two is model-checked, with the claims that are sure
(below).

The invariant is about what an environment shows (`View`): where the function is,
the depth, the flags and counts, and the scopes that are open. `Moves` says what
a step does to it, for the steps that calls are among because the functions
called leave it alone (which is the property, used one level down), and
`Leads(u, f, w, p, x, y)` that the plan `p` of a function `f` that began with the
view `w` leads from `x` to `y`, where each step that may end the function early
is one before which the view is `w` again. Of each of the eighty functions it is
then shown that its plan leads from `w` back to `w`, `Still` for what changes nothing on
the way and the lemmas about pairs (push and pop, set and restore) for the rest.
That every frame of the stack has such a plan left, between what it began with and
what the frame above found (`Within`), is the invariant, `Keeping`: a
call begins one, a return hands back what was found, and a function that stops
does so where the view is back.

`defer` shows a disagreement: `sema_stmt_defer` returns before it restores
`in_defer`, and a `return` after a deferred statement is refused.

A claim in the set `sure` of a session is taken to hold: the code leaks when it
fails, and `LeftAsFound` or what follows from it is not true then. These are:

* `find_type` leaves the class it pushed when the name after a dot is unknown
  (env_utils.c:83): in the session with nested types, what the inner type needs.
* A global union, enum or typedef whose name is taken leaves the global
  namespace pushed (scan0.c:152, 258; scan1.c:440).
* A class whose traits are refused is left as the class that is walked
  (`_check_class_def`).
* `template_push_types` takes its scope back when arguments and parameters do not
  match; callers that ignore its result (`_push` of scanx.c) do so again.

Also as in the code, and not in the sessions: `check_unhandled` clears the error
of a context when it warns of an unhandled effect (check.c:2469); a failure of
sema leaves the error of the context unset, so that a file keeps its globals
(`Isolated` leaves those claims out); a failed emission reports success, and with
an id the assertion at compile.c:197 does not hold; `in_variadic` stays set when
a spread cannot be filled (`LeftAsFound` leaves that flag and `in_defer` out); `env_reset` pushes a vector
of effects per file that nobody pops.

## Only model-checked

Liveness under fairness, everywhere: eight of the properties, in `ShredVM`,
`ForkJoin`, `UGenGraph`, `HMap` and `Machine`. TLAPS has no rules for it.

Induction over an operator is out of the prover's reach, but over a set of
numbers it is not: `FiniteSums` derives it from the fact that a non-empty set of
naturals has a least member, and sums and sequences are proved with that.
What stays with TLC:

* `Machine`: `Agree`, `Balanced` and `ReleasedOnce` are checked for chosen
  programs. A proof for all would be an induction over trees, and the emitter
  is a recursive operator.
* `Front`: `NoneLost` rests on validation, which finds by a node that is poisoned
  what the passes before have dropped, and on a context's error that
  `check_unhandled` clears (check.c:2469); `Isolated` likewise. `Ordered` and
  `InPlace` are about which definitions of a tree lead to which: they hold of
  trees that a parser and the first pass agree on, and to state that of all of
  them would be the program again.

## Not modelled

* **Libraries**: parsing, printing, `util` and `ast` are submodules whose
  sources are not in the repository.
* **Object lifetime** beyond shreds, forks, units and the objects of `Machine`:
  destructors written in Gwion, run as shreds (object.c:83), would need the
  instructions of a program that creates and drops the objects it shares.
* **Compile-time evaluation**: `Front` ends with the code of a file. What it
  would add is the shreduler run from within the emitter, listed as a hazard.
* **Instructions** other than those of `Machine` and the calls of `ShredVM`:
  arithmetic, casts, members of structs, closures, sporks with their arguments.
  They differ in the data they move. A time advance is an instruction of
  `ShredVM`, which has no positions in code: the pc that `VM_OUT` stores over
  the one of a handler (vm.c:912) is a hazard without a property.
* **Emission** of classes, closures, sporks, templates and unrolled loops.
* **Arrays, vectors, strings, operators, unions, closures, the import interface,
  the locale**: sequential functions over data, without control of their own.
* **Choosing passes** and plug-ins: tables filled once at start-up, from shared
  objects outside the repository.
* **Sound drivers**, the command line, names and paths of shreds.
