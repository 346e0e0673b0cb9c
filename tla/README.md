# monty-go, in TLA+

monty-go runs Python snippets in Monty worker processes. This directory holds a
TLA+ model of its Go host: who may talk to a worker and when, what happens to
workers, feeds, callbacks and budgets when something fails half-way, how values
and names cross between Go and the sandbox, and how the runtime gets into its
cache. The models are checked with TLC on small instances; every safety
property of the pool, the session, the worker's turns, the budgets and the
installer is also proved with TLAPS for every instance, as is that the pool and
the session implement their abstract specifications and that the decoder gives
every event of a worker, well formed or not, its due.

Run everything here with `tlc -config <run>.cfg <module>` and `tlapm <module>.tla`.
`PROJECT.json` lists runs, mutants, the source lines of each definition, the
hazards the properties are about, and the findings.

## Inventory

| part | state | operations | interacts through | hard part |
|---|---|---|---|---|
| pool (`pool.go`, type `Monty`) | `p.slots`, `p.idle`, `p.workers`, `p.closed`/`p.done` | `New`, `Checkout`, `release`, `Close` | channels, `p.mu`, worker processes | each operation is several critical sections; every one can fail and `Close` can come in between |
| worker turn (`pool.go`, type `worker`) | `w.dead`, pipes, one reader goroutine per turn | `exchange`, `kill`, `shutdown` | `w.mu`, `done` channels, print callback | a timed-out turn leaves its reader behind; the callback fails in mid-turn |
| session (`session.go`) | `closed`, `used`, `inTurn`, `pending` | `FeedStart`, `FeedRun`, `Dump`, `InstallDependencies`, `LoadSession`, `LoadSnapshot`, `Close` | `s.mu`, worker turns, `pool.release` | `s.mu` is free during a turn |
| feeds and snapshots (`session.go`) | `runState` (step, futures, context), the `used` flag of each snapshot | `Resume*`, `ResumeAuto`, `Dump` | the session, host callbacks in goroutines | claim and answer are far apart; callbacks outlive their feed |
| budgets (`session.go`, `snapshot.go`) | suspensions, `sleepUsed`, `maxDuration`, limits reported by the worker | `progress`, `observeEvent`, `encodeSnapshot`, `load` | dumps | counted once across dumps and restores; 0 means "none"; saturation |
| installer (`installer.go`) | the executable, the lock file, temporary files | `Install` | the file system, other processes | crash with the lock held; stale locks |
| print collectors (`print.go`) | output, byte count, sticky failure | `Write` | reader goroutines | cap, failure across feeds |
| codecs (`protocol.go`, `wire.go`, `value.go`, `arena.go`, `class_value.go`, `exception_data.go`) | the stack of addresses being encoded, the arena of a message | encode, decode | requests and events | cycles against shared parts, indexes into the arena, the limits of int64, malformed events |
| host functions, modules, OS policy (`host.go`, `module.go`, `os_policy.go`) | none after construction | `callHost`, `convertHostArg`, `NewExternalModule`, lookup, option encoding | names in import replies and calls, reflection | a name given out in one feed is called in another; numbers narrowed to a parameter; sign extension of seeds |
| `findBinary`, `cmd/monty-install`, `errors.go` | none | lookup, flags, error types | | |

What makes each part correct: a worker has one owner, is reset before it is lent
again, and is killed or kept but never lost; a slot is given back exactly once;
one request at a time is on a worker's pipe and its answer goes to whoever asked;
an answer goes to the suspension it was computed for; a feed that has ended
cancels its callbacks and a suspended one can be resumed; a limit never gets
looser; nothing unverified is executed, and what was returned stays installed;
what crosses the boundary arrives as it was sent or is refused for a reason, and
an imported name leads to its function.

## Modules

| module | models | role |
|---|---|---|
| `WorkerPool` | `New`, `Checkout`, `release`, `Monty.Close`, `Session.Close` | one action per channel operation, critical section of `p.mu`, or exchange |
| `WorkerLease` | - | the abstract promise of the pool: who owns a process |
| `WorkerPoolProofs` | | theorems about `WorkerPool` |
| `WorkerLeaseProofs` | | extends `WorkerPoolProofs`: `WorkerPool` implements `WorkerLease` |
| `Session` | `session.go` | one session used by several goroutines |
| `FeedLife` | - | the abstract promise of a session: how a feed begins, is asked and answered in turn, and ends |
| `SessionProofs` | | theorems about `Session` |
| `FeedLifeProofs` | | extends `SessionProofs`: `Session` implements `FeedLife` |
| `WorkerTurn` | `worker.exchange`, `print.go` | the reader goroutines behind the turns that `Session` and `WorkerPool` treat as outcomes |
| `WorkerTurnProofs` | | theorems about `WorkerTurn` |
| `Budgets` | `progress`, `observeEvent`, `encodeSnapshot`, `load`, the sleep policy | a REPL dumped and restored through several sessions |
| `BudgetsProofs` | | theorems about `Budgets` |
| `Installer` | `installer.go` | installers that share a cache directory |
| `InstallerProofs` | | theorems about `Installer` |
| `Numbers` | integers and durations of `value.go` and `wire.go` | how a number is written into a message and read; not recursive |
| `Decoding` | `decodeArena`, `arenaRef`, `decodeValue` | extends `Numbers`: one node of a message becomes a Go value; not recursive |
| `Decoder` | `progress`, `decodeArena`, `decodeFunctionCall` | extends `Decoding`: the state machine that decodes an event node by node, by itself |
| `CodecProofs` | | theorems about `Numbers` and `Decoder` |
| `GoValues` | `value.go`, seeds of `os_policy.go` | extends `Decoding`: Go values and how they are encoded; what a value means |
| `Arena` | `arena.go` | extends `GoValues`: nodes of a message, written and read |
| `HostCalls` | `host.go` | extends `Arena`: arguments converted to parameters |
| `HostModules` | `module.go` | extends `HostCalls`: module trees, dotted names |
| `Boundary` | `feedRequest`, `ResumeAuto`, decoding of calls and results | composes them with `Decoder`: a session that passes values and calls functions |
| `MC*` | | the instances: symmetry, sets of options, sessions |

The operators of `GoValues` to `HostModules` walk values of any depth and are
RECURSIVE; no module with a theorem reaches them. `Numbers`, `Decoding` and
`Decoder` hold what is not, so that it can be proved about.

Operators whose name ends in `_Something` and whose comment begins with "Mutant"
are deliberately wrong versions of the definition they precede; none is used by a
specification. Each shows that some property notices the bug.

**WorkerPool.** A goroutine's `pc` names the statement it is about to execute;
`held` is its local `w`, `slots` the number of tokens in `p.slots`, `idle` the
content of `p.idle`, `workers` the registry, `proc` the state of a process,
`dirty` (history) the workers that hold the state of a session. `release` is five
actions, because it gives its slot back, decides under `p.mu`, unlocks, and only
then pushes or kills. Worker identities are reused after a kill, so a finite set
stands for any number of processes started.

**Session.** `pc` and `req` are the goroutine's place and the request it builds.
A turn is two actions (`FeedStart`/`Send`, then one of `Turn`), since `s.mu` is
not held in between; `Dump`, `load` and `InstallDependencies` hold it and are one.
The worker (`worker`, `awaited`, external) is the suspension it is in and the
futures it knows of. What may go wrong beyond a lost worker is chosen by
`Mishaps`, so that a run says exactly under which conditions its property holds.
The system sleep of `ResumeAuto` is an async callback or an answer like any other
here; its budget is in `Budgets`. Restored feeds have callbacks for none of the
futures made before the dump. A panic of a `HostFunc` is a mishap too:
`callHost` recovers only from those of functions it calls by reflection
(`host.go:90`), so this one reaches the caller with the snapshot claimed.
`astray` (history) says that the host has lost an event of the worker; until
then the two agree on what is suspended.

**WorkerTurn.** `reader[t]` is the goroutine that `exchange` starts for turn `t`,
`answer[t]` its `done` channel, `pipe` the frames in the process's stdout. The
callback is `Write` of a collector, so the order and the cap of collected output
can be stated across turns. The process prints, answers, sends garbage, hangs or
exits as it likes.

**Budgets.** One REPL is followed through a chain of sessions with different
limits; a turn is one action. `vm` holds the worker's limits and, as history, the
suspensions of the feed, the time slept and the options of all sessions so far.
Assumed of the worker: it reports the stricter of its own and the dump's limits
after a load, and applies the per-sleep cap itself (the repository's README says
so of the cap; the host takes the minimum again). The sleep policy of a
session (system with a cap per sleep, -1 for `UnlimitedSleep`; a call of the
host; or none) decides what sleeps suspend and what they cost; a restored worker is assumed to follow the policy
of the session that restores it. Dumps without a sleep account,
which `decodeSnapshot` also accepts, are not written by this version and not
modelled.

**Boundary.** A value is a record; slices, maps and pointers are references to
`objects`, so that two values can share parts or contain themselves, and a slice
can be a prefix of another (`Ref` has a length). `Means` is what a Go value says
and `Reads` what a receiver finds at an index of an arena: the two reference
definitions that the encoder and the decoder are compared with. An arena is
written node by node in the order of the code, one action per input, and decoded
one action per node. The decoding actions are those of `Decoder`, whose own
specification lets the worker write anything and the rest of the session do
anything that leaves the decoded values alone; the run `boundary` checks that
`Boundary` implements it, so what is proved of `Decoder` holds here. A converted argument is again a value. `problem` is why the
last request or conversion was refused. Names are sequences of parts, and the
`ExternalLookup` of the feed comes before the modules of the session, as in
`ResumeAuto`. The program in the sandbox is external: it echoes what it was sent
or sends nodes of its own, also malformed ones. The session is driven by one
goroutine; who may speak is in `Session`. Two things the model shows about the
code and that the properties take into account: a slice that holds a prefix of
its own array is refused as a cycle, and a `NamedTuple` that contains itself is
found by the depth limit only.

**Installer.** An action is one system call. `target` and the staged file are
"absent", "corrupt" or "valid"; validation is atomic. `lock` is who created the
lock file, `old` that it has reached `installLockStaleAfter`; a call never knows
whose lock file it removes, as in the code. `stolen` (history) tells whether a
lock file was taken from an owner at work. The bounded retry after
`ERROR_ACCESS_DENIED` on Windows is a stutter at the lock.

## Runs

| run | instance | shows |
|---|---|---|
| `pool_safety` | 3 clients, 2 closers, 1 slot, 3 worker identities, recycle after 2 | slot accounting, ownership, no orphan, exact registry, isolation, recycling, process bound; `WorkerPool` implements `WorkerLease` |
| `pool_live` | 2 clients, 2 closers, 1 slot, fair | after `Close` blocked checkouts return, and `Close` returns; a blocked `Checkout` is served if sessions are closed |
| `pool_close_leak` | 2 clients, 1 closer | **violation**, finding 1 |
| `session_safety` | 2 goroutines, 2 feeds of up to 2 suspensions, every mishap | one speaker, answers and dumps of the right suspension, one driver, callbacks cancelled; host and worker agree on what is suspended until an event is lost, and a feed can be resumed until a mishap; `Session` implements `FeedLife` |
| `session_live` | 2 goroutines, 1 feed of up to 3 suspensions, fair | `Close` wakes `ResumeAuto`; the first ready future of two resumes the feed |
| `session_print_loss` | a print callback fails in a feed; nothing is loaded | **violation**, finding 2 |
| `session_codec_loss` | a value cannot be encoded | **violation**, finding 3 |
| `turn` | 3 turns, 5 chunks, cap of 3 bytes, fair | answers match requests, one reader, output in order and bounded, no reader leaked |
| `budgets` | 3 sessions, 2 feeds each, combinations of limits and sleep policies | suspensions and sleep counted once, limits inherited |
| `boundary` | 35,000 small sessions in seven groups | every input, reply and seed is read as it was meant, exactly the unencodable is refused, no node is shared, events are decoded faithfully, node by node and as a whole, or refused for a fault of theirs, `Boundary` implements `DecoderSpec`, functions get what was sent, imported names are unambiguous and resolve |
| `installer` | 2 installers, 1 forced, crashes, stale locks, fair | one holder and nothing returned is removed until a live owner loses its lock; only verified files are published; everybody ends |
| `installer_stale` | 2 installers | **violation**, finding 4 |

**Bounds.** Two goroutines show every race of a pair, and each critical section
involves at most a pair; the pool gets a third client so that one can wait for a
slot, one hold it and one be in `release` after giving it back. One slot makes
every wait and a full `p.idle` happen, and keeps the worker identities above what
`ProcessBound` allows; the proofs cover any number of slots.
Two feeds let a stale snapshot meet a newer feed, two suspensions let it
meet a later step of its own. Three turns let a late answer meet a second and a
third request. Three sessions let a restored dump be dumped and restored again.
Every bound is a constant and stops the system in a guard; nothing is pruned by a
state constraint.
In `boundary` a session asks about one thing (graphs, seeds, scalars, types,
signatures, worker messages, modules), so the sets add up instead of multiplying.
Two objects of full variety contain one another, themselves, and prefixes; three
form longer cycles and chains one deeper than `MaxValueDepth` = 2. `MaxInt64` = 3
puts both sides of every limit of int64 and uint64 within -6..9; bytes of two bits let seeds have up to four. Messages of three parts let
every reference go back, to itself, forward and out of range. Two feeds and three
requests let a name be imported in one feed and called in the next under another
lookup.
`budgets` and `boundary` switch deadlock checking off because their sessions are
bounded and simply end; the other modules have an explicit
`Finished` step.

**Fairness.** Weak fairness is asked only of steps a goroutine takes by itself.
Nobody is forced to call `Checkout`, `Close` or `Resume`, host callbacks and the
worker may run for ever. A turn ends because of `RequestTimeout` or the caller's
context: with neither, `exchange` waits as long as the worker does. Strong
fairness is used twice: for receiving from `p.slots` (Go wakes the waiters of a
channel in order, so a waiter is not passed over for ever) and for removing a
stale lock file (it does not fail every time). `WaiterServed` carries its own
condition, that callers close their sessions: without it a pool with all slots
taken rightly blocks.

## Findings

1. `pool_close_leak`: `release` looks at `p.closed`, unlocks, and then pushes the
   worker; if `Close` drains `p.idle` in between, the worker stays in the queue
   of a closed pool and its process is never reaped (`pool.go:440`).
2. `session_print_loss`: when a print callback fails, `exchange` drops the last
   event of the turn and keeps the worker. In the trace `FeedStart` runs code that
   prints and then suspends: it returns the callback's error, `s.pending` stays
   nil, the worker waits for a resume the host will not send, and the next feed
   reaches a suspended worker (`pool.go:587`). The repository's test
   (`integration_test.go:249-250`) has a feed that ends in the turn in which it
   prints, where nothing is lost. A load can lose the suspension it restores in
   the same way (`session.go:952`); the run leaves loads out (`FeedsOnly`), they
   are in `session_safety`.
3. `session_codec_loss`: a value for a name lookup or a future that cannot be
   encoded ends the call after the snapshot was claimed; the feed can only be
   closed. For function calls the code raises such an error in Python instead
   (`session.go:460`). `Boundary` shows which values these are; there the feed
   ends in phase "abandoned".
4. `installer_stale`: an installer that takes longer than
   `installLockStaleAfter` loses its lock to another; of two overlapping holders
   the slower can remove, for a moment, the executable whose path the faster has
   already returned (`installer.go:275`).

## Theorems

Proved by TLAPS for every value of the constants: any finite sets of clients and
closers, any number of workers, goroutines, feeds, suspensions, turns, chunks and
sessions, any options that the code accepts. The assumptions are the named ones
of the modules (`OptionsAssumption`, `ThreadsAssumption`, `SessionAssumption`,
`TurnsAssumption`, `BudgetsAssumption`, `InstallersAssumption`,
`NumbersAssumption`); TLC evaluates each of them. No theorem is about fairness,
so what they say holds of behaviours that stop as well.

The inductive invariants were checked with TLC on the instances of the runs
before they were proved.

`WorkerPoolProofs`
- `TypeCorrect`. `TypeOK` is not inductive: that what is pushed into `p.idle` is
  a worker needs `HeldShape` (at which statements a goroutine's `w` is not nil),
  and the capacity of the channels is in the type.
- `Exclusive`. Strengthened with `OwnedIsLive`: an owned identity has a process,
  so a freshly started one cannot be owned already.
- `SlotsAccounted`. The number of tokens is the cardinality of the set of
  clients between taking and freeing a slot; the lemmas move one client in or out
  of that set.
- `NothingOrphaned`, `RegistryIsExact`. Step by step from the two above: whoever
  gives up a reference has pushed or killed the worker.
- `Isolation`, `Recycling`. From `Fitness`: what is known of a worker at each
  place it can be (in `p.idle`: reset, below the recycle limit; in `release`: as
  the argument `reusable` says).
- `ProcessesBounded`. A counting argument, no induction of its own: by `NoOrphan`
  a live process is in `p.idle` (its capacity) or held, by `HeldShape` it is held
  by a client with a token (`SlotAccounting`), by one inside `release`, by a
  goroutine inside `Close`, or by `New`. `NewAlone` (nobody has the pool before
  `New` returns) keeps the worker that `New` holds within the share of the
  tokens.
- `OnlyIdleWorkersLeft`. What finding 1 can leave behind, from `NoOrphan`,
  `HeldShape` and `Fitness`: once every call has returned and every session is
  closed, the processes that are left are reset workers in `p.idle`, at most
  `MaxProcesses` of them. Nothing else is ever leaked.

`WorkerLeaseProofs`
- `PoolImplementsLease`: `Spec => LeaseSpec`. The refinement mapping picks the
  owner with CHOOSE; `OwnerIs` says what it picks, which `ExclusiveOwnership`
  makes unambiguous. One lemma per step of the lease: starting a process is
  `Create` (needs `OwnedIsLive`), `TakeIdle` and the drain loop are `Lend`,
  `PushIdle` and `Fill` are `GiveBack` (needs `Fitness`: what is pushed is
  clean), the three ways to kill are `Destroy`, `Configure` is `Use` and `Reset`
  is `Clear`. All other steps leave the lease alone.

`SessionProofs` (all invariants of `session_safety`, under every set of mishaps)
- `TypeCorrect` (as in `WorkerTurnProofs` and `InstallerProofs` it is proved and
  not part of a run), from `Shape`: whoever works on a snapshot has got it from the
  session, and every snapshot and request is of a feed that has started.
- `OneSpeakerAlways`, from `Speaking`: `inTurn` is set exactly while a goroutine
  is in a turn, a closed session is in no turn and has no feed, and only `Close`
  gives up the worker. `s.mu` is free in a turn, so mutual exclusion rests on
  this flag alone.
- `AnswersItsSuspensionAlways`, `OneDriverAlways`, from `Claims` and `Current`: a
  driven snapshot is claimed, no snapshot is ahead of its feed, the suspension of
  a live worker is that of the last snapshot of the feed `s.pending` names.
- `DumpIsOfItsSnapshotAlways`, from the same: what `Dump` compares under `s.mu`
  (`pending` and the step) is enough, although it has read `used` before.
- `CallbacksCancelledAlways`, from `Owned`: a feed that has given out a snapshot
  or started a callback is the session's feed or is cancelled.
- `AgreeUntilEventLostAlways`, `ResumableUntilMishapAlways`. Both are about
  behaviours up to an event; the lemmas `NoEventLost` and `NoMishap` say that
  before it none of the steps that lose an event or strand a feed was taken.

`FeedLifeProofs`
- `SessionImplementsFeedLife`: `Spec => FeedSpec`. In the mapping a feed is live
  if it is the one `s.pending` names or some goroutine is in a turn of it;
  `LiveIs` says that this is at most one feed, and is what the lemmas, one for
  each step of `FeedLife`, use of the state before and after. Every other step
  of a goroutine (claims, callbacks, dumps, refused calls) is a stutter. The
  hard steps are the ones where a suspension is reported and not offered
  (`LoadSession` of a suspended dump, a codec error, a panic).
- `QuestionsAndAnswersAlternate`, `EndedFeedsStayEnded`: proved of `FeedLife`,
  where they take a few lines, and carried over by the refinement.

`WorkerTurnProofs` (all invariants of `turn`)
- `TypeCorrect`, `OneReaderAlways`, from `Turning`: only the last turn's reader
  is active, and on a live worker only while that turn waits.
- `AnswersItsRequestAlways`, from `Framing` and `Answering`: the pipe holds
  frames of the last turn only, its last event at the end, and is empty when a
  turn that keeps the worker has returned. This is what makes up for the
  protocol having no request numbers.
- `OutputInOrderAlways`, from `Chunks` and `Flowing`: until the collector fails,
  what is collected, what the reader holds and what is in the pipe are
  consecutive pieces of what was printed.

`BudgetsProofs` (all invariants of `budgets`)
- `TypeCorrect`, from `Records`: with saturating addition no account leaves the
  range of an int64.
- `SuspensionsCountedAlways`, from `Counted`: the host's count is the worker's,
  and a dump of a suspended feed carries it.
- `SleepPaidForAlways`, from `Paid`: the account covers what was slept and the
  whole of the sleep under way, in the session and in the dump.
- `LimitsInheritedAlways`, from `Inherited`: worker and dump carry the strictest
  limits of all sessions so far. The rounding of a limit to whole microseconds
  goes in the safe direction (`WholeMicros`).

`InstallerProofs`
- `TypeCorrect`; `OnlyVerifiedIsPublished`, an action property that needs
  `StagedValid` (whoever is past the digest check has a valid file) and no
  assumption on locks at all.
- `Excludes`, `ReturnedStays`, both about the time until a lock file is removed
  as stale while its owner is at work (`stolen`, history). `LockOwned`: until
  then, whoever is past the lock owns the lock file, so removing the lock file of
  an owner that has crashed leaves nobody past the lock. `TargetKept`: the holder
  that is going to replace the executable has found no valid one, and stays right
  because nobody else changes it. After `stolen` both fail, which is finding 4.

`CodecProofs`
- `DurationsNormal`: a duration, also a negative one, becomes a timedelta in
  Python's normal form of as many microseconds; `Borrow` is the step of
  `encodeDuration` that could be off by one.
- `NumbersArrive`, `NumbersReturn`: what the worker reads is what the host meant,
  on either side of the limits of int64, and what comes back has the same
  meaning. This is the part of `EncodedFaithfully` that is about numbers.
- `EveryEventDecoded`: `DecoderSpec => []DecodedNodeByNode`, for events of any
  length with any references. The assumption on the worker is `IsEvent`: nodes
  have the fields of their kind, nothing is said of where they refer to. The
  invariant adds that `values` is not longer than the message and refers to
  existing objects only. `NodeDecoded` says that a node is decoded just when it
  is `Sound`: one known kind, backward references, and for classes, instances and
  modules `CompleteNode` (identities, class, fields). For an instance this needs
  `ClassesAreClasses`, since the code asks the decoded value and not the node
  whether it is a class; for a module `ModuleDecoded` relates the code's rule (no
  field twice, identity and attributes seen) to the list of fields. `MirrorsKept` says
  that a new object disturbs no value decoded before.
- `MessagesDecodedAsRead`: from single nodes to whole values. `Reads` and `Means`
  are recursive, so the theorem is about every pair of functions that satisfy
  their equations (`ReadsNode` and `MeansValue`, the operators with which `Reads`
  and `Means` are defined). The induction is on the index of a node: references
  go back (`Sound`), so a first node that is decoded to something else than it
  reads cannot exist. `LeastNumber`, by which there is a first one, comes from
  the well-foundedness of the natural numbers; it needs no operator parameter,
  which the provers could not instantiate.

Only model-checked:
- liveness (`CloseEnds`, `WaiterServed`, `CloseWakesWaiter`, `ReadyFutureResumes`,
  `ReadersEnd`, `InstallEnds`): the prover has no rules for fairness and ENABLED;
- that `Boundary` implements `DecoderSpec`: `Boundary` reaches RECURSIVE
  operators, with which the prover cannot work;
- `EncodedFaithfully` beyond numbers, `AcceptedExactly`, `ReceivesWhatWasSent`
  and `ImportedResolves`: they are about RECURSIVE operators over trees and
  graphs of values, which have no index to do the induction on, and about folds
  (seeds, dotted names);
- the four violations, which are counterexamples.

## Not modelled

- Bytes: varints, frame headers and the numbers of protobuf fields. An encoding
  failure, a truncated or an oversized frame is a step of `WorkerTurn`.
- Values without parts (floats, bytes, dates, paths) beyond one representative;
  `TextMarshaler`. Two exceptions to round trips are known from reading and outside the model: a
  `Cycle` node goes back as a dict and a `Repr` node as a str.
- Of class values only what the arena needs: origin, reference to the class, and
  whether the identity is absent, a UUID or bytes that are none; which UUID it is
  makes no difference to the host. The legacy nested form of classes and instances
  and a field given twice in one of them (the later one counts) are not modelled.
- Widths of unsigned types: `Uint8` stands for any narrow one. A real `[]uint8`
  goes as bytes, which are values without parts.
- Of reflection on parameters: interfaces with methods and `time.Duration`. The
  error a function returns is in `Session`, an answer like any other.
- Of modules the stubs and their collection; imports answered by an `OSHandler`.
  A top-level module is assumed to have a name without dots. The arguments of OS
  calls are not decoded in the model.
- The discovery of the binary, the `monty-install` command, `captureStderr`, exit
  codes, wording of errors.

Three things a caller may meet and about which the repository claims nothing, so
that there is no property to check: the reader of a turn that timed out may call
the print callback once more after `FeedRun` has returned (`pool.go:575`); a
value in which parts are shared at every level is copied as a tree, exponentially
larger (`arena.go:12`); distinct Python keys of the same text become one key of a
Go map, and the later entry stays (`host.go:287`).

## Plan

Done: pool, session, turn, budgets, installer and boundary with their runs;
proofs of all safety properties outside `Boundary`, of the refinements of
`WorkerLease` and `FeedLife`, of the numbers of the codec and of the decoder.

What is left, in this order:
1. the encoder in the manner of the decoder: its tree walk as a machine with an
   explicit stack, so that `EncodedFaithfully` and `AcceptedExactly` become
   invariants with an induction on the index of a node;
2. a composition of `Session` with the pool's lease, so that the release at the
   end of `Close` and the next session of the same worker are one behaviour;
3. the discovery of the binary.
