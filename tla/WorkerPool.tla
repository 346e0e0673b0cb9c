----------------------------- MODULE WorkerPool -----------------------------
(***************************************************************************)
(* The worker pool of pool.go: New, Checkout, release and Close of the     *)
(* type Monty, run by any number of goroutines.  One action is what a      *)
(* goroutine does between two points at which another one can act: one     *)
(* channel operation, one critical section of p.mu, or one exchange with   *)
(* a worker process.                                                       *)
(*                                                                         *)
(* A session is abstracted to the time its worker is lent out; Session.tla *)
(* models what happens in it.                                              *)
(***************************************************************************)
EXTENDS Integers, Sequences, FiniteSets

CONSTANTS
  Clients,       \* goroutines that check sessions out and close them
  Closers,       \* goroutines that call Monty.Close
  Creator,       \* the goroutine that runs New
  Workers,       \* identities a *worker can have; one is reused after its kill
  NoWorker,      \* a nil *worker
  MaxProcesses,  \* Options.MaxProcesses, after New has applied the default
  MinProcesses,  \* Options.MinProcesses, after New has applied the default
  MaxCheckouts   \* Options.MaxCheckoutsPerWorker; 0 is no limit

\* The values New lets through: MinProcesses 0 becomes 1.
ASSUME OptionsAssumption ==
  /\ MaxProcesses \in Nat \ {0}
  /\ MinProcesses \in 1..MaxProcesses
  /\ MaxCheckouts \in Nat

Threads == Clients \cup Closers \cup {Creator}

Pool == "p.idle"    \* the owner of a worker that waits in p.idle
Nobody == "nobody"  \* the owner of an identity that no process has

ASSUME ThreadsAssumption ==
  /\ IsFiniteSet(Clients)
  /\ IsFiniteSet(Closers)
  /\ Clients \cap Closers = {}
  /\ Creator \notin Clients \cup Closers
  /\ NoWorker \notin Workers
  /\ Pool \notin Threads
  /\ Nobody \notin Threads

VARIABLES
  pc,         \* where each goroutine is
  held,       \* the *worker in the goroutine's local variable, or NoWorker
  reusable,   \* the argument of the goroutine's call of release
  slots,      \* number of tokens in the channel p.slots
  idle,       \* contents of the channel p.idle
  closed,     \* p.closed; p.done is closed in the same critical section
  workers,    \* p.workers
  proc,       \* state of a worker's process
  checkouts,  \* w.checkouts
  dirty       \* workers that were configured and not reset since (history)

vars == <<pc, held, reusable, slots, idle, closed, workers, proc, checkouts, dirty>>

(***************************************************************************)
(* "none": no process has this identity.  "alive": the process runs.       *)
(* "exited": it has ended by itself and the host has not noticed.          *)
(* "dead": the host has set w.dead, killed it and waited for it.           *)
(***************************************************************************)
ProcStates == {"none", "alive", "exited", "dead"}

\* Where a goroutine that still owns a token of p.slots can be.
Slotted == {"pick", "spawn", "register", "spawnFailed", "check", "configure",
            "session", "reset", "freeSlot"}
Releasing == {"freeSlot", "decide", "push", "kill"}
ClientStates == {"out", "wait"} \cup Slotted \cup Releasing
Draining == {"drain", "drop", "shutdown"}
CloserStates == {"ready", "returned"} \cup Draining
CreatorStates == {"prewarm", "spawn", "register", "spawnFailed", "fill",
                  "returned", "failed"} \cup Draining

Init ==
  /\ pc = [t \in Threads |-> IF t \in Clients THEN "out"
                             ELSE IF t \in Closers THEN "ready" ELSE "prewarm"]
  /\ held = [t \in Threads |-> NoWorker]
  /\ reusable = [t \in Threads |-> FALSE]
  /\ slots = 0
  /\ idle = <<>>
  /\ closed = FALSE
  /\ workers = {}
  /\ proc = [w \in Workers |-> "none"]
  /\ checkouts = [w \in Workers |-> 0]
  /\ dirty = {}

-----------------------------------------------------------------------------
Goto(t, from, to) ==
  /\ pc[t] = from
  /\ pc' = [pc EXCEPT ![t] = to]

Drop(t) == held' = [held EXCEPT ![t] = NoWorker]

\* New has returned the pool to its caller.
Open == pc[Creator] = "returned"

\* (w *worker) kill, after which nobody keeps the *worker.
Kill(w) ==
  /\ proc' = [proc EXCEPT ![w] = "none"]
  /\ checkouts' = [checkouts EXCEPT ![w] = 0]
  /\ dirty' = dirty \ {w}

(***************************************************************************)
(* startWorker: start a process, then register it under p.mu unless the    *)
(* pool has been closed meanwhile.                                         *)
(***************************************************************************)
Spawn(t) ==
  /\ Goto(t, "spawn", "register")
  /\ \E w \in Workers :
       /\ proc[w] = "none"
       /\ proc' = [proc EXCEPT ![w] = "alive"]
       /\ held' = [held EXCEPT ![t] = w]
  /\ UNCHANGED <<reusable, slots, idle, closed, workers, checkouts, dirty>>

SpawnFails(t) ==
  /\ Goto(t, "spawn", "spawnFailed")
  /\ UNCHANGED <<held, reusable, slots, idle, closed, workers, proc, checkouts, dirty>>

Register(t) ==
  /\ ~closed
  /\ Goto(t, "register", IF t = Creator THEN "fill" ELSE "check")
  /\ workers' = workers \cup {held[t]}
  /\ UNCHANGED <<held, reusable, slots, idle, closed, proc, checkouts, dirty>>

\* Mutant: the process is forgotten, not killed.
RegisterClosed_Forgets(t) ==
  /\ closed
  /\ Goto(t, "register", "spawnFailed")
  /\ Drop(t)
  /\ UNCHANGED <<reusable, slots, idle, closed, workers, proc, checkouts, dirty>>

RegisterClosed(t) ==
  /\ closed
  /\ Goto(t, "register", "spawnFailed")
  /\ Kill(held[t])
  /\ Drop(t)
  /\ UNCHANGED <<reusable, slots, idle, closed, workers>>

StartWorker(t) == Spawn(t) \/ SpawnFails(t) \/ Register(t) \/ RegisterClosed(t)

(***************************************************************************)
(* New.  Nobody else has the pool before New returns, so the loop counter  *)
(* is the number of workers already in p.idle.                             *)
(***************************************************************************)
Prewarm ==
  /\ Len(idle) < MinProcesses
  /\ Goto(Creator, "prewarm", "spawn")
  /\ UNCHANGED <<held, reusable, slots, idle, closed, workers, proc, checkouts, dirty>>

Fill ==
  /\ Goto(Creator, "fill", "prewarm")
  /\ Len(idle) < MaxProcesses
  /\ idle' = Append(idle, held[Creator])
  /\ Drop(Creator)
  /\ UNCHANGED <<reusable, slots, closed, workers, proc, checkouts, dirty>>

Prewarmed ==
  /\ Len(idle) = MinProcesses
  /\ Goto(Creator, "prewarm", "returned")
  /\ UNCHANGED <<held, reusable, slots, idle, closed, workers, proc, checkouts, dirty>>

\* ctx has ended, or startWorker has failed: New closes the pool itself.
PrewarmCancelled ==
  /\ Len(idle) < MinProcesses
  /\ Goto(Creator, "prewarm", "drain")
  /\ closed' = TRUE
  /\ UNCHANGED <<held, reusable, slots, idle, workers, proc, checkouts, dirty>>

PrewarmStartFails ==
  /\ Goto(Creator, "spawnFailed", "drain")
  /\ closed' = TRUE
  /\ UNCHANGED <<held, reusable, slots, idle, workers, proc, checkouts, dirty>>

New ==
  \/ StartWorker(Creator) \/ Prewarm \/ Fill \/ Prewarmed
  \/ PrewarmCancelled \/ PrewarmStartFails

(***************************************************************************)
(* Checkout.  A call on a closed pool, or with an ended ctx or bad         *)
(* options, returns an error and changes nothing: the client stays "out".  *)
(***************************************************************************)
EnterCheckout(c) ==
  /\ Open
  /\ ~closed
  /\ Goto(c, "out", "wait")
  /\ UNCHANGED <<held, reusable, slots, idle, closed, workers, proc, checkouts, dirty>>

\* Mutant: a channel without capacity limit.
AcquireSlot_Unbounded(c) ==
  /\ Goto(c, "wait", "pick")
  /\ slots' = slots + 1
  /\ UNCHANGED <<held, reusable, idle, closed, workers, proc, checkouts, dirty>>

AcquireSlot(c) ==
  /\ slots < MaxProcesses
  /\ Goto(c, "wait", "pick")
  /\ slots' = slots + 1
  /\ UNCHANGED <<held, reusable, idle, closed, workers, proc, checkouts, dirty>>

\* CheckoutTimeout or the caller's context ends the wait.
WaitTimesOut(c) ==
  /\ Goto(c, "wait", "out")
  /\ UNCHANGED <<held, reusable, slots, idle, closed, workers, proc, checkouts, dirty>>

\* Mutant: the select of Checkout has no case for p.done.
WaitSeesClose_Deaf(c) == FALSE

WaitSeesClose(c) ==
  /\ closed
  /\ Goto(c, "wait", "out")
  /\ UNCHANGED <<held, reusable, slots, idle, closed, workers, proc, checkouts, dirty>>

\* Mutant: the worker is read but stays in the queue.
TakeIdle_Peeks(c) ==
  /\ idle # <<>>
  /\ Goto(c, "pick", "check")
  /\ held' = [held EXCEPT ![c] = Head(idle)]
  /\ UNCHANGED <<reusable, slots, idle, closed, workers, proc, checkouts, dirty>>

TakeIdle(c) ==
  /\ idle # <<>>
  /\ Goto(c, "pick", "check")
  /\ held' = [held EXCEPT ![c] = Head(idle)]
  /\ idle' = Tail(idle)
  /\ UNCHANGED <<reusable, slots, closed, workers, proc, checkouts, dirty>>

NoIdle(c) ==
  /\ idle = <<>>
  /\ Goto(c, "pick", "spawn")
  /\ UNCHANGED <<held, reusable, slots, idle, closed, workers, proc, checkouts, dirty>>

\* Mutant: the token is not given back when startWorker fails.
GiveSlotBack_Leaks(c) ==
  /\ c \in Clients
  /\ Goto(c, "spawnFailed", "out")
  /\ UNCHANGED <<held, reusable, slots, idle, closed, workers, proc, checkouts, dirty>>

\* The "<-p.slots" of Checkout after a failed startWorker.
GiveSlotBack(c) ==
  /\ c \in Clients
  /\ slots > 0
  /\ Goto(c, "spawnFailed", "out")
  /\ slots' = slots - 1
  /\ UNCHANGED <<held, reusable, idle, closed, workers, proc, checkouts, dirty>>

\* Call release(held[c], r).
Release(c, from, r) ==
  /\ Goto(c, from, "freeSlot")
  /\ reusable' = [reusable EXCEPT ![c] = r]

\* The second look at p.done.
CheckDone(c) ==
  /\ ~closed
  /\ Goto(c, "check", "configure")
  /\ UNCHANGED <<held, reusable, slots, idle, closed, workers, proc, checkouts, dirty>>

\* p.done is closed, or AssertMessageAnnotations is not valid.
CheckFails(c) ==
  /\ Release(c, "check", FALSE)
  /\ UNCHANGED <<held, slots, idle, closed, workers, proc, checkouts, dirty>>

(***************************************************************************)
(* What (w *worker) exchange can do to the process of w: the worker        *)
(* answers; or the request fails (a crash, a malformed or fatal answer, a  *)
(* timeout, a cancelled context) and the host kills the worker.            *)
(***************************************************************************)
Answers(w) == proc[w] = "alive" /\ UNCHANGED proc
Breaks(w) == proc' = [proc EXCEPT ![w] = "dead"]

\* w.checkouts is only ever compared with the limit, so it stays 0 without one.
Counted(n) == IF MaxCheckouts = 0 THEN 0 ELSE n + 1

Configure(c) ==
  /\ Goto(c, "configure", "session")
  /\ Answers(held[c])
  /\ checkouts' = [checkouts EXCEPT ![held[c]] = Counted(@)]
  /\ dirty' = dirty \cup {held[c]}
  /\ UNCHANGED <<held, reusable, slots, idle, closed, workers>>

\* Mutant: Checkout returns the error without calling release.
ConfigureFails_NoRelease(c) ==
  /\ Goto(c, "configure", "out")
  /\ Answers(held[c]) \/ Breaks(held[c])
  /\ UNCHANGED <<held, reusable, slots, idle, closed, workers, checkouts, dirty>>

\* Either the exchange fails or the answer is not eventOK.
ConfigureFails(c) ==
  /\ Release(c, "configure", FALSE)
  /\ Answers(held[c]) \/ Breaks(held[c])
  /\ UNCHANGED <<held, slots, idle, closed, workers, checkouts, dirty>>

\* A feed of the session ends in a failed exchange.
SessionBreaks(c) ==
  /\ pc[c] = "session"
  /\ proc[held[c]] # "dead"
  /\ Breaks(held[c])
  /\ UNCHANGED <<pc, held, reusable, slots, idle, closed, workers, checkouts, dirty>>

\* Session.Close, from where it decides to reset the worker.
CloseSession(c) ==
  /\ Goto(c, "session", "reset")
  /\ UNCHANGED <<held, reusable, slots, idle, closed, workers, proc, checkouts, dirty>>

Reset(c) ==
  /\ Release(c, "reset", TRUE)
  /\ Answers(held[c])
  /\ dirty' = dirty \ {held[c]}
  /\ UNCHANGED <<held, slots, idle, closed, workers, checkouts>>

\* Mutant: any answer to the reset makes the worker reusable.
ResetFails_Reuses(c) ==
  /\ Goto(c, "reset", "freeSlot")
  /\ \/ Answers(held[c]) /\ reusable' = [reusable EXCEPT ![c] = TRUE]
     \/ Breaks(held[c]) /\ reusable' = [reusable EXCEPT ![c] = FALSE]
  /\ UNCHANGED <<held, slots, idle, closed, workers, checkouts, dirty>>

\* Either the exchange fails (w.dead included) or the answer is not eventOK.
ResetFails(c) ==
  /\ Release(c, "reset", FALSE)
  /\ Answers(held[c]) \/ Breaks(held[c])
  /\ UNCHANGED <<held, slots, idle, closed, workers, checkouts, dirty>>

Checkout(c) ==
  \/ EnterCheckout(c) \/ AcquireSlot(c) \/ WaitTimesOut(c) \/ WaitSeesClose(c)
  \/ TakeIdle(c) \/ NoIdle(c) \/ StartWorker(c) \/ GiveSlotBack(c)
  \/ CheckDone(c) \/ CheckFails(c) \/ Configure(c) \/ ConfigureFails(c)

SessionClose(c) == CloseSession(c) \/ Reset(c) \/ ResetFails(c)

(***************************************************************************)
(* release: the token goes back first, then p.mu is held to decide, and    *)
(* only then is the worker pushed or killed.                               *)
(***************************************************************************)
FreeSlot(c) ==
  /\ slots > 0
  /\ Goto(c, "freeSlot", "decide")
  /\ slots' = slots - 1
  /\ UNCHANGED <<held, reusable, idle, closed, workers, proc, checkouts, dirty>>

\* Mutant: off by one.
WornOut_Late(w) == MaxCheckouts > 0 /\ checkouts[w] > MaxCheckouts

WornOut(w) == MaxCheckouts > 0 /\ checkouts[w] >= MaxCheckouts

\* Mutant: the outcome of the reset is ignored.
Retire_IgnoresReset(c) == closed \/ WornOut(held[c])

Retire(c) == ~reusable[c] \/ closed \/ WornOut(held[c])

Decide(c) ==
  /\ pc[c] = "decide"
  /\ workers' = IF Retire(c) THEN workers \ {held[c]} ELSE workers
  /\ Goto(c, "decide", IF held[c] \in workers' THEN "push" ELSE "kill")
  /\ UNCHANGED <<held, reusable, slots, idle, closed, proc, checkouts, dirty>>

\* Mutant: the push does not look at the capacity of p.idle.
PushIdle_Overfills(c) ==
  /\ Goto(c, "push", "out")
  /\ idle' = Append(idle, held[c])
  /\ Drop(c)
  /\ UNCHANGED <<reusable, slots, closed, workers, proc, checkouts, dirty>>

PushIdle(c) ==
  /\ Len(idle) < MaxProcesses
  /\ Goto(c, "push", "out")
  /\ idle' = Append(idle, held[c])
  /\ Drop(c)
  /\ UNCHANGED <<reusable, slots, closed, workers, proc, checkouts, dirty>>

\* Mutant: the worker that does not fit stays in p.workers.
IdleFull_KeepsEntry(c) ==
  /\ Len(idle) >= MaxProcesses
  /\ Goto(c, "push", "kill")
  /\ UNCHANGED <<held, reusable, slots, idle, closed, workers, proc, checkouts, dirty>>

IdleFull(c) ==
  /\ Len(idle) >= MaxProcesses
  /\ Goto(c, "push", "kill")
  /\ workers' = workers \ {held[c]}
  /\ UNCHANGED <<held, reusable, slots, idle, closed, proc, checkouts, dirty>>

KillReleased(c) ==
  /\ Goto(c, "kill", "out")
  /\ Kill(held[c])
  /\ Drop(c)
  /\ UNCHANGED <<reusable, slots, idle, closed, workers>>

ReleaseSteps(c) ==
  FreeSlot(c) \/ Decide(c) \/ PushIdle(c) \/ IdleFull(c) \/ KillReleased(c)

(***************************************************************************)
(* Close.  A second call returns while the first may still be draining.    *)
(***************************************************************************)
CloseFirst(t) ==
  /\ Open
  /\ ~closed
  /\ Goto(t, "ready", "drain")
  /\ closed' = TRUE
  /\ UNCHANGED <<held, reusable, slots, idle, workers, proc, checkouts, dirty>>

CloseAgain(t) ==
  /\ closed
  /\ Goto(t, "ready", "returned")
  /\ UNCHANGED <<held, reusable, slots, idle, closed, workers, proc, checkouts, dirty>>

DrainIdle(t) ==
  /\ idle # <<>>
  /\ Goto(t, "drain", "drop")
  /\ held' = [held EXCEPT ![t] = Head(idle)]
  /\ idle' = Tail(idle)
  /\ UNCHANGED <<reusable, slots, closed, workers, proc, checkouts, dirty>>

DropDrained(t) ==
  /\ Goto(t, "drop", "shutdown")
  /\ workers' = workers \ {held[t]}
  /\ UNCHANGED <<held, reusable, slots, idle, closed, proc, checkouts, dirty>>

\* shutdown gives the exchange two seconds and then kills in any case.
Shutdown(t) ==
  /\ Goto(t, "shutdown", "drain")
  /\ Kill(held[t])
  /\ Drop(t)
  /\ UNCHANGED <<reusable, slots, idle, closed, workers>>

\* Mutant: Close waits until every worker has been given back.
DrainDone_WaitsForSessions(t) ==
  /\ idle = <<>> /\ workers = {}
  /\ Goto(t, "drain", IF t = Creator THEN "failed" ELSE "returned")
  /\ UNCHANGED <<held, reusable, slots, idle, closed, workers, proc, checkouts, dirty>>

DrainDone(t) ==
  /\ idle = <<>>
  /\ Goto(t, "drain", IF t = Creator THEN "failed" ELSE "returned")
  /\ UNCHANGED <<held, reusable, slots, idle, closed, workers, proc, checkouts, dirty>>

Drain(t) == DrainIdle(t) \/ DropDrained(t) \/ Shutdown(t) \/ DrainDone(t)

Close(t) == CloseFirst(t) \/ CloseAgain(t) \/ Drain(t)

-----------------------------------------------------------------------------
\* A worker process ends by itself, at any time.
WorkerExits(w) ==
  /\ proc[w] = "alive"
  /\ proc' = [proc EXCEPT ![w] = "exited"]
  /\ UNCHANGED <<pc, held, reusable, slots, idle, closed, workers, checkouts, dirty>>

\* The pool is closed (or was never opened) and nobody is inside a call.
Finished ==
  /\ \/ pc[Creator] = "failed"
     \/ closed /\ (\A c \in Clients : pc[c] = "out")
               /\ (\A t \in Closers : pc[t] = "returned")
  /\ UNCHANGED vars

ClientStep(c) ==
  Checkout(c) \/ SessionBreaks(c) \/ SessionClose(c) \/ ReleaseSteps(c)

Next ==
  \/ New
  \/ Drain(Creator)
  \/ \E c \in Clients : ClientStep(c)
  \/ \E t \in Closers : Close(t)
  \/ \E w \in Workers : WorkerExits(w)
  \/ Finished

Spec == Init /\ [][Next]_vars
-----------------------------------------------------------------------------
(***************************************************************************)
(* Fairness.  A goroutine inside a call keeps running: no step of New,     *)
(* Checkout, release or Close waits for anything but a free token.  An     *)
(* exchange ends because the worker answers or RequestTimeout is set.      *)
(* Senders blocked on p.slots are served first come, first served by Go,   *)
(* hence the strong fairness of AcquireSlot.  Calls of Checkout, the end   *)
(* of a context, the crash of a worker and the end of a session are never  *)
(* forced.                                                                 *)
(***************************************************************************)
ClientProgress(c) ==
  \/ WaitSeesClose(c) \/ TakeIdle(c) \/ NoIdle(c) \/ StartWorker(c)
  \/ GiveSlotBack(c) \/ CheckDone(c) \/ CheckFails(c) \/ Configure(c) \/ ConfigureFails(c)
  \/ Reset(c) \/ ResetFails(c) \/ ReleaseSteps(c)

Fairness ==
  /\ WF_vars(New \/ Drain(Creator))
  /\ \A c \in Clients : WF_vars(ClientProgress(c)) /\ SF_vars(AcquireSlot(c))
  /\ \A t \in Closers : WF_vars(Drain(t))

FairSpec == Spec /\ Fairness

-----------------------------------------------------------------------------
In(s, w) == \E i \in 1..Len(s) : s[i] = w
Distinct(s) == \A i, j \in 1..Len(s) : s[i] = s[j] => i = j

InIdle(w) == In(idle, w)

\* Where a goroutine can be while the worker it holds is in p.workers.
RegisteredAt == {"check", "configure", "session", "reset", "freeSlot", "decide",
                 "push", "fill", "drop"}
\* Where a goroutine holds a worker.
HoldingAt == RegisteredAt \cup {"register", "kill", "shutdown"}

TypeOK ==
  /\ pc \in [Threads -> ClientStates \cup CloserStates \cup CreatorStates]
  /\ \A c \in Clients : pc[c] \in ClientStates
  /\ \A t \in Closers : pc[t] \in CloserStates
  /\ pc[Creator] \in CreatorStates
  /\ held \in [Threads -> Workers \cup {NoWorker}]
  /\ reusable \in [Threads -> BOOLEAN]
  /\ slots \in 0..MaxProcesses
  /\ idle \in Seq(Workers)
  /\ Len(idle) <= MaxProcesses
  /\ closed \in BOOLEAN
  /\ workers \subseteq Workers
  /\ proc \in [Workers -> ProcStates]
  /\ checkouts \in [Workers -> Nat]
  /\ dirty \subseteq Workers

\* A goroutine has a worker exactly where the code has one in a variable.
HeldShape == \A t \in Threads : held[t] # NoWorker <=> pc[t] \in HoldingAt

(***************************************************************************)
(* The tokens in p.slots are exactly the checkouts that are between        *)
(* "p.slots <-" and "<-p.slots": every return path of Checkout and of      *)
(* Session.Close gives back one token and no path gives back two.          *)
(***************************************************************************)
SlotAccounting == slots = Cardinality({c \in Clients : pc[c] \in Slotted})

(***************************************************************************)
(* A worker is in the hands of at most one goroutine or in p.idle once:    *)
(* neither two sessions nor a session and the drain loop of Close share a  *)
(* process, whichever of release, Checkout and Close interleave.           *)
(***************************************************************************)
ExclusiveOwnership ==
  /\ \A t, u \in Threads : t # u /\ held[t] = held[u] => held[t] = NoWorker
  /\ \A t \in Threads : ~InIdle(held[t])
  /\ Distinct(idle)

\* What is held or waits in p.idle is a process that has not been reaped.
OwnedIsLive ==
  /\ \A w \in Workers : InIdle(w) => proc[w] # "none"
  /\ \A t \in Threads : held[t] # NoWorker => proc[held[t]] # "none"

(***************************************************************************)
(* A process that has not been reaped is held or waits in p.idle: no       *)
(* return path of New, Checkout, release or Close drops the last           *)
(* reference to a process without killing it.                              *)
(***************************************************************************)
NoOrphan ==
  \A w \in Workers : proc[w] # "none" => InIdle(w) \/ \E t \in Threads : held[t] = w

(***************************************************************************)
(* p.workers is exactly the set of workers in p.idle or held between       *)
(* startWorker and the decision to destroy them, so the lookup "known" in  *)
(* release never kills a worker that was fit for reuse.                    *)
(***************************************************************************)
RegistryExact ==
  workers = {w \in Workers : InIdle(w)
                              \/ \E t \in Threads : held[t] = w /\ pc[t] \in RegisteredAt}

(***************************************************************************)
(* Session isolation: a worker that waits in p.idle, and one that Checkout *)
(* is about to configure, carries no state of an earlier session and has   *)
(* not been killed by the host.                                            *)
(***************************************************************************)
SessionIsolation ==
  \A w \in Workers :
    InIdle(w) \/ (\E c \in Clients : held[c] = w /\ pc[c] \in {"check", "configure"})
      => w \notin dirty /\ proc[w] \in {"alive", "exited"}

(***************************************************************************)
(* MaxCheckoutsPerWorker: no worker serves more sessions than the limit,   *)
(* and none that has reached it waits in p.idle.                           *)
(***************************************************************************)
RecycleLimit ==
  MaxCheckouts > 0 =>
    \A w \in Workers : /\ checkouts[w] <= MaxCheckouts
                       /\ InIdle(w) => checkouts[w] < MaxCheckouts

Clean(w) == w \notin dirty /\ proc[w] \in {"alive", "exited"}
Fit(w) == Clean(w) /\ ~WornOut(w)

\* Where the worker a goroutine holds must be fit for a session.
FitAt == {"register", "check", "configure", "fill", "push"}

(***************************************************************************)
(* The inductive form of SessionIsolation and RecycleLimit: fitness is     *)
(* established by startWorker or by a successful reset, decided under p.mu *)
(* and not lost until Configure, whoever runs in between.                  *)
(***************************************************************************)
Fitness ==
  /\ \A w \in Workers : proc[w] = "none" => w \notin dirty /\ checkouts[w] = 0
  /\ \A w \in Workers : InIdle(w) => Fit(w)
  /\ \A t \in Threads : pc[t] \in FitAt => Fit(held[t])
  /\ \A t \in Threads : pc[t] \in {"freeSlot", "decide"} /\ reusable[t] => Clean(held[t])
  /\ MaxCheckouts > 0 => \A w \in Workers : checkouts[w] <= MaxCheckouts

(***************************************************************************)
(* Nobody has the pool before New returns it, so while New holds a worker  *)
(* of its own no client holds one.                                         *)
(***************************************************************************)
NewAlone == Open \/ \A c \in Clients : pc[c] = "out"

PoolInv ==
  /\ NewAlone
  /\ TypeOK /\ HeldShape /\ SlotAccounting /\ ExclusiveOwnership /\ OwnedIsLive
  /\ NoOrphan /\ RegistryExact /\ Fitness

(***************************************************************************)
(* How many processes there can be.  release frees its token before it     *)
(* gives the worker back, so MaxProcesses bounds the sessions, not the     *)
(* processes: p.idle and the token owners add up to 2 * MaxProcesses, and  *)
(* every call inside release may hold one more.                            *)
(***************************************************************************)
ProcessBound ==
  Cardinality({w \in Workers : proc[w] # "none"})
    <= 2 * MaxProcesses + Cardinality({c \in Clients : pc[c] \in {"decide", "push", "kill"}})
       + Cardinality({t \in Closers : pc[t] \in Draining})

(***************************************************************************)
(* "Close prevents new checkouts and shuts down idle workers. Checked-out  *)
(* sessions retain their workers until Session.Close." (pool.go, Close):   *)
(* once Close has returned and every session is closed, no process of the  *)
(* pool is left.                                                           *)
(***************************************************************************)
NoWorkerOutlivesPool ==
  /\ closed
  /\ \A t \in Closers : pc[t] = "returned"
  /\ \A c \in Clients : pc[c] = "out"
  => \A w \in Workers : proc[w] = "none"

(***************************************************************************)
(* If callers close their sessions, a Checkout blocked on p.slots does not *)
(* block for ever: no token is lost, whatever fails on the way.            *)
(***************************************************************************)
SessionsClosed == \A c \in Clients : []<>(pc[c] # "session")
WaiterServed ==
  SessionsClosed => \A c \in Clients : (pc[c] = "wait") ~> (pc[c] # "wait")

(***************************************************************************)
(* Close ends what it should: a Checkout that has not got its worker when  *)
(* the pool is closed returns, and Close itself returns, although releases *)
(* that had already decided to reuse their worker may still fill p.idle    *)
(* while it drains, and whether or not open sessions are ever closed.      *)
(***************************************************************************)
CloseEnds ==
  /\ \A c \in Clients : (closed /\ pc[c] \in {"wait", "pick", "spawn", "register"})
                          ~> (pc[c] = "out")
  /\ \A t \in Closers : (pc[t] = "drain") ~> (pc[t] = "returned")

(***************************************************************************)
(* The pool implements WorkerLease: the owner of a worker is the goroutine *)
(* that holds it, else p.idle.                                             *)
(***************************************************************************)
OwnerOf(w) ==
  IF \E t \in Threads : held[t] = w THEN CHOOSE t \in Threads : held[t] = w
  ELSE IF InIdle(w) THEN Pool ELSE Nobody

Lease == INSTANCE WorkerLease WITH
           Owners <- Threads, owner <- [w \in Workers |-> OwnerOf(w)], used <- dirty

(***************************************************************************)
(* Every step of the pool is a step of WorkerLease or leaves the leases    *)
(* alone: a worker changes hands only through p.idle, only clean, and only *)
(* its holder destroys it.                                                 *)
(***************************************************************************)
LeaseSpec == Lease!Spec
=============================================================================
