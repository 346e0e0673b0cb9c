------------------------------ MODULE Session ------------------------------
(***************************************************************************)
(* One session of session.go: FeedStart, the snapshots' Resume, ResumeAuto *)
(* and Dump, Session.Dump, InstallDependencies, LoadSession, LoadSnapshot  *)
(* and Close, called by any number of goroutines on one Session.           *)
(*                                                                         *)
(* An action is what a goroutine does in one critical section of s.mu, in  *)
(* one operation on a snapshot's atomic flag, or in one turn of the worker *)
(* protocol.  A turn is two actions, because s.mu is free while it runs;   *)
(* Dump, Load and InstallDependencies keep s.mu and are one.  FeedRun is   *)
(* FeedStart followed by ResumeAuto until the feed ends.                   *)
(***************************************************************************)
EXTENDS Naturals, FiniteSets

CONSTANTS
  Callers,   \* goroutines that use the session
  Runs,      \* the *runState values: one for each feed or load
  NoRun,     \* a nil *runState
  MaxStep,   \* bound: suspensions of one feed
  Mishaps    \* what may go wrong beyond a lost worker; see PossibleMishaps

(***************************************************************************)
(* "print": the print callback returns an error.  "malformed": the body of *)
(* an event cannot be decoded.  "codec": a host value cannot be encoded.   *)
(* "cancel": the caller's context ends while ResumeAuto waits for futures. *)
(* "unknown": ResumeAuto is called for a future that has no callback.      *)
(* "misload": LoadSession is given the dump of a suspended feed.           *)
(* "budget": a restored session has already used up its MaxDuration.       *)
(* "panic": a HostFunc panics; callHost recovers for reflected ones only.  *)
(***************************************************************************)
PossibleMishaps ==
  {"print", "malformed", "codec", "cancel", "unknown", "misload", "budget", "panic"}

ASSUME SessionAssumption ==
  /\ NoRun \notin Runs
  /\ MaxStep \in Nat \ {0}
  /\ Mishaps \subseteq PossibleMishaps

\* A call is named by the step at which it was made, or was made before a dump.
BeforeDump == MaxStep
CallIDs == 0..MaxStep

Kinds == {"call", "name", "futures"}
Snapshots == [run : Runs, step : 0..MaxStep, kind : Kinds, ids : SUBSET CallIDs]
\* What stands for a snapshot where there is none.
Idle == [run |-> NoRun, step |-> 0, kind |-> "idle", ids |-> {}]
Feed(r) == [run |-> r, step |-> 0, kind |-> "feed", ids |-> {}]

\* A goroutine's request: the snapshot it answers, the calls it turns into
\* futures and the futures it resolves.
Request(s, p, f) == [snap |-> s, promise |-> p, resolve |-> f]
NoRequest == Request(Idle, {}, {})

VARIABLES
  pc,        \* where each goroutine is
  req,       \* the request each goroutine is working on
  closed,    \* s.closed
  used,      \* s.used
  inTurn,    \* s.inTurn
  pending,   \* s.pending
  started,   \* the runStates that exist
  step,      \* r.step
  over,      \* runStates whose context is cancelled
  futures,   \* keys of r.futures, as pairs <<r, id>>
  running,   \* async callbacks under way
  ready,     \* async callbacks whose outcome waits in its channel
  snaps,     \* snapshots returned to callers
  claimed,   \* snapshots whose "used" flag is set
  worker,    \* the worker: Idle, or the suspension it is in
  awaited,   \* the futures its suspended feed knows of
  dead,      \* w.dead
  leased,    \* the session has not released its worker
  spent,     \* s.execution has passed s.maxDuration plus the grace
  saved,     \* the last dump: what it is of, and the worker's state then (history)
  astray     \* what mishaps have cost so far: "event"s and "claim"s (history)

host == <<closed, used, inTurn, pending, started, step, over>>
calls == <<futures, running, ready>>
handed == <<snaps, claimed>>
peer == <<worker, awaited, dead>>
vars == <<pc, req, host, calls, handed, peer, leased, spent, saved, astray>>

Init ==
  /\ pc = [g \in Callers |-> "out"]
  /\ req = [g \in Callers |-> NoRequest]
  /\ closed = FALSE /\ used = FALSE /\ inTurn = FALSE
  /\ pending = NoRun /\ started = {} /\ step = [r \in Runs |-> 0] /\ over = {}
  /\ futures = {} /\ running = {} /\ ready = {}
  /\ snaps = {} /\ claimed = {}
  /\ worker = Idle /\ awaited = {} /\ dead = FALSE
  /\ leased = TRUE /\ spent = FALSE /\ saved = <<Idle, Idle>>
  /\ astray = {}

RunOf(g) == req[g].snap.run

Goto(g, from, to) ==
  /\ pc[g] = from
  /\ pc' = [pc EXCEPT ![g] = to]

Return(g) ==
  /\ pc' = [pc EXCEPT ![g] = "out"]
  /\ req' = [req EXCEPT ![g] = NoRequest]

\* The host has not seen, or not taken in, what the worker's turn ended with.
EventLost == astray' = astray \cup {"event"}
\* A suspension was claimed, or restored, and then let go without an answer.
ClaimLost == astray' = astray \cup {"claim"}
-----------------------------------------------------------------------------
\* Mutant: a suspended feed does not keep FeedStart from starting another.
FeedStart_IgnoresPending(g, r) ==
  /\ r \notin started
  /\ ~closed /\ ~inTurn
  /\ Goto(g, "out", "feeding")
  /\ req' = [req EXCEPT ![g] = Request(Feed(r), {}, {})]
  /\ used' = TRUE /\ inTurn' = TRUE
  /\ started' = started \cup {r}
  /\ UNCHANGED <<closed, pending, step, over, calls, handed, peer, leased, spent, saved>>

(***************************************************************************)
(* FeedStart, up to the exchange.  A call that finds the session closed,   *)
(* suspended or in a turn returns an error and changes nothing.            *)
(***************************************************************************)
FeedStart(g, r) ==
  /\ r \notin started
  /\ ~closed /\ pending = NoRun /\ ~inTurn
  /\ Goto(g, "out", "feeding")
  /\ req' = [req EXCEPT ![g] = Request(Feed(r), {}, {})]
  /\ used' = TRUE /\ inTurn' = TRUE
  /\ started' = started \cup {r}
  /\ UNCHANGED <<closed, pending, step, over, calls, handed, peer, leased, spent, saved>>

(***************************************************************************)
(* runState.exchange, up to the exchange.                                  *)
(***************************************************************************)
MaySend(g) ==
  /\ ~closed
  /\ pending = RunOf(g)
  /\ ~inTurn
  /\ step[RunOf(g)] = req[g].snap.step

Send(g) ==
  /\ Goto(g, "sending", "resuming")
  /\ MaySend(g)
  /\ step' = [step EXCEPT ![RunOf(g)] = @ + 1]
  /\ inTurn' = TRUE
  /\ UNCHANGED <<req, closed, used, pending, started, over, calls, handed, peer, leased, spent, saved>>

Refuse(g) ==
  /\ pc[g] = "sending"
  /\ ~MaySend(g)
  /\ Return(g)
  /\ UNCHANGED <<host, calls, handed, peer, leased, spent, saved>>

(***************************************************************************)
(* What the worker does with a request (external).                         *)
(***************************************************************************)
Owed(g) ==
  IF pc[g] = "feeding" THEN {} ELSE (awaited \cup req[g].promise) \ req[g].resolve

\* The suspensions the feed of g can reach.
NextSuspensions(g) ==
  LET r == RunOf(g)
      n == step[r]
  IN {s \in [run : {r}, step : {n}, kind : Kinds, ids : {{}, Owed(g)}] :
        n < MaxStep /\ s.ids = (IF s.kind = "futures" THEN Owed(g) ELSE {})
                    /\ (s.kind = "futures" => Owed(g) # {})}

WorkerSuspends(g, s) ==
  /\ ~dead
  /\ worker' = s
  /\ awaited' = Owed(g)
  /\ UNCHANGED dead

WorkerEnds ==
  /\ ~dead
  /\ worker' = Idle
  /\ awaited' = {}
  /\ UNCHANGED dead

WorkerBreaks == dead' = TRUE /\ UNCHANGED <<worker, awaited>>

(***************************************************************************)
(* The end of a turn: executionExchange returns, and progress runs under   *)
(* s.mu, the abort of a feed that is over budget included.                 *)
(***************************************************************************)
EndTurn(g) ==
  /\ pc[g] \in {"feeding", "resuming"}
  /\ inTurn' = FALSE
  /\ Return(g)
  /\ UNCHANGED <<closed, used, started, step, calls, claimed, leased, spent, saved>>

Cancel(r) == over' = over \cup {r}

\* The feed is suspended and the caller gets the snapshot.
TurnSuspends(g) ==
  /\ EndTurn(g)
  /\ ~spent
  /\ \E s \in NextSuspensions(g) :
       /\ WorkerSuspends(g, s)
       /\ snaps' = snaps \cup {s}
  /\ pending' = RunOf(g)
  /\ UNCHANGED over

\* Complete, a Python error, a typing error, or the error of an aborted feed.
TurnEnds(g) ==
  /\ EndTurn(g)
  /\ ~spent
  /\ WorkerEnds
  /\ pending' = NoRun
  /\ Cancel(RunOf(g))
  /\ UNCHANGED snaps

\* pending after a failed exchange: only runState.exchange clears it.
AfterError(g) == IF pc[g] = "resuming" THEN NoRun ELSE pending

\* Mutant: a failed exchange does not cancel the feed's callbacks.
TurnBreaks_NoCancel(g) ==
  /\ EndTurn(g)
  /\ ~spent
  /\ WorkerBreaks
  /\ pending' = AfterError(g)
  /\ UNCHANGED <<snaps, over>>

\* The worker crashes, times out, answers garbage or a fatal event, or ctx ends.
TurnBreaks(g) ==
  /\ EndTurn(g)
  /\ ~spent
  /\ WorkerBreaks
  /\ pending' = AfterError(g)
  /\ Cancel(RunOf(g))
  /\ UNCHANGED snaps

\* executionExchange has no time left and sends nothing.
TurnDenied(g) ==
  /\ spent
  /\ EndTurn(g)
  /\ pending' = AfterError(g)
  /\ Cancel(RunOf(g))
  /\ UNCHANGED <<snaps, peer>>

\* The print callback fails: the turn's last event is read and discarded.
TurnLosesEvent(g) ==
  /\ "print" \in Mishaps
  /\ EndTurn(g)
  /\ ~spent
  /\ WorkerEnds \/ \E s \in NextSuspensions(g) : WorkerSuspends(g, s)
  /\ pending' = AfterError(g)
  /\ Cancel(RunOf(g))
  /\ UNCHANGED snaps

\* progress cannot decode the event; only a final event has cancelled the run.
TurnGarbled(g) ==
  /\ "malformed" \in Mishaps
  /\ EndTurn(g)
  /\ ~spent
  /\ \/ WorkerEnds /\ Cancel(RunOf(g))
     \/ (\E s \in NextSuspensions(g) : WorkerSuspends(g, s)) /\ UNCHANGED over
  /\ UNCHANGED <<snaps, pending>>

\* The feed is over budget and the exchange that aborts it fails.
AbortFails(g) ==
  /\ EndTurn(g)
  /\ ~spent
  /\ NextSuspensions(g) # {}
  /\ WorkerBreaks
  /\ Cancel(RunOf(g))
  /\ UNCHANGED <<snaps, pending>>

\* The exchange that aborts it succeeds and the print callback does not.
AbortLosesEvent(g) ==
  /\ "print" \in Mishaps
  /\ EndTurn(g)
  /\ ~spent
  /\ NextSuspensions(g) # {}
  /\ WorkerEnds
  /\ Cancel(RunOf(g))
  /\ UNCHANGED <<snaps, pending>>

Turn(g) ==
  \/ TurnSuspends(g) /\ UNCHANGED astray
  \/ TurnEnds(g) /\ UNCHANGED astray
  \/ TurnBreaks(g) /\ UNCHANGED astray
  \/ AbortFails(g) /\ UNCHANGED astray
  \/ TurnDenied(g) /\ EventLost
  \/ TurnLosesEvent(g) /\ EventLost
  \/ TurnGarbled(g) /\ EventLost
  \/ AbortLosesEvent(g) /\ EventLost
-----------------------------------------------------------------------------
\* Mutant: the claim does not look at the flag.
Claim_Twice(g, s) ==
  /\ \/ Goto(g, "out", "answering")
     \/ /\ s.kind = "futures"
        /\ "unknown" \in Mishaps \/ {s.run} \X s.ids \subseteq futures
        /\ Goto(g, "out", "waiting")
  /\ claimed' = claimed \cup {s}
  /\ req' = [req EXCEPT ![g] = Request(s, {}, {})]
  /\ UNCHANGED <<host, calls, snaps, peer, leased, spent, saved>>

(***************************************************************************)
(* Resume, ResumeError, ResumeAuto...: each first claims its snapshot.  A  *)
(* second claim returns an error and changes nothing.  Until "sending" the *)
(* goroutine holds no lock and may run a host callback for any time.       *)
(***************************************************************************)
Claim(g, s) ==
  /\ s \in snaps \ claimed
  /\ \/ Goto(g, "out", "answering")
     \/ /\ s.kind = "futures"
        /\ "unknown" \in Mishaps \/ {s.run} \X s.ids \subseteq futures
        /\ Goto(g, "out", "waiting")
  /\ claimed' = claimed \cup {s}
  /\ req' = [req EXCEPT ![g] = Request(s, {}, {})]
  /\ UNCHANGED <<host, calls, snaps, peer, leased, spent, saved>>

\* Mutant: a value that cannot be encoded ends the call instead of being raised.
Answer_AbandonsFeed(g) ==
  /\ req[g].snap.kind \in {"call", "name"}
  /\ pc[g] = "answering"
  /\ (Goto(g, "answering", "sending") /\ UNCHANGED req) \/ Return(g)
  /\ UNCHANGED <<host, calls, handed, peer, leased, spent, saved>>

\* A value or an exception for a call or a name; what a call's value cannot
\* encode to is raised in Python instead.
Answer(g) ==
  /\ req[g].snap.kind \in {"call", "name"}
  /\ Goto(g, "answering", "sending")
  /\ UNCHANGED <<req, host, calls, handed, peer, leased, spent, saved>>

\* ResumeFuture: the caller promises to resolve the call by hand.
Promise(g) ==
  /\ req[g].snap.kind = "call"
  /\ Goto(g, "answering", "sending")
  /\ req' = [req EXCEPT ![g].promise = {req[g].snap.step}]
  /\ UNCHANGED <<host, calls, handed, peer, leased, spent, saved>>

\* resumeAsync without AllowEagerAwait: the callback runs in a goroutine.
StartAsync(g) ==
  /\ req[g].snap.kind = "call"
  /\ Goto(g, "answering", "sending")
  /\ req' = [req EXCEPT ![g].promise = {req[g].snap.step}]
  /\ running' = running \cup {<<RunOf(g), req[g].snap.step>>}
  /\ futures' = futures \cup {<<RunOf(g), req[g].snap.step>>}
  /\ UNCHANGED <<ready, host, handed, peer, leased, spent, saved>>

CallbackReturns(c) ==
  /\ c \in running
  /\ running' = running \ {c}
  /\ ready' = ready \cup {c}
  /\ UNCHANGED <<pc, req, futures, host, handed, peer, leased, spent, saved>>

\* FutureSnapshot.Resume with results for some of the pending calls.
ResolveByHand(g) ==
  /\ req[g].snap.kind = "futures"
  /\ Goto(g, "answering", "sending")
  /\ \E f \in SUBSET req[g].snap.ids : req' = [req EXCEPT ![g].resolve = f]
  /\ UNCHANGED <<host, calls, handed, peer, leased, spent, saved>>

\* A name's value, or a future's result, cannot be encoded.
Unencodable(g) ==
  /\ "codec" \in Mishaps
  /\ pc[g] = "answering"
  /\ req[g].snap.kind \in {"name", "futures"}
  /\ Return(g)
  /\ UNCHANGED <<host, calls, handed, peer, leased, spent, saved>>

\* callHost lets the panic of a HostFunc through to the caller of ResumeAuto.
Panics(g) ==
  /\ "panic" \in Mishaps
  /\ pc[g] = "answering"
  /\ req[g].snap.kind = "call"
  /\ Return(g)
  /\ UNCHANGED <<host, calls, handed, peer, leased, spent, saved>>

(***************************************************************************)
(* FutureSnapshot.ResumeAuto.  The select and the sweep that follows it    *)
(* take every outcome that is ready when the sweep passes.                 *)
(***************************************************************************)
Pending(g) == {RunOf(g)} \X req[g].snap.ids

UnknownFuture(g) ==
  /\ pc[g] = "waiting"
  /\ ~(Pending(g) \subseteq futures)
  /\ Return(g)
  /\ UNCHANGED <<host, calls, handed, peer, leased, spent, saved>>

WaitCancelled(g) ==
  /\ pc[g] = "waiting"
  /\ Pending(g) \subseteq futures
  /\ RunOf(g) \in over \/ "cancel" \in Mishaps
  /\ Cancel(RunOf(g))
  /\ Return(g)
  /\ UNCHANGED <<closed, used, inTurn, pending, started, step, calls, handed, peer, leased, spent, saved>>

Taken(g) == Pending(g) \cap ready

\* Mutant: ResumeAuto waits until every pending future is ready.
Collect_WaitsForAll(g) ==
  /\ pc[g] = "waiting"
  /\ Pending(g) \subseteq futures
  /\ Taken(g) = Pending(g)
  /\ futures' = futures \ Taken(g)
  /\ ready' = ready \ Taken(g)
  /\ Goto(g, "waiting", "sending")
  /\ req' = [req EXCEPT ![g].resolve = {c[2] : c \in Taken(g)}]
  /\ UNCHANGED <<running, host, handed, peer, leased, spent, saved>>

Collect(g) ==
  /\ pc[g] = "waiting"
  /\ Pending(g) \subseteq futures
  /\ Taken(g) # {}
  /\ futures' = futures \ Taken(g)
  /\ ready' = ready \ Taken(g)
  /\ Goto(g, "waiting", "sending")
  /\ req' = [req EXCEPT ![g].resolve = {c[2] : c \in Taken(g)}]
  /\ UNCHANGED <<running, host, handed, peer, leased, spent, saved>>

\* An outcome is taken out of its channel and then cannot be encoded.
CollectUnencodable(g) ==
  /\ "codec" \in Mishaps
  /\ pc[g] = "waiting"
  /\ Pending(g) \subseteq futures
  /\ Taken(g) # {}
  /\ futures' = futures \ Taken(g)
  /\ ready' = ready \ Taken(g)
  /\ Return(g)
  /\ UNCHANGED <<running, host, handed, peer, leased, spent, saved>>

\* ResumeAuto returns without having answered the suspension.
Gone(g) == UnknownFuture(g) \/ WaitCancelled(g) \/ CollectUnencodable(g)

Resume(g) ==
  \/ /\ \/ \E s \in snaps : Claim(g, s)
        \/ Answer(g) \/ Promise(g) \/ StartAsync(g) \/ ResolveByHand(g)
        \/ Collect(g) \/ Send(g) \/ Refuse(g)
     /\ UNCHANGED astray
  \/ /\ Unencodable(g) \/ Panics(g) \/ Gone(g)
     /\ ClaimLost

(***************************************************************************)
(* Dump of a snapshot: the "used" flag is read before s.mu is taken.       *)
(***************************************************************************)
DumpUnused(g, s) ==
  /\ s \in snaps \ claimed
  /\ Goto(g, "out", "dumping")
  /\ req' = [req EXCEPT ![g] = Request(s, {}, {})]
  /\ UNCHANGED <<host, calls, handed, peer, leased, spent, saved>>

\* Mutant: the step is not compared.
MayDump_IgnoresStep(g) ==
  /\ ~closed
  /\ pending = RunOf(g)

MayDump(g) ==
  /\ ~closed
  /\ pending = RunOf(g)
  /\ step[RunOf(g)] = req[g].snap.step

\* An exchange that holds s.mu and leaves a live worker where it is.
Ask(what) ==
  \/ ~dead /\ saved' = <<what, worker>> /\ UNCHANGED peer
  \/ WorkerBreaks /\ UNCHANGED saved

DumpSnapshot(g) ==
  /\ pc[g] = "dumping"
  /\ MayDump(g)
  /\ Ask(req[g].snap)
  /\ Return(g)
  /\ UNCHANGED <<host, calls, handed, leased, spent>>

DumpRefused(g) ==
  /\ pc[g] = "dumping"
  /\ ~MayDump(g)
  /\ Return(g)
  /\ UNCHANGED <<host, calls, handed, peer, leased, spent, saved>>

\* Session.Dump and InstallDependencies.
AskIdle(g) ==
  /\ pc[g] = "out"
  /\ ~closed /\ pending = NoRun /\ ~inTurn
  /\ Ask(Idle)
  /\ UNCHANGED <<pc, req, host, calls, handed, leased, spent>>

(***************************************************************************)
(* load, under s.mu from its checks to its end.                            *)
(***************************************************************************)
RestoredSuspensions(r) ==
  {s \in [run : {r}, step : {0}, kind : Kinds, ids : {{}, {BeforeDump}}] :
     s.kind = "futures" <=> s.ids # {}}

Load(g, r) ==
  /\ pc[g] = "out"
  /\ r \notin started
  /\ ~closed /\ pending = NoRun /\ ~inTurn /\ ~used
  /\ used' = TRUE
  /\ started' = started \cup {r}
  /\ UNCHANGED <<pc, req, closed, inTurn, step, calls, claimed, leased, saved>>

\* Whether the restored execution time already exceeds the budget.
MaySpend == spent' \in IF "budget" \in Mishaps THEN BOOLEAN ELSE {FALSE}

\* An idle dump; or a suspension that is over budget, and is aborted.
LoadEnds(g, r) ==
  /\ Load(g, r)
  /\ WorkerEnds
  /\ Cancel(r)
  /\ MaySpend
  /\ UNCHANGED <<pending, snaps>>

Restore(s) ==
  /\ ~dead
  /\ worker' = s
  /\ awaited' \in {s.ids, {BeforeDump}}
  /\ UNCHANGED dead

LoadSuspends(g, r) ==
  /\ Load(g, r)
  /\ \E s \in RestoredSuspensions(r) : Restore(s) /\ snaps' = snaps \cup {s}
  /\ pending' = r
  /\ MaySpend
  /\ UNCHANGED over

\* Mutant: LoadSession reports that the dump is not idle before pending is set.
LoadMisused_Idle(g, r) ==
  /\ "misload" \in Mishaps
  /\ Load(g, r)
  /\ \E s \in RestoredSuspensions(r) : Restore(s)
  /\ MaySpend
  /\ UNCHANGED <<pending, snaps, over>>

\* LoadSession drops the snapshot that load returns, and reports an error.
LoadMisused(g, r) ==
  /\ "misload" \in Mishaps
  /\ Load(g, r)
  /\ \E s \in RestoredSuspensions(r) : Restore(s)
  /\ pending' = r
  /\ MaySpend
  /\ UNCHANGED <<snaps, over>>

\* The exchange fails, or the abort of a restored suspension does.
LoadBreaks(g, r) ==
  /\ Load(g, r)
  /\ WorkerBreaks
  /\ over' \in {over, over \cup {r}}
  /\ UNCHANGED <<pending, snaps, spent>>

\* The event is lost or cannot be decoded, or no time is left for the abort.
LoadLosesEvent(g, r) ==
  /\ Load(g, r)
  /\ \E s \in RestoredSuspensions(r) : Restore(s)
  /\ \/ {"print", "malformed"} \cap Mishaps # {} /\ UNCHANGED <<over, spent>>
     \/ "budget" \in Mishaps /\ spent' = TRUE /\ Cancel(r)
  /\ UNCHANGED <<pending, snaps>>

Loading(g) ==
  \E r \in Runs :
    \/ LoadEnds(g, r) /\ UNCHANGED astray
    \/ LoadSuspends(g, r) /\ UNCHANGED astray
    \/ LoadBreaks(g, r) /\ UNCHANGED astray
    \/ LoadMisused(g, r) /\ ClaimLost
    \/ LoadLosesEvent(g, r) /\ EventLost

\* Mutant: Close does not wait for the turn to end.
Close_DuringTurn(g) ==
  /\ ~closed
  /\ Goto(g, "out", "resetting")
  /\ closed' = TRUE
  /\ over' = over \cup ({pending} \ {NoRun})
  /\ pending' = NoRun
  /\ UNCHANGED <<req, used, inTurn, started, step, calls, handed, peer, leased, spent, saved>>

\* Mutant: Close does not cancel the suspended feed.
Close_NoCancel(g) ==
  /\ ~closed /\ ~inTurn
  /\ Goto(g, "out", "resetting")
  /\ closed' = TRUE
  /\ pending' = NoRun
  /\ UNCHANGED <<req, used, inTurn, started, step, over, calls, handed, peer, leased, spent, saved>>

(***************************************************************************)
(* Close.  During a turn it returns an error, a second time nil.           *)
(***************************************************************************)
Close(g) ==
  /\ ~closed /\ ~inTurn
  /\ Goto(g, "out", "resetting")
  /\ closed' = TRUE
  /\ over' = over \cup ({pending} \ {NoRun})
  /\ pending' = NoRun
  /\ UNCHANGED <<req, used, inTurn, started, step, calls, handed, peer, leased, spent, saved>>

\* The reset succeeds or fails; release takes the worker back in any case.
Release(g) ==
  /\ Goto(g, "resetting", "out")
  /\ WorkerEnds \/ WorkerBreaks \/ (~dead /\ UNCHANGED peer)
  /\ leased' = FALSE
  /\ UNCHANGED <<req, host, calls, handed, spent, saved>>

Closing(g) == Close(g) \/ Release(g)

Dumping(g) ==
  \/ \E s \in snaps : DumpUnused(g, s)
  \/ DumpSnapshot(g) \/ DumpRefused(g) \/ AskIdle(g)
-----------------------------------------------------------------------------
\* The session is closed and everybody has returned.
Finished ==
  /\ closed /\ \A g \in Callers : pc[g] = "out"
  /\ UNCHANGED vars

CallerStep(g) ==
  \/ Turn(g) \/ Resume(g) \/ Loading(g)
  \/ (\E r \in Runs : FeedStart(g, r)) /\ UNCHANGED astray
  \/ Dumping(g) /\ UNCHANGED astray
  \/ Closing(g) /\ UNCHANGED astray

Next ==
  \/ \E g \in Callers : CallerStep(g)
  \/ (\E c \in running : CallbackReturns(c)) /\ UNCHANGED astray
  \/ Finished

Spec == Init /\ [][Next]_vars

(***************************************************************************)
(* Fairness: a call that has been made goes on.  A turn ends because of    *)
(* RequestTimeout or the caller's context.  Nobody is forced to make a     *)
(* call, and a host callback may run for ever.                             *)
(***************************************************************************)
Goes(g) ==
  \/ Turn(g)
  \/ Gone(g) /\ ClaimLost
  \/ /\ Send(g) \/ Refuse(g) \/ Collect(g) \/ DumpSnapshot(g) \/ DumpRefused(g) \/ Release(g)
     /\ UNCHANGED astray

FairSpec == Spec /\ \A g \in Callers : WF_vars(Goes(g))
-----------------------------------------------------------------------------
States == {"out", "feeding", "resuming", "answering", "waiting", "sending",
           "dumping", "resetting"}
Requests == [snap : Snapshots \cup {Idle} \cup {Feed(r) : r \in Runs},
             promise : SUBSET CallIDs, resolve : SUBSET CallIDs]

TypeOK ==
  /\ pc \in [Callers -> States]
  /\ req \in [Callers -> Requests]
  /\ closed \in BOOLEAN /\ used \in BOOLEAN /\ inTurn \in BOOLEAN
  /\ pending \in Runs \cup {NoRun}
  /\ started \subseteq Runs
  /\ step \in [Runs -> 0..MaxStep]
  /\ over \subseteq Runs
  /\ futures \subseteq Runs \X CallIDs
  /\ running \subseteq Runs \X CallIDs
  /\ ready \subseteq Runs \X CallIDs
  /\ snaps \subseteq Snapshots
  /\ claimed \subseteq snaps
  /\ worker \in Snapshots \cup {Idle}
  /\ awaited \subseteq CallIDs
  /\ dead \in BOOLEAN /\ leased \in BOOLEAN /\ spent \in BOOLEAN
  /\ saved \in (Snapshots \cup {Idle}) \X (Snapshots \cup {Idle})
  /\ astray \subseteq {"event", "claim"}

\* The goroutine has a request on its way to the worker without holding s.mu.
Talking(g) == pc[g] \in {"feeding", "resuming", "resetting"}
\* The goroutine has claimed a snapshot and not yet let go of it.
Driving(g) == pc[g] \in {"answering", "waiting", "sending", "resuming"}

(***************************************************************************)
(* The protocol has one speaker: at most one goroutine is in a turn or     *)
(* resets the worker, s.inTurn says so, and after Close has released the   *)
(* worker nobody is, although s.mu is free during a turn and during the    *)
(* reset, and snapshots of the session are still in callers' hands.        *)
(***************************************************************************)
OneSpeaker ==
  /\ \A g, h \in Callers : Talking(g) /\ Talking(h) => g = h
  /\ \A g \in Callers : Talking(g) => leased
  /\ inTurn <=> \E g \in Callers : pc[g] \in {"feeding", "resuming"}

(***************************************************************************)
(* A resume that reaches the worker answers the suspension the worker is   *)
(* in: no interleaving of claims, feeds, lost events and failed turns lets *)
(* a stale snapshot's answer through to another suspension.                *)
(***************************************************************************)
AnswersItsSuspension ==
  \A g \in Callers : pc[g] = "resuming" /\ ~dead => worker = req[g].snap

(***************************************************************************)
(* The dump of a snapshot holds that snapshot's suspension, although the   *)
(* "used" flag is read before s.mu is taken and inTurn is not looked at.   *)
(***************************************************************************)
DumpIsOfItsSnapshot == saved[1] # Idle => saved[1] = saved[2]

(***************************************************************************)
(* A feed has one driver: no two goroutines are between the claim of a     *)
(* snapshot and the end of its turn for the same feed, so r.futures, which *)
(* no lock protects, is never touched by two of them.                      *)
(***************************************************************************)
OneDriver ==
  \A g, h \in Callers : Driving(g) /\ Driving(h) /\ RunOf(g) = RunOf(h) => g = h

(***************************************************************************)
(* An async callback whose feed is no longer the session's feed has been   *)
(* told so: its context is cancelled on every path that ends a feed.       *)
(***************************************************************************)
CallbacksCancelled == \A c \in running : c[1] = pending \/ c[1] \in over

(***************************************************************************)
(* Between turns host and worker agree whether a feed is suspended.        *)
(***************************************************************************)
HostKnowsSuspension ==
  ~dead /\ ~closed /\ ~inTurn => (pending = NoRun <=> worker = Idle)

(***************************************************************************)
(* A suspended feed can be resumed: some goroutine drives it or its        *)
(* snapshot is unclaimed.                                                  *)
(***************************************************************************)
NoFeedAbandoned ==
  pending # NoRun /\ ~inTurn /\ ~dead =>
    \/ \E s \in snaps \ claimed : s.run = pending /\ s.step = step[pending]
    \/ \E g \in Callers : Driving(g) /\ RunOf(g) = pending

(***************************************************************************)
(* As long as every event of a live worker is taken in, host and worker    *)
(* agree between turns whether a feed is suspended, whatever else fails: a *)
(* claim that is dropped, a value that cannot be encoded, a panic, a       *)
(* suspended dump given to LoadSession.  So FeedStart never reaches a      *)
(* suspended worker and a resume never an idle one.                        *)
(***************************************************************************)
AgreeUntilEventLost == "event" \in astray \/ HostKnowsSuspension

(***************************************************************************)
(* A suspended feed can be resumed until one of the mishaps happens: the   *)
(* death of a worker, a race of callers or a cancelled turn never strands  *)
(* a feed.                                                                 *)
(***************************************************************************)
ResumableUntilMishap == astray # {} \/ NoFeedAbandoned

(***************************************************************************)
(* The session implements FeedLife.  The live feed is the one s.pending    *)
(* names or, in its first turn, the one a goroutine in FeedStart works     *)
(* for; a suspension is offered by the snapshot that is handed out.        *)
(***************************************************************************)
Live == ({pending} \ {NoRun}) \cup {RunOf(g) : g \in {h \in Callers : pc[h] \in {"feeding", "resuming"}}}

Offered == {<<s.run, s.step>> : s \in snaps}

Life == INSTANCE FeedLife WITH
          Feeds <- Runs, begun <- started, live <- Live, busy <- inTurn, answers <- step,
          offered <- Offered, shut <- closed

(***************************************************************************)
(* Whatever goroutines do with a session and its snapshots, and whatever   *)
(* fails, it runs one feed at a time; a suspension is answered at most     *)
(* once, in order, and only if its snapshot was handed out; a feed that is *)
(* over is never fed or resumed again, and after Close none is (FeedStart, *)
(* runState.exchange, progress, load, Close).                              *)
(***************************************************************************)
FeedSpec == Life!Spec

(***************************************************************************)
(* Close wakes a ResumeAuto that waits for host futures, even if none of   *)
(* their callbacks ever returns.                                           *)
(***************************************************************************)
CloseWakesWaiter ==
  \A g \in Callers : (closed /\ pc[g] = "waiting") ~> (pc[g] = "out")

(***************************************************************************)
(* A ResumeAuto that waits for host futures goes on once one of its        *)
(* callbacks has returned.                                                 *)
(***************************************************************************)
ReadyFutureResumes ==
  \A g \in Callers : (pc[g] = "waiting" /\ Taken(g) # {}) ~> (pc[g] # "waiting")
=============================================================================
