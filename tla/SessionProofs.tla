--------------------------- MODULE SessionProofs ---------------------------
(***************************************************************************)
(* Proofs about Session, for any set of goroutines and feeds, any number   *)
(* of suspensions and any choice of mishaps.                               *)
(***************************************************************************)
EXTENDS Session, TLAPS

(***************************************************************************)
(* Feeds, snapshots and requests belong together: whoever works on a       *)
(* snapshot has got it from the session, whoever feeds works for a feed    *)
(* that has started, and so does every snapshot belong to one.             *)
(***************************************************************************)
Shape ==
  /\ \A g \in Callers : Driving(g) \/ pc[g] = "dumping" => req[g].snap \in snaps
  /\ \A g \in Callers : pc[g] = "feeding" => \E r \in started : req[g].snap = Feed(r)
  /\ \A s \in snaps : s.step < MaxStep /\ s.run \in started

\* A suspension that the worker reaches, or that a load restores, has its type.
LEMMA SuspensionTypes ==
  ASSUME TypeOK, NEW r \in Runs, NEW n \in 0..MaxStep, NEW ids \in SUBSET CallIDs,
         NEW s \in [run : {r}, step : {n}, kind : Kinds, ids : {{}, ids}]
  PROVE  s \in Snapshots /\ s.run = r /\ s.step = n /\ s # Idle
  BY SessionAssumption DEF Snapshots, Idle

LEMMA RequestTypes ==
  /\ NoRequest \in Requests /\ NoRequest.snap = Idle
  /\ \A s \in Snapshots : Request(s, {}, {}) \in Requests /\ Request(s, {}, {}).snap = s
  /\ \A r \in Runs : Request(Feed(r), {}, {}) \in Requests /\ Request(Feed(r), {}, {}).snap = Feed(r)
  BY DEF NoRequest, Request, Requests

LEMMA RequestUpdates ==
  ASSUME NEW q \in Requests, NEW ids \in SUBSET CallIDs
  PROVE  /\ [q EXCEPT !.promise = ids] \in Requests /\ [q EXCEPT !.promise = ids].snap = q.snap
         /\ [q EXCEPT !.resolve = ids] \in Requests /\ [q EXCEPT !.resolve = ids].snap = q.snap
  BY DEF Requests

\* Whoever is inside a call works for a feed of the session.
LEMMA RunTypes ==
  ASSUME TypeOK, Shape, NEW g \in Callers, pc[g] \notin {"out", "resetting"}
  PROVE  RunOf(g) \in started /\ RunOf(g) \in Runs /\ step[RunOf(g)] \in 0..MaxStep
  <1>1. CASE pc[g] = "feeding"
    <2>1. PICK r \in started : req[g].snap = Feed(r)
      BY <1>1 DEF Shape
    <2>2. req[g].snap.run = r
      BY <2>1 DEF Feed
    <2> QED
      BY <2>2 DEF TypeOK, RunOf
  <1>2. CASE pc[g] # "feeding"
    BY <1>2 DEF TypeOK, Shape, RunOf, Driving, States
  <1> QED
    BY <1>1, <1>2

LEMMA NextSuspension ==
  ASSUME TypeOK, Shape, NEW g \in Callers, pc[g] \in {"feeding", "resuming"}
  PROVE  /\ Owed(g) \in SUBSET CallIDs
         /\ \A s \in NextSuspensions(g) :
              /\ s \in Snapshots /\ s.run = RunOf(g) /\ s # Idle
              /\ s.step = step[RunOf(g)] /\ s.step < MaxStep
  <1>1. RunOf(g) \in started /\ RunOf(g) \in Runs /\ step[RunOf(g)] \in 0..MaxStep
    BY RunTypes
  <1>2. Owed(g) \in SUBSET CallIDs
    BY DEF TypeOK, Owed, Requests
  <1>3. ASSUME NEW s \in NextSuspensions(g)
        PROVE  /\ s \in [run : {RunOf(g)}, step : {step[RunOf(g)]}, kind : Kinds, ids : {{}, Owed(g)}]
               /\ step[RunOf(g)] < MaxStep
    BY DEF NextSuspensions
  <1> QED
    BY <1>1, <1>2, <1>3, SuspensionTypes

LEMMA RestoredSuspension ==
  ASSUME TypeOK, NEW r \in Runs
  PROVE  /\ {BeforeDump} \in SUBSET CallIDs
         /\ \A s \in RestoredSuspensions(r) :
              s \in Snapshots /\ s.run = r /\ s # Idle /\ s.step = 0 /\ s.ids \subseteq CallIDs
  <1>1. {BeforeDump} \in SUBSET CallIDs /\ 0 \in 0..MaxStep
    BY SessionAssumption DEF BeforeDump, CallIDs
  <1>2. ASSUME NEW s \in RestoredSuspensions(r)
        PROVE  /\ s \in [run : {r}, step : {0}, kind : Kinds, ids : {{}, {BeforeDump}}]
               /\ s.ids \subseteq CallIDs
    BY <1>1 DEF RestoredSuspensions
  <1> QED
    BY <1>1, <1>2, SuspensionTypes

\* A step of Next is a step of one goroutine or the return of a callback.
LEMMA NextCases ==
  ASSUME Next
  PROVE  \/ \E g \in Callers :
              \/ TurnSuspends(g) \/ TurnEnds(g) \/ TurnBreaks(g) \/ AbortFails(g)
              \/ TurnDenied(g) \/ TurnLosesEvent(g) \/ TurnGarbled(g) \/ AbortLosesEvent(g)
              \/ Answer(g) \/ Promise(g) \/ StartAsync(g) \/ ResolveByHand(g) \/ Collect(g)
              \/ Send(g) \/ Refuse(g) \/ Unencodable(g) \/ Panics(g) \/ UnknownFuture(g)
              \/ WaitCancelled(g) \/ CollectUnencodable(g)
              \/ DumpSnapshot(g) \/ DumpRefused(g) \/ AskIdle(g) \/ Close(g) \/ Release(g)
         \/ \E g \in Callers, s \in snaps : Claim(g, s) \/ DumpUnused(g, s)
         \/ \E g \in Callers, r \in Runs :
              \/ LoadEnds(g, r) \/ LoadSuspends(g, r) \/ LoadBreaks(g, r)
              \/ LoadMisused(g, r) \/ LoadLosesEvent(g, r) \/ FeedStart(g, r)
         \/ \E c \in running : CallbackReturns(c)
         \/ Finished
  BY DEF Next, CallerStep, Turn, Resume, Gone, Loading, Dumping, Closing

\* The end of a turn, whatever the worker and the host have made of it.
LEMMA TurnTypes ==
  ASSUME TypeOK, Shape, astray' \subseteq {"event", "claim"}, NEW g \in Callers, EndTurn(g),
         pending' \in Runs \cup {NoRun}, over' \subseteq Runs,
         worker' \in Snapshots \cup {Idle}, awaited' \subseteq CallIDs, dead' \in BOOLEAN,
         snaps' = snaps \/ \E s \in NextSuspensions(g) : snaps' = snaps \cup {s}
  PROVE  TypeOK' /\ Shape'
  <1>1. RunOf(g) \in started
    BY RunTypes DEF EndTurn
  <1>2. /\ snaps' \subseteq Snapshots /\ snaps \subseteq snaps'
        /\ \A s \in snaps' : s.step < MaxStep /\ s.run \in started
    BY <1>1, NextSuspension DEF EndTurn, TypeOK, Shape
  <1>3. pc' \in [Callers -> States] /\ req' \in [Callers -> Requests]
    BY RequestTypes DEF TypeOK, EndTurn, Return, States
  <1>4. Shape'
    BY <1>2 DEF TypeOK, Shape, EndTurn, Return, Driving
  <1> QED
    BY <1>2, <1>3, <1>4 DEF TypeOK, EndTurn, calls

\* A goroutine has its answer ready; callbacks may have been started or taken in.
LEMMA AnswerTypes ==
  ASSUME TypeOK, Shape, astray' \subseteq {"event", "claim"}, NEW g \in Callers,
         pc[g] \in {"answering", "waiting"}, pc' = [pc EXCEPT ![g] = "sending"],
         NEW q \in Requests, q.snap = req[g].snap, req' = [req EXCEPT ![g] = q],
         futures' \subseteq Runs \X CallIDs, running' \subseteq Runs \X CallIDs,
         ready' \subseteq Runs \X CallIDs,
         UNCHANGED <<host, handed, peer, leased, spent, saved>>
  PROVE  TypeOK' /\ Shape'
  <1>1. pc' \in [Callers -> States] /\ req' \in [Callers -> Requests]
    BY DEF TypeOK, States
  <1>2. Shape'
    BY DEF TypeOK, Shape, Driving, host, handed
  <1> QED
    BY <1>1, <1>2 DEF TypeOK, host, handed, peer

\* A load, under s.mu from its checks to its end.
LEMMA LoadTypes ==
  ASSUME TypeOK, Shape, astray' \subseteq {"event", "claim"},
         NEW g \in Callers, NEW r \in Runs, Load(g, r),
         pending' \in Runs \cup {NoRun}, over' \subseteq Runs, spent' \in BOOLEAN,
         worker' \in Snapshots \cup {Idle}, awaited' \subseteq CallIDs, dead' \in BOOLEAN,
         snaps' = snaps \/ \E s \in RestoredSuspensions(r) : snaps' = snaps \cup {s}
  PROVE  TypeOK' /\ Shape'
  <1>1. /\ snaps' \subseteq Snapshots /\ snaps \subseteq snaps'
        /\ \A s \in snaps' : s.step < MaxStep /\ s.run \in started'
    BY RestoredSuspension, SessionAssumption DEF Load, TypeOK, Shape
  <1>2. Shape'
    BY <1>1 DEF TypeOK, Shape, Load, Driving
  <1> QED
    BY <1>1, <1>2 DEF TypeOK, Load, calls

\* A dump, or the exchange of InstallDependencies.
LEMMA AskTypes ==
  ASSUME TypeOK, NEW what \in Snapshots \cup {Idle}, Ask(what)
  PROVE  /\ saved' \in (Snapshots \cup {Idle}) \X (Snapshots \cup {Idle})
         /\ worker' \in Snapshots \cup {Idle} /\ awaited' \subseteq CallIDs /\ dead' \in BOOLEAN
  <1>1. CASE ~dead /\ saved' = <<what, worker>> /\ UNCHANGED peer
    BY <1>1 DEF TypeOK, peer
  <1>2. CASE WorkerBreaks /\ UNCHANGED saved
    BY <1>2 DEF TypeOK, WorkerBreaks
  <1> QED
    BY <1>1, <1>2 DEF Ask

LEMMA Typing == Spec => [](TypeOK /\ Shape)
  <1>1. Init => TypeOK /\ Shape
    <2> SUFFICES ASSUME Init PROVE TypeOK /\ Shape
      OBVIOUS
    <2>1. /\ pc \in [Callers -> States] /\ req \in [Callers -> Requests]
          /\ step \in [Runs -> 0..MaxStep]
      BY SessionAssumption, RequestTypes DEF Init, States
    <2>2. Shape
      BY DEF Init, Shape, Driving
    <2>3. /\ saved \in (Snapshots \cup {Idle}) \X (Snapshots \cup {Idle})
          /\ worker \in Snapshots \cup {Idle} /\ pending \in Runs \cup {NoRun}
      BY DEF Init
    <2> QED
      BY <2>1, <2>2, <2>3, Zenon DEF Init, TypeOK
  <1>2. TypeOK /\ Shape /\ [Next]_vars => TypeOK' /\ Shape'
    <2> SUFFICES ASSUME TypeOK, Shape, [Next]_vars
                 PROVE  TypeOK' /\ Shape'
      OBVIOUS
    <2>0. astray' \subseteq {"event", "claim"}
      BY DEF Next, CallerStep, Turn, Resume, Loading, Finished, vars, EventLost, ClaimLost, TypeOK
    <2> USE SessionAssumption, RequestTypes, RequestUpdates, RunTypes, NextSuspension, RestoredSuspension
        DEF TypeOK, Shape, Driving, States, host, calls, handed, peer
    <2>1. ASSUME NEW g \in Callers, TurnSuspends(g)
          PROVE  TypeOK' /\ Shape'
      <3>1. EndTurn(g)
        BY <2>1 DEF TurnSuspends
      <3>2. RunOf(g) \in Runs
        BY <3>1, RunTypes DEF EndTurn
      <3>3. pending' \in Runs \cup {NoRun} /\ over' \subseteq Runs
        BY <2>1, <3>2 DEF TurnSuspends, TypeOK
      <3>4. worker' \in Snapshots \cup {Idle} /\ awaited' \subseteq CallIDs /\ dead' \in BOOLEAN
        BY <2>1, <3>1, NextSuspension DEF TurnSuspends, EndTurn, TypeOK, WorkerSuspends
      <3> QED
        BY <2>0, <2>1, <3>1, <3>3, <3>4, TurnTypes DEF TurnSuspends
    <2>2. ASSUME NEW g \in Callers, TurnEnds(g)
          PROVE  TypeOK' /\ Shape'
      <3>1. EndTurn(g)
        BY <2>2 DEF TurnEnds
      <3>2. RunOf(g) \in Runs
        BY <3>1, RunTypes DEF EndTurn
      <3>3. pending' \in Runs \cup {NoRun} /\ over' \subseteq Runs
        BY <2>2, <3>2 DEF TurnEnds, TypeOK, Cancel
      <3>4. worker' \in Snapshots \cup {Idle} /\ awaited' \subseteq CallIDs /\ dead' \in BOOLEAN
        BY <2>2, <3>1, NextSuspension DEF TurnEnds, EndTurn, TypeOK, WorkerEnds
      <3> QED
        BY <2>0, <2>2, <3>1, <3>3, <3>4, TurnTypes DEF TurnEnds
    <2>3. ASSUME NEW g \in Callers, TurnBreaks(g)
          PROVE  TypeOK' /\ Shape'
      <3>1. EndTurn(g)
        BY <2>3 DEF TurnBreaks
      <3>2. RunOf(g) \in Runs
        BY <3>1, RunTypes DEF EndTurn
      <3>3. pending' \in Runs \cup {NoRun} /\ over' \subseteq Runs
        BY <2>3, <3>2 DEF TurnBreaks, TypeOK, Cancel, AfterError
      <3>4. worker' \in Snapshots \cup {Idle} /\ awaited' \subseteq CallIDs /\ dead' \in BOOLEAN
        BY <2>3, <3>1, NextSuspension DEF TurnBreaks, EndTurn, TypeOK, WorkerBreaks
      <3> QED
        BY <2>0, <2>3, <3>1, <3>3, <3>4, TurnTypes DEF TurnBreaks
    <2>4. ASSUME NEW g \in Callers, AbortFails(g)
          PROVE  TypeOK' /\ Shape'
      <3>1. EndTurn(g)
        BY <2>4 DEF AbortFails
      <3>2. RunOf(g) \in Runs
        BY <3>1, RunTypes DEF EndTurn
      <3>3. pending' \in Runs \cup {NoRun} /\ over' \subseteq Runs
        BY <2>4, <3>2 DEF AbortFails, TypeOK, Cancel
      <3>4. worker' \in Snapshots \cup {Idle} /\ awaited' \subseteq CallIDs /\ dead' \in BOOLEAN
        BY <2>4, <3>1, NextSuspension DEF AbortFails, EndTurn, TypeOK, WorkerBreaks
      <3> QED
        BY <2>0, <2>4, <3>1, <3>3, <3>4, TurnTypes DEF AbortFails
    <2>5. ASSUME NEW g \in Callers, TurnDenied(g)
          PROVE  TypeOK' /\ Shape'
      <3>1. EndTurn(g)
        BY <2>5 DEF TurnDenied
      <3>2. RunOf(g) \in Runs
        BY <3>1, RunTypes DEF EndTurn
      <3>3. pending' \in Runs \cup {NoRun} /\ over' \subseteq Runs
        BY <2>5, <3>2 DEF TurnDenied, TypeOK, Cancel, AfterError
      <3>4. worker' \in Snapshots \cup {Idle} /\ awaited' \subseteq CallIDs /\ dead' \in BOOLEAN
        BY <2>5, <3>1, NextSuspension DEF TurnDenied, EndTurn, TypeOK, peer
      <3> QED
        BY <2>0, <2>5, <3>1, <3>3, <3>4, TurnTypes DEF TurnDenied
    <2>6. ASSUME NEW g \in Callers, TurnLosesEvent(g)
          PROVE  TypeOK' /\ Shape'
      <3>1. EndTurn(g)
        BY <2>6 DEF TurnLosesEvent
      <3>2. RunOf(g) \in Runs
        BY <3>1, RunTypes DEF EndTurn
      <3>3. pending' \in Runs \cup {NoRun} /\ over' \subseteq Runs
        BY <2>6, <3>2 DEF TurnLosesEvent, TypeOK, Cancel, AfterError
      <3>4. worker' \in Snapshots \cup {Idle} /\ awaited' \subseteq CallIDs /\ dead' \in BOOLEAN
        BY <2>6, <3>1, NextSuspension DEF TurnLosesEvent, EndTurn, TypeOK, WorkerEnds, WorkerSuspends
      <3> QED
        BY <2>0, <2>6, <3>1, <3>3, <3>4, TurnTypes DEF TurnLosesEvent
    <2>7. ASSUME NEW g \in Callers, TurnGarbled(g)
          PROVE  TypeOK' /\ Shape'
      <3>1. EndTurn(g)
        BY <2>7 DEF TurnGarbled
      <3>2. RunOf(g) \in Runs
        BY <3>1, RunTypes DEF EndTurn
      <3>3. pending' \in Runs \cup {NoRun} /\ over' \subseteq Runs
        BY <2>7, <3>2 DEF TurnGarbled, TypeOK, Cancel
      <3>4. worker' \in Snapshots \cup {Idle} /\ awaited' \subseteq CallIDs /\ dead' \in BOOLEAN
        BY <2>7, <3>1, NextSuspension DEF TurnGarbled, EndTurn, TypeOK, WorkerEnds, WorkerSuspends
      <3> QED
        BY <2>0, <2>7, <3>1, <3>3, <3>4, TurnTypes DEF TurnGarbled
    <2>8. ASSUME NEW g \in Callers, AbortLosesEvent(g)
          PROVE  TypeOK' /\ Shape'
      <3>1. EndTurn(g)
        BY <2>8 DEF AbortLosesEvent
      <3>2. RunOf(g) \in Runs
        BY <3>1, RunTypes DEF EndTurn
      <3>3. pending' \in Runs \cup {NoRun} /\ over' \subseteq Runs
        BY <2>8, <3>2 DEF AbortLosesEvent, TypeOK, Cancel
      <3>4. worker' \in Snapshots \cup {Idle} /\ awaited' \subseteq CallIDs /\ dead' \in BOOLEAN
        BY <2>8, <3>1, NextSuspension DEF AbortLosesEvent, EndTurn, TypeOK, WorkerEnds
      <3> QED
        BY <2>0, <2>8, <3>1, <3>3, <3>4, TurnTypes DEF AbortLosesEvent
    <2>9. ASSUME NEW g \in Callers, NEW s \in snaps, Claim(g, s)
          PROVE  TypeOK' /\ Shape'
      BY <2>0, <2>9 DEF Claim, Goto, Request
    <2>10. ASSUME NEW g \in Callers, Answer(g)
          PROVE  TypeOK' /\ Shape'
      BY <2>0, <2>10 DEF Answer, Goto
    <2>11. ASSUME NEW g \in Callers, Promise(g)
          PROVE  TypeOK' /\ Shape'
      <3> DEFINE q == [req[g] EXCEPT !.promise = {req[g].snap.step}]
      <3>1. {req[g].snap.step} \in SUBSET CallIDs
        BY <2>11 DEF Promise, Goto, TypeOK, Shape, Driving, Snapshots, CallIDs
      <3>2. q \in Requests /\ q.snap = req[g].snap
        BY <3>1, RequestUpdates DEF TypeOK
      <3>3. req' = [req EXCEPT ![g] = q]
        BY <2>11 DEF Promise
      <3> QED
        BY <2>0, <2>11, <3>2, <3>3, AnswerTypes DEF Promise, Goto, calls, TypeOK
    <2>12. ASSUME NEW g \in Callers, StartAsync(g)
          PROVE  TypeOK' /\ Shape'
      <3> DEFINE q == [req[g] EXCEPT !.promise = {req[g].snap.step}]
      <3>1. /\ req[g].snap.step \in CallIDs /\ {req[g].snap.step} \in SUBSET CallIDs
            /\ RunOf(g) \in Runs
        BY <2>12, RunTypes DEF StartAsync, Goto, TypeOK, Shape, Driving, Snapshots, CallIDs
      <3>2. q \in Requests /\ q.snap = req[g].snap
        BY <3>1, RequestUpdates DEF TypeOK
      <3>3. req' = [req EXCEPT ![g] = q]
        BY <2>12 DEF StartAsync
      <3>4. /\ futures' \subseteq Runs \X CallIDs /\ running' \subseteq Runs \X CallIDs
            /\ ready' \subseteq Runs \X CallIDs
        BY <2>12, <3>1 DEF StartAsync, TypeOK
      <3> QED
        BY <2>0, <2>12, <3>2, <3>3, <3>4, AnswerTypes DEF StartAsync, Goto
    <2>13. ASSUME NEW g \in Callers, ResolveByHand(g)
          PROVE  TypeOK' /\ Shape'
      <3>1. PICK f \in SUBSET req[g].snap.ids : req' = [req EXCEPT ![g].resolve = f]
        BY <2>13 DEF ResolveByHand
      <3> DEFINE q == [req[g] EXCEPT !.resolve = f]
      <3>2. f \in SUBSET CallIDs
        BY <2>13, <3>1 DEF ResolveByHand, Goto, TypeOK, Shape, Driving, Snapshots
      <3>3. q \in Requests /\ q.snap = req[g].snap
        BY <3>2, RequestUpdates DEF TypeOK
      <3>4. req' = [req EXCEPT ![g] = q]
        BY <3>1
      <3> QED
        BY <2>0, <2>13, <3>3, <3>4, AnswerTypes DEF ResolveByHand, Goto, calls, TypeOK
    <2>14. ASSUME NEW g \in Callers, Collect(g)
          PROVE  TypeOK' /\ Shape'
      <3> DEFINE ids == {c[2] : c \in Taken(g)}
                 q == [req[g] EXCEPT !.resolve = ids]
      <3>1. ids \in SUBSET CallIDs
        BY DEF Taken, TypeOK
      <3>2. q \in Requests /\ q.snap = req[g].snap
        BY <3>1, RequestUpdates DEF TypeOK
      <3>3. req' = [req EXCEPT ![g] = q]
        BY <2>14 DEF Collect
      <3>4. futures' \subseteq Runs \X CallIDs /\ ready' \subseteq Runs \X CallIDs
        BY <2>14 DEF Collect, TypeOK
      <3> QED
        BY <2>0, <2>14, <3>2, <3>3, <3>4, AnswerTypes DEF Collect, Goto, TypeOK
    <2>15. ASSUME NEW g \in Callers, Send(g)
          PROVE  TypeOK' /\ Shape'
      BY <2>0, <2>15 DEF Send, Goto, MaySend
    <2>16. ASSUME NEW g \in Callers, Refuse(g)
          PROVE  TypeOK' /\ Shape'
      BY <2>0, <2>16 DEF Refuse, Return, MaySend
    <2>17. ASSUME NEW g \in Callers, Unencodable(g)
          PROVE  TypeOK' /\ Shape'
      BY <2>0, <2>17 DEF Unencodable, Return
    <2>18. ASSUME NEW g \in Callers, Panics(g)
          PROVE  TypeOK' /\ Shape'
      BY <2>0, <2>18 DEF Panics, Return
    <2>19. ASSUME NEW g \in Callers, UnknownFuture(g)
          PROVE  TypeOK' /\ Shape'
      BY <2>0, <2>19 DEF UnknownFuture, Return
    <2>20. ASSUME NEW g \in Callers, WaitCancelled(g)
          PROVE  TypeOK' /\ Shape'
      BY <2>0, <2>20 DEF WaitCancelled, Return, Cancel
    <2>21. ASSUME NEW g \in Callers, CollectUnencodable(g)
          PROVE  TypeOK' /\ Shape'
      BY <2>0, <2>21 DEF CollectUnencodable, Return, Taken, Pending
    <2>22. ASSUME NEW g \in Callers, NEW r \in Runs, LoadEnds(g, r)
          PROVE  TypeOK' /\ Shape'
      <3>1. pending' \in Runs \cup {NoRun} /\ over' \subseteq Runs
        BY <2>22 DEF LoadEnds, TypeOK, Cancel
      <3>2. spent' \in BOOLEAN
        BY <2>22 DEF LoadEnds, TypeOK, MaySpend
      <3>3. worker' \in Snapshots \cup {Idle} /\ awaited' \subseteq CallIDs /\ dead' \in BOOLEAN
        BY <2>22, RestoredSuspension DEF LoadEnds, TypeOK, WorkerEnds
      <3> QED
        BY <2>0, <2>22, <3>1, <3>2, <3>3, LoadTypes DEF LoadEnds
    <2>23. ASSUME NEW g \in Callers, NEW r \in Runs, LoadSuspends(g, r)
          PROVE  TypeOK' /\ Shape'
      <3>1. pending' \in Runs \cup {NoRun} /\ over' \subseteq Runs
        BY <2>23 DEF LoadSuspends, TypeOK, Cancel
      <3>2. spent' \in BOOLEAN
        BY <2>23 DEF LoadSuspends, TypeOK, MaySpend
      <3>3. worker' \in Snapshots \cup {Idle} /\ awaited' \subseteq CallIDs /\ dead' \in BOOLEAN
        BY <2>23, RestoredSuspension DEF LoadSuspends, TypeOK, Restore
      <3> QED
        BY <2>0, <2>23, <3>1, <3>2, <3>3, LoadTypes DEF LoadSuspends
    <2>24. ASSUME NEW g \in Callers, NEW r \in Runs, LoadBreaks(g, r)
          PROVE  TypeOK' /\ Shape'
      <3>1. pending' \in Runs \cup {NoRun} /\ over' \subseteq Runs
        BY <2>24 DEF LoadBreaks, TypeOK, Cancel
      <3>2. spent' \in BOOLEAN
        BY <2>24 DEF LoadBreaks, TypeOK, MaySpend
      <3>3. worker' \in Snapshots \cup {Idle} /\ awaited' \subseteq CallIDs /\ dead' \in BOOLEAN
        BY <2>24, RestoredSuspension DEF LoadBreaks, TypeOK, WorkerBreaks
      <3> QED
        BY <2>0, <2>24, <3>1, <3>2, <3>3, LoadTypes DEF LoadBreaks
    <2>25. ASSUME NEW g \in Callers, NEW r \in Runs, LoadMisused(g, r)
          PROVE  TypeOK' /\ Shape'
      <3>1. pending' \in Runs \cup {NoRun} /\ over' \subseteq Runs
        BY <2>25 DEF LoadMisused, TypeOK, Cancel
      <3>2. spent' \in BOOLEAN
        BY <2>25 DEF LoadMisused, TypeOK, MaySpend
      <3>3. worker' \in Snapshots \cup {Idle} /\ awaited' \subseteq CallIDs /\ dead' \in BOOLEAN
        BY <2>25, RestoredSuspension DEF LoadMisused, TypeOK, Restore
      <3> QED
        BY <2>0, <2>25, <3>1, <3>2, <3>3, LoadTypes DEF LoadMisused
    <2>26. ASSUME NEW g \in Callers, NEW r \in Runs, LoadLosesEvent(g, r)
          PROVE  TypeOK' /\ Shape'
      <3>1. pending' \in Runs \cup {NoRun} /\ over' \subseteq Runs
        BY <2>26 DEF LoadLosesEvent, TypeOK, Cancel
      <3>2. spent' \in BOOLEAN
        BY <2>26 DEF LoadLosesEvent, TypeOK, MaySpend
      <3>3. worker' \in Snapshots \cup {Idle} /\ awaited' \subseteq CallIDs /\ dead' \in BOOLEAN
        BY <2>26, RestoredSuspension DEF LoadLosesEvent, TypeOK, Restore
      <3> QED
        BY <2>0, <2>26, <3>1, <3>2, <3>3, LoadTypes DEF LoadLosesEvent
    <2>27. ASSUME NEW g \in Callers, NEW r \in Runs, FeedStart(g, r)
          PROVE  TypeOK' /\ Shape'
      BY <2>0, <2>27 DEF FeedStart, Goto, Request
    <2>28. ASSUME NEW g \in Callers, NEW s \in snaps, DumpUnused(g, s)
          PROVE  TypeOK' /\ Shape'
      BY <2>0, <2>28 DEF DumpUnused, Goto, Request
    <2>29. ASSUME NEW g \in Callers, DumpSnapshot(g)
          PROVE  TypeOK' /\ Shape'
      <3>1. req[g].snap \in Snapshots \cup {Idle} /\ Ask(req[g].snap)
        BY <2>29 DEF DumpSnapshot, TypeOK, Shape
      <3>2. /\ saved' \in (Snapshots \cup {Idle}) \X (Snapshots \cup {Idle})
            /\ worker' \in Snapshots \cup {Idle} /\ awaited' \subseteq CallIDs /\ dead' \in BOOLEAN
        BY <3>1, AskTypes
      <3>3. pc' \in [Callers -> States] /\ req' \in [Callers -> Requests]
        BY <2>29, RequestTypes DEF DumpSnapshot, Return, TypeOK, States
      <3>4. Shape'
        BY <2>29 DEF DumpSnapshot, Return, TypeOK, Shape, Driving, host, handed
      <3> QED
        BY <2>0, <2>29, <3>2, <3>3, <3>4 DEF DumpSnapshot, TypeOK, host, calls, handed
    <2>30. ASSUME NEW g \in Callers, DumpRefused(g)
          PROVE  TypeOK' /\ Shape'
      BY <2>0, <2>30 DEF DumpRefused, Return, MayDump
    <2>31. ASSUME NEW g \in Callers, AskIdle(g)
          PROVE  TypeOK' /\ Shape'
      <3>1. /\ saved' \in (Snapshots \cup {Idle}) \X (Snapshots \cup {Idle})
            /\ worker' \in Snapshots \cup {Idle} /\ awaited' \subseteq CallIDs /\ dead' \in BOOLEAN
        BY <2>31, AskTypes DEF AskIdle
      <3> QED
        BY <2>0, <2>31, <3>1 DEF AskIdle, TypeOK, Shape, Driving, host, calls, handed
    <2>32. ASSUME NEW g \in Callers, Close(g)
          PROVE  TypeOK' /\ Shape'
      BY <2>0, <2>32 DEF Close, Goto
    <2>33. ASSUME NEW g \in Callers, Release(g)
          PROVE  TypeOK' /\ Shape'
      <3>1. worker' \in Snapshots \cup {Idle} /\ awaited' \subseteq CallIDs /\ dead' \in BOOLEAN
        BY <2>33 DEF Release, WorkerEnds, WorkerBreaks, TypeOK, peer
      <3>2. pc' \in [Callers -> States] /\ req' = req
        BY <2>33 DEF Release, Goto, TypeOK, States
      <3>3. Shape'
        BY <2>33, <3>2 DEF Release, Goto, TypeOK, Shape, Driving, host, handed
      <3> QED
        BY <2>0, <2>33, <3>1, <3>2, <3>3 DEF Release, TypeOK, host, calls, handed
    <2>34. ASSUME NEW c \in running, CallbackReturns(c)
          PROVE  TypeOK' /\ Shape'
      BY <2>0, <2>34 DEF CallbackReturns
    <2>35. CASE UNCHANGED vars
      BY <2>35 DEF vars
    <2> QED
      BY <2>1, <2>2, <2>3, <2>4, <2>5, <2>6, <2>7, <2>8, <2>9, <2>10, <2>11, <2>12, <2>13, <2>14, <2>15, <2>16, <2>17, <2>18, <2>19, <2>20, <2>21, <2>22, <2>23, <2>24, <2>25, <2>26, <2>27, <2>28, <2>29, <2>30, <2>31, <2>32, <2>33, <2>34, <2>35, NextCases DEF Finished
  <1> QED
    BY <1>1, <1>2, PTL DEF Spec

(***************************************************************************)
(* Who speaks to the worker: OneSpeaker, and what it rests on.  A closed   *)
(* session is in no turn and has no feed, and only Close gives up the      *)
(* worker.                                                                 *)
(***************************************************************************)
Speaking ==
  /\ OneSpeaker
  /\ \A g \in Callers : pc[g] = "resetting" => closed
  /\ ~closed => leased
  /\ closed => ~inTurn /\ pending = NoRun

LEMMA SpeakingQuiet ==
  ASSUME TypeOK, Speaking, NEW g \in Callers, ~Talking(g),
         NEW p \in States \ {"feeding", "resuming", "resetting"}, pc' = [pc EXCEPT ![g] = p],
         UNCHANGED <<closed, inTurn, pending, leased>>
  PROVE  Speaking'
  BY DEF TypeOK, Speaking, OneSpeaker, Talking

LEMMA SpeakingTurn ==
  ASSUME TypeOK, Speaking, NEW g \in Callers, EndTurn(g)
  PROVE  Speaking'
  BY DEF TypeOK, Speaking, OneSpeaker, Talking, EndTurn, Return

LEMMA SpeakingHolds == Spec => []Speaking
  <1>1. Init => Speaking
    BY DEF Init, Speaking, OneSpeaker, Talking
  <1>2. TypeOK /\ Speaking /\ [Next]_vars => Speaking'
    <2> SUFFICES ASSUME TypeOK, Speaking, [Next]_vars
                 PROVE  Speaking'
      OBVIOUS
    <2> USE DEF States
    <2>1. ASSUME NEW g \in Callers, TurnSuspends(g)
          PROVE  Speaking'
      BY <2>1, SpeakingTurn DEF TurnSuspends
    <2>2. ASSUME NEW g \in Callers, TurnEnds(g)
          PROVE  Speaking'
      BY <2>2, SpeakingTurn DEF TurnEnds
    <2>3. ASSUME NEW g \in Callers, TurnBreaks(g)
          PROVE  Speaking'
      BY <2>3, SpeakingTurn DEF TurnBreaks
    <2>4. ASSUME NEW g \in Callers, AbortFails(g)
          PROVE  Speaking'
      BY <2>4, SpeakingTurn DEF AbortFails
    <2>5. ASSUME NEW g \in Callers, TurnDenied(g)
          PROVE  Speaking'
      BY <2>5, SpeakingTurn DEF TurnDenied
    <2>6. ASSUME NEW g \in Callers, TurnLosesEvent(g)
          PROVE  Speaking'
      BY <2>6, SpeakingTurn DEF TurnLosesEvent
    <2>7. ASSUME NEW g \in Callers, TurnGarbled(g)
          PROVE  Speaking'
      BY <2>7, SpeakingTurn DEF TurnGarbled
    <2>8. ASSUME NEW g \in Callers, AbortLosesEvent(g)
          PROVE  Speaking'
      BY <2>8, SpeakingTurn DEF AbortLosesEvent
    <2>9. ASSUME NEW g \in Callers, NEW s \in snaps, Claim(g, s)
          PROVE  Speaking'
      BY <2>9, SpeakingQuiet DEF Claim, Goto, Talking, host
    <2>10. ASSUME NEW g \in Callers, Answer(g)
          PROVE  Speaking'
      BY <2>10, SpeakingQuiet DEF Answer, Goto, Talking, host
    <2>11. ASSUME NEW g \in Callers, Promise(g)
          PROVE  Speaking'
      BY <2>11, SpeakingQuiet DEF Promise, Goto, Talking, host
    <2>12. ASSUME NEW g \in Callers, StartAsync(g)
          PROVE  Speaking'
      BY <2>12, SpeakingQuiet DEF StartAsync, Goto, Talking, host
    <2>13. ASSUME NEW g \in Callers, ResolveByHand(g)
          PROVE  Speaking'
      BY <2>13, SpeakingQuiet DEF ResolveByHand, Goto, Talking, host
    <2>14. ASSUME NEW g \in Callers, Collect(g)
          PROVE  Speaking'
      BY <2>14, SpeakingQuiet DEF Collect, Goto, Talking, host
    <2>15. ASSUME NEW g \in Callers, Send(g)
          PROVE  Speaking'
      BY <2>15 DEF Send, Goto, MaySend, TypeOK, Speaking, OneSpeaker, Talking, host
    <2>16. ASSUME NEW g \in Callers, Refuse(g)
          PROVE  Speaking'
      BY <2>16, SpeakingQuiet DEF Refuse, Return, Talking, host
    <2>17. ASSUME NEW g \in Callers, Unencodable(g)
          PROVE  Speaking'
      BY <2>17, SpeakingQuiet DEF Unencodable, Return, Talking, host
    <2>18. ASSUME NEW g \in Callers, Panics(g)
          PROVE  Speaking'
      BY <2>18, SpeakingQuiet DEF Panics, Return, Talking, host
    <2>19. ASSUME NEW g \in Callers, UnknownFuture(g)
          PROVE  Speaking'
      BY <2>19, SpeakingQuiet DEF UnknownFuture, Return, Talking, host
    <2>20. ASSUME NEW g \in Callers, WaitCancelled(g)
          PROVE  Speaking'
      BY <2>20, SpeakingQuiet DEF WaitCancelled, Return, Talking, host
    <2>21. ASSUME NEW g \in Callers, CollectUnencodable(g)
          PROVE  Speaking'
      BY <2>21, SpeakingQuiet DEF CollectUnencodable, Return, Talking, host
    <2>22. ASSUME NEW g \in Callers, NEW r \in Runs, LoadEnds(g, r)
          PROVE  Speaking'
      BY <2>22 DEF LoadEnds, Load, Speaking, OneSpeaker, Talking
    <2>23. ASSUME NEW g \in Callers, NEW r \in Runs, LoadSuspends(g, r)
          PROVE  Speaking'
      BY <2>23 DEF LoadSuspends, Load, Speaking, OneSpeaker, Talking
    <2>24. ASSUME NEW g \in Callers, NEW r \in Runs, LoadBreaks(g, r)
          PROVE  Speaking'
      BY <2>24 DEF LoadBreaks, Load, Speaking, OneSpeaker, Talking
    <2>25. ASSUME NEW g \in Callers, NEW r \in Runs, LoadMisused(g, r)
          PROVE  Speaking'
      BY <2>25 DEF LoadMisused, Load, Speaking, OneSpeaker, Talking
    <2>26. ASSUME NEW g \in Callers, NEW r \in Runs, LoadLosesEvent(g, r)
          PROVE  Speaking'
      BY <2>26 DEF LoadLosesEvent, Load, Speaking, OneSpeaker, Talking
    <2>27. ASSUME NEW g \in Callers, NEW r \in Runs, FeedStart(g, r)
          PROVE  Speaking'
      BY <2>27 DEF FeedStart, Goto, TypeOK, Speaking, OneSpeaker, Talking, host
    <2>28. ASSUME NEW g \in Callers, NEW s \in snaps, DumpUnused(g, s)
          PROVE  Speaking'
      BY <2>28, SpeakingQuiet DEF DumpUnused, Goto, Talking, host
    <2>29. ASSUME NEW g \in Callers, DumpSnapshot(g)
          PROVE  Speaking'
      BY <2>29, SpeakingQuiet DEF DumpSnapshot, Return, Talking, host
    <2>30. ASSUME NEW g \in Callers, DumpRefused(g)
          PROVE  Speaking'
      BY <2>30, SpeakingQuiet DEF DumpRefused, Return, Talking, host
    <2>31. ASSUME NEW g \in Callers, AskIdle(g)
          PROVE  Speaking'
      BY <2>31 DEF AskIdle, Speaking, OneSpeaker, Talking, host
    <2>32. ASSUME NEW g \in Callers, Close(g)
          PROVE  Speaking'
      BY <2>32 DEF Close, Goto, TypeOK, Speaking, OneSpeaker, Talking, host
    <2>33. ASSUME NEW g \in Callers, Release(g)
          PROVE  Speaking'
      BY <2>33 DEF Release, Goto, TypeOK, Speaking, OneSpeaker, Talking, host
    <2>34. ASSUME NEW c \in running, CallbackReturns(c)
          PROVE  Speaking'
      BY <2>34 DEF CallbackReturns, Speaking, OneSpeaker, Talking, host
    <2>35. CASE UNCHANGED vars
      BY <2>35 DEF vars, Speaking, OneSpeaker, Talking, host
    <2> QED
      BY <2>1, <2>2, <2>3, <2>4, <2>5, <2>6, <2>7, <2>8, <2>9, <2>10, <2>11, <2>12,
         <2>13, <2>14, <2>15, <2>16, <2>17, <2>18, <2>19, <2>20, <2>21, <2>22, <2>23,
         <2>24, <2>25, <2>26, <2>27, <2>28, <2>29, <2>30, <2>31, <2>32, <2>33, <2>34,
         <2>35, NextCases DEF Finished
  <1> QED
    BY <1>1, <1>2, Typing, PTL DEF Spec

\* The worker has one speaker: OneSpeaker of session_safety, for any number of
\* goroutines, feeds and suspensions, whatever mishaps there are.
THEOREM OneSpeakerAlways == Spec => []OneSpeaker
  BY SpeakingHolds, PTL DEF Speaking

(***************************************************************************)
(* A driven snapshot is claimed, no snapshot is ahead of its feed, and a   *)
(* feed that does not exist has not moved.                                 *)
(***************************************************************************)
Claims ==
  /\ \A g \in Callers : Driving(g) => req[g].snap \in claimed
  /\ \A s \in snaps : s.step <= step[s.run]
  /\ \A r \in Runs : r \notin started => step[r] = 0
  /\ pending # NoRun => pending \in started

(***************************************************************************)
(* Which snapshot is current: a feed has one snapshot for each step, all   *)
(* but the last are claimed, whoever drives a feed drives its last, and    *)
(* the worker, while it lives, is in the suspension of the last snapshot   *)
(* of the feed that s.pending names.                                       *)
(***************************************************************************)
Current ==
  /\ \A s, t \in snaps : s.run = t.run /\ s.step = t.step => s = t
  /\ \A s \in snaps : s.step < step[s.run] => s \in claimed
  /\ OneDriver
  /\ \A g \in Callers : Driving(g) /\ pc[g] # "resuming" => req[g].snap.step = step[RunOf(g)]
  /\ \A g \in Callers : pc[g] = "resuming" =>
       /\ pending = RunOf(g)
       /\ \A s \in snaps : s.run = RunOf(g) => s.step < step[s.run]
  /\ \A g \in Callers : pc[g] = "feeding" =>
       /\ pending = NoRun
       /\ \A s \in snaps : s.run # RunOf(g)
  /\ \A s \in snaps : ~dead /\ s.run = pending /\ s.step = step[s.run] => worker = s
  /\ AnswersItsSuspension

\* An answer is ready to be sent.
LEMMA CurrentAnswer ==
  ASSUME TypeOK, Shape, Claims, Current, NEW g \in Callers,
         pc[g] \in {"answering", "waiting"}, pc' = [pc EXCEPT ![g] = "sending"],
         req' = [req EXCEPT ![g] = req'[g]], req'[g].snap = req[g].snap,
         UNCHANGED <<host, handed, peer>>
  PROVE  Claims' /\ Current'
  <1>1. \A h \in Callers : req'[h].snap = req[h].snap /\ (Driving(h)' <=> Driving(h))
    BY DEF TypeOK, Driving
  <1>2. \A h \in Callers : /\ pc'[h] = "resuming" <=> pc[h] = "resuming"
                           /\ pc'[h] = "feeding" <=> pc[h] = "feeding"
    BY DEF TypeOK
  <1>3. \A h \in Callers : RunOf(h)' = RunOf(h)
    BY <1>1 DEF RunOf
  <1>4. Claims'
    BY <1>1 DEF Claims, host, handed
  <1>5. OneDriver' /\ AnswersItsSuspension'
    BY <1>1, <1>2, <1>3 DEF Current, OneDriver, AnswersItsSuspension, peer
  <1> QED
    BY <1>1, <1>2, <1>3, <1>4, <1>5 DEF Current, host, handed, peer

\* A goroutine lets go of its snapshot; a dump may break the worker.
LEMMA CurrentReturn ==
  ASSUME TypeOK, Shape, Claims, Current, NEW g \in Callers, Return(g),
         UNCHANGED <<snaps, claimed, step, started, pending>>,
         UNCHANGED <<worker, dead>> \/ dead'
  PROVE  Claims' /\ Current'
  <1>1. \A h \in Callers : pc'[h] # "out" => pc'[h] = pc[h] /\ req'[h] = req[h]
    BY DEF TypeOK, Return
  <1>2. \A h \in Callers : Driving(h)' => Driving(h) /\ RunOf(h)' = RunOf(h)
    BY <1>1 DEF Driving, RunOf
  <1>3. Claims'
    BY <1>1, <1>2 DEF Claims, Driving
  <1>4. OneDriver' /\ AnswersItsSuspension'
    BY <1>1, <1>2 DEF Current, OneDriver, AnswersItsSuspension
  <1>5. \A h \in Callers : Driving(h)' /\ pc'[h] # "resuming" => req'[h].snap.step = step'[RunOf(h)']
    BY <1>1, <1>2 DEF Current, Driving
  <1>6. \A h \in Callers : pc'[h] = "resuming" =>
          pc[h] = "resuming" /\ RunOf(h)' = RunOf(h) /\ pending' = RunOf(h)'
    BY <1>1, <1>2 DEF Current, Driving
  <1>7. \A h \in Callers : pc'[h] = "feeding" => pc[h] = "feeding" /\ RunOf(h)' = RunOf(h)
    BY <1>1 DEF RunOf
  <1> QED
    BY <1>3, <1>4, <1>5, <1>6, <1>7 DEF Current

\* A turn ends and the host gets no new snapshot.
LEMMA CurrentTurn ==
  ASSUME TypeOK, Shape, Speaking, Claims, Current, NEW g \in Callers, EndTurn(g),
         snaps' = snaps, pending' \in {pending, NoRun}
  PROVE  Claims' /\ Current'
  <1>1. \A h \in Callers : pc'[h] # "out" => pc'[h] = pc[h] /\ req'[h] = req[h] /\ h # g
    BY DEF TypeOK, EndTurn, Return
  <1>2. \A h \in Callers : Driving(h)' => Driving(h) /\ RunOf(h)' = RunOf(h)
    BY <1>1 DEF Driving, RunOf
  <1>3. \A h \in Callers : pc'[h] \notin {"resuming", "feeding"}
    BY <1>1 DEF Speaking, OneSpeaker, Talking, EndTurn
  <1>4. \A s \in snaps : s.run = pending => s.step < step[s.run]
    BY SessionAssumption DEF EndTurn, Current, TypeOK, Snapshots
  <1>5. Claims'
    BY <1>1, <1>2 DEF Claims, Driving, EndTurn
  <1>6. OneDriver' /\ AnswersItsSuspension'
    BY <1>1, <1>2, <1>3 DEF Current, OneDriver, AnswersItsSuspension
  <1>7. \A s \in snaps : pending' = s.run => s.run = pending
    BY SessionAssumption DEF TypeOK, Snapshots
  <1>8. \A h \in Callers : Driving(h)' => req'[h].snap.step = step[RunOf(h)']
    BY <1>1, <1>2, <1>3 DEF Current, Driving
  <1>9. \A s \in snaps : s.step < step[s.run] => ~(s.step = step[s.run])
    BY DEF TypeOK, Snapshots
  <1> QED
    BY <1>3, <1>4, <1>5, <1>6, <1>7, <1>8, <1>9 DEF Current, EndTurn

\* A turn ends with a new snapshot.
LEMMA CurrentSuspends ==
  ASSUME TypeOK, Shape, Speaking, Claims, Current, NEW g \in Callers, TurnSuspends(g)
  PROVE  Claims' /\ Current'
  <1>1. PICK s \in NextSuspensions(g) : worker' = s /\ snaps' = snaps \cup {s}
    BY DEF TurnSuspends, WorkerSuspends
  <1>2. s.run = RunOf(g) /\ s.step = step[RunOf(g)] /\ RunOf(g) \in started /\ s \in Snapshots
    BY NextSuspension, RunTypes DEF TurnSuspends, EndTurn
  <1>3. /\ \A h \in Callers : pc'[h] # "out" => pc'[h] = pc[h] /\ req'[h] = req[h] /\ h # g
        /\ UNCHANGED <<claimed, started, step>> /\ pending' = RunOf(g)
    BY DEF TypeOK, TurnSuspends, EndTurn, Return
  <1>4. \A h \in Callers : Driving(h)' => Driving(h) /\ RunOf(h)' = RunOf(h)
    BY <1>3 DEF Driving, RunOf
  <1>5. \A h \in Callers : pc'[h] \notin {"resuming", "feeding"}
    BY <1>3 DEF Speaking, OneSpeaker, Talking, TurnSuspends, EndTurn
  <1>6. \A t \in snaps : t.run = RunOf(g) => t.step < step[t.run]
    BY DEF TurnSuspends, EndTurn, Current
  <1>7. \A t \in snaps : t.run = RunOf(g) => ~(t.step = s.step)
    BY <1>2, <1>6 DEF TypeOK, Snapshots
  <1>8. Claims'
    <2>1. \A h \in Callers : Driving(h)' => req'[h].snap \in claimed'
      BY <1>3, <1>4 DEF Claims, Driving
    <2>2. \A t \in snaps' : t.step <= step'[t.run]
      BY <1>1, <1>2, <1>3 DEF Claims, Snapshots
    <2> QED
      BY <2>1, <2>2, <1>2, <1>3 DEF Claims
  <1>9. OneDriver' /\ AnswersItsSuspension'
    BY <1>3, <1>4, <1>5 DEF Current, OneDriver, AnswersItsSuspension
  <1>10. \A h \in Callers : Driving(h)' => req'[h].snap.step = step[RunOf(h)']
    BY <1>3, <1>4, <1>5 DEF Current, Driving
  <1>11. \A t, u \in snaps' : t.run = u.run /\ t.step = u.step => t = u
    BY <1>1, <1>2, <1>7 DEF Current
  <1>12. \A t \in snaps' : t.step < step[t.run] => t \in claimed
    BY <1>1, <1>2 DEF Current, Snapshots
  <1>13. \A t \in snaps' : t.run = pending' /\ t.step = step[t.run] => worker' = t
    BY <1>1, <1>2, <1>3, <1>7
  <1> QED
    BY <1>3, <1>5, <1>8, <1>9, <1>10, <1>11, <1>12, <1>13 DEF Current

\* A load ends: without a new snapshot, or with the first one of a new feed.
LEMMA CurrentLoad ==
  ASSUME TypeOK, Shape, Speaking, Claims, Current, NEW g \in Callers, NEW r \in Runs, Load(g, r),
         \/ snaps' = snaps /\ pending' \in {pending, r}
         \/ \E s \in RestoredSuspensions(r) :
              snaps' = snaps \cup {s} /\ worker' = s /\ pending' = r
  PROVE  Claims' /\ Current'
  <1>1. /\ \A h \in Callers : pc[h] \notin {"resuming", "feeding"}
        /\ UNCHANGED <<pc, req, step, claimed>> /\ started' = started \cup {r}
        /\ pending = NoRun /\ step[r] = 0
    BY DEF Load, Speaking, OneSpeaker, Claims
  <1>2. \A s \in snaps : s.run # r /\ s.run # NoRun
    BY SessionAssumption DEF Load, Shape, TypeOK, Snapshots
  <1>3. \A s \in snaps' : s \in snaps \/ (s.run = r /\ s.step = 0 /\ worker' = s /\ pending' = r)
    BY RestoredSuspension
  <1>4. \A s, t \in snaps' : s \notin snaps /\ t \notin snaps => s = t
    BY <1>3
  <1>5. claimed \subseteq snaps /\ snaps \subseteq snaps'
    BY DEF TypeOK
  <1>6. Claims'
    BY <1>1, <1>2, <1>3 DEF Claims, Driving
  <1>7. OneDriver' /\ AnswersItsSuspension'
    BY <1>1 DEF Current, OneDriver, AnswersItsSuspension, Driving, RunOf
  <1>8. \A s, t \in snaps' : s.run = t.run /\ s.step = t.step => s = t
    BY <1>2, <1>3, <1>4 DEF Current
  <1>9. \A s \in snaps' : s.step < step[s.run] => s \in claimed
    BY <1>1, <1>3 DEF Current
  <1>10. \A s \in snaps' : s.run = pending' => worker' = s
    BY <1>1, <1>2, <1>3
  <1> QED
    BY <1>1, <1>6, <1>7, <1>8, <1>9, <1>10 DEF Current, RunOf, Driving

\* A goroutine claims a snapshot that nobody has claimed.
LEMMA CurrentClaim ==
  ASSUME TypeOK, Shape, Claims, Current, NEW g \in Callers, NEW s \in snaps, Claim(g, s)
  PROVE  Claims' /\ Current'
  <1>1. /\ s \notin claimed /\ claimed' = claimed \cup {s}
        /\ pc[g] = "out" /\ UNCHANGED <<host, snaps, peer>>
    BY DEF Claim, Goto
  <1>2. PICK p \in {"answering", "waiting"} : pc' = [pc EXCEPT ![g] = p]
    BY DEF Claim, Goto
  <1>3. req'[g].snap = s /\ pc'[g] = p
    BY <1>2, RequestTypes DEF TypeOK, Claim
  <1>4. \A h \in Callers \ {g} : req'[h] = req[h] /\ pc'[h] = pc[h]
    BY <1>2 DEF TypeOK, Claim
  <1>5. /\ \A h \in Callers \ {g} : (Driving(h)' <=> Driving(h)) /\ RunOf(h)' = RunOf(h)
        /\ RunOf(g)' = s.run
    BY <1>3, <1>4 DEF Driving, RunOf
  <1>6. s.step = step[s.run]
    BY <1>1 DEF Claims, Current, TypeOK, Snapshots
  <1>7. \A h \in Callers \ {g} : Driving(h) => RunOf(h) # s.run
    <2> SUFFICES ASSUME NEW h \in Callers, Driving(h), RunOf(h) = s.run
                 PROVE  FALSE
      OBVIOUS
    <2>1. req[h].snap \in claimed /\ req[h].snap \in snaps
      BY DEF Claims, Shape
    <2>2. CASE pc[h] = "resuming"
      BY <2>2, <1>6 DEF Current, TypeOK, Snapshots
    <2>3. CASE pc[h] # "resuming"
      BY <2>1, <2>3, <1>1, <1>6 DEF Current, RunOf
    <2> QED
      BY <2>2, <2>3
  <1>8. Claims'
    BY <1>1, <1>3, <1>4, <1>5 DEF Claims, host
  <1>9. OneDriver'
    BY <1>5, <1>7 DEF Current, OneDriver
  <1>10. AnswersItsSuspension'
    BY <1>1, <1>2, <1>3, <1>4 DEF Current, AnswersItsSuspension, peer
  <1>11. \A h \in Callers : Driving(h)' /\ pc'[h] # "resuming" => req'[h].snap.step = step'[RunOf(h)']
    BY <1>1, <1>3, <1>4, <1>5, <1>6 DEF Current, host
  <1>12. \A h \in Callers : pc'[h] \in {"resuming", "feeding"} => pc'[h] = pc[h] /\ RunOf(h)' = RunOf(h)
    BY <1>2, <1>3, <1>4, <1>5
  <1> QED
    BY <1>1, <1>8, <1>9, <1>10, <1>11, <1>12 DEF Current, host, peer

\* A request leaves for the worker: the feed has moved on.
LEMMA CurrentSend ==
  ASSUME TypeOK, Shape, Speaking, Claims, Current, NEW g \in Callers, Send(g)
  PROVE  Claims' /\ Current'
  <1> DEFINE r == RunOf(g)
  <1>1. /\ pc[g] = "sending" /\ pc' = [pc EXCEPT ![g] = "resuming"]
        /\ pending = r /\ ~inTurn /\ step[r] = req[g].snap.step
        /\ step' = [step EXCEPT ![r] = @ + 1]
        /\ UNCHANGED <<req, pending, started, handed, peer>>
    BY DEF Send, Goto, MaySend
  <1>2. r \in started /\ r \in Runs /\ step[r] \in Nat /\ req[g].snap \in snaps
        /\ req[g].snap \in claimed /\ Driving(g)
    BY <1>1, RunTypes DEF Shape, Claims, Driving
  <1>3. step'[r] = step[r] + 1 /\ \A x \in Runs \ {r} : step'[x] = step[x]
    BY <1>1, <1>2 DEF TypeOK
  <1>4. \A s \in snaps : s.run \in Runs /\ s.step \in Nat /\ step[s.run] \in Nat
    BY DEF TypeOK, Snapshots
  <1>5. /\ \A h \in Callers : (Driving(h)' <=> Driving(h)) /\ RunOf(h)' = RunOf(h)
        /\ \A h \in Callers \ {g} : pc'[h] = pc[h] /\ pc[h] \notin {"resuming", "feeding"}
        /\ pc'[g] = "resuming"
    BY <1>1, <1>2 DEF TypeOK, Driving, RunOf, Speaking, OneSpeaker
  <1>6. \A s \in snaps : s.run = r => s.step < step'[r]
    BY <1>3, <1>4, <1>2 DEF Claims
  <1>7. \A s \in snaps : s.step < step'[s.run] => s \in claimed
    <2> SUFFICES ASSUME NEW s \in snaps, s.step < step'[s.run]
                 PROVE  s \in claimed
      OBVIOUS
    <2>1. CASE s.run = r /\ s.step = step[r]
      BY <2>1, <1>1, <1>2 DEF Current, RunOf
    <2>2. CASE ~(s.run = r /\ s.step = step[r])
      BY <2>2, <1>2, <1>3, <1>4 DEF Current
    <2> QED
      BY <2>1, <2>2
  <1>8. Claims'
    <2>1. \A s \in snaps : s.step <= step'[s.run]
      BY <1>3, <1>4, <1>6 DEF Claims
    <2>2. \A x \in Runs : x \notin started => step'[x] = 0
      BY <1>2, <1>3 DEF Claims
    <2> QED
      BY <2>1, <2>2, <1>1, <1>5 DEF Claims, handed
  <1>9. OneDriver'
    BY <1>5 DEF Current, OneDriver
  <1>10. \A h \in Callers : Driving(h)' /\ pc'[h] # "resuming" => req'[h].snap.step = step'[RunOf(h)']
    <2> SUFFICES ASSUME NEW h \in Callers, Driving(h), h # g
                 PROVE  req[h].snap.step = step'[RunOf(h)]
      BY <1>1, <1>5
    <2>1. RunOf(h) # r
      BY <1>2 DEF Current, OneDriver
    <2>2. RunOf(h) \in Runs
      BY RunTypes DEF Driving
    <2> QED
      BY <2>1, <2>2, <1>3, <1>5 DEF Current
  <1>11. AnswersItsSuspension'
    BY <1>1, <1>2, <1>5 DEF Current, AnswersItsSuspension, peer, RunOf
  <1>12. \A s \in snaps : s.run = pending => ~(s.step = step'[s.run])
    BY <1>1, <1>4, <1>6
  <1> QED
    BY <1>1, <1>5, <1>6, <1>7, <1>8, <1>9, <1>10, <1>11, <1>12 DEF Current, handed, peer

\* FeedStart, Close and Release: nobody's snapshot is touched.
LEMMA CurrentMoves ==
  ASSUME TypeOK, Shape, Claims, Current, NEW g \in Callers, ~Driving(g),
         NEW p \in {"feeding", "resetting", "out"}, pc' = [pc EXCEPT ![g] = p],
         \A h \in Callers \ {g} : req'[h] = req[h],
         p = "feeding" => pending' = NoRun /\ \A s \in snaps : s.run # RunOf(g)',
         started \subseteq started', UNCHANGED <<step, handed>>,
         pending' = pending \/ (pending' = NoRun /\ \A h \in Callers : pc[h] # "resuming"),
         UNCHANGED <<worker, dead>> \/ dead' \/ (pending' = NoRun /\ \A h \in Callers : pc[h] # "resuming")
  PROVE  Claims' /\ Current'
  <1>1. \A h \in Callers : h # g => pc'[h] = pc[h] /\ req'[h] = req[h]
    BY DEF TypeOK
  <1>2. ~Driving(g)' /\ pc'[g] = p
    BY DEF TypeOK, Driving
  <1>3. \A h \in Callers : Driving(h)' => h # g /\ Driving(h)
    BY <1>1, <1>2 DEF Driving
  <1>4. \A h \in Callers : h # g => RunOf(h)' = RunOf(h)
    BY <1>1 DEF RunOf
  <1>5. Claims'
    BY <1>1, <1>3 DEF Claims, handed
  <1>6. OneDriver' /\ AnswersItsSuspension'
    BY <1>1, <1>2, <1>3, <1>4 DEF Current, OneDriver, AnswersItsSuspension, Driving
  <1>7. \A h \in Callers : Driving(h)' /\ pc'[h] # "resuming" => req'[h].snap.step = step'[RunOf(h)']
    BY <1>1, <1>3, <1>4 DEF Current
  <1>8. \A h \in Callers : pc'[h] = "resuming" =>
          pc[h] = "resuming" /\ RunOf(h)' = RunOf(h) /\ pending' = pending
    BY <1>1, <1>2, <1>3, <1>4
  <1>9. \A h \in Callers : pc'[h] = "feeding" =>
          pending' = NoRun /\ \A s \in snaps : s.run # RunOf(h)'
    BY <1>1, <1>2, <1>4 DEF Current
  <1>10. \A s \in snaps : s.run # NoRun
    BY SessionAssumption DEF TypeOK, Snapshots
  <1>11. \A s \in snaps : ~dead' /\ s.run = pending' /\ s.step = step[s.run] => worker' = s
    BY <1>10 DEF Current
  <1> QED
    BY <1>5, <1>6, <1>7, <1>8, <1>9, <1>11 DEF Current, handed

LEMMA CurrentHolds == Spec => [](Claims /\ Current)
  <1>1. Init => Claims /\ Current
    BY SessionAssumption DEF Init, Claims, Current, OneDriver, AnswersItsSuspension, Driving
  <1>2. TypeOK /\ Shape /\ Speaking /\ Claims /\ Current /\ [Next]_vars => Claims' /\ Current'
    <2> SUFFICES ASSUME TypeOK, Shape, Speaking, Claims, Current, [Next]_vars
                 PROVE  Claims' /\ Current'
      OBVIOUS
    <2>1. ASSUME NEW g \in Callers, TurnSuspends(g)
          PROVE  Claims' /\ Current'
      BY <2>1, CurrentSuspends
    <2>2. ASSUME NEW g \in Callers, TurnEnds(g)
          PROVE  Claims' /\ Current'
      BY <2>2, CurrentTurn, NextSuspension DEF TurnEnds, EndTurn, WorkerEnds, Cancel, peer
    <2>3. ASSUME NEW g \in Callers, TurnBreaks(g)
          PROVE  Claims' /\ Current'
      BY <2>3, CurrentTurn, NextSuspension DEF TurnBreaks, EndTurn, WorkerBreaks, Cancel, AfterError, peer
    <2>4. ASSUME NEW g \in Callers, AbortFails(g)
          PROVE  Claims' /\ Current'
      BY <2>4, CurrentTurn, NextSuspension DEF AbortFails, EndTurn, WorkerBreaks, Cancel, peer
    <2>5. ASSUME NEW g \in Callers, TurnDenied(g)
          PROVE  Claims' /\ Current'
      BY <2>5, CurrentTurn, NextSuspension DEF TurnDenied, EndTurn, Cancel, AfterError, peer
    <2>6. ASSUME NEW g \in Callers, TurnLosesEvent(g)
          PROVE  Claims' /\ Current'
      BY <2>6, CurrentTurn, NextSuspension DEF TurnLosesEvent, EndTurn, WorkerEnds, WorkerSuspends, Cancel, AfterError, peer
    <2>7. ASSUME NEW g \in Callers, TurnGarbled(g)
          PROVE  Claims' /\ Current'
      BY <2>7, CurrentTurn, NextSuspension DEF TurnGarbled, EndTurn, WorkerEnds, WorkerSuspends, Cancel, peer
    <2>8. ASSUME NEW g \in Callers, AbortLosesEvent(g)
          PROVE  Claims' /\ Current'
      BY <2>8, CurrentTurn, NextSuspension DEF AbortLosesEvent, EndTurn, WorkerEnds, Cancel, peer
    <2>9. ASSUME NEW g \in Callers, NEW s \in snaps, Claim(g, s)
          PROVE  Claims' /\ Current'
      BY <2>9, CurrentClaim
    <2>10. ASSUME NEW g \in Callers, Answer(g)
          PROVE  Claims' /\ Current'
      <3>1. /\ pc[g] \in {"answering", "waiting"} /\ pc' = [pc EXCEPT ![g] = "sending"]
            /\ UNCHANGED <<host, handed, peer>>
        BY <2>10 DEF Answer, Goto
      <3>2. req' = [req EXCEPT ![g] = req'[g]] /\ req'[g].snap = req[g].snap
        BY <2>10 DEF Answer, TypeOK, Requests
      <3> QED
        BY <3>1, <3>2, CurrentAnswer
    <2>11. ASSUME NEW g \in Callers, Promise(g)
          PROVE  Claims' /\ Current'
      <3>1. /\ pc[g] \in {"answering", "waiting"} /\ pc' = [pc EXCEPT ![g] = "sending"]
            /\ UNCHANGED <<host, handed, peer>>
        BY <2>11 DEF Promise, Goto
      <3>2. req' = [req EXCEPT ![g] = req'[g]] /\ req'[g].snap = req[g].snap
        BY <2>11 DEF Promise, TypeOK, Requests
      <3> QED
        BY <3>1, <3>2, CurrentAnswer
    <2>12. ASSUME NEW g \in Callers, StartAsync(g)
          PROVE  Claims' /\ Current'
      <3>1. /\ pc[g] \in {"answering", "waiting"} /\ pc' = [pc EXCEPT ![g] = "sending"]
            /\ UNCHANGED <<host, handed, peer>>
        BY <2>12 DEF StartAsync, Goto
      <3>2. req' = [req EXCEPT ![g] = req'[g]] /\ req'[g].snap = req[g].snap
        BY <2>12 DEF StartAsync, TypeOK, Requests
      <3> QED
        BY <3>1, <3>2, CurrentAnswer
    <2>13. ASSUME NEW g \in Callers, ResolveByHand(g)
          PROVE  Claims' /\ Current'
      <3>1. /\ pc[g] \in {"answering", "waiting"} /\ pc' = [pc EXCEPT ![g] = "sending"]
            /\ UNCHANGED <<host, handed, peer>>
        BY <2>13 DEF ResolveByHand, Goto
      <3>2. req' = [req EXCEPT ![g] = req'[g]] /\ req'[g].snap = req[g].snap
        BY <2>13 DEF ResolveByHand, TypeOK, Requests
      <3> QED
        BY <3>1, <3>2, CurrentAnswer
    <2>14. ASSUME NEW g \in Callers, Collect(g)
          PROVE  Claims' /\ Current'
      <3>1. /\ pc[g] \in {"answering", "waiting"} /\ pc' = [pc EXCEPT ![g] = "sending"]
            /\ UNCHANGED <<host, handed, peer>>
        BY <2>14 DEF Collect, Goto
      <3>2. req' = [req EXCEPT ![g] = req'[g]] /\ req'[g].snap = req[g].snap
        BY <2>14 DEF Collect, TypeOK, Requests
      <3> QED
        BY <3>1, <3>2, CurrentAnswer
    <2>15. ASSUME NEW g \in Callers, Send(g)
          PROVE  Claims' /\ Current'
      BY <2>15, CurrentSend
    <2>16. ASSUME NEW g \in Callers, Refuse(g)
          PROVE  Claims' /\ Current'
      BY <2>16, CurrentReturn DEF Refuse, host, handed, peer
    <2>17. ASSUME NEW g \in Callers, Unencodable(g)
          PROVE  Claims' /\ Current'
      BY <2>17, CurrentReturn DEF Unencodable, host, handed, peer
    <2>18. ASSUME NEW g \in Callers, Panics(g)
          PROVE  Claims' /\ Current'
      BY <2>18, CurrentReturn DEF Panics, host, handed, peer
    <2>19. ASSUME NEW g \in Callers, UnknownFuture(g)
          PROVE  Claims' /\ Current'
      BY <2>19, CurrentReturn DEF UnknownFuture, host, handed, peer
    <2>20. ASSUME NEW g \in Callers, WaitCancelled(g)
          PROVE  Claims' /\ Current'
      BY <2>20, CurrentReturn DEF WaitCancelled, host, handed, peer
    <2>21. ASSUME NEW g \in Callers, CollectUnencodable(g)
          PROVE  Claims' /\ Current'
      BY <2>21, CurrentReturn DEF CollectUnencodable, host, handed, peer
    <2>22. ASSUME NEW g \in Callers, NEW r \in Runs, LoadEnds(g, r)
          PROVE  Claims' /\ Current'
      BY <2>22, CurrentLoad, RestoredSuspension DEF LoadEnds, WorkerEnds, Cancel
    <2>23. ASSUME NEW g \in Callers, NEW r \in Runs, LoadSuspends(g, r)
          PROVE  Claims' /\ Current'
      BY <2>23, CurrentLoad, RestoredSuspension DEF LoadSuspends, Restore
    <2>24. ASSUME NEW g \in Callers, NEW r \in Runs, LoadBreaks(g, r)
          PROVE  Claims' /\ Current'
      BY <2>24, CurrentLoad, RestoredSuspension DEF LoadBreaks, WorkerBreaks
    <2>25. ASSUME NEW g \in Callers, NEW r \in Runs, LoadMisused(g, r)
          PROVE  Claims' /\ Current'
      BY <2>25, CurrentLoad, RestoredSuspension DEF LoadMisused, Restore
    <2>26. ASSUME NEW g \in Callers, NEW r \in Runs, LoadLosesEvent(g, r)
          PROVE  Claims' /\ Current'
      BY <2>26, CurrentLoad, RestoredSuspension DEF LoadLosesEvent, Restore, Cancel
    <2>27. ASSUME NEW g \in Callers, NEW r \in Runs, FeedStart(g, r)
          PROVE  Claims' /\ Current'
      <3>1. RunOf(g)' = r
        BY <2>27, RequestTypes DEF FeedStart, TypeOK, RunOf, Feed
      <3>2. \A s \in snaps : s.run # r
        BY <2>27 DEF FeedStart, Shape
      <3> QED
        BY <2>27, <3>1, <3>2, CurrentMoves DEF FeedStart, Goto, Driving, peer, TypeOK
    <2>28. ASSUME NEW g \in Callers, NEW s \in snaps, DumpUnused(g, s)
          PROVE  Claims' /\ Current'
      BY <2>28, RequestTypes DEF DumpUnused, Goto, TypeOK, Shape, Driving, host, handed, peer, Claims, Current, OneDriver, AnswersItsSuspension, RunOf
    <2>29. ASSUME NEW g \in Callers, DumpSnapshot(g)
          PROVE  Claims' /\ Current'
      BY <2>29, CurrentReturn DEF DumpSnapshot, Ask, WorkerBreaks, host, handed, peer
    <2>30. ASSUME NEW g \in Callers, DumpRefused(g)
          PROVE  Claims' /\ Current'
      BY <2>30, CurrentReturn DEF DumpRefused, host, handed, peer
    <2>31. ASSUME NEW g \in Callers, AskIdle(g)
          PROVE  Claims' /\ Current'
      BY <2>31 DEF AskIdle, Ask, WorkerBreaks, Claims, Current, OneDriver, AnswersItsSuspension, RunOf, Driving, host, handed, peer
    <2>32. ASSUME NEW g \in Callers, Close(g)
          PROVE  Claims' /\ Current'
      <3>1. \A h \in Callers : pc[h] # "resuming"
        BY <2>32 DEF Close, Speaking, OneSpeaker
      <3> QED
        BY <2>32, <3>1, CurrentMoves DEF Close, Goto, Driving, peer, TypeOK
    <2>33. ASSUME NEW g \in Callers, Release(g)
          PROVE  Claims' /\ Current'
      <3>1. \A h \in Callers : pc[h] # "resuming"
        BY <2>33 DEF Release, Goto, Speaking, OneSpeaker, Talking
      <3>2. pending = NoRun /\ ~Driving(g)
        BY <2>33 DEF Release, Goto, Speaking, Driving
      <3> QED
        BY <2>33, <3>1, <3>2, CurrentMoves DEF Release, Goto, host, TypeOK
    <2>34. ASSUME NEW c \in running, CallbackReturns(c)
          PROVE  Claims' /\ Current'
      BY <2>34 DEF CallbackReturns, Claims, Current, OneDriver, AnswersItsSuspension, RunOf, Driving, host, handed, peer
    <2>35. CASE UNCHANGED vars
      BY <2>35 DEF vars, Claims, Current, OneDriver, AnswersItsSuspension, RunOf, Driving, host, handed, peer
    <2> QED
      BY <2>1, <2>2, <2>3, <2>4, <2>5, <2>6, <2>7, <2>8, <2>9, <2>10, <2>11, <2>12,
         <2>13, <2>14, <2>15, <2>16, <2>17, <2>18, <2>19, <2>20, <2>21, <2>22, <2>23,
         <2>24, <2>25, <2>26, <2>27, <2>28, <2>29, <2>30, <2>31, <2>32, <2>33, <2>34,
         <2>35, NextCases DEF Finished
  <1> QED
    BY <1>1, <1>2, Typing, SpeakingHolds, PTL DEF Spec

(***************************************************************************)
(* A feed that has given out a snapshot, or started a callback, is the     *)
(* session's feed or is cancelled.                                         *)
(***************************************************************************)
Owned ==
  /\ \A s \in snaps : s.run = pending \/ s.run \in over
  /\ CallbacksCancelled

LEMMA OwnedKept ==
  ASSUME TypeOK, Owned, over \subseteq over',
         pending' = pending \/ pending = NoRun \/ pending \in over',
         \A s \in snaps' : s \in snaps \/ s.run = pending',
         \A c \in running' : c \in running \/ \E s \in snaps : c[1] = s.run
  PROVE  Owned'
  <1>1. \A r \in Runs : r = pending \/ r \in over => r = pending' \/ r \in over'
    BY SessionAssumption
  <1>2. \A s \in snaps : s.run \in Runs /\ (s.run = pending \/ s.run \in over)
    BY DEF TypeOK, Snapshots, Owned
  <1>3. \A c \in running : c[1] \in Runs /\ (c[1] = pending \/ c[1] \in over)
    BY DEF TypeOK, Owned, CallbacksCancelled
  <1> QED
    BY <1>1, <1>2, <1>3 DEF Owned, CallbacksCancelled

LEMMA OwnedHolds == Spec => []Owned
  <1>1. Init => Owned
    BY DEF Init, Owned, CallbacksCancelled
  <1>2. TypeOK /\ Shape /\ Current /\ Owned /\ [Next]_vars => Owned'
    <2> SUFFICES ASSUME TypeOK, Shape, Current, Owned, [Next]_vars
                 PROVE  Owned'
      OBVIOUS
    <2>1. ASSUME NEW g \in Callers, TurnSuspends(g)
          PROVE  Owned'
      BY <2>1, OwnedKept, NextSuspension DEF TurnSuspends, EndTurn, Current, calls
    <2>2. ASSUME NEW g \in Callers, TurnEnds(g)
          PROVE  Owned'
      BY <2>2, OwnedKept, RunTypes DEF TurnEnds, EndTurn, Cancel, Current, calls
    <2>3. ASSUME NEW g \in Callers, TurnBreaks(g)
          PROVE  Owned'
      BY <2>3, OwnedKept, RunTypes DEF TurnBreaks, EndTurn, Cancel, Current, calls, AfterError
    <2>4. ASSUME NEW g \in Callers, AbortFails(g)
          PROVE  Owned'
      BY <2>4, OwnedKept, RunTypes DEF AbortFails, EndTurn, Cancel, Current, calls
    <2>5. ASSUME NEW g \in Callers, TurnDenied(g)
          PROVE  Owned'
      BY <2>5, OwnedKept, RunTypes DEF TurnDenied, EndTurn, Cancel, Current, calls, AfterError
    <2>6. ASSUME NEW g \in Callers, TurnLosesEvent(g)
          PROVE  Owned'
      BY <2>6, OwnedKept, RunTypes DEF TurnLosesEvent, EndTurn, Cancel, Current, calls, AfterError
    <2>7. ASSUME NEW g \in Callers, TurnGarbled(g)
          PROVE  Owned'
      BY <2>7, OwnedKept, RunTypes DEF TurnGarbled, EndTurn, Cancel, Current, calls
    <2>8. ASSUME NEW g \in Callers, AbortLosesEvent(g)
          PROVE  Owned'
      BY <2>8, OwnedKept, RunTypes DEF AbortLosesEvent, EndTurn, Cancel, Current, calls
    <2>9. ASSUME NEW g \in Callers, NEW s \in snaps, Claim(g, s)
          PROVE  Owned'
      BY <2>9, OwnedKept DEF Claim, host, calls, handed
    <2>10. ASSUME NEW g \in Callers, Answer(g)
          PROVE  Owned'
      BY <2>10, OwnedKept DEF Answer, host, calls, handed
    <2>11. ASSUME NEW g \in Callers, Promise(g)
          PROVE  Owned'
      BY <2>11, OwnedKept DEF Promise, host, calls, handed
    <2>12. ASSUME NEW g \in Callers, StartAsync(g)
          PROVE  Owned'
      BY <2>12, OwnedKept DEF StartAsync, Goto, Shape, Driving, RunOf, host, handed
    <2>13. ASSUME NEW g \in Callers, ResolveByHand(g)
          PROVE  Owned'
      BY <2>13, OwnedKept DEF ResolveByHand, host, calls, handed
    <2>14. ASSUME NEW g \in Callers, Collect(g)
          PROVE  Owned'
      BY <2>14, OwnedKept DEF Collect, host, calls, handed
    <2>15. ASSUME NEW g \in Callers, Send(g)
          PROVE  Owned'
      BY <2>15, OwnedKept DEF Send, host, calls, handed
    <2>16. ASSUME NEW g \in Callers, Refuse(g)
          PROVE  Owned'
      BY <2>16, OwnedKept DEF Refuse, host, calls, handed
    <2>17. ASSUME NEW g \in Callers, Unencodable(g)
          PROVE  Owned'
      BY <2>17, OwnedKept DEF Unencodable, host, calls, handed
    <2>18. ASSUME NEW g \in Callers, Panics(g)
          PROVE  Owned'
      BY <2>18, OwnedKept DEF Panics, host, calls, handed
    <2>19. ASSUME NEW g \in Callers, UnknownFuture(g)
          PROVE  Owned'
      BY <2>19, OwnedKept DEF UnknownFuture, host, calls, handed
    <2>20. ASSUME NEW g \in Callers, WaitCancelled(g)
          PROVE  Owned'
      BY <2>20, OwnedKept DEF WaitCancelled, Cancel, calls, handed
    <2>21. ASSUME NEW g \in Callers, CollectUnencodable(g)
          PROVE  Owned'
      BY <2>21, OwnedKept DEF CollectUnencodable, host, calls, handed
    <2>22. ASSUME NEW g \in Callers, NEW r \in Runs, LoadEnds(g, r)
          PROVE  Owned'
      BY <2>22, OwnedKept DEF LoadEnds, Load, calls, Cancel
    <2>23. ASSUME NEW g \in Callers, NEW r \in Runs, LoadSuspends(g, r)
          PROVE  Owned'
      BY <2>23, OwnedKept, RestoredSuspension DEF LoadSuspends, Load, calls
    <2>24. ASSUME NEW g \in Callers, NEW r \in Runs, LoadBreaks(g, r)
          PROVE  Owned'
      BY <2>24, OwnedKept DEF LoadBreaks, Load, calls
    <2>25. ASSUME NEW g \in Callers, NEW r \in Runs, LoadMisused(g, r)
          PROVE  Owned'
      BY <2>25, OwnedKept DEF LoadMisused, Load, calls
    <2>26. ASSUME NEW g \in Callers, NEW r \in Runs, LoadLosesEvent(g, r)
          PROVE  Owned'
      BY <2>26, OwnedKept DEF LoadLosesEvent, Load, calls, Cancel
    <2>27. ASSUME NEW g \in Callers, NEW r \in Runs, FeedStart(g, r)
          PROVE  Owned'
      BY <2>27, OwnedKept DEF FeedStart, host, calls, handed
    <2>28. ASSUME NEW g \in Callers, NEW s \in snaps, DumpUnused(g, s)
          PROVE  Owned'
      BY <2>28, OwnedKept DEF DumpUnused, host, calls, handed
    <2>29. ASSUME NEW g \in Callers, DumpSnapshot(g)
          PROVE  Owned'
      BY <2>29, OwnedKept DEF DumpSnapshot, host, calls, handed
    <2>30. ASSUME NEW g \in Callers, DumpRefused(g)
          PROVE  Owned'
      BY <2>30, OwnedKept DEF DumpRefused, host, calls, handed
    <2>31. ASSUME NEW g \in Callers, AskIdle(g)
          PROVE  Owned'
      BY <2>31, OwnedKept DEF AskIdle, host, calls, handed
    <2>32. ASSUME NEW g \in Callers, Close(g)
          PROVE  Owned'
      BY <2>32, OwnedKept DEF Close, host, calls, handed
    <2>33. ASSUME NEW g \in Callers, Release(g)
          PROVE  Owned'
      BY <2>33, OwnedKept DEF Release, host, calls, handed
    <2>34. ASSUME NEW c \in running, CallbackReturns(c)
          PROVE  Owned'
      BY <2>34, OwnedKept DEF CallbackReturns, host, calls, handed
    <2>35. CASE UNCHANGED vars
      BY <2>35, OwnedKept DEF vars, host, calls, handed
    <2> QED
      BY <2>1, <2>2, <2>3, <2>4, <2>5, <2>6, <2>7, <2>8, <2>9, <2>10, <2>11, <2>12,
         <2>13, <2>14, <2>15, <2>16, <2>17, <2>18, <2>19, <2>20, <2>21, <2>22, <2>23,
         <2>24, <2>25, <2>26, <2>27, <2>28, <2>29, <2>30, <2>31, <2>32, <2>33, <2>34,
         <2>35, NextCases DEF Finished
  <1> QED
    BY <1>1, <1>2, Typing, CurrentHolds, PTL DEF Spec

\* Only Ask stores a dump.
LEMMA DumpHolds == Spec => []DumpIsOfItsSnapshot
  <1>1. Init => DumpIsOfItsSnapshot
    BY DEF Init, DumpIsOfItsSnapshot
  <1>2. TypeOK /\ Shape /\ Current /\ DumpIsOfItsSnapshot /\ [Next]_vars => DumpIsOfItsSnapshot'
    <2> SUFFICES ASSUME TypeOK, Shape, Current, DumpIsOfItsSnapshot, [Next]_vars
                 PROVE  DumpIsOfItsSnapshot'
      OBVIOUS
    <2>1. ASSUME NEW g \in Callers, DumpSnapshot(g)
          PROVE  DumpIsOfItsSnapshot'
      <3>1. req[g].snap \in snaps /\ pending = req[g].snap.run /\ req[g].snap.step = step[req[g].snap.run]
        BY <2>1 DEF DumpSnapshot, MayDump, Shape, RunOf
      <3>2. ~dead => worker = req[g].snap
        BY <3>1 DEF Current
      <3> QED
        BY <2>1, <3>2 DEF DumpSnapshot, Ask, DumpIsOfItsSnapshot
    <2>2. ASSUME NEW g \in Callers, AskIdle(g)
          PROVE  DumpIsOfItsSnapshot'
      BY <2>2 DEF AskIdle, Ask, DumpIsOfItsSnapshot
    <2>3. saved' = saved \/ \E g \in Callers : DumpSnapshot(g) \/ AskIdle(g)
      BY NextCases DEF TurnSuspends, TurnEnds, TurnBreaks, AbortFails, TurnDenied, TurnLosesEvent,
         TurnGarbled, AbortLosesEvent, EndTurn, Claim, Answer, Promise, StartAsync, ResolveByHand,
         Collect, Send, Refuse, Unencodable, Panics, UnknownFuture, WaitCancelled,
         CollectUnencodable, LoadEnds, LoadSuspends, LoadBreaks, LoadMisused, LoadLosesEvent, Load,
         FeedStart, DumpUnused, DumpRefused, Close, Release, CallbackReturns, Finished, vars
    <2> QED
      BY <2>1, <2>2, <2>3 DEF DumpIsOfItsSnapshot
  <1> QED
    BY <1>1, <1>2, Typing, CurrentHolds, PTL DEF Spec

\* The steps of Next that lose no event.
LEMMA NoEventLost ==
  ASSUME Next, "event" \notin astray'
  PROVE  /\ "event" \notin astray
         /\ \/ \E g \in Callers :
                 \/ TurnSuspends(g) \/ TurnEnds(g) \/ TurnBreaks(g) \/ AbortFails(g)
                 \/ Answer(g) \/ Promise(g) \/ StartAsync(g) \/ ResolveByHand(g)
                 \/ Collect(g) \/ Send(g) \/ Refuse(g) \/ Unencodable(g) \/ Panics(g)
                 \/ UnknownFuture(g) \/ WaitCancelled(g) \/ CollectUnencodable(g)
                 \/ DumpSnapshot(g) \/ DumpRefused(g) \/ AskIdle(g) \/ Close(g)
                 \/ Release(g)
            \/ \E g \in Callers, s \in snaps : \/ Claim(g, s) \/ DumpUnused(g, s)
            \/ \E g \in Callers, r \in Runs :
                 \/ LoadEnds(g, r) \/ LoadSuspends(g, r) \/ LoadBreaks(g, r)
                 \/ LoadMisused(g, r) \/ FeedStart(g, r)
            \/ \E c \in running : CallbackReturns(c)
            \/ Finished
  BY DEF Next, CallerStep, Turn, Resume, Gone, Loading, Dumping, Closing, EventLost, ClaimLost,
         Finished, vars

LEMMA AgreeHolds == Spec => []AgreeUntilEventLost
  <1>1. Init => AgreeUntilEventLost
    BY DEF Init, AgreeUntilEventLost, HostKnowsSuspension
  <1>2. TypeOK /\ Shape /\ Speaking /\ AgreeUntilEventLost /\ [Next]_vars => AgreeUntilEventLost'
    <2> SUFFICES ASSUME TypeOK, Shape, Speaking, AgreeUntilEventLost, [Next]_vars,
                        "event" \notin astray'
                 PROVE  HostKnowsSuspension'
      BY DEF AgreeUntilEventLost
    <2>0. HostKnowsSuspension
      BY NoEventLost DEF AgreeUntilEventLost, vars
    <2> USE <2>0
    <2>1. ASSUME NEW g \in Callers, TurnSuspends(g)
          PROVE  HostKnowsSuspension'
      BY <2>1, NextSuspension, RunTypes, SessionAssumption DEF TurnSuspends, EndTurn, WorkerSuspends, HostKnowsSuspension
    <2>2. ASSUME NEW g \in Callers, TurnEnds(g)
          PROVE  HostKnowsSuspension'
      BY <2>2 DEF TurnEnds, WorkerEnds, HostKnowsSuspension
    <2>3. ASSUME NEW g \in Callers, TurnBreaks(g)
          PROVE  HostKnowsSuspension'
      BY <2>3 DEF TurnBreaks, WorkerBreaks, HostKnowsSuspension
    <2>4. ASSUME NEW g \in Callers, AbortFails(g)
          PROVE  HostKnowsSuspension'
      BY <2>4 DEF AbortFails, WorkerBreaks, HostKnowsSuspension
    <2>5. ASSUME NEW g \in Callers, NEW s \in snaps, Claim(g, s)
          PROVE  HostKnowsSuspension'
      BY <2>5 DEF Claim, HostKnowsSuspension, host, peer
    <2>6. ASSUME NEW g \in Callers, Answer(g)
          PROVE  HostKnowsSuspension'
      BY <2>6 DEF Answer, HostKnowsSuspension, host, peer
    <2>7. ASSUME NEW g \in Callers, Promise(g)
          PROVE  HostKnowsSuspension'
      BY <2>7 DEF Promise, HostKnowsSuspension, host, peer
    <2>8. ASSUME NEW g \in Callers, StartAsync(g)
          PROVE  HostKnowsSuspension'
      BY <2>8 DEF StartAsync, HostKnowsSuspension, host, peer
    <2>9. ASSUME NEW g \in Callers, ResolveByHand(g)
          PROVE  HostKnowsSuspension'
      BY <2>9 DEF ResolveByHand, HostKnowsSuspension, host, peer
    <2>10. ASSUME NEW g \in Callers, Collect(g)
          PROVE  HostKnowsSuspension'
      BY <2>10 DEF Collect, HostKnowsSuspension, host, peer
    <2>11. ASSUME NEW g \in Callers, Send(g)
          PROVE  HostKnowsSuspension'
      BY <2>11 DEF Send, HostKnowsSuspension, peer
    <2>12. ASSUME NEW g \in Callers, Refuse(g)
          PROVE  HostKnowsSuspension'
      BY <2>12 DEF Refuse, HostKnowsSuspension, host, peer
    <2>13. ASSUME NEW g \in Callers, Unencodable(g)
          PROVE  HostKnowsSuspension'
      BY <2>13 DEF Unencodable, HostKnowsSuspension, host, peer
    <2>14. ASSUME NEW g \in Callers, Panics(g)
          PROVE  HostKnowsSuspension'
      BY <2>14 DEF Panics, HostKnowsSuspension, host, peer
    <2>15. ASSUME NEW g \in Callers, UnknownFuture(g)
          PROVE  HostKnowsSuspension'
      BY <2>15 DEF UnknownFuture, HostKnowsSuspension, host, peer
    <2>16. ASSUME NEW g \in Callers, WaitCancelled(g)
          PROVE  HostKnowsSuspension'
      BY <2>16 DEF WaitCancelled, HostKnowsSuspension, peer
    <2>17. ASSUME NEW g \in Callers, CollectUnencodable(g)
          PROVE  HostKnowsSuspension'
      BY <2>17 DEF CollectUnencodable, HostKnowsSuspension, host, peer
    <2>18. ASSUME NEW g \in Callers, NEW r \in Runs, LoadEnds(g, r)
          PROVE  HostKnowsSuspension'
      BY <2>18, RestoredSuspension, SessionAssumption DEF LoadEnds, Load, WorkerEnds, HostKnowsSuspension
    <2>19. ASSUME NEW g \in Callers, NEW r \in Runs, LoadSuspends(g, r)
          PROVE  HostKnowsSuspension'
      BY <2>19, RestoredSuspension, SessionAssumption DEF LoadSuspends, Load, Restore, HostKnowsSuspension
    <2>20. ASSUME NEW g \in Callers, NEW r \in Runs, LoadBreaks(g, r)
          PROVE  HostKnowsSuspension'
      BY <2>20, RestoredSuspension, SessionAssumption DEF LoadBreaks, Load, WorkerBreaks, HostKnowsSuspension
    <2>21. ASSUME NEW g \in Callers, NEW r \in Runs, LoadMisused(g, r)
          PROVE  HostKnowsSuspension'
      BY <2>21, RestoredSuspension, SessionAssumption DEF LoadMisused, Load, Restore, HostKnowsSuspension
    <2>22. ASSUME NEW g \in Callers, NEW r \in Runs, FeedStart(g, r)
          PROVE  HostKnowsSuspension'
      BY <2>22 DEF FeedStart, HostKnowsSuspension, peer
    <2>23. ASSUME NEW g \in Callers, NEW s \in snaps, DumpUnused(g, s)
          PROVE  HostKnowsSuspension'
      BY <2>23 DEF DumpUnused, HostKnowsSuspension, host, peer
    <2>24. ASSUME NEW g \in Callers, DumpSnapshot(g)
          PROVE  HostKnowsSuspension'
      BY <2>24 DEF DumpSnapshot, Ask, WorkerBreaks, HostKnowsSuspension, host, peer
    <2>25. ASSUME NEW g \in Callers, DumpRefused(g)
          PROVE  HostKnowsSuspension'
      BY <2>25 DEF DumpRefused, HostKnowsSuspension, host, peer
    <2>26. ASSUME NEW g \in Callers, AskIdle(g)
          PROVE  HostKnowsSuspension'
      BY <2>26 DEF AskIdle, Ask, WorkerBreaks, HostKnowsSuspension, host, peer
    <2>27. ASSUME NEW g \in Callers, Close(g)
          PROVE  HostKnowsSuspension'
      BY <2>27 DEF Close, HostKnowsSuspension, peer
    <2>28. ASSUME NEW g \in Callers, Release(g)
          PROVE  HostKnowsSuspension'
      BY <2>28 DEF Release, Goto, Speaking, HostKnowsSuspension, host
    <2>29. ASSUME NEW c \in running, CallbackReturns(c)
          PROVE  HostKnowsSuspension'
      BY <2>29 DEF CallbackReturns, HostKnowsSuspension, host, peer
    <2>30. CASE UNCHANGED vars
      BY <2>30 DEF vars, HostKnowsSuspension, host, peer
    <2> QED
      BY <2>1, <2>2, <2>3, <2>4, <2>5, <2>6, <2>7, <2>8, <2>9, <2>10, <2>11, <2>12,
         <2>13, <2>14, <2>15, <2>16, <2>17, <2>18, <2>19, <2>20, <2>21, <2>22, <2>23,
         <2>24, <2>25, <2>26, <2>27, <2>28, <2>29, <2>30, NoEventLost DEF Finished
  <1> QED
    BY <1>1, <1>2, Typing, SpeakingHolds, PTL DEF Spec

\* The steps of Next in which nothing goes wrong but the worker.
LEMMA NoMishap ==
  ASSUME Next, astray' = {}
  PROVE  /\ astray = {}
         /\ \/ \E g \in Callers :
                 \/ TurnSuspends(g) \/ TurnEnds(g) \/ TurnBreaks(g) \/ AbortFails(g)
                 \/ Answer(g) \/ Promise(g) \/ StartAsync(g) \/ ResolveByHand(g)
                 \/ Collect(g) \/ Send(g) \/ Refuse(g) \/ DumpSnapshot(g)
                 \/ DumpRefused(g) \/ AskIdle(g) \/ Close(g) \/ Release(g)
            \/ \E g \in Callers, s \in snaps : \/ Claim(g, s) \/ DumpUnused(g, s)
            \/ \E g \in Callers, r \in Runs :
                 \/ LoadEnds(g, r) \/ LoadSuspends(g, r) \/ LoadBreaks(g, r)
                 \/ FeedStart(g, r)
            \/ \E c \in running : CallbackReturns(c)
            \/ Finished
  BY DEF Next, CallerStep, Turn, Resume, Gone, Loading, Dumping, Closing, EventLost, ClaimLost,
         Finished, vars

LEMMA ResumableQuiet ==
  ASSUME NoFeedAbandoned, UNCHANGED <<snaps, claimed, step, pending, inTurn>>, dead' = dead \/ dead',
         \A h \in Callers : Driving(h) => Driving(h)' /\ RunOf(h)' = RunOf(h)
  PROVE  NoFeedAbandoned'
  BY DEF NoFeedAbandoned

LEMMA ResumableSuspends ==
  ASSUME TypeOK, Shape, Current, NEW g \in Callers, TurnSuspends(g)
  PROVE  NoFeedAbandoned'
  <1>1. PICK s \in NextSuspensions(g) : snaps' = snaps \cup {s}
    BY DEF TurnSuspends
  <1>2. s.run = RunOf(g) /\ s.step = step[RunOf(g)] /\ s \in Snapshots
    BY NextSuspension DEF TurnSuspends, EndTurn
  <1>3. s \notin snaps
    BY <1>2 DEF TurnSuspends, EndTurn, Current, TypeOK, Snapshots
  <1>4. s \in snaps' \ claimed' /\ s.run = pending' /\ s.step = step'[pending']
    BY <1>1, <1>2, <1>3 DEF TurnSuspends, EndTurn, TypeOK
  <1> QED
    BY <1>4 DEF NoFeedAbandoned

LEMMA ResumableLoad ==
  ASSUME TypeOK, Shape, Claims, NEW g \in Callers, NEW r \in Runs, LoadSuspends(g, r)
  PROVE  NoFeedAbandoned'
  <1>1. PICK s \in RestoredSuspensions(r) : snaps' = snaps \cup {s}
    BY DEF LoadSuspends
  <1>2. s.run = r /\ s.step = 0
    BY RestoredSuspension
  <1>3. s \notin snaps /\ step[r] = 0
    BY <1>2 DEF LoadSuspends, Load, Shape, Claims
  <1>4. s \in snaps' \ claimed' /\ s.run = pending' /\ s.step = step'[pending']
    BY <1>1, <1>2, <1>3 DEF LoadSuspends, Load, TypeOK
  <1> QED
    BY <1>4 DEF NoFeedAbandoned

\* Who claims the snapshot that could be resumed drives the feed from then on.
LEMMA ResumableClaim ==
  ASSUME TypeOK, NoFeedAbandoned, NEW g \in Callers, NEW s \in snaps, Claim(g, s)
  PROVE  NoFeedAbandoned'
  <1>1. /\ claimed' = claimed \cup {s} /\ pc[g] = "out"
        /\ UNCHANGED <<snaps, step, pending, inTurn, dead>>
    BY DEF Claim, Goto, host, peer
  <1>2. Driving(g)' /\ RunOf(g)' = s.run
    BY RequestTypes DEF Claim, Goto, TypeOK, Driving, RunOf
  <1>3. \A h \in Callers : Driving(h) => Driving(h)' /\ RunOf(h)' = RunOf(h)
    BY <1>1 DEF Claim, Goto, TypeOK, Driving, RunOf
  <1> QED
    BY <1>1, <1>2, <1>3 DEF NoFeedAbandoned

\* Who is refused does not drive the feed that could be resumed.
LEMMA ResumableRefuse ==
  ASSUME TypeOK, Shape, Speaking, Current, NoFeedAbandoned, NEW g \in Callers, Refuse(g)
  PROVE  NoFeedAbandoned'
  <1>1. UNCHANGED <<host, handed, dead>> /\ pc[g] = "sending" /\ ~MaySend(g)
    BY DEF Refuse, peer
  <1>2. \A h \in Callers \ {g} : Driving(h) => Driving(h)' /\ RunOf(h)' = RunOf(h)
    BY DEF Refuse, Return, TypeOK, Driving, RunOf
  <1>3. pending # NoRun /\ ~inTurn => RunOf(g) # pending
    BY <1>1 DEF MaySend, Speaking, Current, Driving
  <1> QED
    BY <1>1, <1>2, <1>3 DEF NoFeedAbandoned, host, handed

LEMMA ResumableHolds == Spec => []ResumableUntilMishap
  <1>1. Init => ResumableUntilMishap
    BY DEF Init, ResumableUntilMishap, NoFeedAbandoned
  <1>2. /\ TypeOK /\ Shape /\ Speaking /\ Claims /\ Current
        /\ ResumableUntilMishap /\ [Next]_vars
        => ResumableUntilMishap'
    <2> SUFFICES ASSUME TypeOK, Shape, Speaking, Claims, Current, ResumableUntilMishap, [Next]_vars,
                        astray' = {}
                 PROVE  NoFeedAbandoned'
      BY DEF ResumableUntilMishap
    <2>0. NoFeedAbandoned
      BY NoMishap DEF ResumableUntilMishap, vars
    <2> USE <2>0
    <2>1. ASSUME NEW g \in Callers, TurnSuspends(g)
          PROVE  NoFeedAbandoned'
      BY <2>1, ResumableSuspends
    <2>2. ASSUME NEW g \in Callers, TurnEnds(g)
          PROVE  NoFeedAbandoned'
      BY <2>2 DEF TurnEnds, WorkerEnds, NoFeedAbandoned
    <2>3. ASSUME NEW g \in Callers, TurnBreaks(g)
          PROVE  NoFeedAbandoned'
      BY <2>3 DEF TurnBreaks, WorkerBreaks, NoFeedAbandoned
    <2>4. ASSUME NEW g \in Callers, AbortFails(g)
          PROVE  NoFeedAbandoned'
      BY <2>4 DEF AbortFails, WorkerBreaks, NoFeedAbandoned
    <2>5. ASSUME NEW g \in Callers, NEW s \in snaps, Claim(g, s)
          PROVE  NoFeedAbandoned'
      BY <2>5, ResumableClaim
    <2>6. ASSUME NEW g \in Callers, Answer(g)
          PROVE  NoFeedAbandoned'
      <3>1. /\ pc[g] \in {"answering", "waiting"} /\ pc' = [pc EXCEPT ![g] = "sending"]
            /\ UNCHANGED <<host, handed, peer>>
        BY <2>6 DEF Answer, Goto
      <3>2. \A h \in Callers : req'[h].snap = req[h].snap
        BY <2>6 DEF Answer, TypeOK, Requests
      <3>3. \A h \in Callers : Driving(h) => Driving(h)' /\ RunOf(h)' = RunOf(h)
        BY <3>1, <3>2 DEF TypeOK, Driving, RunOf
      <3> QED
        BY <3>1, <3>3, ResumableQuiet DEF host, handed, peer
    <2>7. ASSUME NEW g \in Callers, Promise(g)
          PROVE  NoFeedAbandoned'
      <3>1. /\ pc[g] \in {"answering", "waiting"} /\ pc' = [pc EXCEPT ![g] = "sending"]
            /\ UNCHANGED <<host, handed, peer>>
        BY <2>7 DEF Promise, Goto
      <3>2. \A h \in Callers : req'[h].snap = req[h].snap
        BY <2>7 DEF Promise, TypeOK, Requests
      <3>3. \A h \in Callers : Driving(h) => Driving(h)' /\ RunOf(h)' = RunOf(h)
        BY <3>1, <3>2 DEF TypeOK, Driving, RunOf
      <3> QED
        BY <3>1, <3>3, ResumableQuiet DEF host, handed, peer
    <2>8. ASSUME NEW g \in Callers, StartAsync(g)
          PROVE  NoFeedAbandoned'
      <3>1. /\ pc[g] \in {"answering", "waiting"} /\ pc' = [pc EXCEPT ![g] = "sending"]
            /\ UNCHANGED <<host, handed, peer>>
        BY <2>8 DEF StartAsync, Goto
      <3>2. \A h \in Callers : req'[h].snap = req[h].snap
        BY <2>8 DEF StartAsync, TypeOK, Requests
      <3>3. \A h \in Callers : Driving(h) => Driving(h)' /\ RunOf(h)' = RunOf(h)
        BY <3>1, <3>2 DEF TypeOK, Driving, RunOf
      <3> QED
        BY <3>1, <3>3, ResumableQuiet DEF host, handed, peer
    <2>9. ASSUME NEW g \in Callers, ResolveByHand(g)
          PROVE  NoFeedAbandoned'
      <3>1. /\ pc[g] \in {"answering", "waiting"} /\ pc' = [pc EXCEPT ![g] = "sending"]
            /\ UNCHANGED <<host, handed, peer>>
        BY <2>9 DEF ResolveByHand, Goto
      <3>2. \A h \in Callers : req'[h].snap = req[h].snap
        BY <2>9 DEF ResolveByHand, TypeOK, Requests
      <3>3. \A h \in Callers : Driving(h) => Driving(h)' /\ RunOf(h)' = RunOf(h)
        BY <3>1, <3>2 DEF TypeOK, Driving, RunOf
      <3> QED
        BY <3>1, <3>3, ResumableQuiet DEF host, handed, peer
    <2>10. ASSUME NEW g \in Callers, Collect(g)
          PROVE  NoFeedAbandoned'
      <3>1. /\ pc[g] \in {"answering", "waiting"} /\ pc' = [pc EXCEPT ![g] = "sending"]
            /\ UNCHANGED <<host, handed, peer>>
        BY <2>10 DEF Collect, Goto
      <3>2. \A h \in Callers : req'[h].snap = req[h].snap
        BY <2>10 DEF Collect, TypeOK, Requests
      <3>3. \A h \in Callers : Driving(h) => Driving(h)' /\ RunOf(h)' = RunOf(h)
        BY <3>1, <3>2 DEF TypeOK, Driving, RunOf
      <3> QED
        BY <3>1, <3>3, ResumableQuiet DEF host, handed, peer
    <2>11. ASSUME NEW g \in Callers, Send(g)
          PROVE  NoFeedAbandoned'
      BY <2>11 DEF Send, NoFeedAbandoned
    <2>12. ASSUME NEW g \in Callers, Refuse(g)
          PROVE  NoFeedAbandoned'
      BY <2>12, ResumableRefuse
    <2>13. ASSUME NEW g \in Callers, NEW r \in Runs, LoadEnds(g, r)
          PROVE  NoFeedAbandoned'
      BY <2>13 DEF LoadEnds, Load, NoFeedAbandoned
    <2>14. ASSUME NEW g \in Callers, NEW r \in Runs, LoadSuspends(g, r)
          PROVE  NoFeedAbandoned'
      BY <2>14, ResumableLoad
    <2>15. ASSUME NEW g \in Callers, NEW r \in Runs, LoadBreaks(g, r)
          PROVE  NoFeedAbandoned'
      BY <2>15 DEF LoadBreaks, WorkerBreaks, NoFeedAbandoned
    <2>16. ASSUME NEW g \in Callers, NEW r \in Runs, FeedStart(g, r)
          PROVE  NoFeedAbandoned'
      BY <2>16 DEF FeedStart, NoFeedAbandoned
    <2>17. ASSUME NEW g \in Callers, NEW s \in snaps, DumpUnused(g, s)
          PROVE  NoFeedAbandoned'
      <3>1. \A h \in Callers : Driving(h) => Driving(h)' /\ RunOf(h)' = RunOf(h)
        BY <2>17 DEF DumpUnused, Goto, TypeOK, Driving, RunOf
      <3> QED
        BY <2>17, <3>1, ResumableQuiet DEF DumpUnused, host, handed, peer
    <2>18. ASSUME NEW g \in Callers, DumpSnapshot(g)
          PROVE  NoFeedAbandoned'
      <3>1. \A h \in Callers : Driving(h) => Driving(h)' /\ RunOf(h)' = RunOf(h)
        BY <2>18 DEF DumpSnapshot, Return, TypeOK, Driving, RunOf
      <3> QED
        BY <2>18, <3>1, ResumableQuiet DEF DumpSnapshot, Ask, WorkerBreaks, host, handed, peer
    <2>19. ASSUME NEW g \in Callers, DumpRefused(g)
          PROVE  NoFeedAbandoned'
      <3>1. \A h \in Callers : Driving(h) => Driving(h)' /\ RunOf(h)' = RunOf(h)
        BY <2>19 DEF DumpRefused, Return, TypeOK, Driving, RunOf
      <3> QED
        BY <2>19, <3>1, ResumableQuiet DEF DumpRefused, host, handed, peer
    <2>20. ASSUME NEW g \in Callers, AskIdle(g)
          PROVE  NoFeedAbandoned'
      BY <2>20 DEF AskIdle, NoFeedAbandoned, host
    <2>21. ASSUME NEW g \in Callers, Close(g)
          PROVE  NoFeedAbandoned'
      BY <2>21 DEF Close, NoFeedAbandoned
    <2>22. ASSUME NEW g \in Callers, Release(g)
          PROVE  NoFeedAbandoned'
      BY <2>22 DEF Release, Goto, Speaking, NoFeedAbandoned, host
    <2>23. ASSUME NEW c \in running, CallbackReturns(c)
          PROVE  NoFeedAbandoned'
      BY <2>23, ResumableQuiet DEF CallbackReturns, Driving, RunOf, host, handed, peer
    <2>24. CASE UNCHANGED vars
      BY <2>24, ResumableQuiet DEF vars, Driving, RunOf, host, handed, peer
    <2> QED
      BY <2>1, <2>2, <2>3, <2>4, <2>5, <2>6, <2>7, <2>8, <2>9, <2>10, <2>11, <2>12,
         <2>13, <2>14, <2>15, <2>16, <2>17, <2>18, <2>19, <2>20, <2>21, <2>22, <2>23,
         <2>24, NoMishap DEF Finished
  <1> QED
    BY <1>1, <1>2, Typing, SpeakingHolds, CurrentHolds, PTL DEF Spec
-----------------------------------------------------------------------------
\* Type correctness of Session.
THEOREM TypeCorrect == Spec => []TypeOK
  BY Typing, PTL

\* A resume that reaches a live worker answers the suspension the worker is in:
\* no stale snapshot gets past the checks of runState.exchange.
THEOREM AnswersItsSuspensionAlways == Spec => []AnswersItsSuspension
  BY CurrentHolds, PTL DEF Current

\* A feed has one driver, so r.futures needs no lock.
THEOREM OneDriverAlways == Spec => []OneDriver
  BY CurrentHolds, PTL DEF Current

\* The dump of a snapshot is the dump of that snapshot's suspension, although
\* Dump reads the flag "used" before it takes s.mu.
THEOREM DumpIsOfItsSnapshotAlways == Spec => []DumpIsOfItsSnapshot
  BY DumpHolds

\* A callback of a feed that the session has given up is cancelled.
THEOREM CallbacksCancelledAlways == Spec => []CallbacksCancelled
  BY OwnedHolds, PTL DEF Owned

\* Host and worker agree whether a feed is suspended as long as the host takes
\* in every event, whatever else goes wrong.
THEOREM AgreeUntilEventLostAlways == Spec => []AgreeUntilEventLost
  BY AgreeHolds

\* A suspended feed can be resumed until a mishap: neither the races of callers
\* nor a worker that breaks strands it.
THEOREM ResumableUntilMishapAlways == Spec => []ResumableUntilMishap
  BY ResumableHolds
=============================================================================
