--------------------------- MODULE FeedLifeProofs ---------------------------
(***************************************************************************)
(* Session implements FeedLife: the initial states map to initial states,  *)
(* and every step of a goroutine maps to one step in the life of a feed,   *)
(* or to none.  Then what FeedLife says of questions and answers is proved *)
(* of FeedLife alone, and holds of the session because it implements it.   *)
(***************************************************************************)
EXTENDS SessionProofs

InTurn(g) == pc[g] \in {"feeding", "resuming"}

(***************************************************************************)
(* What the mapped Live is: between turns the feed s.pending names, in a   *)
(* turn the feed of the goroutine whose turn it is.                        *)
(***************************************************************************)
LiveIs ==
  /\ ~inTurn => Live = {pending} \ {NoRun}
  /\ \A g \in Callers : InTurn(g) => inTurn /\ Live = {RunOf(g)}
  /\ inTurn => \E g \in Callers : InTurn(g)

LEMMA LiveDetermined == Spec => []LiveIs
  <1>1. TypeOK /\ Shape /\ Speaking /\ Current => LiveIs
    <2> SUFFICES ASSUME TypeOK, Shape, Speaking, Current PROVE LiveIs
      OBVIOUS
    <2>1. inTurn <=> \E g \in Callers : InTurn(g)
      BY DEF Speaking, OneSpeaker, InTurn
    <2>2. ~inTurn => Live = {pending} \ {NoRun}
      BY <2>1 DEF Live, InTurn
    <2>3. ASSUME NEW g \in Callers, InTurn(g)
          PROVE  Live = {RunOf(g)}
      <3>1. \A h \in Callers : InTurn(h) => h = g
        BY <2>3 DEF Speaking, OneSpeaker, InTurn, Talking
      <3>2. {RunOf(h) : h \in {k \in Callers : pc[k] \in {"feeding", "resuming"}}} = {RunOf(g)}
        BY <2>3, <3>1 DEF InTurn
      <3>3. pending \in {NoRun, RunOf(g)}
        BY <2>3 DEF Current, InTurn
      <3> QED
        BY <3>2, <3>3 DEF Live
    <2> QED
      BY <2>1, <2>2, <2>3 DEF LiveIs
  <1> QED
    BY <1>1, Typing, SpeakingHolds, CurrentHolds, PTL

\* Outside turns and loads the life of no feed moves on.
LEMMA LifeStays ==
  ASSUME TypeOK, LiveIs, LiveIs',
         \A h \in Callers : InTurn(h)' <=> InTurn(h),
         \A h \in Callers : InTurn(h) => req'[h] = req[h],
         UNCHANGED <<started, pending, inTurn, step, snaps, closed>>
  PROVE  UNCHANGED Life!lifeVars
  <1>1. Live' = Live
    <2>1. CASE inTurn
      <3>1. PICK h \in Callers : InTurn(h)
        BY <2>1 DEF LiveIs
      <3>2. InTurn(h)' /\ RunOf(h)' = RunOf(h)
        BY <3>1 DEF RunOf
      <3> QED
        BY <3>1, <3>2 DEF LiveIs
    <2>2. CASE ~inTurn
      BY <2>2 DEF LiveIs
    <2> QED
      BY <2>1, <2>2
  <1> QED
    BY <1>1 DEF Life!lifeVars, Offered

\* A goroutine outside a turn does not enter one.
LEMMA LifeMoves ==
  ASSUME TypeOK, LiveIs, LiveIs', NEW g \in Callers, ~InTurn(g),
         NEW p \in States \ {"feeding", "resuming"}, pc' = [pc EXCEPT ![g] = p],
         \A h \in Callers \ {g} : req'[h] = req[h],
         UNCHANGED <<started, pending, inTurn, step, snaps, closed>>
  PROVE  UNCHANGED Life!lifeVars
  <1>1. \A h \in Callers : InTurn(h)' <=> InTurn(h)
    BY DEF TypeOK, InTurn
  <1> QED
    BY <1>1, LifeStays

LEMMA LifeBegins ==
  ASSUME TypeOK, Shape, LiveIs, LiveIs', NEW g \in Callers, NEW r \in Runs, FeedStart(g, r)
  PROVE  Life!Begin(r)
  <1>1. Live = {}
    BY DEF FeedStart, LiveIs
  <1>2. InTurn(g)' /\ RunOf(g)' = r
    BY DEF FeedStart, Goto, InTurn, RunOf, TypeOK, Request, Feed
  <1>3. Live' = {r}
    BY <1>2 DEF LiveIs
  <1> QED
    BY <1>1, <1>3 DEF FeedStart, Life!Begin, Life!MayBegin, handed, Offered

LEMMA LifeAnswers ==
  ASSUME TypeOK, Shape, LiveIs, LiveIs', NEW g \in Callers, Send(g)
  PROVE  Life!Answer(RunOf(g))
  <1>1. /\ pc[g] = "sending" /\ ~inTurn /\ pending = RunOf(g)
        /\ step[RunOf(g)] = req[g].snap.step
    BY DEF Send, Goto, MaySend
  <1>2. req[g].snap \in snaps /\ RunOf(g) \in Runs
    BY <1>1, RunTypes DEF Shape, Driving
  <1>3. Live = {RunOf(g)}
    BY <1>1, <1>2, SessionAssumption DEF LiveIs
  <1>4. InTurn(g)' /\ RunOf(g)' = RunOf(g)
    BY DEF Send, Goto, InTurn, RunOf, TypeOK
  <1>5. Live' = Live
    BY <1>3, <1>4 DEF LiveIs
  <1>6. <<RunOf(g), step[RunOf(g)]>> \in Offered
    BY <1>1, <1>2 DEF Offered, RunOf
  <1> QED
    BY <1>1, <1>3, <1>5, <1>6 DEF Send, Life!Answer, Life!Open, handed, Offered

\* A turn ends: with a snapshot, with the feed suspended without one, or with
\* the end of the feed.
LEMMA LifeTurns ==
  ASSUME TypeOK, Shape, Current, LiveIs, LiveIs', NEW g \in Callers, EndTurn(g),
         pending' \in {NoRun, RunOf(g)},
         \/ snaps' = snaps
         \/ pending' = RunOf(g) /\ \E s \in NextSuspensions(g) : snaps' = snaps \cup {s}
  PROVE  Life!Suspend(RunOf(g)) \/ Life!End(RunOf(g))
  <1> DEFINE r == RunOf(g)
  <1>1. r \in Runs /\ InTurn(g) /\ pc[g] \in {"feeding", "resuming"}
    BY RunTypes DEF EndTurn, InTurn
  <1>2. inTurn /\ Live = {r}
    BY <1>1 DEF LiveIs
  <1>3. ~inTurn' /\ Live' = {pending'} \ {NoRun}
    BY DEF EndTurn, LiveIs
  <1>4. UNCHANGED <<started, step, closed>>
    BY DEF EndTurn
  <1>5. CASE pending' = NoRun /\ snaps' = snaps
    <2>1. Live' = Live \ {r}
      BY <1>2, <1>3, <1>5
    <2> QED
      BY <1>2, <1>3, <1>4, <1>5, <2>1 DEF Life!End, Offered
  <1>6. CASE pending' = r /\ snaps' = snaps
    <2>1. Live' = Live
      BY <1>1, <1>2, <1>3, <1>6, SessionAssumption
    <2> QED
      BY <1>2, <1>3, <1>4, <1>6, <2>1 DEF Life!Suspend, Offered
  <1>7. ASSUME pending' = r, NEW s \in NextSuspensions(g), snaps' = snaps \cup {s}
        PROVE  Life!Suspend(r)
    <2>1. Live' = Live
      BY <1>1, <1>2, <1>3, <1>7, SessionAssumption
    <2>2. s.run = r /\ s.step = step[r]
      BY <1>1, NextSuspension
    <2>3. \A t \in snaps : t.run = r => t.step # step[r]
      <3>1. CASE pc[g] = "feeding"
        BY <3>1 DEF Current
      <3>2. CASE pc[g] = "resuming"
        <4>1. \A t \in snaps : t.run = r => t.step < step[t.run]
          BY <3>2 DEF Current
        <4>2. step[r] \in Nat
          BY <1>1 DEF TypeOK
        <4> QED
          BY <4>1, <4>2
      <3> QED
        BY <1>1, <3>1, <3>2
    <2>4. <<r, step[r]>> \notin Offered
      BY <2>3 DEF Offered
    <2>5. Offered' = Offered \cup {<<r, step[r]>>}
      BY <1>7, <2>2 DEF Offered
    <2> QED
      BY <1>2, <1>3, <1>4, <2>1, <2>4, <2>5 DEF Life!Suspend, Life!Offers, Life!Open
  <1> QED
    BY <1>5, <1>6, <1>7

LEMMA LifeLoads ==
  ASSUME TypeOK, Shape, Claims, LiveIs, LiveIs', NEW g \in Callers, NEW r \in Runs, Load(g, r),
         \/ pending' = pending /\ snaps' = snaps
         \/ /\ pending' = r
            /\ snaps' = snaps \/ \E s \in RestoredSuspensions(r) : snaps' = snaps \cup {s}
  PROVE  Life!Restore(r)
  <1>1. /\ ~inTurn /\ ~inTurn' /\ pending = NoRun /\ ~closed /\ r \notin started
        /\ started' = started \cup {r} /\ UNCHANGED <<inTurn, closed, step>>
    BY DEF Load
  <1>2. Live = {} /\ Live' = {pending'} \ {NoRun}
    BY <1>1 DEF LiveIs
  <1>3. Life!MayBegin(r)
    BY <1>1, <1>2 DEF Life!MayBegin
  <1>4. CASE pending' = pending /\ snaps' = snaps
    <2>1. Live' = Live
      BY <1>1, <1>2, <1>4
    <2> QED
      BY <1>1, <1>3, <1>4, <2>1 DEF Life!Restore, Offered
  <1>5. CASE pending' = r /\ snaps' = snaps
    <2>1. Live' = {r}
      BY <1>2, <1>5, SessionAssumption
    <2> QED
      BY <1>1, <1>3, <1>5, <2>1 DEF Life!Restore, Offered
  <1>6. ASSUME pending' = r, NEW s \in RestoredSuspensions(r), snaps' = snaps \cup {s}
        PROVE  Life!Restore(r)
    <2>1. Live' = {r}
      BY <1>2, <1>6, SessionAssumption
    <2>2. step[r] = 0 /\ s.run = r /\ s.step = 0
      BY <1>1, RestoredSuspension DEF Claims
    <2>3. <<r, step[r]>> \notin Offered
      BY <1>1 DEF Offered, Shape
    <2>4. Offered' = Offered \cup {<<r, step[r]>>}
      BY <1>6, <2>2 DEF Offered
    <2> QED
      BY <1>1, <1>3, <2>1, <2>3, <2>4 DEF Life!Restore, Life!Offers, Life!Open
  <1> QED
    BY <1>4, <1>5, <1>6

LEMMA LifeShuts ==
  ASSUME TypeOK, LiveIs, LiveIs', NEW g \in Callers, Close(g)
  PROVE  Life!Shut
  <1>1. ~inTurn /\ ~inTurn' /\ Live' = {}
    BY DEF Close, LiveIs
  <1> QED
    BY <1>1 DEF Close, Life!Shut, handed, Offered
-----------------------------------------------------------------------------
LEMMA LifeInit == Init => Life!Init
  BY DEF Init, Life!Init, Live, Offered

\* Every step of the session is a step of FeedLife or leaves it alone.
LEMMA LifeStep ==
  ASSUME TypeOK, Shape, Claims, Current, LiveIs, LiveIs', [Next]_vars
  PROVE  [Life!Next]_Life!lifeVars
  <1> USE DEF Life!Next
  <1>1. ASSUME NEW g \in Callers,
               \/ TurnSuspends(g) \/ TurnEnds(g) \/ TurnBreaks(g) \/ AbortFails(g)
               \/ TurnDenied(g) \/ TurnLosesEvent(g) \/ TurnGarbled(g) \/ AbortLosesEvent(g)
        PROVE  Life!Next
    <2>1. EndTurn(g)
      BY <1>1 DEF TurnSuspends, TurnEnds, TurnBreaks, AbortFails, TurnDenied, TurnLosesEvent,
                  TurnGarbled, AbortLosesEvent
    <2>2. RunOf(g) \in Runs
      BY <2>1, RunTypes DEF EndTurn
    <2>3. pending \in {NoRun, RunOf(g)} /\ AfterError(g) = NoRun
      BY <2>1 DEF EndTurn, Current, AfterError
    <2>4. pending' \in {NoRun, RunOf(g)}
      BY <1>1, <2>3 DEF TurnSuspends, TurnEnds, TurnBreaks, AbortFails, TurnDenied,
                        TurnLosesEvent, TurnGarbled, AbortLosesEvent
    <2>5. \/ snaps' = snaps
          \/ pending' = RunOf(g) /\ \E s \in NextSuspensions(g) : snaps' = snaps \cup {s}
      BY <1>1 DEF TurnSuspends, TurnEnds, TurnBreaks, AbortFails, TurnDenied, TurnLosesEvent,
                  TurnGarbled, AbortLosesEvent
    <2> QED
      BY <2>1, <2>2, <2>4, <2>5, LifeTurns
  <1>2. ASSUME NEW g \in Callers,
               \/ Answer(g) \/ Promise(g) \/ StartAsync(g) \/ ResolveByHand(g) \/ Collect(g)
        PROVE  UNCHANGED Life!lifeVars
    <2>1. ~InTurn(g) /\ pc' = [pc EXCEPT ![g] = "sending"]
      BY <1>2 DEF Answer, Promise, StartAsync, ResolveByHand, Collect, Goto, InTurn
    <2>2. \A h \in Callers \ {g} : req'[h] = req[h]
      BY <1>2 DEF Answer, Promise, StartAsync, ResolveByHand, Collect, TypeOK
    <2>3. UNCHANGED <<started, pending, inTurn, step, snaps, closed>>
      BY <1>2 DEF Answer, Promise, StartAsync, ResolveByHand, Collect, host, handed
    <2> QED
      BY <2>1, <2>2, <2>3, LifeMoves DEF States
  <1>3. ASSUME NEW g \in Callers,
               \/ Refuse(g) \/ Unencodable(g) \/ Panics(g) \/ UnknownFuture(g) \/ WaitCancelled(g)
               \/ CollectUnencodable(g) \/ DumpSnapshot(g) \/ DumpRefused(g)
        PROVE  UNCHANGED Life!lifeVars
    <2>1. ~InTurn(g) /\ pc' = [pc EXCEPT ![g] = "out"]
      BY <1>3 DEF Refuse, Unencodable, Panics, UnknownFuture, WaitCancelled, CollectUnencodable,
                  DumpSnapshot, DumpRefused, Return, InTurn
    <2>2. \A h \in Callers \ {g} : req'[h] = req[h]
      BY <1>3 DEF Refuse, Unencodable, Panics, UnknownFuture, WaitCancelled, CollectUnencodable,
                  DumpSnapshot, DumpRefused, Return, TypeOK
    <2>3. UNCHANGED <<started, pending, inTurn, step, snaps, closed>>
      BY <1>3 DEF Refuse, Unencodable, Panics, UnknownFuture, WaitCancelled, CollectUnencodable,
                  DumpSnapshot, DumpRefused, host, handed
    <2> QED
      BY <2>1, <2>2, <2>3, LifeMoves DEF States
  <1>4. ASSUME NEW g \in Callers, NEW s \in snaps, Claim(g, s) \/ DumpUnused(g, s)
        PROVE  UNCHANGED Life!lifeVars
    <2>1. /\ ~InTurn(g)
          /\ \E p \in {"answering", "waiting", "dumping"} : pc' = [pc EXCEPT ![g] = p]
      BY <1>4 DEF Claim, DumpUnused, Goto, InTurn
    <2>2. \A h \in Callers \ {g} : req'[h] = req[h]
      BY <1>4 DEF Claim, DumpUnused, TypeOK
    <2>3. UNCHANGED <<started, pending, inTurn, step, snaps, closed>>
      BY <1>4 DEF Claim, DumpUnused, host, handed
    <2> QED
      BY <2>1, <2>2, <2>3, LifeMoves DEF States
  <1>5. ASSUME NEW g \in Callers, Release(g)
        PROVE  UNCHANGED Life!lifeVars
    BY <1>5, LifeMoves DEF Release, Goto, InTurn, host, handed, States
  <1>6. ASSUME NEW g \in Callers, AskIdle(g)
        PROVE  UNCHANGED Life!lifeVars
    BY <1>6, LifeStays DEF AskIdle, InTurn, host, handed
  <1>7. ASSUME NEW g \in Callers, NEW r \in Runs,
               \/ LoadEnds(g, r) \/ LoadSuspends(g, r) \/ LoadBreaks(g, r)
               \/ LoadMisused(g, r) \/ LoadLosesEvent(g, r)
        PROVE  Life!Next
    <2>1. Load(g, r)
      BY <1>7 DEF LoadEnds, LoadSuspends, LoadBreaks, LoadMisused, LoadLosesEvent
    <2>2. \/ pending' = pending /\ snaps' = snaps
          \/ /\ pending' = r
             /\ snaps' = snaps \/ \E s \in RestoredSuspensions(r) : snaps' = snaps \cup {s}
      BY <1>7 DEF LoadEnds, LoadSuspends, LoadBreaks, LoadMisused, LoadLosesEvent
    <2> QED
      BY <2>1, <2>2, LifeLoads
  <1>8. ASSUME NEW g \in Callers, NEW r \in Runs, FeedStart(g, r)
        PROVE  Life!Next
    BY <1>8, LifeBegins
  <1>9. ASSUME NEW g \in Callers, Send(g)
        PROVE  Life!Next
    <2>1. RunOf(g) \in Runs
      BY <1>9, RunTypes DEF Send, Goto
    <2> QED
      BY <1>9, <2>1, LifeAnswers
  <1>10. ASSUME NEW g \in Callers, Close(g)
        PROVE  Life!Next
    BY <1>10, LifeShuts
  <1>11. ASSUME NEW c \in running, CallbackReturns(c)
        PROVE  UNCHANGED Life!lifeVars
    BY <1>11, LifeStays DEF CallbackReturns, InTurn, host, handed
  <1>12. CASE UNCHANGED vars
    BY <1>12, LifeStays DEF vars, InTurn, host, handed
  <1> QED
    BY <1>1, <1>2, <1>3, <1>4, <1>5, <1>6, <1>7, <1>8, <1>9, <1>10, <1>11, <1>12, NextCases
    DEF Finished

(***************************************************************************)
(* Whatever goroutines do with a session and its snapshots, and whatever   *)
(* fails, the session keeps the promise of FeedLife: one feed at a time,   *)
(* each suspension answered at most once and in order, no feed revived     *)
(* after its end, none after Close (FeedStart, runState.exchange,          *)
(* progress, load and Close of session.go).                                *)
(***************************************************************************)
THEOREM SessionImplementsFeedLife == Spec => FeedSpec
  <1>1. TypeOK /\ Shape /\ Claims /\ Current /\ LiveIs /\ LiveIs' /\ [Next]_vars
          => [Life!Next]_Life!lifeVars
    BY LifeStep
  <1> QED
    BY <1>1, LifeInit, Typing, CurrentHolds, LiveDetermined, PTL DEF Spec, FeedSpec, Life!Spec
-----------------------------------------------------------------------------
(* What FeedLife implies, from its own definitions. *)

Alternating == Life!Alternate /\ step \in [Runs -> Nat]

LEMMA LifeAlternates == Life!Spec => []Alternating
  <1>1. Life!Init => Alternating
    BY DEF Life!Init, Life!Alternate, Alternating
  <1>2. Alternating /\ [Life!Next]_Life!lifeVars => Alternating'
    <2>0. SUFFICES ASSUME Life!Alternate, step \in [Runs -> Nat], [Life!Next]_Life!lifeVars
                   PROVE  Life!Alternate' /\ step' \in [Runs -> Nat]
      BY DEF Alternating
    <2>1. ASSUME NEW f \in Runs, Life!Begin(f)
          PROVE  Life!Alternate' /\ step' \in [Runs -> Nat]
      BY <2>0, <2>1 DEF Life!Begin, Life!MayBegin, Life!Alternate
    <2>2. ASSUME NEW f \in Runs, Life!Suspend(f)
          PROVE  Life!Alternate' /\ step' \in [Runs -> Nat]
      <3>1. Offered' = Offered \/ Offered' = Offered \cup {<<f, step[f]>>}
        BY <2>2 DEF Life!Suspend, Life!Offers, Life!Open
      <3> QED
        BY <2>0, <2>2, <3>1 DEF Life!Suspend, Life!Alternate
    <2>3. ASSUME NEW f \in Runs, Life!Answer(f)
          PROVE  Life!Alternate' /\ step' \in [Runs -> Nat]
      BY <2>0, <2>3 DEF Life!Answer, Life!Open, Life!Alternate
    <2>4. ASSUME NEW f \in Runs, Life!End(f)
          PROVE  Life!Alternate' /\ step' \in [Runs -> Nat]
      BY <2>0, <2>4 DEF Life!End, Life!Alternate
    <2>5. ASSUME NEW f \in Runs, Life!Restore(f)
          PROVE  Life!Alternate' /\ step' \in [Runs -> Nat]
      <3>1. Offered' = Offered \/ Offered' = Offered \cup {<<f, step[f]>>}
        BY <2>5 DEF Life!Restore, Life!Offers, Life!Open
      <3>2. /\ \A g, h \in Live' : g = h
            /\ closed' => Live' = {}
        BY <2>0, <2>5 DEF Life!Restore, Life!MayBegin, Life!Alternate
      <3> QED
        BY <2>0, <2>5, <3>1, <3>2 DEF Life!Restore, Life!Alternate
    <2>6. CASE Life!Shut
      BY <2>0, <2>6 DEF Life!Shut, Life!Alternate
    <2>7. CASE UNCHANGED Life!lifeVars
      BY <2>0, <2>7 DEF Life!lifeVars, Life!Alternate
    <2> QED
      BY <2>0, <2>1, <2>2, <2>3, <2>4, <2>5, <2>6, <2>7 DEF Life!Next
  <1> QED
    BY <1>1, <1>2, PTL DEF Life!Spec

LEMMA LifeOver == Life!Spec => Life!OverForGood
  <1> DEFINE Stays == \A f \in Runs : f \in started \ Live => f \in started' \ Live' /\ step'[f] = step[f]
  <1>1. [Life!Next]_Life!lifeVars => [Stays]_Life!lifeVars
    <2>1. ASSUME NEW f \in Runs, Life!Begin(f) \/ Life!Restore(f)
          PROVE  Stays
      <3>1. f \notin started /\ started \subseteq started' /\ Live' \in {Live, {f}} /\ step' = step
        BY <2>1 DEF Life!Begin, Life!Restore, Life!MayBegin
      <3> QED
        BY <3>1
    <2>2. ASSUME NEW f \in Runs, Life!Suspend(f) \/ Life!End(f)
          PROVE  Stays
      BY <2>2 DEF Life!Suspend, Life!End
    <2>3. ASSUME NEW f \in Runs, Life!Answer(f)
          PROVE  Stays
      <3>1. f \in Live /\ started' = started /\ Live' = Live /\ step' = [step EXCEPT ![f] = @ + 1]
        BY <2>3 DEF Life!Answer
      <3>2. \A e \in Runs : e # f => step'[e] = step[e]
        BY <3>1
      <3> QED
        BY <3>1, <3>2
    <2>4. CASE Life!Shut
      BY <2>4 DEF Life!Shut
    <2> QED
      BY <2>1, <2>2, <2>3, <2>4 DEF Life!Next
  <1> QED
    BY <1>1, PTL DEF Life!Spec, Life!OverForGood

(***************************************************************************)
(* Every answer that reached the worker was the answer to a snapshot that  *)
(* was handed out, no snapshot is handed out before the one before it is   *)
(* answered, and a closed session has no feed (runState.exchange,          *)
(* progress).                                                              *)
(***************************************************************************)
THEOREM QuestionsAndAnswersAlternate == Spec => []Life!Alternate
  BY SessionImplementsFeedLife, LifeAlternates, PTL DEF FeedSpec, Alternating

(***************************************************************************)
(* A feed that has ended, by completing, failing, losing its worker or its *)
(* session, is never current again and its remaining snapshots change      *)
(* nothing.                                                                *)
(***************************************************************************)
THEOREM EndedFeedsStayEnded == Spec => Life!OverForGood
  BY SessionImplementsFeedLife, LifeOver, PTL DEF FeedSpec
=============================================================================
