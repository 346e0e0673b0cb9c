-------------------------- MODULE WorkerPoolProofs --------------------------
(***************************************************************************)
(* Proofs about WorkerPool, for any finite set of clients and any options  *)
(* New accepts.                                                            *)
(***************************************************************************)
EXTENDS WorkerPool, FiniteSetTheorems, TLAPS

(***************************************************************************)
(* The disjuncts of Next, one per atomic step of a goroutine, for the case *)
(* distinctions below.                                                     *)
(***************************************************************************)
LEMMA NextCases ==
  ASSUME Next
  PROVE  \/ Prewarm \/ Fill \/ Prewarmed \/ PrewarmCancelled
         \/ PrewarmStartFails \/ Finished
         \/ \E t \in Clients \cup {Creator} :
              Spawn(t) \/ SpawnFails(t) \/ Register(t) \/ RegisterClosed(t)
         \/ \E t \in Closers \cup {Creator} :
              DrainIdle(t) \/ DropDrained(t) \/ Shutdown(t) \/ DrainDone(t)
         \/ \E t \in Closers : CloseFirst(t) \/ CloseAgain(t)
         \/ \E c \in Clients :
              \/ EnterCheckout(c) \/ AcquireSlot(c) \/ WaitTimesOut(c) \/ WaitSeesClose(c)
              \/ TakeIdle(c) \/ NoIdle(c) \/ GiveSlotBack(c) \/ CheckDone(c)
              \/ CheckFails(c)
              \/ Configure(c) \/ ConfigureFails(c) \/ SessionBreaks(c)
              \/ CloseSession(c) \/ Reset(c) \/ ResetFails(c)
              \/ FreeSlot(c) \/ Decide(c) \/ PushIdle(c) \/ IdleFull(c) \/ KillReleased(c)
         \/ \E w \in Workers : WorkerExits(w)
  BY DEF Next, New, StartWorker, Drain, ClientStep, Checkout, SessionClose,
         ReleaseSteps, Close
\* TypeOK alone is not inductive: that a pushed worker is a worker needs HeldShape.
LEMMA TypeAndShape == Spec => [](TypeOK /\ HeldShape)
  <1> USE OptionsAssumption, ThreadsAssumption
  <1> USE DEF Threads, ProcStates, Slotted, Releasing, ClientStates, Draining,
              CloserStates, CreatorStates, TypeOK, HeldShape, HoldingAt, RegisteredAt
  <1>1. ASSUME Init
        PROVE  TypeOK /\ HeldShape
    <2>1. /\ \A c \in Clients : pc[c] = "out"
          /\ \A t \in Closers : pc[t] = "ready"
          /\ pc[Creator] = "prewarm"
          /\ DOMAIN pc = Threads
      BY <1>1 DEF Init
    <2>2. pc \in [Threads -> ClientStates \cup CloserStates \cup CreatorStates]
      BY <1>1, <2>1 DEF Init
    <2>3. idle \in Seq(Workers) /\ Len(idle) = 0 /\ slots = 0
      BY <1>1 DEF Init
    <2>4. reusable \in [Threads -> BOOLEAN] /\ closed \in BOOLEAN
      BY <1>1 DEF Init
    <2>5. /\ held \in [Threads -> Workers \cup {NoWorker}]
          /\ proc \in [Workers -> ProcStates]
          /\ checkouts \in [Workers -> Nat]
          /\ workers \subseteq Workers /\ dirty \subseteq Workers
      BY <1>1 DEF Init
    <2>6. HeldShape
      BY <1>1, <2>1 DEF Init
    <2> QED
      BY <2>1, <2>2, <2>3, <2>4, <2>5, <2>6
  <1>2. TypeOK /\ HeldShape /\ [Next]_vars => TypeOK' /\ HeldShape'
    <2> SUFFICES ASSUME TypeOK, HeldShape, [Next]_vars
                 PROVE  TypeOK' /\ HeldShape'
      OBVIOUS
    <2>1. CASE Prewarm
      BY <2>1 DEF Prewarm, Goto
    <2>2. CASE Fill
      BY <2>2 DEF Fill, Goto, Drop
    <2>3. CASE Prewarmed
      BY <2>3 DEF Prewarmed, Goto
    <2>4. CASE PrewarmCancelled
      BY <2>4 DEF PrewarmCancelled, Goto
    <2>5. CASE PrewarmStartFails
      BY <2>5 DEF PrewarmStartFails, Goto
    <2>6. CASE Finished
      BY <2>6 DEF Finished, vars
    <2>7. ASSUME NEW t \in Clients \cup {Creator}, Spawn(t)
          PROVE  TypeOK' /\ HeldShape'
      BY <2>7 DEF Spawn, Goto
    <2>8. ASSUME NEW t \in Clients \cup {Creator}, SpawnFails(t)
          PROVE  TypeOK' /\ HeldShape'
      BY <2>8 DEF SpawnFails, Goto
    <2>9. ASSUME NEW t \in Clients \cup {Creator}, Register(t)
          PROVE  TypeOK' /\ HeldShape'
      BY <2>9 DEF Register, Goto
    <2>10. ASSUME NEW t \in Clients \cup {Creator}, RegisterClosed(t)
          PROVE  TypeOK' /\ HeldShape'
      BY <2>10 DEF RegisterClosed, Goto, Kill, Drop
    <2>11. ASSUME NEW t \in Closers \cup {Creator}, DrainIdle(t)
          PROVE  TypeOK' /\ HeldShape'
      BY <2>11 DEF DrainIdle, Goto
    <2>12. ASSUME NEW t \in Closers \cup {Creator}, DropDrained(t)
          PROVE  TypeOK' /\ HeldShape'
      BY <2>12 DEF DropDrained, Goto
    <2>13. ASSUME NEW t \in Closers \cup {Creator}, Shutdown(t)
          PROVE  TypeOK' /\ HeldShape'
      BY <2>13 DEF Shutdown, Goto, Kill, Drop
    <2>14. ASSUME NEW t \in Closers \cup {Creator}, DrainDone(t)
          PROVE  TypeOK' /\ HeldShape'
      BY <2>14 DEF DrainDone, Goto
    <2>15. ASSUME NEW t \in Closers, CloseFirst(t)
          PROVE  TypeOK' /\ HeldShape'
      BY <2>15 DEF CloseFirst, Goto
    <2>16. ASSUME NEW t \in Closers, CloseAgain(t)
          PROVE  TypeOK' /\ HeldShape'
      BY <2>16 DEF CloseAgain, Goto
    <2>17. ASSUME NEW c \in Clients, EnterCheckout(c)
          PROVE  TypeOK' /\ HeldShape'
      BY <2>17 DEF EnterCheckout, Goto
    <2>18. ASSUME NEW c \in Clients, AcquireSlot(c)
          PROVE  TypeOK' /\ HeldShape'
      BY <2>18 DEF AcquireSlot, Goto
    <2>19. ASSUME NEW c \in Clients, WaitTimesOut(c)
          PROVE  TypeOK' /\ HeldShape'
      BY <2>19 DEF WaitTimesOut, Goto
    <2>20. ASSUME NEW c \in Clients, WaitSeesClose(c)
          PROVE  TypeOK' /\ HeldShape'
      BY <2>20 DEF WaitSeesClose, Goto
    <2>21. ASSUME NEW c \in Clients, TakeIdle(c)
          PROVE  TypeOK' /\ HeldShape'
      BY <2>21 DEF TakeIdle, Goto
    <2>22. ASSUME NEW c \in Clients, NoIdle(c)
          PROVE  TypeOK' /\ HeldShape'
      BY <2>22 DEF NoIdle, Goto
    <2>23. ASSUME NEW c \in Clients, GiveSlotBack(c)
          PROVE  TypeOK' /\ HeldShape'
      <3>1. slots' \in 0..MaxProcesses
        BY <2>23 DEF GiveSlotBack
      <3> QED
        BY <2>23, <3>1 DEF GiveSlotBack, Goto
    <2>24. ASSUME NEW c \in Clients, CheckDone(c)
          PROVE  TypeOK' /\ HeldShape'
      BY <2>24 DEF CheckDone, Goto
    <2>25. ASSUME NEW c \in Clients, CheckFails(c)
          PROVE  TypeOK' /\ HeldShape'
      BY <2>25 DEF CheckFails, Goto, Release
    <2>26. ASSUME NEW c \in Clients, Configure(c)
          PROVE  TypeOK' /\ HeldShape'
      BY <2>26 DEF Configure, Goto, Answers, Counted
    <2>27. ASSUME NEW c \in Clients, ConfigureFails(c)
          PROVE  TypeOK' /\ HeldShape'
      BY <2>27 DEF ConfigureFails, Goto, Release, Answers, Breaks
    <2>28. ASSUME NEW c \in Clients, SessionBreaks(c)
          PROVE  TypeOK' /\ HeldShape'
      BY <2>28 DEF SessionBreaks, Breaks
    <2>29. ASSUME NEW c \in Clients, CloseSession(c)
          PROVE  TypeOK' /\ HeldShape'
      BY <2>29 DEF CloseSession, Goto
    <2>30. ASSUME NEW c \in Clients, Reset(c)
          PROVE  TypeOK' /\ HeldShape'
      BY <2>30 DEF Reset, Goto, Release, Answers
    <2>31. ASSUME NEW c \in Clients, ResetFails(c)
          PROVE  TypeOK' /\ HeldShape'
      BY <2>31 DEF ResetFails, Goto, Release, Answers, Breaks
    <2>32. ASSUME NEW c \in Clients, FreeSlot(c)
          PROVE  TypeOK' /\ HeldShape'
      BY <2>32 DEF FreeSlot, Goto
    <2>33. ASSUME NEW c \in Clients, Decide(c)
          PROVE  TypeOK' /\ HeldShape'
      BY <2>33 DEF Decide, Goto
    <2>34. ASSUME NEW c \in Clients, PushIdle(c)
          PROVE  TypeOK' /\ HeldShape'
      BY <2>34 DEF PushIdle, Goto, Drop
    <2>35. ASSUME NEW c \in Clients, IdleFull(c)
          PROVE  TypeOK' /\ HeldShape'
      BY <2>35 DEF IdleFull, Goto
    <2>36. ASSUME NEW c \in Clients, KillReleased(c)
          PROVE  TypeOK' /\ HeldShape'
      BY <2>36 DEF KillReleased, Goto, Kill, Drop
    <2>37. ASSUME NEW w \in Workers, WorkerExits(w)
          PROVE  TypeOK' /\ HeldShape'
      BY <2>37 DEF WorkerExits
    <2>38. CASE UNCHANGED vars
      BY <2>38 DEF vars
    <2> QED
      BY <2>1, <2>2, <2>3, <2>4, <2>5, <2>6, <2>7, <2>8, <2>9, <2>10, <2>11, <2>12,
         <2>13, <2>14, <2>15, <2>16, <2>17, <2>18, <2>19, <2>20, <2>21, <2>22, <2>23, <2>24,
         <2>25, <2>26, <2>27, <2>28, <2>29, <2>30, <2>31, <2>32, <2>33, <2>34, <2>35, <2>36,
         <2>37, <2>38, NextCases
  <1>3. QED
    BY <1>1, <1>2, PTL DEF Spec

(***************************************************************************)
(* Type correctness of the pool: in particular p.slots and p.idle never    *)
(* exceed their capacity, whatever goroutines interleave.                  *)
(***************************************************************************)
THEOREM TypeCorrect == Spec => []TypeOK
  BY TypeAndShape, PTL
-----------------------------------------------------------------------------
(* p.idle as a queue. *)

LEMMA PushIn ==
  ASSUME NEW S, NEW s \in Seq(S), NEW v \in S
  PROVE  \A w : In(Append(s, v), w) <=> In(s, w) \/ w = v
  <1> DEFINE a == Append(s, v)
  <1>1. Len(a) = Len(s) + 1 /\ a[Len(s) + 1] = v /\ Len(s) \in Nat
    OBVIOUS
  <1>2. \A i \in 1..Len(s) : a[i] = s[i]
    OBVIOUS
  <1> HIDE DEF a
  <1> QED
    BY <1>1, <1>2 DEF In, a

LEMMA PushDistinct ==
  ASSUME NEW S, NEW s \in Seq(S), NEW v \in S, Distinct(s), ~In(s, v)
  PROVE  Distinct(Append(s, v))
  <1> DEFINE a == Append(s, v)
  <1>1. Len(a) = Len(s) + 1 /\ a[Len(s) + 1] = v /\ Len(s) \in Nat
    OBVIOUS
  <1>2. \A i \in 1..Len(s) : a[i] = s[i]
    OBVIOUS
  <1> HIDE DEF a
  <1>3. Distinct(a)
    BY <1>1, <1>2 DEF In, Distinct
  <1> QED
    BY <1>3 DEF a

LEMMA PopIn ==
  ASSUME NEW S, NEW s \in Seq(S), s # <<>>, Distinct(s)
  PROVE  /\ In(s, Head(s)) /\ Head(s) \in S
         /\ \A w : In(Tail(s), w) <=> In(s, w) /\ w # Head(s)
         /\ Distinct(Tail(s))
  <1> DEFINE r == Tail(s)
  <1>1. Len(s) \in Nat /\ Len(s) > 0 /\ Head(s) = s[1] /\ Len(r) = Len(s) - 1
    OBVIOUS
  <1>2. \A i \in 1..Len(r) : r[i] = s[i + 1]
    OBVIOUS
  <1>3. In(s, Head(s)) /\ Head(s) \in S
    BY <1>1 DEF In
  <1> HIDE DEF r
  <1>4. ASSUME NEW w
        PROVE  In(r, w) <=> In(s, w) /\ w # Head(s)
    <2>1. ASSUME In(r, w) PROVE In(s, w) /\ w # Head(s)
      BY <1>1, <1>2, <2>1 DEF In, Distinct
    <2>2. ASSUME In(s, w), w # Head(s) PROVE In(r, w)
      <3>1. PICK i \in 1..Len(s) : s[i] = w
        BY <2>2 DEF In
      <3>2. i - 1 \in 1..Len(r) /\ r[i - 1] = w
        BY <1>1, <1>2, <2>2, <3>1
      <3> QED
        BY <3>2 DEF In
    <2> QED
      BY <2>1, <2>2
  <1>5. Distinct(r)
    BY <1>1, <1>2 DEF Distinct
  <1> QED
    BY <1>3, <1>4, <1>5 DEF r
-----------------------------------------------------------------------------
(* Ownership. *)

\* NoWorker is never in p.idle, and everything in p.idle is a worker.
LEMMA IdleHoldsWorkers ==
  ASSUME TypeOK, NEW w, InIdle(w)
  PROVE  w \in Workers
  <1>1. idle \in Seq(Workers)
    BY DEF TypeOK
  <1> QED
    BY <1>1 DEF InIdle, In

\* The three ways in which a goroutine's hold on a worker can change.
LEMMA GrabFromIdle ==
  ASSUME TypeOK, HeldShape, ExclusiveOwnership, OwnedIsLive,
         NEW t \in Threads, held[t] = NoWorker, idle # <<>>,
         held' = [held EXCEPT ![t] = Head(idle)], idle' = Tail(idle), proc' = proc
  PROVE  ExclusiveOwnership' /\ OwnedIsLive'
  <1>1. idle \in Seq(Workers) /\ Distinct(idle) /\ held \in [Threads -> Workers \cup {NoWorker}]
    BY DEF TypeOK, ExclusiveOwnership
  <1>2. /\ InIdle(Head(idle)) /\ Head(idle) \in Workers
        /\ \A w : InIdle(w)' <=> InIdle(w) /\ w # Head(idle)
        /\ Distinct(idle')
    BY <1>1, PopIn DEF InIdle
  <1>3. \A u \in Threads : held'[u] = IF u = t THEN Head(idle) ELSE held[u]
    BY <1>1
  <1>4. ExclusiveOwnership'
    BY <1>2, <1>3 DEF ExclusiveOwnership
  <1>5. OwnedIsLive'
    BY <1>2, <1>3 DEF OwnedIsLive
  <1> QED
    BY <1>4, <1>5

LEMMA PushToIdle ==
  ASSUME TypeOK, HeldShape, ExclusiveOwnership, OwnedIsLive,
         NEW t \in Threads, held[t] \in Workers,
         held' = [held EXCEPT ![t] = NoWorker], idle' = Append(idle, held[t]), proc' = proc
  PROVE  ExclusiveOwnership' /\ OwnedIsLive'
  <1>1. idle \in Seq(Workers) /\ Distinct(idle) /\ held \in [Threads -> Workers \cup {NoWorker}]
        /\ NoWorker \notin Workers
    BY ThreadsAssumption DEF TypeOK, ExclusiveOwnership
  <1>2. ~In(idle, held[t])
    BY DEF ExclusiveOwnership, InIdle
  <1>3. /\ \A w : InIdle(w)' <=> InIdle(w) \/ w = held[t]
        /\ Distinct(idle')
    BY <1>1, <1>2, PushIn, PushDistinct DEF InIdle
  <1>4. \A u \in Threads : held'[u] = IF u = t THEN NoWorker ELSE held[u]
    BY <1>1
  <1>5. ~InIdle(NoWorker)
    BY <1>1, IdleHoldsWorkers
  <1>6. ExclusiveOwnership'
    BY <1>1, <1>3, <1>4, <1>5 DEF ExclusiveOwnership
  <1>7. OwnedIsLive'
    BY <1>1, <1>3, <1>4 DEF OwnedIsLive
  <1> QED
    BY <1>6, <1>7

LEMMA Reap ==
  ASSUME TypeOK, HeldShape, ExclusiveOwnership, OwnedIsLive,
         NEW t \in Threads, held[t] \in Workers,
         held' = [held EXCEPT ![t] = NoWorker], idle' = idle,
         proc' = [proc EXCEPT ![held[t]] = "none"]
  PROVE  ExclusiveOwnership' /\ OwnedIsLive'
  <1>1. held \in [Threads -> Workers \cup {NoWorker}] /\ NoWorker \notin Workers
        /\ proc \in [Workers -> ProcStates]
    BY ThreadsAssumption DEF TypeOK
  <1>2. \A u \in Threads : held'[u] = IF u = t THEN NoWorker ELSE held[u]
    BY <1>1
  <1>3. \A w : InIdle(w)' <=> InIdle(w)
    BY DEF InIdle
  <1>4. ~InIdle(NoWorker)
    BY <1>1, IdleHoldsWorkers
  <1>5. ExclusiveOwnership'
    BY <1>1, <1>2, <1>3, <1>4 DEF ExclusiveOwnership
  <1>6. OwnedIsLive'
    BY <1>1, <1>2, <1>3 DEF OwnedIsLive, ExclusiveOwnership
  <1> QED
    BY <1>5, <1>6

\* A worker's process is replaced by nothing else than a live or a dead one.
LEMMA ProcOnly ==
  ASSUME TypeOK, ExclusiveOwnership, OwnedIsLive,
         NEW w \in Workers, NEW q \in {"alive", "exited", "dead"},
         held' = held, idle' = idle, proc' = [proc EXCEPT ![w] = q]
  PROVE  ExclusiveOwnership' /\ OwnedIsLive'
  <1>1. \A v \in Workers : proc'[v] = IF v = w THEN q ELSE proc[v]
    BY DEF TypeOK
  <1>2. \A v : InIdle(v)' <=> InIdle(v)
    BY DEF InIdle
  <1>3. held \in [Threads -> Workers \cup {NoWorker}]
    BY DEF TypeOK
  <1> QED
    BY <1>1, <1>2, <1>3 DEF ExclusiveOwnership, OwnedIsLive

LEMMA OwnershipStep ==
  ASSUME TypeOK, HeldShape, ExclusiveOwnership, OwnedIsLive, [Next]_vars
  PROVE  ExclusiveOwnership' /\ OwnedIsLive'
  <1> USE DEF Threads, HeldShape, HoldingAt, RegisteredAt
  <1>0. held \in [Threads -> Workers \cup {NoWorker}] /\ proc \in [Workers -> ProcStates]
    BY DEF TypeOK
  <1>1. CASE UNCHANGED <<held, idle, proc>>
    BY <1>1 DEF ExclusiveOwnership, OwnedIsLive, InIdle
  <1>2. ASSUME NEW t \in Clients \cup {Creator}, Spawn(t)
        PROVE  ExclusiveOwnership' /\ OwnedIsLive'
    <2>1. PICK w \in Workers : /\ proc[w] = "none"
                               /\ proc' = [proc EXCEPT ![w] = "alive"]
                               /\ held' = [held EXCEPT ![t] = w]
      BY <1>2 DEF Spawn
    <2>2. idle' = idle
      BY <1>2 DEF Spawn
    <2>3. /\ \A u \in Threads : held'[u] = IF u = t THEN w ELSE held[u]
          /\ \A v \in Workers : proc'[v] = IF v = w THEN "alive" ELSE proc[v]
          /\ \A v : InIdle(v)' <=> InIdle(v)
      BY <1>0, <2>1, <2>2 DEF InIdle
    <2>4. ~InIdle(w) /\ \A u \in Threads : held[u] # w
      BY <1>0, <2>1, ThreadsAssumption DEF OwnedIsLive
    <2> QED
      BY <1>0, <2>2, <2>3, <2>4 DEF ExclusiveOwnership, OwnedIsLive
  <1>3. ASSUME NEW t \in Clients \cup {Creator}, RegisterClosed(t)
        PROVE  ExclusiveOwnership' /\ OwnedIsLive'
    BY <1>0, <1>3, Reap DEF RegisterClosed, Goto, Kill, Drop
  <1>4. CASE Fill
    BY <1>0, <1>4, PushToIdle DEF Fill, Goto, Drop
  <1>5. ASSUME NEW c \in Clients, TakeIdle(c)
        PROVE  ExclusiveOwnership' /\ OwnedIsLive'
    BY <1>5, GrabFromIdle DEF TakeIdle, Goto
  <1>6. ASSUME NEW t \in Closers \cup {Creator}, DrainIdle(t)
        PROVE  ExclusiveOwnership' /\ OwnedIsLive'
    BY <1>6, GrabFromIdle DEF DrainIdle, Goto
  <1>7. ASSUME NEW t \in Closers \cup {Creator}, Shutdown(t)
        PROVE  ExclusiveOwnership' /\ OwnedIsLive'
    BY <1>0, <1>7, Reap DEF Shutdown, Goto, Kill, Drop
  <1>8. ASSUME NEW c \in Clients, PushIdle(c)
        PROVE  ExclusiveOwnership' /\ OwnedIsLive'
    BY <1>0, <1>8, PushToIdle DEF PushIdle, Goto, Drop
  <1>9. ASSUME NEW c \in Clients, KillReleased(c)
        PROVE  ExclusiveOwnership' /\ OwnedIsLive'
    BY <1>0, <1>9, Reap DEF KillReleased, Goto, Kill, Drop
  <1>10. ASSUME NEW c \in Clients, ConfigureFails(c) \/ SessionBreaks(c) \/ ResetFails(c)
         PROVE  ExclusiveOwnership' /\ OwnedIsLive'
    <2>1. held[c] \in Workers /\ held' = held /\ idle' = idle
      BY <1>0, <1>10 DEF ConfigureFails, SessionBreaks, ResetFails, Release, Goto
    <2>2. proc' = proc \/ proc' = [proc EXCEPT ![held[c]] = "dead"]
      BY <1>10 DEF ConfigureFails, SessionBreaks, ResetFails, Answers, Breaks
    <2> QED
      BY <1>1, <2>1, <2>2, ProcOnly
  <1>11. ASSUME NEW w \in Workers, WorkerExits(w)
         PROVE  ExclusiveOwnership' /\ OwnedIsLive'
    BY <1>11, ProcOnly DEF WorkerExits
  <1>12. \/ UNCHANGED <<held, idle, proc>>
         \/ Fill
         \/ \E t \in Clients \cup {Creator} : Spawn(t) \/ RegisterClosed(t)
         \/ \E t \in Closers \cup {Creator} : DrainIdle(t) \/ Shutdown(t)
         \/ \E c \in Clients : \/ TakeIdle(c) \/ PushIdle(c) \/ KillReleased(c)
                               \/ ConfigureFails(c) \/ SessionBreaks(c) \/ ResetFails(c)
         \/ \E w \in Workers : WorkerExits(w)
    BY NextCases
       DEF vars, Prewarm, Prewarmed, PrewarmCancelled, PrewarmStartFails, Finished,
           SpawnFails, Register, DropDrained, DrainDone, CloseFirst, CloseAgain,
           EnterCheckout, AcquireSlot, WaitTimesOut, WaitSeesClose, NoIdle,
           GiveSlotBack, CheckDone, CheckFails, Configure, Reset, Answers,
           CloseSession, FreeSlot, Decide, IdleFull
  <1> QED
    BY <1>1, <1>2, <1>3, <1>4, <1>5, <1>6, <1>7, <1>8, <1>9, <1>10, <1>11, <1>12

LEMMA OwnershipInit ==
  ASSUME Init
  PROVE  ExclusiveOwnership /\ OwnedIsLive
  <1>1. idle = <<>> /\ \A t \in Threads : held[t] = NoWorker
    BY DEF Init
  <1>2. \A w : ~InIdle(w)
    BY <1>1 DEF InIdle, In
  <1>3. Distinct(idle)
    BY <1>1 DEF Distinct
  <1> QED
    BY <1>1, <1>2, <1>3 DEF ExclusiveOwnership, OwnedIsLive

LEMMA Ownership == Spec => [](ExclusiveOwnership /\ OwnedIsLive)
  BY OwnershipInit, OwnershipStep, TypeAndShape, PTL DEF Spec

(***************************************************************************)
(* No two goroutines ever hold the same worker, and none holds one that    *)
(* waits in p.idle: for any number of clients, closers and workers.        *)
(***************************************************************************)
THEOREM Exclusive == Spec => []ExclusiveOwnership
  BY Ownership, PTL
-----------------------------------------------------------------------------
(* Slots. *)

InSlot == {c \in Clients : pc[c] \in Slotted}

LEMMA SlotFrame ==
  ASSUME SlotAccounting, slots' = slots,
         \A c \in Clients : pc'[c] \in Slotted <=> pc[c] \in Slotted
  PROVE  SlotAccounting'
  <1>1. InSlot' = InSlot
    BY DEF InSlot
  <1> QED
    BY <1>1 DEF SlotAccounting, InSlot

\* The steps of one goroutine t, which stays on its side of the two channel
\* operations on p.slots.
LEMMA SlotMove ==
  ASSUME TypeOK, SlotAccounting, slots' = slots, NEW t \in Threads, NEW q,
         pc' = [pc EXCEPT ![t] = q],
         t \in Clients => (q \in Slotted <=> pc[t] \in Slotted)
  PROVE  SlotAccounting'
  <1>1. \A c \in Clients : pc'[c] \in Slotted <=> pc[c] \in Slotted
    BY DEF TypeOK, Threads
  <1> QED
    BY <1>1, SlotFrame

LEMMA SlotTaken ==
  ASSUME TypeOK, SlotAccounting, NEW c \in Clients, pc[c] \notin Slotted, NEW q \in Slotted,
         pc' = [pc EXCEPT ![c] = q], slots' = slots + 1
  PROVE  SlotAccounting'
  <1>1. InSlot' = InSlot \cup {c} /\ c \notin InSlot
    BY DEF InSlot, TypeOK, Threads
  <1>2. IsFiniteSet(InSlot)
    BY ThreadsAssumption, FS_Subset DEF InSlot
  <1>3. Cardinality(InSlot') = Cardinality(InSlot) + 1
    BY <1>1, <1>2, FS_AddElement
  <1> QED
    BY <1>3 DEF SlotAccounting, InSlot

LEMMA SlotFreed ==
  ASSUME TypeOK, SlotAccounting, NEW c \in Clients, pc[c] \in Slotted, NEW q, q \notin Slotted,
         pc' = [pc EXCEPT ![c] = q], slots' = slots - 1
  PROVE  SlotAccounting'
  <1>1. InSlot' = InSlot \ {c} /\ c \in InSlot
    BY DEF InSlot, TypeOK, Threads
  <1>2. IsFiniteSet(InSlot)
    BY ThreadsAssumption, FS_Subset DEF InSlot
  <1>3. Cardinality(InSlot') = Cardinality(InSlot) - 1
    BY <1>1, <1>2, FS_RemoveElement
  <1> QED
    BY <1>3 DEF SlotAccounting, InSlot

LEMMA SlotStep ==
  ASSUME TypeOK, SlotAccounting, [Next]_vars
  PROVE  SlotAccounting'
  <1> USE DEF Threads, Slotted
  <1>1. CASE UNCHANGED <<pc, slots>>
    BY <1>1, SlotFrame
  <1>2. CASE Prewarm \/ Fill \/ Prewarmed \/ PrewarmCancelled \/ PrewarmStartFails
    BY <1>2, SlotMove, ThreadsAssumption
       DEF Prewarm, Fill, Prewarmed, PrewarmCancelled, PrewarmStartFails, Goto
  <1>3. ASSUME NEW t \in Clients \cup {Creator},
               Spawn(t) \/ SpawnFails(t) \/ Register(t) \/ RegisterClosed(t)
        PROVE  SlotAccounting'
    BY <1>3, SlotMove, ThreadsAssumption
       DEF Spawn, SpawnFails, Register, RegisterClosed, Goto
  <1>4. ASSUME NEW t \in Closers \cup {Creator},
               DrainIdle(t) \/ DropDrained(t) \/ Shutdown(t) \/ DrainDone(t)
        PROVE  SlotAccounting'
    BY <1>4, SlotMove, ThreadsAssumption DEF DrainIdle, DropDrained, Shutdown, DrainDone, Goto
  <1>5. ASSUME NEW t \in Closers, CloseFirst(t) \/ CloseAgain(t)
        PROVE  SlotAccounting'
    BY <1>5, SlotMove, ThreadsAssumption DEF CloseFirst, CloseAgain, Goto
  <1>6. ASSUME NEW c \in Clients, AcquireSlot(c)
        PROVE  SlotAccounting'
    BY <1>6, SlotTaken DEF AcquireSlot, Goto
  <1>7. ASSUME NEW c \in Clients, GiveSlotBack(c) \/ FreeSlot(c)
        PROVE  SlotAccounting'
    BY <1>7, SlotFreed DEF GiveSlotBack, FreeSlot, Goto
  <1>8. ASSUME NEW c \in Clients,
               EnterCheckout(c) \/ WaitTimesOut(c) \/ WaitSeesClose(c) \/ TakeIdle(c) \/ NoIdle(c)
        PROVE  SlotAccounting'
    BY <1>8, SlotMove DEF EnterCheckout, WaitTimesOut, WaitSeesClose, TakeIdle, NoIdle, Goto
  <1>9. ASSUME NEW c \in Clients,
               \/ CheckDone(c) \/ CheckFails(c) \/ Configure(c) \/ ConfigureFails(c)
               \/ CloseSession(c) \/ Reset(c) \/ ResetFails(c)
        PROVE  SlotAccounting'
    BY <1>9, SlotMove
       DEF CheckDone, CheckFails, Configure, ConfigureFails, CloseSession, Reset, ResetFails,
           Release, Goto
  <1>10. ASSUME NEW c \in Clients, Decide(c) \/ PushIdle(c) \/ IdleFull(c) \/ KillReleased(c)
         PROVE  SlotAccounting'
    BY <1>10, SlotMove DEF Decide, PushIdle, IdleFull, KillReleased, Goto
  <1>11. ASSUME NEW c \in Clients, SessionBreaks(c)
         PROVE  SlotAccounting'
    BY <1>1, <1>11 DEF SessionBreaks
  <1>12. ASSUME NEW w \in Workers, WorkerExits(w)
         PROVE  SlotAccounting'
    BY <1>1, <1>12 DEF WorkerExits
  <1> QED
    BY <1>1, <1>2, <1>3, <1>4, <1>5, <1>6, <1>7, <1>8, <1>9, <1>10, <1>11, <1>12,
       NextCases DEF vars, Finished

(***************************************************************************)
(* The tokens in p.slots are exactly the checkouts under way: no return    *)
(* path of Checkout or Session.Close loses one or gives one back twice.    *)
(***************************************************************************)
THEOREM SlotsAccounted == Spec => []SlotAccounting
  <1>1. Init => SlotAccounting
    <2> SUFFICES ASSUME Init PROVE SlotAccounting
      OBVIOUS
    <2>1. \A c \in Clients : pc[c] = "out"
      BY DEF Init, Threads
    <2>2. InSlot = {}
      BY <2>1 DEF InSlot, Slotted
    <2> QED
      BY <2>2, FS_EmptySet DEF SlotAccounting, InSlot, Init
  <1>2. QED
    BY <1>1, SlotStep, TypeCorrect, PTL DEF Spec
-----------------------------------------------------------------------------
(* No process is forgotten. *)

LEMMA NoOrphanStep ==
  ASSUME TypeOK, HeldShape, ExclusiveOwnership, OwnedIsLive, NoOrphan, [Next]_vars
  PROVE  NoOrphan'
  <1> USE DEF Threads, HeldShape, HoldingAt, RegisteredAt
  <1>0. held \in [Threads -> Workers \cup {NoWorker}] /\ proc \in [Workers -> ProcStates]
        /\ idle \in Seq(Workers) /\ NoWorker \notin Workers
    BY ThreadsAssumption DEF TypeOK
  \* A goroutine without a worker takes one; everybody else's hold is unchanged.
  <1>1. ASSUME NEW t \in Threads, held[t] = NoWorker, NEW w \in Workers,
               held' = [held EXCEPT ![t] = w],
               \A v \in Workers \ {w} : /\ proc'[v] = proc[v]
                                        /\ InIdle(v) => InIdle(v)'
        PROVE  NoOrphan'
    <2>1. \A u \in Threads : held'[u] = IF u = t THEN w ELSE held[u]
      BY <1>0, <1>1
    <2> QED
      BY <1>0, <1>1, <2>1 DEF NoOrphan
  \* A goroutine lets go of its worker, which is then in p.idle or reaped.
  <1>2. ASSUME NEW t \in Threads, NEW w \in Workers, held[t] = w,
               held' = [held EXCEPT ![t] = NoWorker],
               InIdle(w)' \/ proc'[w] = "none",
               \A v \in Workers \ {w} : /\ proc'[v] = proc[v]
                                        /\ InIdle(v) => InIdle(v)'
        PROVE  NoOrphan'
    <2>1. \A u \in Threads : held'[u] = IF u = t THEN NoWorker ELSE held[u]
      BY <1>0, <1>2
    <2> QED
      BY <1>0, <1>2, <2>1 DEF NoOrphan
  <1>3. ASSUME idle # <<>>, idle' = Tail(idle)
        PROVE  /\ Head(idle) \in Workers
               /\ \A v \in Workers \ {Head(idle)} : InIdle(v) => InIdle(v)'
    BY <1>0, <1>3, PopIn DEF InIdle, ExclusiveOwnership
  <1>4. ASSUME NEW v \in Workers, idle' = Append(idle, v)
        PROVE  InIdle(v)' /\ \A w \in Workers : InIdle(w) => InIdle(w)'
    BY <1>0, <1>4, PushIn DEF InIdle
  <1>5. ASSUME NEW t \in Clients \cup {Creator}, Spawn(t)
        PROVE  NoOrphan'
    <2>1. PICK w \in Workers : /\ proc' = [proc EXCEPT ![w] = "alive"]
                               /\ held' = [held EXCEPT ![t] = w]
      BY <1>5 DEF Spawn
    <2>2. \A v \in Workers \ {w} : proc'[v] = proc[v] /\ (InIdle(v) => InIdle(v)')
      BY <1>0, <1>5, <2>1 DEF Spawn, InIdle
    <2>3. held[t] = NoWorker
      BY <1>5 DEF Spawn, Goto
    <2> QED
      BY <1>1, <2>1, <2>2, <2>3
  <1>6. ASSUME NEW c \in Clients, TakeIdle(c)
        PROVE  NoOrphan'
    BY <1>1, <1>3, <1>6 DEF TakeIdle, Goto
  <1>7. ASSUME NEW t \in Closers \cup {Creator}, DrainIdle(t)
        PROVE  NoOrphan'
    BY <1>1, <1>3, <1>7 DEF DrainIdle, Goto
  <1>8. CASE Fill
    BY <1>0, <1>2, <1>4, <1>8 DEF Fill, Goto, Drop
  <1>9. ASSUME NEW c \in Clients, PushIdle(c)
        PROVE  NoOrphan'
    BY <1>0, <1>2, <1>4, <1>9 DEF PushIdle, Goto, Drop
  <1>10. ASSUME NEW t \in Clients \cup {Creator}, RegisterClosed(t)
         PROVE  NoOrphan'
    BY <1>0, <1>2, <1>10 DEF RegisterClosed, Goto, Kill, Drop, InIdle
  <1>11. ASSUME NEW t \in Closers \cup {Creator}, Shutdown(t)
         PROVE  NoOrphan'
    BY <1>0, <1>2, <1>11 DEF Shutdown, Goto, Kill, Drop, InIdle
  <1>12. ASSUME NEW c \in Clients, KillReleased(c)
         PROVE  NoOrphan'
    BY <1>0, <1>2, <1>12 DEF KillReleased, Goto, Kill, Drop, InIdle
  <1>13. ASSUME NEW c \in Clients, ConfigureFails(c) \/ SessionBreaks(c) \/ ResetFails(c)
         PROVE  NoOrphan'
    <2>1. held[c] \in Workers /\ held' = held /\ idle' = idle
      BY <1>0, <1>13 DEF ConfigureFails, SessionBreaks, ResetFails, Release, Goto
    <2>2. proc' = proc \/ proc' = [proc EXCEPT ![held[c]] = "dead"]
      BY <1>13 DEF ConfigureFails, SessionBreaks, ResetFails, Answers, Breaks
    <2> QED
      BY <1>0, <2>1, <2>2 DEF NoOrphan, InIdle
  <1>14. ASSUME NEW w \in Workers, WorkerExits(w)
         PROVE  NoOrphan'
    BY <1>0, <1>14 DEF WorkerExits, NoOrphan, InIdle
  <1>15. CASE UNCHANGED <<held, idle, proc>>
    BY <1>15 DEF NoOrphan, InIdle
  <1> QED
    BY <1>5, <1>6, <1>7, <1>8, <1>9, <1>10, <1>11, <1>12, <1>13, <1>14, <1>15, NextCases
       DEF vars, Prewarm, Prewarmed, PrewarmCancelled, PrewarmStartFails, Finished,
           SpawnFails, Register, DropDrained, DrainDone, CloseFirst, CloseAgain,
           EnterCheckout, AcquireSlot, WaitTimesOut, WaitSeesClose, NoIdle,
           GiveSlotBack, CheckDone, CheckFails, Configure, Reset, Answers,
           CloseSession, FreeSlot, Decide, IdleFull

(***************************************************************************)
(* Every process that has not been reaped is held by a goroutine or waits  *)
(* in p.idle, on every path through New, Checkout, release and Close.      *)
(***************************************************************************)
THEOREM NothingOrphaned == Spec => []NoOrphan
  <1>1. Init => NoOrphan
    BY DEF Init, NoOrphan
  <1>2. QED
    BY <1>1, NoOrphanStep, TypeAndShape, Ownership, PTL DEF Spec
-----------------------------------------------------------------------------
(* The registry p.workers. *)

\* Some goroutine other than t has w registered.
Others(t, w) == \E u \in Threads \ {t} : held[u] = w /\ pc[u] \in RegisteredAt

\* RegistryExact, member by member and with one goroutine singled out.
LEMMA RegistryPointwise ==
  ASSUME TypeOK, RegistryExact, NEW t \in Threads, NEW w \in Workers
  PROVE  w \in workers <=> InIdle(w) \/ (held[t] = w /\ pc[t] \in RegisteredAt) \/ Others(t, w)
  BY DEF RegistryExact, Others

\* One goroutine t moves to q; its hold h becomes h2.
LEMMA RegistryMove ==
  ASSUME TypeOK, ExclusiveOwnership, RegistryExact, NEW t \in Threads, NEW q, NEW h2,
         pc' = [pc EXCEPT ![t] = q], held' = [held EXCEPT ![t] = h2],
         workers' \subseteq Workers,
         \A w \in Workers :
            w \in workers' <=> InIdle(w)' \/ (h2 = w /\ q \in RegisteredAt) \/ Others(t, w)
  PROVE  RegistryExact'
  <1>1. pc \in [Threads -> ClientStates \cup CloserStates \cup CreatorStates]
        /\ held \in [Threads -> Workers \cup {NoWorker}]
    BY DEF TypeOK
  <1>2. \A u \in Threads : /\ pc'[u] = IF u = t THEN q ELSE pc[u]
                           /\ held'[u] = IF u = t THEN h2 ELSE held[u]
    BY <1>1
  <1> QED
    BY <1>2 DEF RegistryExact, Others

\* t keeps its worker, p.idle and p.workers, and stays on its side of RegisteredAt.
LEMMA RegistryKeep ==
  ASSUME TypeOK, ExclusiveOwnership, RegistryExact, NEW t \in Threads, NEW q,
         pc' = [pc EXCEPT ![t] = q], held' = held, idle' = idle, workers' = workers,
         held[t] = NoWorker \/ (q \in RegisteredAt <=> pc[t] \in RegisteredAt)
  PROVE  RegistryExact'
  <1>1. held' = [held EXCEPT ![t] = held[t]] /\ workers' \subseteq Workers
        /\ NoWorker \notin Workers
    BY ThreadsAssumption DEF TypeOK
  <1>2. \A w : InIdle(w)' <=> InIdle(w)
    BY DEF InIdle
  <1>5. \A w \in Workers : w \in workers' <=> InIdle(w)' \/ (held[t] = w /\ q \in RegisteredAt) \/ Others(t, w)
    BY <1>1, <1>2, RegistryPointwise
  <1> QED
    BY <1>1, <1>5, RegistryMove

\* t lets go of a worker that is no longer in p.workers.
LEMMA RegistryDrop ==
  ASSUME TypeOK, ExclusiveOwnership, RegistryExact, NEW t \in Threads, NEW q,
         pc' = [pc EXCEPT ![t] = q], held' = [held EXCEPT ![t] = NoWorker],
         idle' = idle, workers' = workers, pc[t] \notin RegisteredAt
  PROVE  RegistryExact'
  <1>1. workers' \subseteq Workers /\ NoWorker \notin Workers
    BY ThreadsAssumption DEF TypeOK
  <1>2. \A w : InIdle(w)' <=> InIdle(w)
    BY DEF InIdle
  <1>5. \A w \in Workers : w \in workers' <=> InIdle(w)' \/ (NoWorker = w /\ q \in RegisteredAt) \/ Others(t, w)
    BY <1>1, <1>2, RegistryPointwise
  <1> QED
    BY <1>1, <1>5, RegistryMove

\* t takes its worker out of p.workers and leaves RegisteredAt.
LEMMA RegistryLeave ==
  ASSUME TypeOK, ExclusiveOwnership, RegistryExact, NEW t \in Threads, NEW q,
         pc' = [pc EXCEPT ![t] = q], held' = held, idle' = idle,
         workers' = workers \ {held[t]}, q \notin RegisteredAt, held[t] # NoWorker
  PROVE  RegistryExact'
  <1>1. held' = [held EXCEPT ![t] = held[t]] /\ workers' \subseteq Workers
    BY DEF TypeOK
  <1>2. \A w : InIdle(w)' <=> InIdle(w)
    BY DEF InIdle
  <1>4. ~InIdle(held[t]) /\ ~Others(t, held[t])
    BY DEF ExclusiveOwnership, Others
  <1>5. \A w \in Workers : w \in workers' <=> InIdle(w)' \/ (held[t] = w /\ q \in RegisteredAt) \/ Others(t, w)
    BY <1>1, <1>2, <1>4, RegistryPointwise
  <1> QED
    BY <1>1, <1>5, RegistryMove

\* t takes the head of p.idle.
LEMMA RegistryGrab ==
  ASSUME TypeOK, ExclusiveOwnership, RegistryExact, NEW t \in Threads, NEW q,
         pc' = [pc EXCEPT ![t] = q], q \in RegisteredAt, held[t] = NoWorker,
         idle # <<>>, held' = [held EXCEPT ![t] = Head(idle)], idle' = Tail(idle),
         workers' = workers
  PROVE  RegistryExact'
  <1>1. workers' \subseteq Workers /\ NoWorker \notin Workers /\ idle \in Seq(Workers)
    BY ThreadsAssumption DEF TypeOK
  <1>2. /\ InIdle(Head(idle))
        /\ \A w : InIdle(w)' <=> InIdle(w) /\ w # Head(idle)
    BY <1>1, PopIn DEF InIdle, ExclusiveOwnership
  <1>5. \A w \in Workers : w \in workers' <=> InIdle(w)' \/ (Head(idle) = w /\ q \in RegisteredAt) \/ Others(t, w)
    BY <1>1, <1>2, RegistryPointwise
  <1> QED
    BY <1>1, <1>5, RegistryMove

\* t pushes its worker into p.idle.
LEMMA RegistryPush ==
  ASSUME TypeOK, ExclusiveOwnership, RegistryExact, NEW t \in Threads, NEW q,
         pc' = [pc EXCEPT ![t] = q], pc[t] \in RegisteredAt, held[t] \in Workers,
         held' = [held EXCEPT ![t] = NoWorker], idle' = Append(idle, held[t]),
         workers' = workers
  PROVE  RegistryExact'
  <1>1. workers' \subseteq Workers /\ NoWorker \notin Workers /\ idle \in Seq(Workers)
    BY ThreadsAssumption DEF TypeOK
  <1>2. \A w : InIdle(w)' <=> InIdle(w) \/ w = held[t]
    BY <1>1, PushIn DEF InIdle
  <1>5. \A w \in Workers : w \in workers' <=> InIdle(w)' \/ (NoWorker = w /\ q \in RegisteredAt) \/ Others(t, w)
    BY <1>1, <1>2, RegistryPointwise
  <1> QED
    BY <1>1, <1>5, RegistryMove

LEMMA RegistryStep ==
  ASSUME TypeOK, HeldShape, ExclusiveOwnership, OwnedIsLive, RegistryExact, [Next]_vars
  PROVE  RegistryExact'
  <1> USE DEF Threads, HeldShape, HoldingAt, RegisteredAt
  <1>0. held \in [Threads -> Workers \cup {NoWorker}] /\ NoWorker \notin Workers
    BY ThreadsAssumption DEF TypeOK
  <1>1. CASE UNCHANGED <<pc, held, idle, workers>>
    BY <1>1 DEF RegistryExact, InIdle
  <1>2. CASE Prewarm \/ Prewarmed \/ PrewarmCancelled \/ PrewarmStartFails
    BY <1>2, RegistryKeep DEF Prewarm, Prewarmed, PrewarmCancelled, PrewarmStartFails, Goto
  <1>3. CASE Fill
    BY <1>0, <1>3, RegistryPush DEF Fill, Goto, Drop
  <1>4. ASSUME NEW t \in Clients \cup {Creator}, Spawn(t)
        PROVE  RegistryExact'
    <2>1. PICK w \in Workers : proc[w] = "none" /\ held' = [held EXCEPT ![t] = w]
      BY <1>4 DEF Spawn
    <2>2. pc' = [pc EXCEPT ![t] = "register"] /\ idle' = idle /\ workers' = workers
          /\ held[t] = NoWorker
      BY <1>4 DEF Spawn, Goto
    <2>3. \A v : InIdle(v)' <=> InIdle(v)
      BY <2>2 DEF InIdle
    <2>4. \A v \in Workers : v \in workers' <=> InIdle(v)' \/ (w = v /\ "register" \in RegisteredAt) \/ Others(t, v)
      BY <1>0, <2>2, <2>3, RegistryPointwise
    <2>5. workers' \subseteq Workers
      BY <2>2 DEF TypeOK
    <2> QED
      BY <2>1, <2>2, <2>4, <2>5, RegistryMove
  <1>5. ASSUME NEW t \in Clients \cup {Creator}, SpawnFails(t)
        PROVE  RegistryExact'
    BY <1>5, RegistryKeep DEF SpawnFails, Goto
  <1>6. ASSUME NEW t \in Clients \cup {Creator}, Register(t)
        PROVE  RegistryExact'
    <2>1. PICK q \in RegisteredAt : pc' = [pc EXCEPT ![t] = q]
      BY <1>6 DEF Register, Goto
    <2>2. /\ held[t] \in Workers /\ held' = [held EXCEPT ![t] = held[t]]
          /\ workers' = workers \cup {held[t]} /\ idle' = idle
          /\ pc[t] \notin RegisteredAt
      BY <1>0, <1>6 DEF Register, Goto
    <2>3. \A v : InIdle(v)' <=> InIdle(v)
      BY <2>2 DEF InIdle
    <2>4. \A v \in Workers : v \in workers' <=> InIdle(v)' \/ (held[t] = v /\ q \in RegisteredAt) \/ Others(t, v)
      BY <2>1, <2>2, <2>3, RegistryPointwise
    <2>5. workers' \subseteq Workers
      BY <2>2 DEF TypeOK
    <2> QED
      BY <2>1, <2>2, <2>4, <2>5, RegistryMove
  <1>7. ASSUME NEW t \in Clients \cup {Creator}, RegisterClosed(t)
        PROVE  RegistryExact'
    BY <1>7, RegistryDrop DEF RegisterClosed, Goto, Drop
  <1>8. ASSUME NEW t \in Closers \cup {Creator}, DrainIdle(t)
        PROVE  RegistryExact'
    BY <1>8, RegistryGrab DEF DrainIdle, Goto
  <1>9. ASSUME NEW t \in Closers \cup {Creator}, DropDrained(t)
        PROVE  RegistryExact'
    BY <1>9, RegistryLeave DEF DropDrained, Goto
  <1>10. ASSUME NEW t \in Closers \cup {Creator}, Shutdown(t)
         PROVE  RegistryExact'
    BY <1>10, RegistryDrop DEF Shutdown, Goto, Drop
  <1>11. ASSUME NEW t \in Closers \cup {Creator}, DrainDone(t)
         PROVE  RegistryExact'
    BY <1>11, RegistryKeep DEF DrainDone, Goto
  <1>12. ASSUME NEW t \in Closers, CloseFirst(t) \/ CloseAgain(t)
         PROVE  RegistryExact'
    BY <1>12, RegistryKeep DEF CloseFirst, CloseAgain, Goto
  <1>13. ASSUME NEW c \in Clients, TakeIdle(c)
         PROVE  RegistryExact'
    BY <1>13, RegistryGrab DEF TakeIdle, Goto
  <1>14. ASSUME NEW c \in Clients,
                \/ EnterCheckout(c) \/ AcquireSlot(c) \/ WaitTimesOut(c) \/ WaitSeesClose(c)
                \/ NoIdle(c) \/ GiveSlotBack(c)
         PROVE  RegistryExact'
    BY <1>14, RegistryKeep
       DEF EnterCheckout, AcquireSlot, WaitTimesOut, WaitSeesClose, NoIdle, GiveSlotBack, Goto
  <1>15. ASSUME NEW c \in Clients,
                \/ CheckDone(c) \/ CheckFails(c) \/ Configure(c) \/ ConfigureFails(c)
                \/ CloseSession(c) \/ Reset(c) \/ ResetFails(c) \/ FreeSlot(c)
         PROVE  RegistryExact'
    BY <1>15, RegistryKeep
       DEF CheckDone, CheckFails, Configure, ConfigureFails, CloseSession, Reset, ResetFails,
           FreeSlot, Release, Goto
  <1>16. ASSUME NEW c \in Clients, Decide(c)
         PROVE  RegistryExact'
    <2>1. held[c] \in Workers /\ pc[c] = "decide" /\ held' = held /\ idle' = idle
      BY <1>0, <1>16 DEF Decide
    <2>2. held[c] \in workers
      BY <2>1, RegistryPointwise
    <2>3. CASE Retire(c)
      <3>1. workers' = workers \ {held[c]} /\ pc' = [pc EXCEPT ![c] = "kill"]
        BY <1>16, <2>3 DEF Decide, Goto
      <3> QED
        BY <2>1, <3>1, RegistryLeave
    <2>4. CASE ~Retire(c)
      <3>1. workers' = workers /\ pc' = [pc EXCEPT ![c] = "push"]
        BY <1>16, <2>2, <2>4 DEF Decide, Goto
      <3> QED
        BY <2>1, <3>1, RegistryKeep
    <2> QED
      BY <2>3, <2>4
  <1>17. ASSUME NEW c \in Clients, PushIdle(c)
         PROVE  RegistryExact'
    BY <1>0, <1>17, RegistryPush DEF PushIdle, Goto, Drop
  <1>18. ASSUME NEW c \in Clients, IdleFull(c)
         PROVE  RegistryExact'
    BY <1>18, RegistryLeave DEF IdleFull, Goto
  <1>19. ASSUME NEW c \in Clients, KillReleased(c)
         PROVE  RegistryExact'
    BY <1>19, RegistryDrop DEF KillReleased, Goto, Drop
  <1>20. ASSUME NEW c \in Clients, SessionBreaks(c)
         PROVE  RegistryExact'
    BY <1>1, <1>20 DEF SessionBreaks
  <1>21. ASSUME NEW w \in Workers, WorkerExits(w)
         PROVE  RegistryExact'
    BY <1>1, <1>21 DEF WorkerExits
  <1> QED
    BY <1>1, <1>2, <1>3, <1>4, <1>5, <1>6, <1>7, <1>8, <1>9, <1>10, <1>11, <1>12, <1>13,
       <1>14, <1>15, <1>16, <1>17, <1>18, <1>19, <1>20, <1>21, NextCases DEF vars, Finished

(***************************************************************************)
(* p.workers is exactly the set of workers in p.idle or in the hands of a  *)
(* goroutine that has not decided to destroy them.                         *)
(***************************************************************************)
THEOREM RegistryIsExact == Spec => []RegistryExact
  <1>1. Init => RegistryExact
    <2> SUFFICES ASSUME Init PROVE RegistryExact
      OBVIOUS
    <2>1. workers = {} /\ idle = <<>> /\ (\A t \in Threads : held[t] = NoWorker)
          /\ NoWorker \notin Workers
      BY ThreadsAssumption DEF Init
    <2>2. \A w : ~InIdle(w)
      BY <2>1 DEF InIdle, In
    <2> QED
      BY <2>1, <2>2 DEF RegistryExact
  <1>2. QED
    BY <1>1, RegistryStep, TypeAndShape, Ownership, PTL DEF Spec
-----------------------------------------------------------------------------
(* Fitness for reuse: session isolation and the recycle limit. *)

\* One goroutine t moves to q; only the worker x, if any, changes its condition.
LEMMA FitnessMove ==
  ASSUME TypeOK, Fitness, NEW t \in Threads, NEW q, NEW x,
         pc' = [pc EXCEPT ![t] = q],
         \A u \in Threads \ {t} : /\ held'[u] = held[u] /\ reusable'[u] = reusable[u]
                                  /\ held[u] = x => held[u] = NoWorker,
         \A u \in Threads \ {t} : pc[u] \in FitAt \cup {"freeSlot", "decide"} => held[u] \in Workers,
         \A w \in Workers \ {x} : /\ proc'[w] = proc[w] /\ checkouts'[w] = checkouts[w]
                                  /\ w \in dirty' <=> w \in dirty,
         \A w \in Workers : InIdle(w)' => Fit(w)',
         x \in Workers => (proc'[x] = "none" => x \notin dirty' /\ checkouts'[x] = 0),
         MaxCheckouts > 0 /\ x \in Workers => checkouts'[x] <= MaxCheckouts,
         q \in FitAt => Fit(held[t])',
         q \in {"freeSlot", "decide"} /\ reusable'[t] => Clean(held[t])',
         NoWorker \notin Workers
  PROVE  Fitness'
  <1>1. \A u \in Threads : pc'[u] = IF u = t THEN q ELSE pc[u]
    BY DEF TypeOK
  <1>2. \A w \in Workers : proc'[w] = "none" => w \notin dirty' /\ checkouts'[w] = 0
    BY DEF Fitness
  <1>3. \A w \in Workers : InIdle(w)' => Fit(w)'
    OBVIOUS
  <1>4. \A w \in Workers \ {x} : /\ Fit(w) => Fit(w)'
                                 /\ Clean(w) => Clean(w)'
    BY DEF Fit, Clean, WornOut
  <1>5. \A u \in Threads \ {t} : pc'[u] \in FitAt => Fit(held[u])'
    <2> SUFFICES ASSUME NEW u \in Threads \ {t}, pc'[u] \in FitAt
                 PROVE  Fit(held[u])'
      OBVIOUS
    <2>1. PICK w \in Workers : w = held[u] /\ w # x /\ held'[u] = w
      BY <1>1
    <2>2. Fit(w)
      BY <1>1, <2>1 DEF Fitness
    <2>3. Fit(w)'
      BY <1>4, <2>1, <2>2
    <2> QED
      BY <2>1, <2>3 DEF Fit, Clean, WornOut
  <1>6. \A u \in Threads \ {t} :
          pc'[u] \in {"freeSlot", "decide"} /\ reusable'[u] => Clean(held[u])'
    <2> SUFFICES ASSUME NEW u \in Threads \ {t},
                        pc'[u] \in {"freeSlot", "decide"}, reusable'[u]
                 PROVE  Clean(held[u])'
      OBVIOUS
    <2>1. PICK w \in Workers : w = held[u] /\ w # x /\ held'[u] = w
      BY <1>1
    <2>2. Clean(w)
      BY <1>1, <2>1 DEF Fitness
    <2>3. Clean(w)'
      BY <1>4, <2>1, <2>2
    <2> QED
      BY <2>1, <2>3 DEF Clean
  <1>7. \A u \in Threads : pc'[u] \in FitAt => Fit(held[u])'
    BY <1>1, <1>5
  <1>8. \A u \in Threads : pc'[u] \in {"freeSlot", "decide"} /\ reusable'[u] => Clean(held[u])'
    BY <1>1, <1>6
  <1>9. MaxCheckouts > 0 => \A w \in Workers : checkouts'[w] <= MaxCheckouts
    BY DEF Fitness
  <1> QED
    BY <1>2, <1>3, <1>7, <1>8, <1>9 DEF Fitness
\* t moves to q; every worker keeps its condition and its place.
LEMMA FitnessQuiet ==
  ASSUME TypeOK, HeldShape, Fitness, NEW t \in Threads, NEW q,
         pc' = [pc EXCEPT ![t] = q], UNCHANGED <<held, idle, proc, checkouts, dirty>>,
         \A u \in Threads \ {t} : reusable'[u] = reusable[u],
         q \in FitAt => Fit(held[t]),
         q \in {"freeSlot", "decide"} /\ reusable'[t] => Clean(held[t])
  PROVE  Fitness'
  <1>1. \A u \in Threads : /\ pc'[u] = IF u = t THEN q ELSE pc[u]
                           /\ held'[u] = held[u]
    BY DEF TypeOK
  <1>2. \A w : (Fit(w)' <=> Fit(w)) /\ (Clean(w)' <=> Clean(w)) /\ (InIdle(w)' <=> InIdle(w))
    BY DEF Fit, Clean, WornOut, InIdle
  <1>3. \A u \in Threads : (Fit(held[u])' <=> Fit(held[u])) /\ (Clean(held[u])' <=> Clean(held[u]))
    BY DEF Fit, Clean, WornOut
  <1>4. \A u \in Threads : pc'[u] \in FitAt => Fit(held[u])'
    BY <1>1, <1>3 DEF Fitness
  <1>5. \A u \in Threads : pc'[u] \in {"freeSlot", "decide"} /\ reusable'[u] => Clean(held[u])'
    BY <1>1, <1>3 DEF Fitness
  <1>6. \A w \in Workers : InIdle(w)' => Fit(w)'
    BY <1>2 DEF Fitness
  <1>7. \A w \in Workers : proc'[w] = "none" => w \notin dirty' /\ checkouts'[w] = 0
    BY DEF Fitness
  <1>8. MaxCheckouts > 0 => \A w \in Workers : checkouts'[w] <= MaxCheckouts
    BY DEF Fitness
  <1> QED
    BY <1>4, <1>5, <1>6, <1>7, <1>8 DEF Fitness

\* t reaps its worker and moves to q, where it holds none.
LEMMA FitnessReap ==
  ASSUME TypeOK, HeldShape, ExclusiveOwnership, Fitness, NEW t \in Threads, NEW q,
         pc' = [pc EXCEPT ![t] = q], held[t] \in Workers, Kill(held[t]), Drop(t),
         UNCHANGED <<idle, reusable>>, q \notin HoldingAt
  PROVE  Fitness'
  <1> USE ThreadsAssumption DEF HoldingAt, RegisteredAt, FitAt
  <1>1. /\ proc \in [Workers -> ProcStates] /\ checkouts \in [Workers -> Nat]
        /\ held \in [Threads -> Workers \cup {NoWorker}]
    BY DEF TypeOK
  <1> DEFINE x == held[t]
  <1>2. \A w \in Workers \ {x} : proc'[w] = proc[w] /\ checkouts'[w] = checkouts[w]
                                 /\ (w \in dirty' <=> w \in dirty)
    BY <1>1 DEF Kill
  <1>3. proc'[x] = "none" /\ checkouts'[x] = 0 /\ x \notin dirty'
    BY <1>1 DEF Kill
  <1>4. \A u \in Threads \ {t} : /\ held'[u] = held[u] /\ reusable'[u] = reusable[u]
                                 /\ held[u] = x => held[u] = NoWorker
    BY <1>1 DEF Drop, ExclusiveOwnership
  <1>5. \A u \in Threads \ {t} : pc[u] \in FitAt \cup {"freeSlot", "decide"} => held[u] \in Workers
    BY <1>1 DEF HeldShape
  <1>6. ~InIdle(x) /\ \A w : InIdle(w)' <=> InIdle(w)
    BY DEF ExclusiveOwnership, InIdle
  <1>7. \A w \in Workers : InIdle(w)' => Fit(w)'
    BY <1>2, <1>6 DEF Fitness, Fit, Clean, WornOut
  <1>8. MaxCheckouts > 0 => checkouts'[x] <= MaxCheckouts
    BY <1>3, OptionsAssumption
  <1> HIDE DEF x
  <1> QED
    BY <1>2, <1>3, <1>4, <1>5, <1>7, <1>8, FitnessMove

\* t takes the head of p.idle and moves to q.
LEMMA FitnessGrab ==
  ASSUME TypeOK, HeldShape, ExclusiveOwnership, Fitness, NEW t \in Threads, NEW q,
         pc' = [pc EXCEPT ![t] = q], idle # <<>>, idle' = Tail(idle),
         held' = [held EXCEPT ![t] = Head(idle)], q \notin {"freeSlot", "decide"},
         UNCHANGED <<reusable, proc, checkouts, dirty>>
  PROVE  Fitness'
  <1>1. idle \in Seq(Workers) /\ held \in [Threads -> Workers \cup {NoWorker}]
        /\ NoWorker \notin Workers
    BY ThreadsAssumption DEF TypeOK
  <1>2. /\ InIdle(Head(idle)) /\ Head(idle) \in Workers
        /\ \A w : InIdle(w)' => InIdle(w)
    BY <1>1, PopIn DEF InIdle, ExclusiveOwnership
  <1>3. \A w : Fit(w)' <=> Fit(w)
    BY DEF Fit, Clean, WornOut
  <1>4. \A w \in Workers : InIdle(w)' => Fit(w)'
    BY <1>2, <1>3 DEF Fitness
  <1>5. Fit(held[t])'
    <2>1. Fit(Head(idle))
      BY <1>2 DEF Fitness
    <2>2. held'[t] = Head(idle)
      BY <1>1
    <2> QED
      BY <2>1, <2>2 DEF Fit, Clean, WornOut
  <1>6. \A u \in Threads \ {t} : held'[u] = held[u] /\ reusable'[u] = reusable[u]
    BY <1>1
  <1>7. \A u \in Threads \ {t} : pc[u] \in FitAt \cup {"freeSlot", "decide"} => held[u] \in Workers
    BY <1>1 DEF HeldShape, HoldingAt, RegisteredAt, FitAt
  <1> QED
    BY <1>1, <1>4, <1>5, <1>6, <1>7, FitnessMove

\* t pushes its fit worker into p.idle and moves to q, where it holds none.
LEMMA FitnessPush ==
  ASSUME TypeOK, HeldShape, Fitness, NEW t \in Threads, NEW q,
         pc' = [pc EXCEPT ![t] = q], held[t] \in Workers, Fit(held[t]),
         idle' = Append(idle, held[t]), Drop(t), q \notin HoldingAt,
         UNCHANGED <<reusable, proc, checkouts, dirty>>
  PROVE  Fitness'
  <1> USE DEF HoldingAt, RegisteredAt, FitAt
  <1>1. idle \in Seq(Workers) /\ held \in [Threads -> Workers \cup {NoWorker}]
        /\ NoWorker \notin Workers
    BY ThreadsAssumption DEF TypeOK
  <1>2. \A w : InIdle(w)' <=> InIdle(w) \/ w = held[t]
    BY <1>1, PushIn DEF InIdle
  <1>3. \A w : Fit(w)' <=> Fit(w)
    BY DEF Fit, Clean, WornOut
  <1>4. \A w \in Workers : InIdle(w)' => Fit(w)'
    BY <1>2, <1>3 DEF Fitness
  <1>5. \A u \in Threads \ {t} : held'[u] = held[u] /\ reusable'[u] = reusable[u]
    BY <1>1 DEF Drop
  <1>6. \A u \in Threads \ {t} : pc[u] \in FitAt \cup {"freeSlot", "decide"} => held[u] \in Workers
    BY <1>1 DEF HeldShape
  <1> QED
    BY <1>1, <1>4, <1>5, <1>6, FitnessMove

\* t changes the condition of the worker it holds and moves to q, which is not in FitAt.
LEMMA FitnessUse ==
  ASSUME TypeOK, HeldShape, ExclusiveOwnership, Fitness, NEW t \in Threads, NEW q,
         pc' = [pc EXCEPT ![t] = q], held[t] \in Workers, held' = held, idle' = idle,
         \A u \in Threads \ {t} : reusable'[u] = reusable[u],
         \A w \in Workers \ {held[t]} : /\ proc'[w] = proc[w] /\ checkouts'[w] = checkouts[w]
                                        /\ w \in dirty' <=> w \in dirty,
         proc'[held[t]] # "none",
         MaxCheckouts > 0 => checkouts'[held[t]] <= MaxCheckouts,
         q \notin FitAt,
         q \in {"freeSlot", "decide"} /\ reusable'[t] => Clean(held[t])'
  PROVE  Fitness'
  <1>1. held \in [Threads -> Workers \cup {NoWorker}] /\ NoWorker \notin Workers
    BY ThreadsAssumption DEF TypeOK
  <1> DEFINE x == held[t]
  <1>2. \A u \in Threads \ {t} : /\ held'[u] = held[u] /\ reusable'[u] = reusable[u]
                                 /\ held[u] = x => held[u] = NoWorker
    BY <1>1 DEF ExclusiveOwnership
  <1>3. \A u \in Threads \ {t} : pc[u] \in FitAt \cup {"freeSlot", "decide"} => held[u] \in Workers
    BY <1>1 DEF HeldShape, HoldingAt, RegisteredAt, FitAt
  <1>4. ~InIdle(x) /\ \A w : InIdle(w)' <=> InIdle(w)
    BY DEF ExclusiveOwnership, InIdle
  <1>5. \A w \in Workers : InIdle(w)' => Fit(w)'
    BY <1>4 DEF Fitness, Fit, Clean, WornOut
  <1>6. /\ \A w \in Workers \ {x} : /\ proc'[w] = proc[w] /\ checkouts'[w] = checkouts[w]
                                    /\ w \in dirty' <=> w \in dirty
        /\ proc'[x] # "none" /\ (MaxCheckouts > 0 => checkouts'[x] <= MaxCheckouts)
    OBVIOUS
  <1> HIDE DEF x
  <1> QED
    BY <1>1, <1>2, <1>3, <1>5, <1>6, FitnessMove

\* A worker's process ends without anybody moving; it may stay fit.
LEMMA FitnessFades ==
  ASSUME TypeOK, HeldShape, Fitness, NEW w \in Workers, NEW p \in {"exited", "dead"},
         UNCHANGED <<pc, held, reusable, idle, checkouts, dirty>>,
         proc' = [proc EXCEPT ![w] = p],
         \/ p = "exited"
         \/ /\ ~InIdle(w)
            /\ \A t \in Threads : held[t] = w => pc[t] = "session"
  PROVE  Fitness'
  <1>1. /\ \A v \in Workers : proc'[v] = IF v = w THEN p ELSE proc[v]
        /\ held \in [Threads -> Workers \cup {NoWorker}]
    BY DEF TypeOK
  <1>2. \A t \in Threads : pc[t] \in FitAt \cup {"freeSlot", "decide"} => held[t] \in Workers
    BY <1>1 DEF HeldShape, HoldingAt, RegisteredAt, FitAt
  <1>3. \A v \in Workers : v # w \/ p = "exited" => /\ Fit(v) => Fit(v)'
                                                    /\ Clean(v) => Clean(v)'
    BY <1>1 DEF Fit, Clean, WornOut
  <1>4. \A v : InIdle(v)' <=> InIdle(v)
    BY DEF InIdle
  <1>5. \A v \in Workers : InIdle(v)' => Fit(v)'
    BY <1>3, <1>4 DEF Fitness
  <1>6. \A t \in Threads : pc'[t] \in FitAt => Fit(held[t])'
    <2> SUFFICES ASSUME NEW t \in Threads, pc[t] \in FitAt
                 PROVE  Fit(held[t])'
      OBVIOUS
    <2>1. PICK v \in Workers : v = held[t] /\ held'[t] = v /\ (v # w \/ p = "exited")
      BY <1>2 DEF FitAt
    <2>2. Fit(v)'
      BY <1>3, <2>1 DEF Fitness
    <2> QED
      BY <2>1, <2>2 DEF Fit, Clean, WornOut
  <1>7. \A t \in Threads : pc'[t] \in {"freeSlot", "decide"} /\ reusable'[t] => Clean(held[t])'
    <2> SUFFICES ASSUME NEW t \in Threads, pc[t] \in {"freeSlot", "decide"}, reusable[t]
                 PROVE  Clean(held[t])'
      OBVIOUS
    <2>1. PICK v \in Workers : v = held[t] /\ held'[t] = v /\ (v # w \/ p = "exited")
      BY <1>2
    <2>2. Clean(v)'
      BY <1>3, <2>1 DEF Fitness
    <2> QED
      BY <2>1, <2>2 DEF Clean
  <1>8. \A v \in Workers : proc'[v] = "none" => v \notin dirty' /\ checkouts'[v] = 0
    BY <1>1 DEF Fitness
  <1>9. MaxCheckouts > 0 => \A v \in Workers : checkouts'[v] <= MaxCheckouts
    BY DEF Fitness
  <1> QED
    BY <1>5, <1>6, <1>7, <1>8, <1>9 DEF Fitness

\* t moves to q with the fresh worker w, which nobody else had.
LEMMA FitnessSpawn ==
  ASSUME TypeOK, OwnedIsLive, Fitness, NEW t \in Threads, NEW q \in {"register"},
         NEW w \in Workers, pc' = [pc EXCEPT ![t] = q],
         \A u \in Threads : pc[u] \in HoldingAt => held[u] \in Workers,
         proc[w] = "none", w \notin dirty, checkouts[w] = 0,
         proc' = [proc EXCEPT ![w] = "alive"], held'[t] = w,
         \A u \in Threads \ {t} : held'[u] = held[u] /\ held[u] # w,
         UNCHANGED <<reusable, idle, checkouts, dirty>>
  PROVE  Fitness'
  <1>1. proc \in [Workers -> ProcStates] /\ NoWorker \notin Workers
    BY ThreadsAssumption DEF TypeOK
  <1>2. \A u \in Threads \ {t} : pc[u] \in FitAt \cup {"freeSlot", "decide"} => held[u] \in Workers
    BY DEF FitAt, HoldingAt, RegisteredAt
  <1>3. /\ \A v \in Workers \ {w} : /\ proc'[v] = proc[v] /\ checkouts'[v] = checkouts[v]
                                    /\ v \in dirty' <=> v \in dirty
        /\ proc'[w] = "alive" /\ w \notin dirty' /\ checkouts'[w] = 0
    BY <1>1
  <1>4. ~InIdle(w) /\ \A v : InIdle(v)' <=> InIdle(v)
    BY DEF OwnedIsLive, InIdle
  <1>5. \A v \in Workers : InIdle(v)' => Fit(v)'
    BY <1>3, <1>4 DEF Fitness, Fit, Clean, WornOut
  <1>6. Fit(held[t])'
    BY <1>3, OptionsAssumption DEF Fit, Clean, WornOut
  <1>7. \A v \in Workers \ {w} : /\ Fit(v) => Fit(v)'
                                 /\ Clean(v) => Clean(v)'
    BY <1>3 DEF Fit, Clean, WornOut
  <1>8. \A u \in Threads : pc'[u] = IF u = t THEN q ELSE pc[u]
    BY DEF TypeOK
  <1>9. \A u \in Threads : pc'[u] \in FitAt => Fit(held[u])'
    <2> SUFFICES ASSUME NEW u \in Threads \ {t}, pc[u] \in FitAt
                 PROVE  Fit(held[u])'
      BY <1>6, <1>8
    <2>1. PICK v \in Workers : v = held[u] /\ held'[u] = v /\ v # w
      BY <1>2
    <2>2. Fit(v)'
      BY <1>7, <2>1 DEF Fitness
    <2> QED
      BY <2>1, <2>2 DEF Fit, Clean, WornOut
  <1>10. \A u \in Threads : pc'[u] \in {"freeSlot", "decide"} /\ reusable'[u] => Clean(held[u])'
    <2> SUFFICES ASSUME NEW u \in Threads \ {t}, pc[u] \in {"freeSlot", "decide"}, reusable[u]
                 PROVE  Clean(held[u])'
      BY <1>8
    <2>1. PICK v \in Workers : v = held[u] /\ held'[u] = v /\ v # w
      BY <1>2
    <2>2. Clean(v)'
      BY <1>7, <2>1 DEF Fitness
    <2> QED
      BY <2>1, <2>2 DEF Clean
  <1>11. \A v \in Workers : proc'[v] = "none" => v \notin dirty' /\ checkouts'[v] = 0
    BY <1>3 DEF Fitness
  <1>12. MaxCheckouts > 0 => \A v \in Workers : checkouts'[v] <= MaxCheckouts
    BY DEF Fitness
  <1> QED
    BY <1>5, <1>9, <1>10, <1>11, <1>12 DEF Fitness

LEMMA FitnessStep ==
  ASSUME TypeOK, HeldShape, ExclusiveOwnership, OwnedIsLive, RegistryExact, Fitness, [Next]_vars
  PROVE  Fitness'
  <1> USE DEF Threads
  <1>0. /\ held \in [Threads -> Workers \cup {NoWorker}] /\ NoWorker \notin Workers
        /\ proc \in [Workers -> ProcStates] /\ checkouts \in [Workers -> Nat]
        /\ reusable \in [Threads -> BOOLEAN] /\ dirty \subseteq Workers
    BY ThreadsAssumption DEF TypeOK
  <1>00. \A t \in Threads : pc[t] \in HoldingAt => held[t] \in Workers
    BY <1>0 DEF HeldShape
  <1>1. CASE UNCHANGED vars
    BY <1>1 DEF vars, Fitness, Fit, Clean, WornOut, InIdle
  <1>2. CASE Prewarm \/ Prewarmed \/ PrewarmCancelled \/ PrewarmStartFails
    BY <1>2, FitnessQuiet
       DEF Prewarm, Prewarmed, PrewarmCancelled, PrewarmStartFails, Goto, FitAt
  <1>3. CASE Fill
    <2>1. held[Creator] \in Workers /\ Fit(held[Creator])
      BY <1>00, <1>3 DEF Fill, Goto, Fitness, FitAt, HoldingAt, RegisteredAt
    <2> QED
      BY <1>3, <2>1, FitnessPush DEF Fill, Goto, HoldingAt, RegisteredAt
  <1>4. ASSUME NEW t \in Clients \cup {Creator}, Spawn(t)
        PROVE  Fitness'
    <2>1. PICK w \in Workers : /\ proc[w] = "none"
                               /\ proc' = [proc EXCEPT ![w] = "alive"]
                               /\ held' = [held EXCEPT ![t] = w]
      BY <1>4 DEF Spawn
    <2>2. w \notin dirty /\ checkouts[w] = 0
      BY <2>1 DEF Fitness
    <2>3. UNCHANGED <<reusable, idle, checkouts, dirty>>
      BY <1>4 DEF Spawn
    <2>4. /\ held'[t] = w
          /\ \A u \in Threads \ {t} : held'[u] = held[u] /\ held[u] # w
      BY <1>0, <2>1 DEF OwnedIsLive
    <2>5. PICK q \in {"register"} : pc' = [pc EXCEPT ![t] = q]
      BY <1>4 DEF Spawn, Goto
    <2> QED
      BY <1>0, <1>00, <2>1, <2>2, <2>3, <2>4, <2>5, FitnessSpawn
  <1>5. ASSUME NEW t \in Clients \cup {Creator}, SpawnFails(t)
        PROVE  Fitness'
    BY <1>5, FitnessQuiet DEF SpawnFails, Goto, FitAt
  <1>6. ASSUME NEW t \in Clients \cup {Creator}, Register(t)
        PROVE  Fitness'
    <2>1. Fit(held[t])
      BY <1>6 DEF Register, Goto, Fitness, FitAt
    <2>2. PICK q \in FitAt \ {"freeSlot", "decide"} : pc' = [pc EXCEPT ![t] = q]
      BY <1>6 DEF Register, Goto, FitAt
    <2> QED
      BY <1>6, <2>1, <2>2, FitnessQuiet DEF Register
  <1>7. ASSUME NEW t \in Clients \cup {Creator}, RegisterClosed(t)
        PROVE  Fitness'
    BY <1>00, <1>7, FitnessReap DEF RegisterClosed, Goto, HoldingAt, RegisteredAt
  <1>8. ASSUME NEW t \in Closers \cup {Creator}, DrainIdle(t)
        PROVE  Fitness'
    <2>1. PICK q \in {"drop", "check"} : pc' = [pc EXCEPT ![t] = q]
      BY <1>8 DEF DrainIdle, Goto
    <2>2. q \notin {"freeSlot", "decide"}
      BY <2>1
    <2>3. /\ idle # <<>> /\ idle' = Tail(idle) /\ held' = [held EXCEPT ![t] = Head(idle)]
          /\ UNCHANGED <<reusable, proc, checkouts, dirty>>
      BY <1>8 DEF DrainIdle
    <2> QED
      BY <2>1, <2>2, <2>3, FitnessGrab
  <1>9. ASSUME NEW t \in Closers \cup {Creator}, DropDrained(t) \/ DrainDone(t)
        PROVE  Fitness'
    BY <1>9, FitnessQuiet DEF DropDrained, DrainDone, Goto, FitAt
  <1>10. ASSUME NEW t \in Closers \cup {Creator}, Shutdown(t)
         PROVE  Fitness'
    BY <1>00, <1>10, FitnessReap DEF Shutdown, Goto, HoldingAt, RegisteredAt
  <1>11. ASSUME NEW t \in Closers, CloseFirst(t) \/ CloseAgain(t)
         PROVE  Fitness'
    BY <1>11, FitnessQuiet DEF CloseFirst, CloseAgain, Goto, FitAt
  <1>12. ASSUME NEW c \in Clients, TakeIdle(c)
         PROVE  Fitness'
    <2>1. PICK q \in {"drop", "check"} : pc' = [pc EXCEPT ![c] = q]
      BY <1>12 DEF TakeIdle, Goto
    <2>2. q \notin {"freeSlot", "decide"}
      BY <2>1
    <2>3. /\ idle # <<>> /\ idle' = Tail(idle) /\ held' = [held EXCEPT ![c] = Head(idle)]
          /\ UNCHANGED <<reusable, proc, checkouts, dirty>>
      BY <1>12 DEF TakeIdle
    <2> QED
      BY <2>1, <2>2, <2>3, FitnessGrab
  <1>13. ASSUME NEW c \in Clients,
                \/ EnterCheckout(c) \/ AcquireSlot(c) \/ WaitTimesOut(c) \/ WaitSeesClose(c)
                \/ NoIdle(c) \/ GiveSlotBack(c) \/ CloseSession(c) \/ IdleFull(c)
         PROVE  Fitness'
    BY <1>13, FitnessQuiet
       DEF EnterCheckout, AcquireSlot, WaitTimesOut, WaitSeesClose, NoIdle, GiveSlotBack,
           CloseSession, IdleFull, Goto, FitAt
  <1>14. ASSUME NEW c \in Clients, CheckDone(c)
         PROVE  Fitness'
    <2>1. Fit(held[c])
      BY <1>14 DEF CheckDone, Goto, Fitness, FitAt
    <2> QED
      BY <1>14, <2>1, FitnessQuiet DEF CheckDone, Goto
  <1>15. ASSUME NEW c \in Clients, CheckFails(c)
         PROVE  Fitness'
    BY <1>0, <1>15, FitnessQuiet DEF CheckFails, Release, Goto, FitAt
  <1>16. ASSUME NEW c \in Clients, Configure(c)
         PROVE  Fitness'
    <2>1. pc[c] = "configure" /\ held[c] \in Workers /\ Fit(held[c])
      BY <1>00, <1>16 DEF Configure, Goto, Fitness, FitAt, HoldingAt, RegisteredAt
    <2>2. MaxCheckouts > 0 => checkouts'[held[c]] <= MaxCheckouts
      BY <1>0, <1>16, <2>1, OptionsAssumption DEF Configure, Counted, Fit, WornOut
    <2>3. /\ \A w \in Workers \ {held[c]} : /\ proc'[w] = proc[w] /\ checkouts'[w] = checkouts[w]
                                            /\ w \in dirty' <=> w \in dirty
          /\ proc'[held[c]] # "none"
      BY <1>0, <1>16 DEF Configure, Answers
    <2> QED
      BY <1>16, <2>1, <2>2, <2>3, FitnessUse DEF Configure, Goto, FitAt
  <1>17. ASSUME NEW c \in Clients, ConfigureFails(c) \/ ResetFails(c)
         PROVE  Fitness'
    <2>1. /\ pc' = [pc EXCEPT ![c] = "freeSlot"]
          /\ reusable' = [reusable EXCEPT ![c] = FALSE]
          /\ held[c] \in Workers
          /\ UNCHANGED <<held, idle, checkouts, dirty>>
      BY <1>00, <1>17
         DEF ConfigureFails, ResetFails, Release, Goto, HoldingAt, RegisteredAt
    <2>2. proc' = proc \/ proc' = [proc EXCEPT ![held[c]] = "dead"]
      BY <1>17 DEF ConfigureFails, ResetFails, Answers, Breaks
    <2>3. /\ \A w \in Workers \ {held[c]} : proc'[w] = proc[w]
          /\ proc'[held[c]] # "none"
      BY <1>0, <2>1, <2>2 DEF OwnedIsLive
    <2>4. MaxCheckouts > 0 => checkouts'[held[c]] <= MaxCheckouts
      BY <2>1 DEF Fitness
    <2>5. reusable'[c] = FALSE /\ \A u \in Threads \ {c} : reusable'[u] = reusable[u]
      BY <1>0, <2>1
    <2>6. "freeSlot" \notin FitAt
      BY DEF FitAt
    <2> QED
      BY <2>1, <2>3, <2>4, <2>5, <2>6, FitnessUse
  <1>18. ASSUME NEW c \in Clients, Reset(c)
         PROVE  Fitness'
    <2>1. /\ pc' = [pc EXCEPT ![c] = "freeSlot"] /\ held[c] \in Workers
          /\ UNCHANGED <<held, idle, proc, checkouts>>
          /\ dirty' = dirty \ {held[c]} /\ proc[held[c]] = "alive"
          /\ \A u \in Threads \ {c} : reusable'[u] = reusable[u]
      BY <1>0, <1>00, <1>18 DEF Reset, Release, Answers, Goto, HoldingAt, RegisteredAt
    <2>2. Clean(held[c])'
      BY <2>1 DEF Clean
    <2>3. MaxCheckouts > 0 => checkouts'[held[c]] <= MaxCheckouts
      BY <2>1 DEF Fitness
    <2>4. "freeSlot" \notin FitAt
      BY DEF FitAt
    <2> QED
      BY <2>1, <2>2, <2>3, <2>4, FitnessUse
  <1>19. ASSUME NEW c \in Clients, FreeSlot(c)
         PROVE  Fitness'
    BY <1>19, FitnessQuiet DEF FreeSlot, Goto, FitAt, Fitness
  <1>20. ASSUME NEW c \in Clients, Decide(c)
         PROVE  Fitness'
    <2>1. /\ pc[c] = "decide" /\ UNCHANGED <<held, reusable, idle, proc, checkouts, dirty>>
          /\ workers' = IF Retire(c) THEN workers \ {held[c]} ELSE workers
          /\ pc' = [pc EXCEPT ![c] = IF held[c] \in workers' THEN "push" ELSE "kill"]
      BY <1>20 DEF Decide, Goto
    <2>2. CASE Retire(c)
      <3>1. pc' = [pc EXCEPT ![c] = "kill"]
        BY <2>1, <2>2
      <3> QED
        BY <2>1, <3>1, FitnessQuiet DEF FitAt
    <2>3. CASE ~Retire(c)
      <3>1. Fit(held[c])
        BY <2>1, <2>3 DEF Retire, Fitness, Fit
      <3>2. PICK q \in {"push", "kill"} : pc' = [pc EXCEPT ![c] = q]
        BY <2>1
      <3> QED
        BY <2>1, <3>1, <3>2, FitnessQuiet
    <2> QED
      BY <2>2, <2>3
  <1>21. ASSUME NEW c \in Clients, PushIdle(c)
         PROVE  Fitness'
    <2>1. held[c] \in Workers /\ Fit(held[c])
      BY <1>00, <1>21 DEF PushIdle, Goto, Fitness, FitAt, HoldingAt, RegisteredAt
    <2> QED
      BY <1>21, <2>1, FitnessPush DEF PushIdle, Goto, HoldingAt, RegisteredAt
  <1>22. ASSUME NEW c \in Clients, KillReleased(c)
         PROVE  Fitness'
    BY <1>00, <1>22, FitnessReap DEF KillReleased, Goto, HoldingAt, RegisteredAt
  <1>23. ASSUME NEW c \in Clients, SessionBreaks(c)
         PROVE  Fitness'
    <2>1. /\ pc[c] = "session" /\ held[c] \in Workers
          /\ proc' = [proc EXCEPT ![held[c]] = "dead"]
      BY <1>00, <1>23 DEF SessionBreaks, Breaks, HoldingAt, RegisteredAt
    <2>2. ~InIdle(held[c]) /\ \A t \in Threads : held[t] = held[c] => pc[t] = "session"
      BY <1>0, <2>1 DEF ExclusiveOwnership
    <2> QED
      BY <1>23, <2>1, <2>2, FitnessFades DEF SessionBreaks
  <1>24. ASSUME NEW w \in Workers, WorkerExits(w)
         PROVE  Fitness'
    BY <1>24, FitnessFades DEF WorkerExits
  <1> QED
    BY <1>1, <1>2, <1>3, <1>4, <1>5, <1>6, <1>7, <1>8, <1>9, <1>10, <1>11, <1>12, <1>13,
       <1>14, <1>15, <1>16, <1>17, <1>18, <1>19, <1>20, <1>21, <1>22, <1>23, <1>24,
       NextCases DEF Finished

LEMMA FitnessHolds == Spec => []Fitness
  <1>1. Init => Fitness
    <2> SUFFICES ASSUME Init PROVE Fitness
      OBVIOUS
    <2>1. \A w : ~InIdle(w)
      BY DEF Init, InIdle, In
    <2>2. \A t \in Threads : pc[t] \in {"out", "ready", "prewarm"}
      BY DEF Init
    <2>3. \A w \in Workers : w \notin dirty /\ checkouts[w] = 0
      BY DEF Init
    <2> QED
      BY <2>1, <2>2, <2>3, OptionsAssumption DEF Fitness, FitAt
  <1>2. QED
    BY <1>1, FitnessStep, TypeAndShape, Ownership, RegistryIsExact, PTL DEF Spec

(***************************************************************************)
(* Session isolation: a worker that waits in p.idle or that Checkout is    *)
(* about to configure has been reset since its last session and has not    *)
(* been killed by the host.                                                *)
(***************************************************************************)
THEOREM Isolation == Spec => []SessionIsolation
  <1>1. TypeOK /\ Fitness => SessionIsolation
    BY DEF SessionIsolation, Fitness, Fit, Clean, FitAt, Threads
  <1>2. QED
    BY <1>1, TypeCorrect, FitnessHolds, PTL

(***************************************************************************)
(* MaxCheckoutsPerWorker is respected: no worker serves more sessions.     *)
(***************************************************************************)
THEOREM Recycling == Spec => []RecycleLimit
  <1>1. TypeOK /\ Fitness => RecycleLimit
    BY OptionsAssumption DEF TypeOK, RecycleLimit, Fitness, Fit, WornOut
  <1>2. QED
    BY <1>1, TypeCorrect, FitnessHolds, PTL
-----------------------------------------------------------------------------
(* The number of processes. *)

\* "returned" is where New ends, and EnterCheckout waits for it.
LEMMA NewIsAlone == Spec => []NewAlone
  <1>1. Init => NewAlone
    BY ThreadsAssumption DEF Init, NewAlone, Threads
  <1>2. TypeOK /\ NewAlone /\ [Next]_vars => NewAlone'
    <2> SUFFICES ASSUME TypeOK, NewAlone, [Next]_vars
                 PROVE  NewAlone'
      OBVIOUS
    <2>0. /\ DOMAIN pc = Threads /\ Creator \in Threads
          /\ \A c \in Clients : c \in Threads /\ c # Creator
          /\ \A t \in Closers : t \in Threads /\ t # Creator /\ t \notin Clients
      BY ThreadsAssumption DEF TypeOK, Threads
    <2>1. CASE Open
      <3>1. pc'[Creator] = "returned"
        <4>1. \/ UNCHANGED pc
              \/ \E t \in Threads : \E q : /\ pc[t] # "returned" /\ pc' = [pc EXCEPT ![t] = q]
          BY <2>0, NextCases
             DEF vars, Goto, Release, Prewarm, Fill, Prewarmed, PrewarmCancelled, PrewarmStartFails,
                 Finished, Spawn, SpawnFails, Register, RegisterClosed, DrainIdle,
                 DropDrained, Shutdown, DrainDone, CloseFirst, CloseAgain, EnterCheckout,
                 AcquireSlot, WaitTimesOut, WaitSeesClose, TakeIdle, NoIdle, GiveSlotBack,
                 CheckDone, CheckFails, Configure, ConfigureFails, SessionBreaks,
                 CloseSession, Reset, ResetFails, FreeSlot, Decide, PushIdle, IdleFull,
                 KillReleased, WorkerExits
        <4> QED
          BY <2>0, <2>1, <4>1 DEF Open
      <3> QED
        BY <3>1 DEF NewAlone, Open
    <2>2. CASE ~Open
      <3>1. \A c \in Clients : pc[c] = "out"
        BY <2>2 DEF NewAlone
      <3>2. \/ UNCHANGED pc
            \/ \E t \in Closers \cup {Creator} : \E q : pc' = [pc EXCEPT ![t] = q]
        BY <2>0, <2>2, <3>1, NextCases
           DEF vars, Goto, Release, Prewarm, Fill, Prewarmed, PrewarmCancelled, PrewarmStartFails,
               Finished, Spawn, SpawnFails, Register, RegisterClosed, DrainIdle,
               DropDrained, Shutdown, DrainDone, CloseFirst, CloseAgain, EnterCheckout,
               AcquireSlot, WaitTimesOut, WaitSeesClose, TakeIdle, NoIdle, GiveSlotBack,
               CheckDone, CheckFails, Configure, ConfigureFails, SessionBreaks,
               CloseSession, Reset, ResetFails, FreeSlot, Decide, PushIdle, IdleFull,
               KillReleased, WorkerExits
      <3> QED
        BY <2>0, <3>1, <3>2 DEF NewAlone
    <2> QED
      BY <2>1, <2>2
  <1>3. QED
    BY <1>1, <1>2, TypeCorrect, PTL DEF Spec

\* The image of a finite set is finite and not larger.
LEMMA ImageBound ==
  ASSUME NEW S, IsFiniteSet(S), NEW f
  PROVE  /\ IsFiniteSet({f[x] : x \in S})
         /\ Cardinality({f[x] : x \in S}) <= Cardinality(S)
  <1> DEFINE T == {f[x] : x \in S}
             g == [x \in S |-> f[x]]
  <1>1. g \in Surjection(S, T)
    BY DEF Surjection
  <1> QED
    BY <1>1, FS_Surjection

\* Cardinalities of unions, as far as a bound needs them.
LEMMA UnionBound ==
  ASSUME NEW A, IsFiniteSet(A), NEW B, IsFiniteSet(B)
  PROVE  /\ IsFiniteSet(A \cup B)
         /\ Cardinality(A \cup B) <= Cardinality(A) + Cardinality(B)
         /\ Cardinality(A) \in Nat /\ Cardinality(B) \in Nat /\ Cardinality(A \cup B) \in Nat
  <1>1. IsFiniteSet(A \cap B) /\ IsFiniteSet(A \cup B)
    BY FS_Intersection, FS_Union
  <1>2. Cardinality(A \cap B) \in Nat /\ Cardinality(A) \in Nat /\ Cardinality(B) \in Nat
        /\ Cardinality(A \cup B) \in Nat
    BY <1>1, FS_CardinalityType
  <1>3. Cardinality(A \cup B) = Cardinality(A) + Cardinality(B) - Cardinality(A \cap B)
    BY FS_Union
  <1> QED
    BY <1>1, <1>2, <1>3

(***************************************************************************)
(* Every process that has not been reaped is in p.idle, whose capacity is  *)
(* MaxProcesses; or with a client that owns one of the MaxProcesses        *)
(* tokens; or with a client that has given its token back and is inside    *)
(* release; or with a goroutine inside Close; or with New, which is alone. *)
(***************************************************************************)
LEMMA HoldersBound ==
  ASSUME TypeOK, HeldShape, SlotAccounting, NoOrphan, NewAlone
  PROVE  ProcessBound
  <1> DEFINE Live == {w \in Workers : proc[w] # "none"}
             S == {c \in Clients : pc[c] \in Slotted}
             R == {c \in Clients : pc[c] \in {"decide", "push", "kill"}}
             D == {t \in Closers : pc[t] \in Draining}
             N == 1..Len(idle)
             ofS == {held[t] : t \in S}
             ofR == {held[t] : t \in R}
             ofD == {held[t] : t \in D}
             ofN == {idle[i] : i \in N}
             Rest == ofN \cup (ofR \cup ofD)
  <1>1. /\ IsFiniteSet(S) /\ IsFiniteSet(R) /\ IsFiniteSet(D)
        /\ Cardinality(S) \in Nat /\ Cardinality(R) \in Nat /\ Cardinality(D) \in Nat
    <2>1. S \in SUBSET Clients /\ R \in SUBSET Clients /\ D \in SUBSET Closers
      OBVIOUS
    <2>2. IsFiniteSet(S) /\ IsFiniteSet(R) /\ IsFiniteSet(D)
      BY <2>1, FS_Subset, ThreadsAssumption
    <2> QED
      BY <2>2, FS_CardinalityType
  <1>2. Len(idle) \in Nat /\ Len(idle) <= MaxProcesses /\ MaxProcesses \in Nat \ {0}
    BY OptionsAssumption DEF TypeOK
  <1>3. IsFiniteSet(N) /\ Cardinality(N) = Len(idle)
    <2>1. Len(idle) \in Int /\ 1 \in Int
      BY <1>2
    <2>2. /\ IsFiniteSet(N)
          /\ Cardinality(N) = IF 1 > Len(idle) THEN 0 ELSE Len(idle) - 1 + 1
      BY <2>1, FS_Interval
    <2> QED
      BY <1>2, <2>2
  <1>4. Cardinality(S) <= MaxProcesses
    BY DEF SlotAccounting, TypeOK
  <1>5. /\ IsFiniteSet(ofS) /\ Cardinality(ofS) <= Cardinality(S)
        /\ IsFiniteSet(ofR) /\ Cardinality(ofR) <= Cardinality(R)
        /\ IsFiniteSet(ofD) /\ Cardinality(ofD) <= Cardinality(D)
        /\ IsFiniteSet(ofN) /\ Cardinality(ofN) <= Cardinality(N)
    <2> HIDE DEF S, R, D, N
    <2> QED
      BY <1>1, <1>3, ImageBound
  <1>6. /\ IsFiniteSet(Rest)
        /\ Cardinality(Rest) \in Nat
        /\ Cardinality(Rest) <= MaxProcesses + Cardinality(R) + Cardinality(D)
    <2> HIDE DEF S, R, D, N, ofS, ofR, ofD, ofN
    <2>1. /\ IsFiniteSet(ofR \cup ofD)
          /\ Cardinality(ofR \cup ofD) <= Cardinality(ofR) + Cardinality(ofD)
          /\ Cardinality(ofR) \in Nat /\ Cardinality(ofD) \in Nat
          /\ Cardinality(ofR \cup ofD) \in Nat
      BY <1>5, UnionBound
    <2>2. /\ IsFiniteSet(Rest)
          /\ Cardinality(Rest) <= Cardinality(ofN) + Cardinality(ofR \cup ofD)
          /\ Cardinality(ofN) \in Nat /\ Cardinality(Rest) \in Nat
      BY <1>5, <2>1, UnionBound
    <2> QED
      BY <1>1, <1>2, <1>3, <1>5, <2>1, <2>2
  <1>7. \A w \in Live : w \in Rest \cup ofS \/ w = held[Creator]
    <2> SUFFICES ASSUME NEW w \in Live, w \notin Rest, w \notin ofS
                 PROVE  w = held[Creator]
      OBVIOUS
    <2>1. ~InIdle(w)
      BY DEF InIdle, In
    <2>2. PICK t \in Threads : held[t] = w
      BY <2>1 DEF NoOrphan
    <2>3. pc[t] \in HoldingAt
      BY <2>2, ThreadsAssumption DEF HeldShape
    <2>4. t \notin Clients
      BY <2>2, <2>3 DEF TypeOK, HoldingAt, RegisteredAt, ClientStates, Slotted, Releasing
    <2>5. t \notin Closers
      BY <2>2, <2>3 DEF TypeOK, HoldingAt, RegisteredAt, CloserStates, Draining
    <2> QED
      BY <2>2, <2>4, <2>5 DEF Threads
  <1>8. PICK M : /\ Live \in SUBSET (Rest \cup M)
                 /\ IsFiniteSet(M) /\ Cardinality(M) <= MaxProcesses
    <2>1. CASE Open
      <3>1. Creator \in Threads /\ held[Creator] = NoWorker
        BY <2>1 DEF Open, HeldShape, HoldingAt, RegisteredAt, Threads
      <3>2. Live \in SUBSET (Rest \cup ofS)
        BY <1>7, <3>1, ThreadsAssumption
      <3>3. Cardinality(ofS) \in Nat
        BY <1>5, FS_CardinalityType
      <3> QED
        BY <1>1, <1>2, <1>4, <1>5, <3>2, <3>3
    <2>2. CASE ~Open
      <3>1. S = {}
        BY <2>2 DEF NewAlone, Slotted
      <3>2. Live \in SUBSET (Rest \cup {held[Creator]})
        BY <1>7, <3>1
      <3>3. IsFiniteSet({held[Creator]}) /\ Cardinality({held[Creator]}) = 1
        BY FS_Singleton
      <3> QED
        BY <1>2, <3>2, <3>3
    <2> QED
      BY <2>1, <2>2
  <1>9. /\ IsFiniteSet(Live) /\ Cardinality(Live) <= Cardinality(Rest) + Cardinality(M)
        /\ Cardinality(Live) \in Nat /\ Cardinality(M) \in Nat
    <2> HIDE DEF Live, Rest
    <2>1. /\ IsFiniteSet(Rest \cup M)
          /\ Cardinality(Rest \cup M) <= Cardinality(Rest) + Cardinality(M)
          /\ Cardinality(M) \in Nat /\ Cardinality(Rest \cup M) \in Nat
      BY <1>6, <1>8, UnionBound
    <2>2. IsFiniteSet(Live) /\ Cardinality(Live) <= Cardinality(Rest \cup M)
      BY <1>8, <2>1, FS_Subset
    <2>3. Cardinality(Live) \in Nat
      BY <2>2, FS_CardinalityType
    <2> QED
      BY <1>6, <2>1, <2>2, <2>3
  <1>10. Cardinality(Live) <= 2 * MaxProcesses + Cardinality(R) + Cardinality(D)
    <2> HIDE DEF Live, Rest, R, D
    <2> QED
      BY <1>1, <1>2, <1>6, <1>8, <1>9
  <1> QED
    BY <1>10 DEF ProcessBound

(***************************************************************************)
(* However many goroutines call the pool, it has at most 2 * MaxProcesses  *)
(* processes besides those in the hands of a release or a Close that has   *)
(* given its token back and not yet finished.                              *)
(***************************************************************************)
THEOREM ProcessesBounded == Spec => []ProcessBound
  BY HoldersBound, TypeAndShape, SlotsAccounted, NothingOrphaned, NewIsAlone, PTL

(***************************************************************************)
(* What can outlive the pool.  That Close leaves workers behind is shown   *)
(* by NoWorkerOutlivesPool, which does not hold; they are no more than     *)
(* MaxProcesses, all of them lie in p.idle, which a second Close does not  *)
(* drain, and each was reset and could have served another session.        *)
(***************************************************************************)
AtRest ==
  /\ pc[Creator] \in {"returned", "failed"}
  /\ \A t \in Closers : pc[t] \in {"ready", "returned"}
  /\ \A c \in Clients : pc[c] = "out"

OnlyIdleLeft ==
  AtRest => /\ \A w \in Workers : proc[w] # "none" => InIdle(w) /\ Fit(w)
            /\ Cardinality({w \in Workers : proc[w] # "none"}) <= MaxProcesses

\* When no goroutine is in a call of the pool or has a session, the only
\* processes are those in p.idle, at most MaxProcesses, whatever was closed,
\* failed or raced before.
THEOREM OnlyIdleWorkersLeft == Spec => []OnlyIdleLeft
  <1>1. TypeOK /\ HeldShape /\ NoOrphan /\ Fitness => OnlyIdleLeft
    <2> SUFFICES ASSUME TypeOK, HeldShape, NoOrphan, Fitness, AtRest
                 PROVE  /\ \A w \in Workers : proc[w] # "none" => InIdle(w) /\ Fit(w)
                        /\ Cardinality({w \in Workers : proc[w] # "none"}) <= MaxProcesses
      BY DEF OnlyIdleLeft
    <2> DEFINE Live == {w \in Workers : proc[w] # "none"}
               N == 1..Len(idle)
               ofN == {idle[i] : i \in N}
    <2>1. \A t \in Threads : held[t] = NoWorker
      BY DEF AtRest, HeldShape, HoldingAt, RegisteredAt, Threads
    <2>2. \A w \in Live : InIdle(w)
      BY <2>1, ThreadsAssumption DEF NoOrphan
    <2>3. Live \in SUBSET ofN
      BY <2>2 DEF InIdle, In
    <2>4. Len(idle) \in Nat /\ Len(idle) <= MaxProcesses /\ MaxProcesses \in Nat
      BY OptionsAssumption DEF TypeOK
    <2>5. IsFiniteSet(N) /\ Cardinality(N) = Len(idle)
      <3>1. Len(idle) \in Int /\ 1 \in Int
        BY <2>4
      <3>2. /\ IsFiniteSet(N)
            /\ Cardinality(N) = IF 1 > Len(idle) THEN 0 ELSE Len(idle) - 1 + 1
        BY <3>1, FS_Interval
      <3> QED
        BY <2>4, <3>2
    <2>6. IsFiniteSet(ofN) /\ Cardinality(ofN) <= Cardinality(N)
      <3> HIDE DEF N
      <3> QED
        BY <2>5, ImageBound
    <2>7. IsFiniteSet(Live) /\ Cardinality(Live) <= Cardinality(ofN)
      <3> HIDE DEF Live, ofN
      <3> QED
        BY <2>3, <2>6, FS_Subset
    <2>8. Cardinality(Live) \in Nat /\ Cardinality(ofN) \in Nat
      <3> HIDE DEF Live, ofN
      <3> QED
        BY <2>6, <2>7, FS_CardinalityType
    <2>9. Cardinality(Live) <= MaxProcesses
      <3> HIDE DEF Live, ofN, N
      <3> QED
        BY <2>4, <2>5, <2>6, <2>7, <2>8
    <2>10. \A w \in Live : Fit(w)
      BY <2>2 DEF Fitness
    <2> QED
      BY <2>2, <2>9, <2>10
  <1> QED
    BY <1>1, TypeAndShape, NothingOrphaned, FitnessHolds, PTL
=============================================================================
