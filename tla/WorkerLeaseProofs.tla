-------------------------- MODULE WorkerLeaseProofs --------------------------
(***************************************************************************)
(* WorkerPool implements WorkerLease: the initial states map to initial    *)
(* states, and every step of a goroutine maps to one step of the lease, or *)
(* leaves owner and used alone.                                            *)
(***************************************************************************)
EXTENDS WorkerPoolProofs

-----------------------------------------------------------------------------
(* The refinement mapping. *)

(***************************************************************************)
(* What the CHOOSE of OwnerOf picks.  The holder is the owner because no   *)
(* other goroutine holds the same worker.                                  *)
(***************************************************************************)
OwnerIs ==
  \A w \in Workers :
    /\ \A t \in Threads : held[t] = w => OwnerOf(w) = t
    /\ (\A t \in Threads : held[t] # w) /\ InIdle(w) => OwnerOf(w) = Pool
    /\ (\A t \in Threads : held[t] # w) /\ ~InIdle(w) => OwnerOf(w) = Nobody

LEMMA OwnerDetermined == Spec => []OwnerIs
  <1>1. ExclusiveOwnership => OwnerIs
    <2> SUFFICES ASSUME ExclusiveOwnership, NEW w \in Workers
                 PROVE  /\ \A t \in Threads : held[t] = w => OwnerOf(w) = t
                        /\ (\A t \in Threads : held[t] # w) /\ InIdle(w) => OwnerOf(w) = Pool
                        /\ (\A t \in Threads : held[t] # w) /\ ~InIdle(w) => OwnerOf(w) = Nobody
      BY DEF OwnerIs
    <2>1. ASSUME NEW t \in Threads, held[t] = w
          PROVE  OwnerOf(w) = t
      <3>1. \A u \in Threads : held[u] = w => u = t
        BY <2>1, ThreadsAssumption DEF ExclusiveOwnership
      <3>2. OwnerOf(w) = CHOOSE u \in Threads : held[u] = w
        BY <2>1 DEF OwnerOf
      <3> QED
        BY <2>1, <3>1, <3>2
    <2> QED
      BY <2>1 DEF OwnerOf
  <1>2. QED
    BY <1>1, Exclusive, PTL

\* A worker with the same holder, in p.idle or not as before, has the same owner.
LEMMA OwnerKept ==
  ASSUME OwnerIs, OwnerIs', NEW w \in Workers,
         \A t \in Threads : held'[t] = w <=> held[t] = w,
         InIdle(w)' <=> InIdle(w)
  PROVE  OwnerOf(w)' = OwnerOf(w)
  <1>1. CASE \E t \in Threads : held[t] = w
    <2>1. PICK t \in Threads : held[t] = w /\ held'[t] = w
      BY <1>1
    <2> QED
      BY <2>1 DEF OwnerIs
  <1>2. CASE (\A t \in Threads : held[t] # w) /\ InIdle(w)
    BY <1>2 DEF OwnerIs
  <1>3. CASE (\A t \in Threads : held[t] # w) /\ ~InIdle(w)
    BY <1>3 DEF OwnerIs
  <1> QED
    BY <1>1, <1>2, <1>3

\* A step that changes the owner of one worker is a Pass of the lease.
LEMMA PassOne ==
  ASSUME NEW w \in Workers, NEW a, NEW b,
         OwnerOf(w) = a, OwnerOf(w)' = b,
         \A v \in Workers \ {w} : OwnerOf(v)' = OwnerOf(v)
  PROVE  Lease!Pass(w, a, b)
  BY DEF Lease!Pass

\* A step that touches neither hands nor queue moves no lease.
LEMMA OwnersKept ==
  ASSUME held' = held, idle' = idle
  PROVE  [w \in Workers |-> OwnerOf(w)]' = [w \in Workers |-> OwnerOf(w)]
  BY DEF OwnerOf, InIdle
-----------------------------------------------------------------------------
(* One lemma for each kind of step of the lease. *)

LEMMA LeaseCreate ==
  ASSUME TypeOK, OwnedIsLive, OwnerIs, OwnerIs',
         NEW t \in Threads, NEW w \in Workers, held[t] = NoWorker, proc[w] = "none",
         held' = [held EXCEPT ![t] = w], idle' = idle, dirty' = dirty
  PROVE  Lease!Next
  <1>1. \A u \in Threads : held'[u] = IF u = t THEN w ELSE held[u]
    BY DEF TypeOK
  <1>2. \A v : InIdle(v)' <=> InIdle(v)
    BY DEF InIdle
  <1>3. OwnerOf(w) = Nobody
    BY ThreadsAssumption DEF OwnedIsLive, OwnerIs
  <1>4. OwnerOf(w)' = t
    BY <1>1 DEF OwnerIs
  <1>5. ASSUME NEW v \in Workers \ {w}
        PROVE  OwnerOf(v)' = OwnerOf(v)
    <2>1. \A u \in Threads : held'[u] = v <=> held[u] = v
      BY <1>1, ThreadsAssumption
    <2> QED
      BY <1>2, <2>1, OwnerKept
  <1>6. Lease!Pass(w, Nobody, t)
    BY <1>3, <1>4, <1>5, PassOne
  <1>7. Lease!Create(t, w)
    BY <1>6 DEF Lease!Create
  <1> QED
    BY <1>7 DEF Lease!Next

LEMMA LeaseLend ==
  ASSUME TypeOK, ExclusiveOwnership, OwnerIs, OwnerIs',
         NEW t \in Threads, held[t] = NoWorker, idle # <<>>,
         held' = [held EXCEPT ![t] = Head(idle)], idle' = Tail(idle), dirty' = dirty
  PROVE  Lease!Next
  <1>0. PICK w : w = Head(idle)
    OBVIOUS
  <1>1. \A u \in Threads : held'[u] = IF u = t THEN w ELSE held[u]
    BY <1>0 DEF TypeOK
  <1>2. idle \in Seq(Workers) /\ Distinct(idle)
    BY DEF TypeOK, ExclusiveOwnership
  <1>3. /\ w \in Workers /\ InIdle(w)
        /\ \A v : InIdle(v)' <=> InIdle(v) /\ v # w
    BY <1>0, <1>2, PopIn DEF InIdle
  <1>4. OwnerOf(w) = Pool
    BY <1>3 DEF ExclusiveOwnership, OwnerIs
  <1>5. OwnerOf(w)' = t
    BY <1>1, <1>3 DEF OwnerIs
  <1>6. ASSUME NEW v \in Workers \ {w}
        PROVE  OwnerOf(v)' = OwnerOf(v)
    <2>1. \A u \in Threads : held'[u] = v <=> held[u] = v
      BY <1>1, ThreadsAssumption
    <2> QED
      BY <1>3, <2>1, OwnerKept
  <1>7. Lease!Pass(w, Pool, t)
    BY <1>3, <1>4, <1>5, <1>6, PassOne
  <1>8. Lease!Lend(t, w)
    BY <1>7 DEF Lease!Lend
  <1> QED
    BY <1>3, <1>8 DEF Lease!Next

LEMMA LeaseGiveBack ==
  ASSUME TypeOK, ExclusiveOwnership, OwnerIs, OwnerIs',
         NEW t \in Threads, held[t] \in Workers, held[t] \notin dirty,
         held' = [held EXCEPT ![t] = NoWorker], idle' = Append(idle, held[t]), dirty' = dirty
  PROVE  Lease!Next
  <1>0. PICK w : w = held[t]
    OBVIOUS
  <1>1. /\ \A u \in Threads : held'[u] = IF u = t THEN NoWorker ELSE held[u]
        /\ w \in Workers /\ w # NoWorker
    BY <1>0, ThreadsAssumption DEF TypeOK
  <1>2. \A v : InIdle(v)' <=> InIdle(v) \/ v = w
    BY <1>0, <1>1, PushIn DEF TypeOK, InIdle
  <1>3. OwnerOf(w) = t
    BY <1>0, <1>1 DEF OwnerIs
  <1>4. \A u \in Threads : held'[u] # w
    BY <1>0, <1>1 DEF ExclusiveOwnership
  <1>5. OwnerOf(w)' = Pool
    BY <1>1, <1>2, <1>4 DEF OwnerIs
  <1>6. ASSUME NEW v \in Workers \ {w}
        PROVE  OwnerOf(v)' = OwnerOf(v)
    <2>1. \A u \in Threads : held'[u] = v <=> held[u] = v
      BY <1>0, <1>1, ThreadsAssumption
    <2> QED
      BY <1>2, <2>1, OwnerKept
  <1>7. Lease!Pass(w, t, Pool)
    BY <1>1, <1>3, <1>5, <1>6, PassOne
  <1>8. Lease!GiveBack(t, w)
    BY <1>0, <1>7 DEF Lease!GiveBack
  <1> QED
    BY <1>1, <1>8 DEF Lease!Next

LEMMA LeaseDestroy ==
  ASSUME TypeOK, ExclusiveOwnership, OwnerIs, OwnerIs',
         NEW t \in Threads, held[t] \in Workers, Kill(held[t]), Drop(t), idle' = idle
  PROVE  Lease!Next
  <1>0. PICK w : w = held[t]
    OBVIOUS
  <1>1. /\ \A u \in Threads : held'[u] = IF u = t THEN NoWorker ELSE held[u]
        /\ w \in Workers /\ w # NoWorker /\ dirty' = dirty \ {w}
    BY <1>0, ThreadsAssumption DEF TypeOK, Drop, Kill
  <1>2. \A v : InIdle(v)' <=> InIdle(v)
    BY DEF InIdle
  <1>3. OwnerOf(w) = t
    BY <1>0, <1>1 DEF OwnerIs
  <1>4. ~InIdle(w) /\ \A u \in Threads : held'[u] # w
    BY <1>0, <1>1 DEF ExclusiveOwnership
  <1>5. OwnerOf(w)' = Nobody
    BY <1>1, <1>2, <1>4 DEF OwnerIs
  <1>6. ASSUME NEW v \in Workers \ {w}
        PROVE  OwnerOf(v)' = OwnerOf(v)
    <2>1. \A u \in Threads : held'[u] = v <=> held[u] = v
      BY <1>0, <1>1, ThreadsAssumption
    <2> QED
      BY <1>2, <2>1, OwnerKept
  <1>7. Lease!Pass(w, t, Nobody)
    BY <1>1, <1>3, <1>5, <1>6, PassOne
  <1>8. Lease!Destroy(t, w)
    BY <1>1, <1>7 DEF Lease!Destroy
  <1> QED
    BY <1>1, <1>8 DEF Lease!Next

\* Configure starts a session in the worker, Reset clears what it left.
LEMMA LeaseUse ==
  ASSUME OwnerIs, NEW t \in Threads, held[t] \in Workers, held' = held, idle' = idle,
         dirty' = dirty \cup {held[t]} \/ dirty' = dirty \ {held[t]}
  PROVE  Lease!Next
  <1>0. PICK w : w = held[t]
    OBVIOUS
  <1>1. w \in Workers /\ OwnerOf(w) = t
    BY <1>0 DEF OwnerIs
  <1>2. [v \in Workers |-> OwnerOf(v)]' = [v \in Workers |-> OwnerOf(v)]
    BY OwnersKept
  <1>3. Lease!Use(t, w) \/ Lease!Clear(t, w)
    BY <1>0, <1>1, <1>2 DEF Lease!Use, Lease!Clear
  <1> QED
    BY <1>1, <1>3 DEF Lease!Next

\* Every other step is invisible to the lease.
LEMMA LeaseStutters ==
  ASSUME UNCHANGED <<held, idle, dirty>>
  PROVE  UNCHANGED Lease!leaseVars
  BY OwnersKept DEF Lease!leaseVars
-----------------------------------------------------------------------------
(* The simulation. *)

LEMMA LeaseStep ==
  ASSUME TypeOK, HeldShape, ExclusiveOwnership, OwnedIsLive, Fitness,
         OwnerIs, OwnerIs', [Next]_vars
  PROVE  [Lease!Next]_(Lease!leaseVars)
  <1>0. /\ \A t \in Threads : held[t] \in Workers \cup {NoWorker}
        /\ \A t \in Threads : held[t] # NoWorker <=> pc[t] \in HoldingAt
        /\ Creator \in Threads
        /\ \A t \in Clients \cup Closers : t \in Threads
    BY DEF TypeOK, HeldShape, Threads
  <1>1. ASSUME NEW t \in Clients \cup {Creator}, Spawn(t)
        PROVE  Lease!Next
    <2>1. PICK w \in Workers : proc[w] = "none" /\ held' = [held EXCEPT ![t] = w]
      BY <1>1 DEF Spawn
    <2>2. t \in Threads /\ held[t] = NoWorker /\ idle' = idle /\ dirty' = dirty
      BY <1>0, <1>1 DEF Spawn, Goto, HoldingAt, RegisteredAt
    <2> QED
      BY <2>1, <2>2, LeaseCreate
  <1>2. CASE Fill
    <2>1. held[Creator] \in Workers /\ held[Creator] \notin dirty
      BY <1>0, <1>2 DEF Fill, Goto, HoldingAt, RegisteredAt, Fitness, FitAt, Fit, Clean
    <2> QED
      BY <1>0, <1>2, <2>1, LeaseGiveBack DEF Fill, Drop
  <1>3. ASSUME NEW c \in Clients, PushIdle(c)
        PROVE  Lease!Next
    <2>1. c \in Threads /\ held[c] \in Workers /\ held[c] \notin dirty
      BY <1>0, <1>3 DEF PushIdle, Goto, HoldingAt, RegisteredAt, Fitness, FitAt, Fit, Clean
    <2> QED
      BY <1>3, <2>1, LeaseGiveBack DEF PushIdle, Drop
  <1>4. ASSUME NEW c \in Clients, TakeIdle(c)
        PROVE  Lease!Next
    <2>1. c \in Threads /\ held[c] = NoWorker
      BY <1>0, <1>4 DEF TakeIdle, Goto, HoldingAt, RegisteredAt
    <2> QED
      BY <1>4, <2>1, LeaseLend DEF TakeIdle
  <1>5. ASSUME NEW t \in Closers \cup {Creator}, DrainIdle(t)
        PROVE  Lease!Next
    <2>1. t \in Threads /\ held[t] = NoWorker
      BY <1>0, <1>5 DEF DrainIdle, Goto, HoldingAt, RegisteredAt
    <2> QED
      BY <1>5, <2>1, LeaseLend DEF DrainIdle
  <1>6. ASSUME NEW t \in Threads, RegisterClosed(t) \/ KillReleased(t) \/ Shutdown(t)
        PROVE  Lease!Next
    <2>1. held[t] \in Workers /\ Kill(held[t]) /\ Drop(t) /\ idle' = idle
      BY <1>0, <1>6 DEF RegisterClosed, KillReleased, Shutdown, Goto, HoldingAt, RegisteredAt
    <2> QED
      BY <2>1, LeaseDestroy
  <1>7. ASSUME NEW c \in Clients, Configure(c) \/ Reset(c)
        PROVE  Lease!Next
    <2>1. /\ c \in Threads /\ held[c] \in Workers /\ held' = held /\ idle' = idle
          /\ dirty' = dirty \cup {held[c]} \/ dirty' = dirty \ {held[c]}
      BY <1>0, <1>7 DEF Configure, Reset, Release, Goto, HoldingAt, RegisteredAt
    <2> QED
      BY <2>1, LeaseUse
  <1>8. CASE UNCHANGED <<held, idle, dirty>>
    BY <1>8, LeaseStutters
  <1>9. CASE \/ Prewarm \/ Prewarmed \/ PrewarmCancelled \/ PrewarmStartFails \/ Finished
             \/ UNCHANGED vars
    BY <1>8, <1>9
       DEF Prewarm, Prewarmed, PrewarmCancelled, PrewarmStartFails, Finished, vars
  <1>10. ASSUME NEW t \in Threads,
                \/ SpawnFails(t) \/ Register(t) \/ DropDrained(t) \/ DrainDone(t)
                \/ CloseFirst(t) \/ CloseAgain(t)
         PROVE  UNCHANGED <<held, idle, dirty>>
    BY <1>10 DEF SpawnFails, Register, DropDrained, DrainDone, CloseFirst, CloseAgain
  <1>11. ASSUME NEW c \in Clients,
                \/ EnterCheckout(c) \/ AcquireSlot(c) \/ WaitTimesOut(c) \/ WaitSeesClose(c)
                \/ NoIdle(c) \/ GiveSlotBack(c) \/ CheckDone(c) \/ CheckFails(c)
                \/ ConfigureFails(c) \/ SessionBreaks(c) \/ CloseSession(c) \/ ResetFails(c)
                \/ FreeSlot(c) \/ Decide(c) \/ IdleFull(c)
         PROVE  UNCHANGED <<held, idle, dirty>>
    BY <1>11 DEF EnterCheckout, AcquireSlot, WaitTimesOut, WaitSeesClose, NoIdle,
                 GiveSlotBack, CheckDone, CheckFails, ConfigureFails, SessionBreaks,
                 CloseSession, ResetFails, FreeSlot, Decide, IdleFull
  <1>12. ASSUME NEW w \in Workers, WorkerExits(w)
         PROVE  UNCHANGED <<held, idle, dirty>>
    BY <1>12 DEF WorkerExits
  <1> QED
    BY <1>0, <1>1, <1>2, <1>3, <1>4, <1>5, <1>6, <1>7, <1>8, <1>9, <1>10, <1>11, <1>12,
       NextCases

(***************************************************************************)
(* The pool of pool.go implements WorkerLease: whatever New, Checkout,     *)
(* release, Close and crashing workers interleave, a process passes from   *)
(* one goroutine to another only through p.idle, enters p.idle only after  *)
(* what a session left in it was reset, and is destroyed only by the       *)
(* goroutine that holds it.                                                *)
(***************************************************************************)
THEOREM PoolImplementsLease == Spec => LeaseSpec
  <1>1. Init => Lease!Init
    <2> SUFFICES ASSUME Init
                 PROVE  Lease!Init
      OBVIOUS
    <2>1. \A w \in Workers : OwnerOf(w) = Nobody
      BY ThreadsAssumption DEF Init, OwnerOf, InIdle, In
    <2> QED
      BY <2>1 DEF Init, Lease!Init
  <1>2. QED
    BY <1>1, LeaseStep, OwnerDetermined, TypeAndShape, Ownership, FitnessHolds, PTL
       DEF Spec, LeaseSpec, Lease!Spec
=============================================================================
