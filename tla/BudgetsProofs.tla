--------------------------- MODULE BudgetsProofs ---------------------------
(***************************************************************************)
(* Proofs about Budgets, for any options, delays, units and bounds.        *)
(***************************************************************************)
EXTENDS Budgets, TLAPS

Amounts == 0..MaxTicks

SessionRecords ==
  [maxSuspensions : Nat, maxTotalSleep : Amounts, hasSleepLimit : BOOLEAN,
   maxDuration : Amounts, systemSleepMax : Amounts \cup {UnlimitedSleep}, sleepUsed : Amounts]

WorkerRecords ==
  [maxSuspensions : Nat, maxTotalSleep : Amounts \cup {NoLimit}, mode : SleepModes,
   call : Amounts \cup {NoSleep}, round : Nat, slept : Amounts, under : SUBSET Options]

Images ==
  [exists : {TRUE}, suspended : BOOLEAN, vm : WorkerRecords, suspensions : Nat,
   sleepUsed : Amounts, duration : Amounts]

(***************************************************************************)
(* The records the host, the worker and a dump consist of.                 *)
(***************************************************************************)
Records ==
  /\ phase \in {"fresh", "idle", "running", "suspended"}
  /\ session \in SessionRecords
  /\ run \in Nat
  /\ vm \in WorkerRecords
  /\ image \in Images \cup {NoImage}
  /\ feeds \in 0..MaxFeeds /\ chain \in 1..MaxSessions

(***************************************************************************)
(* SuspensionsCounted, and what it rests on: the host counts what happens, *)
(* and the count goes with the dump of a suspended feed.                   *)
(***************************************************************************)
Counted ==
  /\ phase \in {"running", "suspended"} => run = vm.round
  /\ phase = "suspended" => vm.round <= Limit(session)
  /\ image.exists => (image.suspended => image.suspensions = image.vm.round)

\* The account covers what the worker has slept and the whole of the sleep it is
\* suspended in, whatever part of it a session with a lower cap will wait.
Covers(account, w, suspended) ==
  /\ w.slept <= account
  /\ suspended /\ w.call # NoSleep => Least(w.slept + w.call, MaxTicks) <= account

(***************************************************************************)
(* SleepPaidFor, and what it rests on: the account of the session, and the *)
(* one in the dump.                                                        *)
(***************************************************************************)
Paid ==
  /\ Covers(session.sleepUsed, vm, phase = "suspended")
  /\ phase = "suspended" /\ vm.call # NoSleep /\ session.hasSleepLimit
       => session.sleepUsed <= session.maxTotalSleep
  /\ image.exists => Covers(image.sleepUsed, image.vm, image.suspended)

\* The worker's own limit on sleep, in microseconds.
WorkerInherits(w) ==
  \A o \in w.under : o.sleep > 0 => w.maxTotalSleep # NoLimit /\ w.maxTotalSleep * Micro <= o.sleep

DurationInherited(duration, w) ==
  \A o \in w.under : o.duration > 0 => duration > 0 /\ duration <= o.duration

(***************************************************************************)
(* LimitsInherited, and what it rests on: the dump and the worker carry    *)
(* the limits of all sessions so far.                                      *)
(***************************************************************************)
Inherited ==
  /\ LimitsInherited
  /\ WorkerInherits(vm)
  /\ image.exists => WorkerInherits(image.vm) /\ DurationInherited(image.duration, image.vm)

\* Rounding down to whole microseconds.
LEMMA WholeMicros ==
  ASSUME NEW n \in Nat
  PROVE  n \div Micro \in Nat /\ (n \div Micro) * Micro \in Nat /\ (n \div Micro) * Micro <= n
  BY BudgetsAssumption, Z3

LEMMA MicrosMonotone ==
  ASSUME NEW a \in Nat, NEW b \in Nat, a <= b
  PROVE  a * Micro \in Nat /\ b * Micro \in Nat /\ a * Micro <= b * Micro
  BY BudgetsAssumption, Z3

LEMMA Capping ==
  ASSUME NEW d \in Amounts, NEW cap \in Amounts \cup {UnlimitedSleep}
  PROVE  /\ Capped(d, cap) \in Amounts /\ Capped(d, cap) <= d
         /\ Capped(Capped(d, cap), cap) = Capped(d, cap)
  BY BudgetsAssumption DEF Amounts, Capped, Least

\* What the worker's limit is for the host.
LEMMA LimitInTicks ==
  ASSUME NEW n \in Nat
  PROVE  /\ Least(n, MaxTicks \div Micro) * Micro \in Amounts
         /\ n * Micro \in Nat
         /\ Least(n, MaxTicks \div Micro) * Micro <= n * Micro
  <1>1. /\ MaxTicks \in Nat /\ MaxTicks \div Micro \in Nat
        /\ (MaxTicks \div Micro) * Micro \in Nat /\ (MaxTicks \div Micro) * Micro <= MaxTicks
    BY BudgetsAssumption, WholeMicros
  <1>2. CASE n <= MaxTicks \div Micro
    <2>1. n * Micro \in Nat /\ n * Micro <= (MaxTicks \div Micro) * Micro
      BY <1>1, <1>2, MicrosMonotone
    <2>2. Least(n, MaxTicks \div Micro) = n
      BY <1>2 DEF Least
    <2> QED
      BY <1>1, <2>1, <2>2 DEF Amounts
  <1>3. CASE ~(n <= MaxTicks \div Micro)
    <2>1. n * Micro \in Nat /\ (MaxTicks \div Micro) * Micro <= n * Micro
      BY <1>1, <1>3, MicrosMonotone
    <2>2. Least(n, MaxTicks \div Micro) = MaxTicks \div Micro
      BY <1>3 DEF Least
    <2> QED
      BY <1>1, <2>1, <2>2 DEF Amounts
  <1> QED
    BY <1>2, <1>3

\* observeEvent makes no limit looser and takes over the worker's.
LEMMA Observing ==
  ASSUME NEW s \in SessionRecords, NEW w \in WorkerRecords, NEW t, t = Observe(s, w)
  PROVE  /\ t \in SessionRecords
         /\ t.sleepUsed = s.sleepUsed /\ t.maxDuration = s.maxDuration
         /\ t.systemSleepMax = s.systemSleepMax
         /\ s.hasSleepLimit => t.hasSleepLimit /\ t.maxTotalSleep <= s.maxTotalSleep
         /\ w.maxTotalSleep # NoLimit
              => t.hasSleepLimit /\ t.maxTotalSleep <= w.maxTotalSleep * Micro
  <1> DEFINE limit == Least(w.maxTotalSleep, MaxTicks \div Micro) * Micro
             known == w.maxTotalSleep # NoLimit
             most == IF w.maxSuspensions > 0 THEN w.maxSuspensions ELSE s.maxSuspensions
             total == IF known /\ (~s.hasSleepLimit \/ limit < s.maxTotalSleep)
                      THEN limit ELSE s.maxTotalSleep
  <1>1. known => limit \in Amounts /\ w.maxTotalSleep * Micro \in Nat /\ limit <= w.maxTotalSleep * Micro
    <2>1. known => w.maxTotalSleep \in Nat
      BY BudgetsAssumption DEF WorkerRecords, Amounts
    <2> QED
      BY <2>1, LimitInTicks
  <1>2. s.maxTotalSleep \in Amounts /\ s.hasSleepLimit \in BOOLEAN /\ most \in Nat
    BY DEF SessionRecords, WorkerRecords
  <1> HIDE DEF limit
  <1>3. total \in Amounts
    BY <1>1, <1>2
  <1>4. s.hasSleepLimit => total <= s.maxTotalSleep
    BY <1>1, <1>2, BudgetsAssumption DEF Amounts
  <1>5. known => total <= w.maxTotalSleep * Micro
    BY <1>1, <1>2, BudgetsAssumption DEF Amounts
  <1>6. t = [s EXCEPT !.maxSuspensions = most, !.maxTotalSleep = total,
                      !.hasSleepLimit = s.hasSleepLimit \/ known]
    BY DEF Observe, limit
  <1> HIDE DEF total, most, known
  <1>7. /\ t \in SessionRecords /\ t.maxTotalSleep = total /\ t.hasSleepLimit = (s.hasSleepLimit \/ known)
        /\ t.sleepUsed = s.sleepUsed /\ t.maxDuration = s.maxDuration
        /\ t.systemSleepMax = s.systemSleepMax
    BY <1>2, <1>3, <1>6 DEF SessionRecords
  <1> QED
    BY <1>4, <1>5, <1>7 DEF known

LEMMA Waiting ==
  ASSUME NEW s \in SessionRecords, NEW w \in WorkerRecords
  PROVE  /\ Wait(s, w) \in Amounts
         /\ w.call = NoSleep => Wait(s, w) = 0
         /\ w.call # NoSleep => w.call \in Amounts /\ Wait(s, w) <= w.call
  <1>1. w.call # NoSleep => w.call \in Amounts
    BY DEF WorkerRecords
  <1>2. s.systemSleepMax \in Amounts \cup {UnlimitedSleep}
    BY DEF SessionRecords
  <1>3. 0 \in Amounts
    BY BudgetsAssumption DEF Amounts
  <1> QED
    BY <1>1, <1>2, <1>3, Capping DEF Wait

LEMMA Charging ==
  ASSUME NEW s \in SessionRecords, NEW w \in WorkerRecords, NEW charged \in BOOLEAN,
         NEW t, t = Charge(s, w, charged)
  PROVE  /\ t \in SessionRecords
         /\ t.maxSuspensions = s.maxSuspensions /\ t.maxTotalSleep = s.maxTotalSleep
         /\ t.hasSleepLimit = s.hasSleepLimit /\ t.maxDuration = s.maxDuration
         /\ t.systemSleepMax = s.systemSleepMax
         /\ t.sleepUsed = IF charged THEN s.sleepUsed
                          ELSE Least(s.sleepUsed + Wait(s, w), MaxTicks)
  <1>1. s.sleepUsed \in Amounts /\ Wait(s, w) \in Amounts
    BY Waiting DEF SessionRecords
  <1>2. Least(s.sleepUsed + Wait(s, w), MaxTicks) \in Amounts
    BY <1>1, BudgetsAssumption DEF Amounts, Least
  <1> QED
    BY <1>2 DEF Charge, SessionRecords

\* progress for a suspension, from the session after observeEvent.
LEMMA Progressing ==
  ASSUME NEW s \in SessionRecords, NEW n \in Nat, NEW w \in WorkerRecords, NEW charged \in BOOLEAN,
         Progress(s, n, w, charged)
  PROVE  /\ phase' \in {"idle", "suspended"} /\ run' = n
         /\ session' \in SessionRecords /\ vm' \in WorkerRecords
         /\ session'.maxSuspensions = s.maxSuspensions /\ session'.maxTotalSleep = s.maxTotalSleep
         /\ session'.hasSleepLimit = s.hasSleepLimit /\ session'.maxDuration = s.maxDuration
         /\ session'.systemSleepMax = s.systemSleepMax
         /\ vm'.under = w.under /\ vm'.maxTotalSleep = w.maxTotalSleep
         /\ vm'.slept = w.slept /\ vm'.round = w.round
         /\ phase' = "idle" => session'.sleepUsed = s.sleepUsed
         /\ phase' = "suspended" =>
              /\ ~TooMany(s, n) /\ ~TooLong(s, w, charged)
              /\ vm'.call = w.call
              /\ session'.sleepUsed = IF charged THEN s.sleepUsed
                                      ELSE Least(s.sleepUsed + Wait(s, w), MaxTicks)
  <1>1. CASE TooMany(s, n) \/ TooLong(s, w, charged)
    BY <1>1 DEF Progress, WorkerRecords
  <1>2. CASE ~(TooMany(s, n) \/ TooLong(s, w, charged))
    <2>1. /\ phase' = "suspended" /\ run' = n /\ vm' = w /\ session' = Charge(s, w, charged)
          /\ ~TooMany(s, n) /\ ~TooLong(s, w, charged)
      BY <1>2 DEF Progress
    <2> QED
      BY <2>1, Charging
  <1> QED
    BY <1>1, <1>2

LEMMA NewRecords ==
  ASSUME NEW o \in Options, PolicyAccepted(o)
  PROVE  /\ NewSession(o) \in SessionRecords /\ NewWorker(o) \in WorkerRecords
         /\ NewSession(o).sleepUsed = 0 /\ NewWorker(o).slept = 0
         /\ NewWorker(o).under = {o} /\ WorkerInherits(NewWorker(o))
         /\ o.duration > 0 => NewSession(o).maxDuration = o.duration
         /\ o.sleep > 0 => NewSession(o).hasSleepLimit /\ NewSession(o).maxTotalSleep = o.sleep
  <1>1. /\ o.suspensions \in Nat /\ o.sleep \in Amounts /\ o.duration \in Amounts /\ o.mode \in SleepModes
        /\ 0 \in Amounts /\ DefaultCap \in Amounts
    BY BudgetsAssumption DEF Fields, Amounts
  <1>2. SleepCap(o) \in Amounts \cup {UnlimitedSleep}
    <2>1. CASE o.max = <<>>
      BY <1>1, <2>1 DEF SleepCap
    <2>2. CASE o.max # <<>>
      <3>1. PICK n \in -2..MaxTicks : o.max = <<n>>
        BY <2>2, BudgetsAssumption DEF Fields
      <3>2. n # UnlimitedSleep => n \in Nat
        BY <2>2, <3>1, BudgetsAssumption DEF PolicyAccepted
      <3>3. n \in Nat => (n \div Micro) * Micro \in Amounts
        BY WholeMicros, BudgetsAssumption DEF Amounts
      <3> QED
        BY <2>2, <3>1, <3>2, <3>3 DEF SleepCap
    <2> QED
      BY <2>1, <2>2
  <1>3. o.sleep \div Micro \in Amounts /\ (o.sleep \div Micro) * Micro <= o.sleep
    <2>1. /\ o.sleep \in Nat /\ o.sleep <= MaxTicks /\ o.sleep \div Micro \in Nat
          /\ (o.sleep \div Micro) * Micro \in Nat /\ (o.sleep \div Micro) * Micro <= o.sleep
      BY <1>1, WholeMicros, BudgetsAssumption DEF Amounts
    <2>2. o.sleep \div Micro <= o.sleep
      BY <2>1, BudgetsAssumption, Z3
    <2> QED
      BY <2>1, <2>2, BudgetsAssumption DEF Amounts
  <1>4. NewSession(o) \in SessionRecords
    BY <1>1, <1>2 DEF NewSession, SessionRecords
  <1>5. NewWorker(o) \in WorkerRecords
    BY <1>1, <1>3 DEF NewWorker, WorkerRecords
  <1>6. NewWorker(o).under = {o}
    BY DEF NewWorker
  <1>7. o.sleep > 0 => NewWorker(o).maxTotalSleep = o.sleep \div Micro
    BY DEF NewWorker
  <1>8. WorkerInherits(NewWorker(o))
    BY <1>3, <1>6, <1>7, BudgetsAssumption DEF WorkerInherits, Amounts, NoLimit
  <1> QED
    BY <1>4, <1>5, <1>6, <1>8 DEF NewSession, NewWorker

\* The worker after a restore: the stricter limits of the two.
LEMMA RestoringWorker ==
  ASSUME vm \in WorkerRecords, image \in Images, NEW w, w = RestoredWorker
  PROVE  /\ w \in WorkerRecords
         /\ w.call = image.vm.call /\ w.round = image.vm.round /\ w.slept = image.vm.slept
         /\ w.under = image.vm.under \cup vm.under
         /\ WorkerInherits(vm) /\ WorkerInherits(image.vm) => WorkerInherits(w)
  <1>1. image.vm \in WorkerRecords
    BY DEF Images
  <1>2. /\ StricterOf(image.vm.maxSuspensions, vm.maxSuspensions, 0) \in Nat
        /\ StricterOf(image.vm.maxTotalSleep, vm.maxTotalSleep, NoLimit) \in Amounts \cup {NoLimit}
    BY <1>1, BudgetsAssumption DEF WorkerRecords, StricterOf, Least, Amounts
  <1>3. w = [image.vm EXCEPT
               !.maxSuspensions = StricterOf(image.vm.maxSuspensions, vm.maxSuspensions, 0),
               !.maxTotalSleep = StricterOf(image.vm.maxTotalSleep, vm.maxTotalSleep, NoLimit),
               !.mode = vm.mode, !.under = image.vm.under \cup vm.under]
    BY DEF RestoredWorker
  <1>4. /\ w \in WorkerRecords
        /\ w.call = image.vm.call /\ w.round = image.vm.round /\ w.slept = image.vm.slept
        /\ w.under = image.vm.under \cup vm.under
        /\ w.maxTotalSleep = StricterOf(image.vm.maxTotalSleep, vm.maxTotalSleep, NoLimit)
    BY <1>1, <1>2, <1>3 DEF WorkerRecords
  <1>5. ASSUME NEW v \in {vm, image.vm}, v.maxTotalSleep # NoLimit
        PROVE  /\ w.maxTotalSleep \in Nat /\ v.maxTotalSleep \in Nat /\ w.maxTotalSleep # NoLimit
               /\ w.maxTotalSleep <= v.maxTotalSleep
    BY <1>1, <1>4, <1>5, BudgetsAssumption DEF WorkerRecords, StricterOf, Least, Amounts, NoLimit
  <1>6. ASSUME WorkerInherits(vm), WorkerInherits(image.vm), NEW o \in w.under, o.sleep > 0
        PROVE  w.maxTotalSleep # NoLimit /\ w.maxTotalSleep * Micro <= o.sleep
    <2>1. o.sleep \in Nat
      BY <1>4, <1>6, BudgetsAssumption DEF WorkerRecords, Fields
    <2>2. PICK v \in {vm, image.vm} : v.maxTotalSleep # NoLimit /\ v.maxTotalSleep * Micro <= o.sleep
      BY <1>4, <1>6 DEF WorkerInherits
    <2>3. /\ w.maxTotalSleep * Micro \in Nat /\ v.maxTotalSleep * Micro \in Nat
          /\ w.maxTotalSleep * Micro <= v.maxTotalSleep * Micro
      BY <1>5, <2>2, MicrosMonotone
    <2> QED
      BY <1>5, <2>1, <2>2, <2>3
  <1>7. WorkerInherits(vm) /\ WorkerInherits(image.vm) => WorkerInherits(w)
    BY <1>6 DEF WorkerInherits
  <1> QED
    BY <1>4, <1>7

\* The session after a restore, before it observes the worker's limits.
LEMMA RestoringSession ==
  ASSUME session \in SessionRecords, image \in Images, NEW s, s = RestoredSession
  PROVE  /\ s \in SessionRecords
         /\ s.sleepUsed = image.sleepUsed /\ s.maxTotalSleep = session.maxTotalSleep
         /\ s.hasSleepLimit = session.hasSleepLimit
         /\ \A d \in Amounts :
              /\ d > 0 /\ session.maxDuration > 0 /\ session.maxDuration <= d
                   => s.maxDuration > 0 /\ s.maxDuration <= d
              /\ d > 0 /\ image.duration > 0 /\ image.duration <= d
                   => s.maxDuration > 0 /\ s.maxDuration <= d
  <1>1. image.duration \in Amounts /\ image.sleepUsed \in Amounts /\ session.maxDuration \in Amounts
    BY DEF Images, SessionRecords
  <1>2. RestoredDuration(session.maxDuration) \in Amounts
    BY <1>1 DEF RestoredDuration
  <1>3. /\ s \in SessionRecords
        /\ s.sleepUsed = image.sleepUsed /\ s.maxTotalSleep = session.maxTotalSleep
        /\ s.hasSleepLimit = session.hasSleepLimit
        /\ s.maxDuration = RestoredDuration(session.maxDuration)
    BY <1>1, <1>2 DEF RestoredSession, SessionRecords
  <1> QED
    BY <1>1, <1>3, BudgetsAssumption DEF RestoredDuration, Amounts

\* A restore starts from a dump.
LEMMA Decoded ==
  ASSUME Records, image.exists
  PROVE  image \in Images
  BY DEF Records, NoImage

BInv == Records /\ Counted /\ Paid /\ Inherited

\* Limits that only get stricter are still inherited.
LEMMA StillInherited ==
  ASSUME Records, Inherited, session' \in SessionRecords, session'.maxDuration = session.maxDuration,
         session.hasSleepLimit => session'.hasSleepLimit /\ session'.maxTotalSleep <= session.maxTotalSleep,
         vm'.under = vm.under, vm'.maxTotalSleep = vm.maxTotalSleep
  PROVE  LimitsInherited' /\ WorkerInherits(vm')
  <1>1. \A o \in vm.under : o.sleep \in Amounts
    BY BudgetsAssumption DEF Records, WorkerRecords, Fields, Amounts
  <1>2. session.maxTotalSleep \in Amounts /\ session'.maxTotalSleep \in Amounts
    BY DEF Records, SessionRecords
  <1>3. LimitsInherited'
    BY <1>1, <1>2, BudgetsAssumption DEF Inherited, LimitsInherited, Amounts
  <1> QED
    BY <1>3 DEF Inherited, WorkerInherits

LEMMA SuspendKeeps ==
  ASSUME BInv, Suspend
  PROVE  BInv'
  <1> USE DEF BInv
  <1>1. PICK d \in Requested :
          Progress(Observe(session, [vm EXCEPT !.call = d, !.round = @ + 1]), run + 1,
                   [vm EXCEPT !.call = d, !.round = @ + 1], FALSE)
    BY DEF Suspend
  <1> DEFINE w == [vm EXCEPT !.call = d, !.round = @ + 1]
             s == Observe(session, w)
  <1>2. /\ d \in Amounts \cup {NoSleep}
        /\ d # NoSleep => Capped(d, session.systemSleepMax) = d
    <2>1. session.systemSleepMax \in Amounts \cup {UnlimitedSleep}
      BY DEF Records, SessionRecords
    <2>2. \A x \in Delays : x \in Amounts
      BY BudgetsAssumption DEF Amounts
    <2> QED
      BY <2>1, <2>2, Capping DEF Requested
  <1>3. /\ w \in WorkerRecords /\ w.call = d /\ w.round = vm.round + 1 /\ w.slept = vm.slept
        /\ w.under = vm.under /\ w.maxTotalSleep = vm.maxTotalSleep
    <2>1. vm \in WorkerRecords /\ vm.round + 1 \in Nat
      BY DEF Records, WorkerRecords
    <2>2. w = [vm EXCEPT !.call = d, !.round = vm.round + 1]
      OBVIOUS
    <2> HIDE DEF w
    <2> QED
      BY <1>2, <2>1, <2>2 DEF WorkerRecords
  <1> HIDE DEF w
  <1>4. /\ s \in SessionRecords
        /\ s.sleepUsed = session.sleepUsed /\ s.maxDuration = session.maxDuration
        /\ s.systemSleepMax = session.systemSleepMax
        /\ session.hasSleepLimit => s.hasSleepLimit /\ s.maxTotalSleep <= session.maxTotalSleep
    BY <1>3, Observing DEF Records
  <1>5. Progress(s, run + 1, w, FALSE)
    BY <1>1 DEF w
  <1> HIDE DEF s
  <1>6. /\ phase' \in {"idle", "suspended"} /\ run' = run + 1
        /\ session' \in SessionRecords /\ vm' \in WorkerRecords
        /\ session'.maxSuspensions = s.maxSuspensions /\ session'.maxTotalSleep = s.maxTotalSleep
        /\ session'.hasSleepLimit = s.hasSleepLimit /\ session'.maxDuration = s.maxDuration
        /\ vm'.under = w.under /\ vm'.maxTotalSleep = w.maxTotalSleep
        /\ vm'.slept = w.slept /\ vm'.round = w.round
        /\ phase' = "idle" => session'.sleepUsed = s.sleepUsed
        /\ phase' = "suspended" =>
             /\ ~TooMany(s, run + 1) /\ ~TooLong(s, w, FALSE)
             /\ vm'.call = w.call
             /\ session'.sleepUsed = Least(s.sleepUsed + Wait(s, w), MaxTicks)
    <2>1. run + 1 \in Nat
      BY DEF Records
    <2> QED
      BY <2>1, <1>3, <1>4, <1>5, Progressing
  <1>7. phase = "running" /\ UNCHANGED <<image, feeds, chain>>
    BY DEF Suspend
  <1>8. Records'
    BY <1>6, <1>7 DEF Records
  <1>9. Counted'
    <2>1. run + 1 = w.round
      BY <1>3, <1>7 DEF Counted
    <2>2. Limit(session)' = Limit(s) /\ Limit(s) \in Nat
      BY <1>4, <1>6, BudgetsAssumption DEF Limit, SessionRecords
    <2>3. phase' = "suspended" => w.round <= Limit(s)
      BY <1>3, <1>6, <2>1, <2>2 DEF TooMany, WorkerRecords
    <2> QED
      BY <1>6, <1>7, <2>1, <2>2, <2>3 DEF Counted
  <1>10. Paid'
    <2>1. /\ session.sleepUsed \in Amounts /\ vm.slept \in Amounts /\ vm.slept <= session.sleepUsed
          /\ s.maxTotalSleep \in Amounts
      BY <1>4 DEF Records, SessionRecords, WorkerRecords, Paid, Covers
    <2>2. /\ Wait(s, w) \in Amounts /\ (d # NoSleep => d \in Amounts /\ Wait(s, w) = d)
      BY <1>2, <1>3, <1>4, Waiting DEF Wait
    <2>3. CASE phase' = "idle"
      BY <2>1, <2>3, <1>3, <1>4, <1>6, <1>7 DEF Paid, Covers
    <2>4. CASE phase' = "suspended"
      <3>1. /\ session'.sleepUsed = Least(session.sleepUsed + Wait(s, w), MaxTicks)
            /\ vm'.slept = vm.slept /\ vm'.call = d
        BY <2>4, <1>3, <1>4, <1>6
      <3>2. /\ vm'.slept <= session'.sleepUsed
            /\ d # NoSleep => Least(vm'.slept + d, MaxTicks) <= session'.sleepUsed
        BY <2>1, <2>2, <3>1, BudgetsAssumption DEF Least, Amounts
      <3>3. d # NoSleep /\ s.hasSleepLimit =>
              session.sleepUsed <= s.maxTotalSleep /\ Wait(s, w) <= s.maxTotalSleep - session.sleepUsed
        BY <2>1, <2>2, <2>4, <1>3, <1>4, <1>6, BudgetsAssumption DEF TooLong, Amounts
      <3>4. d # NoSleep /\ s.hasSleepLimit => session'.sleepUsed <= s.maxTotalSleep
        BY <2>1, <2>2, <3>1, <3>3, BudgetsAssumption DEF Least, Amounts
      <3> QED
        BY <3>1, <3>2, <3>4, <1>6, <1>7 DEF Paid, Covers
    <2> QED
      BY <2>3, <2>4, <1>6
  <1>11. Inherited'
    BY <1>3, <1>4, <1>6, <1>7, StillInherited DEF Inherited
  <1> QED
    BY <1>8, <1>9, <1>10, <1>11

LEMMA FeedEndsKeeps ==
  ASSUME BInv, FeedEnds
  PROVE  BInv'
  <1> USE DEF BInv
  <1>1. phase' = "idle" /\ session' = Observe(session, vm) /\ UNCHANGED <<run, vm, image, feeds, chain>>
    BY DEF FeedEnds
  <1>2. /\ session' \in SessionRecords
        /\ session'.sleepUsed = session.sleepUsed /\ session'.maxDuration = session.maxDuration
        /\ session.hasSleepLimit => session'.hasSleepLimit /\ session'.maxTotalSleep <= session.maxTotalSleep
    BY <1>1, Observing DEF Records
  <1>3. Records' /\ Counted' /\ Paid'
    BY <1>1, <1>2 DEF Records, Counted, Paid, Covers
  <1>4. Inherited'
    BY <1>1, <1>2, StillInherited DEF Inherited
  <1> QED
    BY <1>3, <1>4

LEMMA FeedStartKeeps ==
  ASSUME BInv, FeedStart
  PROVE  BInv'
  <1> USE DEF BInv
  <1>1. /\ phase' = "running" /\ run' = 0 /\ feeds' = feeds + 1 /\ feeds < MaxFeeds
        /\ vm' = [vm EXCEPT !.round = 0] /\ UNCHANGED <<session, image, chain>>
    BY DEF FeedStart
  <1>2. /\ vm' \in WorkerRecords /\ vm'.round = 0 /\ vm'.slept = vm.slept
        /\ vm'.under = vm.under /\ vm'.maxTotalSleep = vm.maxTotalSleep
    BY <1>1 DEF Records, WorkerRecords
  <1>3. feeds' \in 0..MaxFeeds
    BY <1>1, BudgetsAssumption DEF Records
  <1>4. Records' /\ Counted' /\ Paid'
    BY <1>1, <1>2, <1>3 DEF Records, Counted, Paid, Covers
  <1>5. Inherited'
    BY <1>1, <1>2 DEF Inherited, LimitsInherited, WorkerInherits
  <1> QED
    BY <1>4, <1>5

LEMMA ResumeKeeps ==
  ASSUME BInv, Resume
  PROVE  BInv'
  <1> USE DEF BInv
  <1>1. phase = "suspended" /\ phase' = "running" /\ UNCHANGED <<session, run, image, feeds, chain>>
    BY DEF Resume
  <1>2. PICK t \in {0, Wait(session, vm)} :
          vm' = [vm EXCEPT !.call = NoSleep, !.slept = Least(vm.slept + t, MaxTicks)]
    BY DEF Resume
  <1>3. vm.slept \in Amounts /\ t \in Amounts /\ (vm.call = NoSleep => t = 0)
        /\ (vm.call # NoSleep => vm.call \in Amounts /\ t <= vm.call)
    <2>1. 0 \in Amounts
      BY BudgetsAssumption DEF Amounts
    <2>2. vm \in WorkerRecords /\ session \in SessionRecords
      BY DEF Records
    <2>3. vm.slept \in Amounts
      BY <2>2 DEF WorkerRecords
    <2>4. vm.call # NoSleep => vm.call \in Amounts /\ 0 <= vm.call
      BY <2>2, BudgetsAssumption DEF WorkerRecords, Amounts
    <2> QED
      BY <1>2, <2>1, <2>2, <2>3, <2>4, Waiting
  <1>4. /\ Least(vm.slept + t, MaxTicks) \in Amounts
        /\ session.sleepUsed \in Amounts
        /\ Least(vm.slept + t, MaxTicks) <= session.sleepUsed
    <2>1. session.sleepUsed \in Amounts /\ vm.slept <= session.sleepUsed
      BY DEF Records, SessionRecords, Paid, Covers
    <2>2. vm.call # NoSleep => Least(vm.slept + vm.call, MaxTicks) <= session.sleepUsed
      BY <1>1 DEF Paid, Covers
    <2> QED
      BY <1>3, <2>1, <2>2, BudgetsAssumption DEF Least, Amounts
  <1>5. /\ vm' \in WorkerRecords /\ vm'.slept = Least(vm.slept + t, MaxTicks) /\ vm'.round = vm.round
        /\ vm'.under = vm.under /\ vm'.maxTotalSleep = vm.maxTotalSleep
    BY <1>2, <1>4 DEF Records, WorkerRecords
  <1>6. Records' /\ Counted' /\ Paid'
    BY <1>1, <1>4, <1>5 DEF Records, Counted, Paid, Covers
  <1>7. Inherited'
    BY <1>1, <1>5 DEF Inherited, LimitsInherited, WorkerInherits
  <1> QED
    BY <1>6, <1>7

LEMMA DumpKeeps ==
  ASSUME BInv, Dump
  PROVE  BInv'
  <1> USE DEF BInv
  <1>1. UNCHANGED <<phase, session, run, vm, feeds, chain>>
    BY DEF Dump
  <1>2. PICK suspended \in BOOLEAN, n \in {run, 0} :
          /\ image' = EncodeSnapshot(suspended, n)
          /\ suspended => phase = "suspended" /\ n = run
    BY DEF Dump
  <1>3. /\ image' \in Images /\ image'.suspended = suspended /\ image'.vm = vm /\ image'.exists
        /\ image'.suspensions = n /\ image'.sleepUsed = session.sleepUsed
        /\ image'.duration = session.maxDuration
    BY <1>2 DEF EncodeSnapshot, Images, Records, SessionRecords
  <1>4. Records' /\ Counted'
    BY <1>1, <1>2, <1>3 DEF Records, Counted, Limit
  <1>5. Paid'
    BY <1>1, <1>2, <1>3 DEF Paid, Covers
  <1>6. Inherited'
    BY <1>1, <1>3 DEF Inherited, LimitsInherited, WorkerInherits, DurationInherited
  <1> QED
    BY <1>4, <1>5, <1>6

\* A session that Checkout has just configured.
LEMMA FreshSession ==
  ASSUME NEW o \in Options, PolicyAccepted(o)
  PROVE  /\ Covers(NewSession(o).sleepUsed, NewWorker(o), FALSE)
         /\ \A x \in NewWorker(o).under :
              /\ x.duration > 0 => NewSession(o).maxDuration > 0 /\ NewSession(o).maxDuration <= x.duration
              /\ x.sleep > 0 => NewSession(o).hasSleepLimit /\ NewSession(o).maxTotalSleep <= x.sleep
  <1>1. o.sleep \in Nat /\ o.duration \in Nat
    BY BudgetsAssumption DEF Fields
  <1> QED
    BY <1>1, NewRecords DEF Covers

LEMMA CheckoutKeeps ==
  ASSUME BInv, Checkout
  PROVE  BInv'
  <1> USE DEF BInv
  <1>1. PICK o \in Options : PolicyAccepted(o) /\ session' = NewSession(o) /\ vm' = NewWorker(o)
    BY DEF Checkout
  <1>2. /\ phase' = "fresh" /\ run' = 0 /\ feeds' = 0 /\ image' = image
        /\ chain' = chain + 1 /\ chain < MaxSessions
    BY DEF Checkout
  <1>3. chain' \in 1..MaxSessions /\ feeds' \in 0..MaxFeeds
    BY <1>2, BudgetsAssumption DEF Records
  <1>4. Records' /\ Counted'
    BY <1>1, <1>2, <1>3, NewRecords DEF Records, Counted
  <1>5. Paid'
    BY <1>1, <1>2, FreshSession DEF Paid, Covers
  <1>6. Inherited'
    BY <1>1, <1>2, NewRecords, FreshSession DEF Inherited, LimitsInherited
  <1> QED
    BY <1>4, <1>5, <1>6

\* Both loads: the limits after the worker has reported its own.
LEMMA RestoreInherits ==
  ASSUME BInv, image \in Images, NEW s, s = Observe(RestoredSession, RestoredWorker)
  PROVE  /\ RestoredWorker \in WorkerRecords /\ WorkerInherits(RestoredWorker)
         /\ RestoredWorker.call = image.vm.call /\ RestoredWorker.round = image.vm.round
         /\ RestoredWorker.slept = image.vm.slept
         /\ s \in SessionRecords /\ s.sleepUsed = image.sleepUsed
         /\ \A o \in RestoredWorker.under :
              /\ o.duration > 0 => s.maxDuration > 0 /\ s.maxDuration <= o.duration
              /\ o.sleep > 0 => s.hasSleepLimit /\ s.maxTotalSleep <= o.sleep
  <1> USE DEF BInv
  <1> DEFINE w == RestoredWorker
             q == RestoredSession
  <1>1. image.exists
    BY DEF Images
  <1>2. WorkerInherits(vm) /\ WorkerInherits(image.vm) /\ DurationInherited(image.duration, image.vm)
    BY <1>1 DEF Inherited
  <1>3. /\ w \in WorkerRecords /\ WorkerInherits(w)
        /\ w.call = image.vm.call /\ w.round = image.vm.round /\ w.slept = image.vm.slept
        /\ w.under = image.vm.under \cup vm.under
    BY <1>2, RestoringWorker DEF Records
  <1>4. /\ q \in SessionRecords /\ q.sleepUsed = image.sleepUsed
        /\ \A d \in Amounts :
              /\ d > 0 /\ session.maxDuration > 0 /\ session.maxDuration <= d
                   => q.maxDuration > 0 /\ q.maxDuration <= d
              /\ d > 0 /\ image.duration > 0 /\ image.duration <= d
                   => q.maxDuration > 0 /\ q.maxDuration <= d
    BY RestoringSession DEF Records
  <1> HIDE DEF w, q
  <1>5. /\ s \in SessionRecords
        /\ s.sleepUsed = q.sleepUsed /\ s.maxDuration = q.maxDuration
        /\ w.maxTotalSleep # NoLimit => s.hasSleepLimit /\ s.maxTotalSleep <= w.maxTotalSleep * Micro
    BY <1>3, <1>4, Observing DEF w, q
  <1>6. ASSUME NEW o \in w.under
        PROVE  o.duration > 0 => s.maxDuration > 0 /\ s.maxDuration <= o.duration
    <2>1. o.duration \in Amounts
      BY <1>3, BudgetsAssumption DEF WorkerRecords, Fields, Amounts
    <2>2. CASE o \in vm.under
      BY <2>1, <2>2, <1>4, <1>5 DEF Inherited, LimitsInherited
    <2>3. CASE o \in image.vm.under
      BY <2>1, <2>3, <1>2, <1>4, <1>5 DEF DurationInherited
    <2> QED
      BY <1>3, <2>2, <2>3
  <1>7. ASSUME NEW o \in w.under, o.sleep > 0
        PROVE  s.hasSleepLimit /\ s.maxTotalSleep <= o.sleep
    <2>1. o.sleep \in Nat
      BY <1>3, BudgetsAssumption DEF WorkerRecords, Fields
    <2>2. w.maxTotalSleep # NoLimit /\ w.maxTotalSleep * Micro <= o.sleep
      BY <1>3, <1>7 DEF WorkerInherits
    <2>3. w.maxTotalSleep * Micro \in Int /\ s.maxTotalSleep \in Int
      BY <1>3, <1>5, BudgetsAssumption DEF WorkerRecords, SessionRecords, Amounts, NoLimit
    <2> QED
      BY <1>5, <2>1, <2>2, <2>3
  <1> QED
    BY <1>3, <1>4, <1>5, <1>6, <1>7 DEF w

LEMMA LoadSessionKeeps ==
  ASSUME BInv, LoadSession
  PROVE  BInv'
  <1> USE DEF BInv
  <1>1. /\ image \in Images /\ image.exists /\ phase' = "idle" /\ run' = image.suspensions
        /\ vm' = RestoredWorker /\ session' = Observe(RestoredSession, RestoredWorker)
        /\ UNCHANGED <<image, feeds, chain>>
    BY Decoded DEF LoadSession, DecodesTo
  <1>2. image.suspensions \in Nat /\ Covers(image.sleepUsed, image.vm, image.suspended)
    BY <1>1 DEF Images, Paid
  <1>3. Records' /\ Counted'
    BY <1>1, <1>2, RestoreInherits DEF Records, Counted
  <1>4. Paid'
    BY <1>1, <1>2, RestoreInherits DEF Paid, Covers
  <1>5. Inherited'
    BY <1>1, RestoreInherits DEF Inherited, LimitsInherited
  <1> QED
    BY <1>3, <1>4, <1>5

LEMMA LoadSnapshotKeeps ==
  ASSUME BInv, LoadSnapshot
  PROVE  BInv'
  <1> USE DEF BInv
  <1> DEFINE w == RestoredWorker
             s == Observe(RestoredSession, RestoredWorker)
  <1>1. /\ image \in Images /\ image.exists /\ image.suspended
        /\ UNCHANGED <<image, feeds, chain>> /\ Progress(s, image.suspensions, w, TRUE)
    BY Decoded DEF LoadSnapshot, DecodesTo
  <1>2. /\ image.suspensions \in Nat /\ image.suspensions = image.vm.round
        /\ Covers(image.sleepUsed, image.vm, TRUE)
    BY <1>1 DEF Images, Paid, Counted
  <1>3. /\ w \in WorkerRecords /\ WorkerInherits(w)
        /\ w.call = image.vm.call /\ w.round = image.vm.round /\ w.slept = image.vm.slept
        /\ s \in SessionRecords /\ s.sleepUsed = image.sleepUsed
        /\ \A o \in w.under :
             /\ o.duration > 0 => s.maxDuration > 0 /\ s.maxDuration <= o.duration
             /\ o.sleep > 0 => s.hasSleepLimit /\ s.maxTotalSleep <= o.sleep
    BY <1>1, RestoreInherits
  <1> HIDE DEF w, s
  <1>4. /\ phase' \in {"idle", "suspended"} /\ run' = image.suspensions
        /\ session' \in SessionRecords /\ vm' \in WorkerRecords
        /\ session'.maxSuspensions = s.maxSuspensions /\ session'.maxTotalSleep = s.maxTotalSleep
        /\ session'.hasSleepLimit = s.hasSleepLimit /\ session'.maxDuration = s.maxDuration
        /\ vm'.under = w.under /\ vm'.maxTotalSleep = w.maxTotalSleep
        /\ vm'.slept = w.slept /\ vm'.round = w.round
        /\ session'.sleepUsed = s.sleepUsed
        /\ phase' = "suspended" =>
             /\ ~TooMany(s, image.suspensions) /\ ~TooLong(s, w, TRUE) /\ vm'.call = w.call
    BY <1>1, <1>2, <1>3, Progressing
  <1>5. Records'
    BY <1>1, <1>2, <1>4 DEF Records
  <1>6. Counted'
    <2>1. Limit(session)' = Limit(s) /\ Limit(s) \in Nat
      BY <1>3, <1>4, BudgetsAssumption DEF Limit, SessionRecords
    <2>2. phase' = "suspended" => w.round <= Limit(s)
      BY <1>2, <1>3, <1>4, <2>1 DEF TooMany
    <2> QED
      BY <1>1, <1>2, <1>3, <1>4, <2>1, <2>2 DEF Counted
  <1>7. Paid'
    <2>1. s.sleepUsed \in Nat /\ s.maxTotalSleep \in Nat
      BY <1>3, BudgetsAssumption DEF SessionRecords, Amounts
    <2>2. phase' = "suspended" /\ vm'.call # NoSleep /\ s.hasSleepLimit => s.sleepUsed <= s.maxTotalSleep
      BY <1>4, <2>1 DEF TooLong
    <2> QED
      BY <1>1, <1>2, <1>3, <1>4, <2>2 DEF Paid, Covers
  <1>8. Inherited'
    BY <1>1, <1>3, <1>4 DEF Inherited, LimitsInherited, WorkerInherits
  <1> QED
    BY <1>5, <1>6, <1>7, <1>8

LEMMA BInvHolds == Spec => []BInv
  <1>1. Init => BInv
    <2> SUFFICES ASSUME Init PROVE BInv
      OBVIOUS
    <2>1. PICK o \in Options :
            /\ PolicyAccepted(o) /\ phase = "fresh" /\ session = NewSession(o) /\ run = 0
            /\ vm = NewWorker(o) /\ image = NoImage /\ feeds = 0 /\ chain = 1
      BY DEF Init
    <2>2. ~image.exists
      BY <2>1 DEF NoImage
    <2>3. feeds \in 0..MaxFeeds /\ chain \in 1..MaxSessions
      BY <2>1, BudgetsAssumption
    <2>4. Records /\ Counted
      BY <2>1, <2>2, <2>3, NewRecords DEF Records, Counted
    <2>5. Paid
      BY <2>1, <2>2, FreshSession DEF Paid, Covers
    <2>6. Inherited
      BY <2>1, <2>2, NewRecords, FreshSession DEF Inherited, LimitsInherited
    <2> QED
      BY <2>4, <2>5, <2>6 DEF BInv
  <1>2. BInv /\ [Next]_vars => BInv'
    <2>1. BInv /\ UNCHANGED vars => BInv'
      BY DEF BInv, vars, Records, Counted, Limit, Paid, Covers, Inherited, LimitsInherited
    <2> QED
      BY <2>1, FeedStartKeeps, SuspendKeeps, FeedEndsKeeps, ResumeKeeps, DumpKeeps, CheckoutKeeps,
         LoadSessionKeeps, LoadSnapshotKeeps DEF Next
  <1> QED
    BY <1>1, <1>2, PTL DEF Spec
-----------------------------------------------------------------------------
\* Type correctness of Budgets: no account or limit leaves the range of an int64.
THEOREM TypeCorrect == Spec => []TypeOK
  <1>1. BInv => TypeOK
    BY DEF BInv, Records, SessionRecords, WorkerRecords, Amounts, TypeOK
  <1> QED
    BY <1>1, BInvHolds, PTL

\* Dumping and restoring a feed does not restart its suspension allowance.
THEOREM SuspensionsCountedAlways == Spec => []SuspensionsCounted
  <1>1. BInv => SuspensionsCounted
    BY DEF BInv, Counted, SuspensionsCounted
  <1> QED
    BY <1>1, BInvHolds, PTL

\* Sleep is paid for before it is waited for, in whatever session: a session
\* with a lower cap waits less than was paid, never more.
THEOREM SleepPaidForAlways == Spec => []SleepPaidFor
  <1>1. BInv => SleepPaidFor
    <2> SUFFICES ASSUME BInv PROVE SleepPaidFor
      OBVIOUS
    <2>1. /\ vm \in WorkerRecords /\ session \in SessionRecords
          /\ vm.slept \in Amounts /\ session.sleepUsed \in Amounts
      BY DEF BInv, Records, WorkerRecords, SessionRecords
    <2>2. vm.slept <= session.sleepUsed
      BY DEF BInv, Paid, Covers
    <2>3. Least(vm.slept + 0, MaxTicks) <= session.sleepUsed
      BY <2>1, <2>2, BudgetsAssumption DEF Least, Amounts
    <2>4. phase = "suspended" => Least(vm.slept + Wait(session, vm), MaxTicks) <= session.sleepUsed
      <3>1. CASE vm.call = NoSleep
        BY <3>1, <2>1, <2>3, Waiting
      <3>2. CASE vm.call # NoSleep
        <4>1. vm.call \in Amounts /\ Wait(session, vm) \in Amounts /\ Wait(session, vm) <= vm.call
          BY <3>2, <2>1, Waiting
        <4>2. phase = "suspended" => Least(vm.slept + vm.call, MaxTicks) <= session.sleepUsed
          BY <3>2 DEF BInv, Paid, Covers
        <4> QED
          BY <2>1, <4>1, <4>2, BudgetsAssumption DEF Least, Amounts
      <3> QED
        BY <3>1, <3>2
    <2> QED
      BY <2>3, <2>4 DEF BInv, Paid, SleepPaidFor
  <1> QED
    BY <1>1, BInvHolds, PTL

\* No session of the chain loosens or drops a limit of an earlier one.
THEOREM LimitsInheritedAlways == Spec => []LimitsInherited
  <1>1. BInv => LimitsInherited
    BY DEF BInv, Inherited
  <1> QED
    BY <1>1, BInvHolds, PTL
=============================================================================
