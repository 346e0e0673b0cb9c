------------------------------ MODULE Budgets ------------------------------
(***************************************************************************)
(* The budgets that the Go host enforces for a REPL: suspensions of a      *)
(* feed, total system sleep and execution time, through feeds, dumps and   *)
(* restores into other sessions.  One REPL is followed through the chain   *)
(* of its sessions; every turn is sequential (Session.tla has the          *)
(* concurrency), so an action is a whole turn.                             *)
(***************************************************************************)
EXTENDS Integers, FiniteSets

CONSTANTS
  Micro,              \* ticks of a time.Duration in one microsecond
  Delays,             \* what sandbox code asks to sleep, in ticks
  Options,            \* the CheckoutOptions of the sessions, see Fields
  DefaultSuspensions, \* what a suspension limit of 0 stands for (1000)
  DefaultCap,         \* the cap on one system sleep if none is given (10 s)
  MaxTicks,           \* math.MaxInt64
  MaxSessions,        \* bound: sessions in the chain
  MaxFeeds            \* bound: feeds in one session

\* MaxSuspensions (0: the default), MaxTotalSleep (0: none) and MaxDuration
\* (0: none) of the ResourceLimits; Sleep and SleepSystemMax of the OSPolicy,
\* the pointer as a sequence that is empty for nil.
SleepModes == {"system", "call_host", "zero"}
Fields == [suspensions : Nat, sleep : 0..MaxTicks, duration : 0..MaxTicks,
           mode : SleepModes, max : {<<>>} \cup {<<n>> : n \in -2..MaxTicks}]

ASSUME BudgetsAssumption ==
  /\ Micro \in Nat \ {0}
  /\ Delays \subseteq 0..MaxTicks
  /\ Options \subseteq Fields
  /\ DefaultSuspensions \in Nat \ {0}
  /\ DefaultCap \in 0..MaxTicks
  /\ MaxTicks \in Nat /\ MaxSessions \in Nat \ {0} /\ MaxFeeds \in Nat

NoSleep == -1   \* a suspension that is no system sleep
NoLimit == -1   \* the worker has no total sleep limit

VARIABLES
  phase,    \* "fresh": not used yet; "idle", "running", "suspended"
  session,  \* the fields of the Session
  run,      \* r.suspensions of the feed
  vm,       \* the worker's side of the REPL, and its history
  image,    \* the last dump
  feeds,    \* feeds of this session
  chain     \* sessions so far

vars == <<phase, session, run, vm, image, feeds, chain>>

Least(a, b) == IF a <= b THEN a ELSE b

(***************************************************************************)
(* encodeOSPolicy, as far as sleeps go: what it accepts, and the cap that  *)
(* worker and host get, in whole microseconds.                             *)
(***************************************************************************)
UnlimitedSleep == -1

PolicyAccepted(o) ==
  o.max # <<>> => o.mode = "system" /\ (o.max[1] >= 0 \/ o.max[1] = UnlimitedSleep)

SleepCap(o) ==
  IF o.max = <<>> THEN DefaultCap
  ELSE IF o.max[1] = UnlimitedSleep THEN UnlimitedSleep
  ELSE (o.max[1] \div Micro) * Micro

Capped(d, cap) == IF cap = UnlimitedSleep THEN d ELSE Least(d, cap)

(***************************************************************************)
(* The fields that Checkout gives a Session, and what the worker gets from *)
(* configureRequest: whole microseconds.                                   *)
(***************************************************************************)
NewSession(o) ==
  [maxSuspensions |-> o.suspensions, maxTotalSleep |-> o.sleep, hasSleepLimit |-> o.sleep > 0,
   maxDuration |-> o.duration, systemSleepMax |-> SleepCap(o), sleepUsed |-> 0]

\* "call" is the pending suspension; "round", "slept" and "under" are history:
\* suspensions of this feed, time waited, and options of all sessions so far.
NewWorker(o) ==
  [maxSuspensions |-> o.suspensions,
   maxTotalSleep |-> IF o.sleep > 0 THEN o.sleep \div Micro ELSE NoLimit,
   mode |-> o.mode, call |-> NoSleep, round |-> 0, slept |-> 0, under |-> {o}]

NoImage == [exists |-> FALSE]

Init ==
  \E o \in Options :
    /\ PolicyAccepted(o)
    /\ phase = "fresh"
    /\ session = NewSession(o)
    /\ run = 0
    /\ vm = NewWorker(o)
    /\ image = NoImage
    /\ feeds = 0
    /\ chain = 1

(***************************************************************************)
(* observeEvent: the worker reports its limits with every event.           *)
(***************************************************************************)
Observe(s, w) ==
  LET limit == Least(w.maxTotalSleep, MaxTicks \div Micro) * Micro
      known == w.maxTotalSleep # NoLimit
  IN [s EXCEPT !.maxSuspensions = IF w.maxSuspensions > 0 THEN w.maxSuspensions ELSE @,
               !.maxTotalSleep = IF known /\ (~s.hasSleepLimit \/ limit < @) THEN limit ELSE @,
               !.hasSleepLimit = @ \/ known]

(***************************************************************************)
(* progress for a suspension: too many suspensions or too much sleep abort *)
(* the feed; else a sleep is charged and the caller gets the snapshot.     *)
(***************************************************************************)
Limit(s) == IF s.maxSuspensions = 0 THEN DefaultSuspensions ELSE s.maxSuspensions

TooMany(s, n) == n > Limit(s)

Wait(s, w) == IF w.call = NoSleep THEN 0 ELSE Capped(w.call, s.systemSleepMax)

TooLong(s, w, charged) ==
  /\ w.call # NoSleep
  /\ s.hasSleepLimit
  /\ \/ s.sleepUsed > s.maxTotalSleep
     \/ ~charged /\ Wait(s, w) > s.maxTotalSleep - s.sleepUsed

\* Mutant: the sum is not kept below math.MaxInt64.
Charge_Overflows(s, w, charged) ==
  IF charged THEN s ELSE [s EXCEPT !.sleepUsed = @ + Wait(s, w)]

Charge(s, w, charged) ==
  IF charged THEN s ELSE [s EXCEPT !.sleepUsed = Least(@ + Wait(s, w), MaxTicks)]

\* s: the session after observeEvent; n: r.suspensions; w: the suspended worker.
Progress(s, n, w, charged) ==
  /\ run' = n
  /\ IF TooMany(s, n) \/ TooLong(s, w, charged)
     THEN /\ phase' = "idle"
          /\ session' = s
          /\ vm' = [w EXCEPT !.call = NoSleep]
     ELSE /\ phase' = "suspended"
          /\ session' = Charge(s, w, charged)
          /\ vm' = w
-----------------------------------------------------------------------------
FeedStart ==
  /\ phase \in {"fresh", "idle"}
  /\ feeds < MaxFeeds
  /\ phase' = "running"
  /\ feeds' = feeds + 1
  /\ run' = 0
  /\ vm' = [vm EXCEPT !.round = 0]
  /\ UNCHANGED <<session, image, chain>>

\* What sandbox code asks of the host: a call of another kind, or a system sleep
\* that the worker has capped.  A restored worker follows the policy of the
\* session it is restored into.
Requested ==
  {NoSleep} \cup {Capped(d, session.systemSleepMax) : d \in {n \in Delays : vm.mode = "system"}}

Suspend ==
  /\ phase = "running"
  /\ \E d \in Requested :
       LET w == [vm EXCEPT !.call = d, !.round = @ + 1]
       IN Progress(Observe(session, w), run + 1, w, FALSE)
  /\ UNCHANGED <<image, feeds, chain>>

FeedEnds ==
  /\ phase = "running"
  /\ phase' = "idle"
  /\ session' = Observe(session, vm)
  /\ UNCHANGED <<run, vm, image, feeds, chain>>

\* ResumeAuto waits for a system sleep; Resume answers it at once.
Resume ==
  /\ phase = "suspended"
  /\ phase' = "running"
  /\ \E t \in {0, Wait(session, vm)} :
       vm' = [vm EXCEPT !.call = NoSleep, !.slept = Least(@ + t, MaxTicks)]
  /\ UNCHANGED <<session, run, image, feeds, chain>>

\* encodeSnapshot: the worker's dump, and the host's budgets beside it.
EncodeSnapshot(suspended, n) ==
  [exists |-> TRUE, suspended |-> suspended, vm |-> vm, suspensions |-> n,
   sleepUsed |-> session.sleepUsed, duration |-> session.maxDuration]

\* Session.Dump between feeds, Snapshot.Dump in a suspension.
Dump ==
  /\ \/ phase = "suspended" /\ image' = EncodeSnapshot(TRUE, run)
     \/ phase \in {"fresh", "idle"} /\ image' = EncodeSnapshot(FALSE, 0)
  /\ UNCHANGED <<phase, session, run, vm, feeds, chain>>

\* Another session, with limits of its own; the dump survives.  Options that
\* encodeOSPolicy refuses end Checkout before it has done anything.
Checkout ==
  /\ image.exists
  /\ chain < MaxSessions
  /\ chain' = chain + 1
  /\ phase' = "fresh"
  /\ run' = 0
  /\ feeds' = 0
  /\ \E o \in Options : PolicyAccepted(o) /\ session' = NewSession(o) /\ vm' = NewWorker(o)
  /\ UNCHANGED image

(***************************************************************************)
(* load.  The worker restores the REPL and keeps, of its own limits and    *)
(* those in the dump, the stricter ones (external).                        *)
(***************************************************************************)
StricterOf(a, b, none) ==
  IF a = none THEN b ELSE IF b = none THEN a ELSE Least(a, b)

RestoredWorker ==
  [image.vm EXCEPT !.maxSuspensions = StricterOf(@, vm.maxSuspensions, 0),
                   !.maxTotalSleep = StricterOf(@, vm.maxTotalSleep, NoLimit),
                   !.mode = vm.mode,
                   !.under = @ \cup vm.under]

\* decodeSnapshot refuses what encodeSnapshot did not write, and changes nothing.
DecodesTo(suspended) == image.exists /\ image.suspended = suspended

\* Mutant: the budget of the dump always replaces the session's own.
RestoredDuration_Replaces(own) == image.duration

RestoredDuration(own) ==
  IF own = 0 \/ (image.duration > 0 /\ image.duration < own) THEN image.duration ELSE own

\* Mutant: the sleep already used is not restored.
RestoredSession_ForgetsSleep == [session EXCEPT !.maxDuration = RestoredDuration(@)]

RestoredSession ==
  [session EXCEPT !.sleepUsed = image.sleepUsed, !.maxDuration = RestoredDuration(@)]

LoadSession ==
  /\ phase = "fresh" /\ DecodesTo(FALSE)
  /\ phase' = "idle"
  /\ vm' = RestoredWorker
  /\ session' = Observe(RestoredSession, RestoredWorker)
  /\ run' = image.suspensions
  /\ UNCHANGED <<image, feeds, chain>>

\* Mutant: the restored suspension is counted a second time.
LoadSnapshot_CountsAgain ==
  /\ phase = "fresh" /\ DecodesTo(TRUE)
  /\ Progress(Observe(RestoredSession, RestoredWorker), image.suspensions + 1, RestoredWorker, TRUE)
  /\ UNCHANGED <<image, feeds, chain>>

\* A restored suspension is not counted again and its sleep not charged again.
LoadSnapshot ==
  /\ phase = "fresh" /\ DecodesTo(TRUE)
  /\ Progress(Observe(RestoredSession, RestoredWorker), image.suspensions, RestoredWorker, TRUE)
  /\ UNCHANGED <<image, feeds, chain>>

Next ==
  \/ FeedStart \/ Suspend \/ FeedEnds \/ Resume \/ Dump
  \/ Checkout \/ LoadSession \/ LoadSnapshot

Spec == Init /\ [][Next]_vars
-----------------------------------------------------------------------------
TypeOK ==
  /\ phase \in {"fresh", "idle", "running", "suspended"}
  /\ session.sleepUsed \in 0..MaxTicks
  /\ session.maxTotalSleep \in 0..MaxTicks
  /\ session.maxDuration \in 0..MaxTicks
  /\ session.hasSleepLimit \in BOOLEAN
  /\ run \in Nat /\ vm.round \in Nat
  /\ vm.slept \in 0..MaxTicks
  /\ feeds \in 0..MaxFeeds /\ chain \in 1..MaxSessions

(***************************************************************************)
(* The suspension allowance of a feed is not restarted by dumping and      *)
(* restoring it: a caller gets a suspension only while the suspensions of  *)
(* the feed in all its sessions are within the limit in force.             *)
(***************************************************************************)
SuspensionsCounted ==
  phase = "suspended" => run = vm.round /\ vm.round <= Limit(session)

(***************************************************************************)
(* Sleep is paid for before it is waited for, once, and the payment goes   *)
(* with the dump: what the REPL has waited in all its sessions, and is     *)
(* about to wait, never exceeds what the session has on its account, and   *)
(* the account is within the limit whenever a sleep is handed out.         *)
(***************************************************************************)
SleepPaidFor ==
  LET due == IF phase = "suspended" THEN Wait(session, vm) ELSE 0
  IN /\ Least(vm.slept + due, MaxTicks) <= session.sleepUsed
     /\ phase = "suspended" /\ vm.call # NoSleep /\ session.hasSleepLimit
          => session.sleepUsed <= session.maxTotalSleep

(***************************************************************************)
(* Restoring keeps the stricter limit: no limit of any session the REPL    *)
(* has been in is looser now, and none has become "no limit".              *)
(***************************************************************************)
LimitsInherited ==
  \A o \in vm.under :
    /\ o.duration > 0 => session.maxDuration > 0 /\ session.maxDuration <= o.duration
    /\ o.sleep > 0 => session.hasSleepLimit /\ session.maxTotalSleep <= o.sleep
=============================================================================
