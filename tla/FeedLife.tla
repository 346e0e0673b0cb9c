------------------------------ MODULE FeedLife ------------------------------
(***************************************************************************)
(* What a session promises its callers, without goroutines, snapshots'     *)
(* flags, turns of the protocol or a worker.  A session runs one feed at a *)
(* time.  A feed that stops for its host offers one suspension, which is   *)
(* answered at most once, before it offers another; a feed that is over    *)
(* never runs again, and after the end of the session none does.           *)
(***************************************************************************)
EXTENDS Naturals

CONSTANT Feeds

VARIABLES
  begun,    \* the feeds that have ever begun
  live,     \* those that are not over
  busy,     \* the live feed runs; otherwise it is suspended
  answers,  \* how many of its suspensions have been answered, for each feed
  offered,  \* the suspensions offered so far, as pairs of a feed and a number
  shut      \* the session is closed

lifeVars == <<begun, live, busy, answers, offered, shut>>

Init ==
  /\ begun = {} /\ live = {} /\ busy = FALSE
  /\ answers = [f \in Feeds |-> 0]
  /\ offered = {} /\ shut = FALSE

\* The feed has not begun, and nothing keeps it from beginning.
MayBegin(f) == f \notin begun /\ live = {} /\ ~busy /\ ~shut

Begin(f) ==
  /\ MayBegin(f)
  /\ begun' = begun \cup {f} /\ live' = {f} /\ busy' = TRUE
  /\ UNCHANGED <<answers, offered, shut>>

\* The suspension a feed is in, which is offered, or withheld by an error.
Open(f) == <<f, answers[f]>>
Offers(f) == Open(f) \notin offered /\ offered' = offered \cup {Open(f)}

Suspend(f) ==
  /\ f \in live /\ busy
  /\ busy' = FALSE
  /\ Offers(f) \/ UNCHANGED offered
  /\ UNCHANGED <<begun, live, answers, shut>>

Answer(f) ==
  /\ f \in live /\ ~busy
  /\ Open(f) \in offered
  /\ busy' = TRUE
  /\ answers' = [answers EXCEPT ![f] = @ + 1]
  /\ UNCHANGED <<begun, live, offered, shut>>

End(f) ==
  /\ f \in live /\ busy
  /\ live' = live \ {f} /\ busy' = FALSE
  /\ UNCHANGED <<begun, answers, offered, shut>>

\* A dump is restored: the feed it holds is suspended, or there is none left.
Restore(f) ==
  /\ MayBegin(f)
  /\ begun' = begun \cup {f}
  /\ \/ live' = {f} /\ (Offers(f) \/ UNCHANGED offered)
     \/ UNCHANGED <<live, offered>>
  /\ UNCHANGED <<busy, answers, shut>>

Shut ==
  /\ ~busy
  /\ shut' = TRUE /\ live' = {}
  /\ UNCHANGED <<begun, busy, answers, offered>>

Next ==
  \/ \E f \in Feeds : Begin(f) \/ Suspend(f) \/ Answer(f) \/ End(f) \/ Restore(f)
  \/ Shut

Spec == Init /\ [][Next]_lifeVars
-----------------------------------------------------------------------------
(***************************************************************************)
(* Question and answer alternate: every suspension but the last one that a *)
(* feed has offered has been answered, what has been answered was offered, *)
(* and at most one feed is under way, none once the session is closed.     *)
(***************************************************************************)
Alternate ==
  /\ \A f \in Feeds : \A n \in Nat : n < answers[f] => <<f, n>> \in offered
  /\ \A f \in Feeds : \A n \in Nat : <<f, n>> \in offered => n <= answers[f]
  /\ \A f, g \in live : f = g
  /\ shut => live = {}

(***************************************************************************)
(* A feed that is over stays over: it neither runs nor is answered again.  *)
(***************************************************************************)
OverForGood ==
  [][\A f \in Feeds : f \in begun \ live => f \in begun' \ live' /\ answers'[f] = answers[f]]_lifeVars
=============================================================================
