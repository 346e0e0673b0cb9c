----------------------------- MODULE WorkerTurn -----------------------------
(***************************************************************************)
(* worker.exchange of pool.go: the request/response turns of one worker    *)
(* process.  Every turn has a reader goroutine of its own, which outlives  *)
(* a turn that times out; all read the same pipe and call the same print   *)
(* callback, the one of a CollectString or CollectStreams (print.go).      *)
(***************************************************************************)
EXTENDS Integers, Sequences

CONSTANTS
  MaxTurns,    \* bound: turns
  MaxChunks,   \* bound: chunks that the sandbox prints
  Sizes,       \* their sizes in bytes
  MaxBytes     \* the cap of the collector; -1 is none

ASSUME TurnsAssumption ==
  /\ MaxTurns \in Nat /\ MaxChunks \in Nat
  /\ Sizes \subseteq Nat
  /\ MaxBytes \in Nat \cup {-1}

VARIABLES
  turn,       \* turns begun
  waiting,    \* the last one waits in its select and holds w.mu
  result,     \* what each turn has returned
  reader,     \* where each turn's reader goroutine is
  answer,     \* the answer in each turn's "done" channel
  left,       \* chunks that the reader has yet to give to the callback
  spoilt,     \* readers whose callbackErr is set
  dead,       \* w.dead; the host has closed the pipes
  serving,    \* the turn whose request the process works on, 0 if none
  alive,      \* the process runs
  pipe,       \* the frames in the process's stdout
  printed,    \* sizes of the chunks printed so far
  collected,  \* c.output: the chunks collected
  bytes,      \* c.bytes
  failed      \* c.failed

exchange == <<turn, waiting, result, dead>>
readers == <<reader, answer, left, spoilt>>
process == <<serving, alive, pipe, printed>>
collector == <<collected, bytes, failed>>
vars == <<exchange, readers, process, collector>>

Turns == 1..MaxTurns

\* A frame of the turn t: chunks lo..hi of output, or the turn's last event.
Output(t, lo, hi) == [kind |-> "print", turn |-> t, lo |-> lo, hi |-> hi]
Last(t, kind) == [kind |-> kind, turn |-> t, lo |-> 1, hi |-> 0]

\* What a reader answers: an event of some turn, or an error.
Answers == [kind : {"event", "fatal"}, turn : Turns]
             \cup [kind : {"none", "error", "callback"}, turn : {0}]
Nothing == [kind |-> "none", turn |-> 0]

Init ==
  /\ turn = 0 /\ waiting = FALSE /\ dead = FALSE
  /\ result = [t \in Turns |-> Nothing]
  /\ reader = [t \in Turns |-> "none"] /\ answer = [t \in Turns |-> Nothing]
  /\ left = [t \in Turns |-> <<>>] /\ spoilt = {}
  /\ serving = 0 /\ alive = TRUE /\ pipe = <<>> /\ printed = <<>>
  /\ collected = <<>> /\ bytes = 0 /\ failed = FALSE
-----------------------------------------------------------------------------
(***************************************************************************)
(* The caller's side.  The next exchange begins when w.mu is free; on a    *)
(* dead worker it returns an error and changes nothing.                    *)
(***************************************************************************)
Begin ==
  /\ ~waiting /\ turn < MaxTurns
  /\ ~dead
  /\ turn' = turn + 1
  /\ waiting' = TRUE
  /\ reader' = [reader EXCEPT ![turn + 1] = "write"]
  /\ UNCHANGED <<result, dead, answer, left, spoilt, process, collector>>

\* killUnlocked: the process is gone and the host's end of its stdout closed.
Kill ==
  /\ dead' = TRUE
  /\ alive' = FALSE
  /\ UNCHANGED <<serving, pipe, printed>>

ReturnWith(a) ==
  /\ waiting' = FALSE
  /\ result' = [result EXCEPT ![turn] = a]
  /\ UNCHANGED <<turn, reader, left, spoilt, collector>>

\* The select takes the reader's answer.
TakeAnswer ==
  /\ waiting /\ answer[turn] # Nothing
  /\ ReturnWith(answer[turn])
  /\ answer' = [answer EXCEPT ![turn] = Nothing]
  /\ IF answer[turn].kind \in {"error", "fatal"} THEN Kill ELSE UNCHANGED <<dead, process>>

\* Mutant: a turn that times out leaves the worker in use.
TimesOut_KeepsWorker ==
  /\ waiting
  /\ ReturnWith([kind |-> "error", turn |-> 0])
  /\ UNCHANGED <<answer, dead, process>>

\* The select takes ctx.Done, even if an answer is there.
TimesOut ==
  /\ waiting
  /\ ReturnWith([kind |-> "error", turn |-> 0])
  /\ Kill
  /\ UNCHANGED answer

\* worker.kill of the pool, which waits for w.mu.
KillIdle ==
  /\ ~waiting /\ ~dead
  /\ Kill
  /\ UNCHANGED <<turn, waiting, result, readers, collector>>
-----------------------------------------------------------------------------
(***************************************************************************)
(* The process (external): it answers a request with any number of print   *)
(* frames and one last event, and may end or send garbage at any time.     *)
(***************************************************************************)
Prints ==
  /\ alive /\ serving # 0
  /\ \E n \in 1..2, s \in Sizes :
       /\ Len(printed) + n <= MaxChunks
       /\ printed' = printed \o [k \in 1..n |-> s]
       /\ pipe' = Append(pipe, Output(serving, Len(printed) + 1, Len(printed) + n))
  /\ UNCHANGED <<serving, alive, exchange, readers, collector>>

Responds ==
  /\ alive /\ serving # 0
  /\ \E k \in {"event", "fatal", "garbage"} : pipe' = Append(pipe, Last(serving, k))
  /\ serving' = 0
  /\ UNCHANGED <<alive, printed, exchange, readers, collector>>

Exits ==
  /\ alive
  /\ alive' = FALSE
  /\ UNCHANGED <<serving, pipe, printed, exchange, readers, collector>>
-----------------------------------------------------------------------------
(***************************************************************************)
(* The reader of the turn t.  Its channel has room for its one answer.     *)
(***************************************************************************)
\* Mutant: an unbuffered channel, on which nobody listens after a timeout.
Answer_Unbuffered(t, a) ==
  /\ waiting /\ turn = t
  /\ reader' = [reader EXCEPT ![t] = "gone"]
  /\ answer' = [answer EXCEPT ![t] = a]

Answer(t, a) ==
  /\ reader' = [reader EXCEPT ![t] = "gone"]
  /\ answer' = [answer EXCEPT ![t] = a]

Fails(t) == Answer(t, [kind |-> "error", turn |-> 0])

WriteRequest(t) ==
  /\ reader[t] = "write"
  /\ alive /\ ~dead
  /\ serving' = t
  /\ reader' = [reader EXCEPT ![t] = "read"]
  /\ UNCHANGED <<answer, left, spoilt, alive, pipe, printed, exchange, collector>>

WriteFails(t) ==
  /\ reader[t] = "write"
  /\ Fails(t)
  /\ UNCHANGED <<left, spoilt, process, exchange, collector>>

\* readFrame and decodeEvent.
Reads(t, kinds) ==
  /\ reader[t] = "read"
  /\ ~dead
  /\ pipe # <<>> /\ Head(pipe).kind \in kinds
  /\ pipe' = Tail(pipe)

ReadPrint(t) ==
  /\ Reads(t, {"print"})
  /\ IF t \in spoilt
     THEN UNCHANGED <<reader, left>>
     ELSE /\ reader' = [reader EXCEPT ![t] = "print"]
          /\ left' = [left EXCEPT ![t] =
                        [k \in 1..(Head(pipe).hi - Head(pipe).lo + 1) |-> Head(pipe).lo + k - 1]]
  /\ UNCHANGED <<answer, spoilt, serving, alive, printed, exchange, collector>>

\* Mutant: the cap is compared before the chunk is counted.
Overflows_Late(size) == MaxBytes >= 0 /\ bytes > MaxBytes

\* CollectString.Write and CollectStreams.Write.
Overflows(size) == MaxBytes >= 0 /\ bytes + size > MaxBytes

\* Mutant: a collector that has failed takes the next chunk that fits.
Write_ForgetsFailure(c) ==
  /\ ~Overflows(printed[c])
  /\ collected' = Append(collected, c)
  /\ bytes' = bytes + printed[c]
  /\ UNCHANGED failed

Write(c) ==
  /\ ~failed /\ ~Overflows(printed[c])
  /\ collected' = Append(collected, c)
  /\ bytes' = bytes + printed[c]
  /\ UNCHANGED failed

WriteRefused(c) ==
  /\ failed \/ Overflows(printed[c])
  /\ failed' = TRUE
  /\ UNCHANGED <<collected, bytes>>

Deliver(t) ==
  /\ reader[t] = "print" /\ left[t] # <<>>
  /\ Write(Head(left[t]))
  /\ left' = [left EXCEPT ![t] = Tail(@)]
  /\ UNCHANGED <<reader, answer, spoilt, process, exchange>>

\* Mutant: the reader gives up the turn when its callback fails.
DeliverFails_Returns(t) ==
  /\ reader[t] = "print" /\ left[t] # <<>>
  /\ WriteRefused(Head(left[t]))
  /\ left' = [left EXCEPT ![t] = <<>>]
  /\ Answer(t, [kind |-> "callback", turn |-> 0])
  /\ UNCHANGED <<spoilt, process, exchange>>

DeliverFails(t) ==
  /\ reader[t] = "print" /\ left[t] # <<>>
  /\ WriteRefused(Head(left[t]))
  /\ left' = [left EXCEPT ![t] = <<>>]
  /\ spoilt' = spoilt \cup {t}
  /\ UNCHANGED <<reader, answer, process, exchange>>

Delivered(t) ==
  /\ reader[t] = "print" /\ left[t] = <<>>
  /\ reader' = [reader EXCEPT ![t] = "read"]
  /\ UNCHANGED <<answer, left, spoilt, process, exchange, collector>>

ReadLast(t) ==
  /\ Reads(t, {"event", "fatal"})
  /\ Answer(t, IF t \in spoilt THEN [kind |-> "callback", turn |-> 0]
               ELSE [kind |-> Head(pipe).kind, turn |-> Head(pipe).turn])
  /\ UNCHANGED <<left, spoilt, serving, alive, printed, exchange, collector>>

ReadGarbage(t) ==
  /\ Reads(t, {"garbage"})
  /\ Fails(t)
  /\ UNCHANGED <<left, spoilt, serving, alive, printed, exchange, collector>>

\* End of file, or the host has closed its end.
ReadFails(t) ==
  /\ reader[t] = "read"
  /\ dead \/ (~alive /\ pipe = <<>>)
  /\ Fails(t)
  /\ UNCHANGED <<left, spoilt, process, exchange, collector>>

ReaderStep(t) ==
  \/ WriteRequest(t) \/ WriteFails(t) \/ ReadPrint(t) \/ Deliver(t) \/ DeliverFails(t)
  \/ Delivered(t) \/ ReadLast(t) \/ ReadGarbage(t) \/ ReadFails(t)

Active(t) == reader[t] \in {"write", "read", "print"}

\* No further turn is possible, by the bound or because the worker is dead.
Finished ==
  /\ ~waiting /\ (dead \/ turn = MaxTurns)
  /\ UNCHANGED vars

Next ==
  \/ Begin \/ TakeAnswer \/ TimesOut \/ KillIdle
  \/ Prints \/ Responds \/ Exits
  \/ \E t \in Turns : ReaderStep(t)
  \/ Finished

Spec == Init /\ [][Next]_vars

(***************************************************************************)
(* Fairness: a reader goroutine goes on (the print callback returns), and  *)
(* a turn is answered or times out, which takes a RequestTimeout or a      *)
(* deadline of the caller's context.  The process is not fair.             *)
(***************************************************************************)
FairSpec ==
  /\ Spec
  /\ WF_vars(TakeAnswer \/ TimesOut)
  /\ \A t \in Turns : WF_vars(ReaderStep(t))
-----------------------------------------------------------------------------
TypeOK ==
  /\ turn \in 0..MaxTurns /\ waiting \in BOOLEAN /\ dead \in BOOLEAN
  /\ result \in [Turns -> Answers] /\ answer \in [Turns -> Answers]
  /\ reader \in [Turns -> {"none", "write", "read", "print", "gone"}]
  /\ left \in [Turns -> Seq(Nat)] /\ spoilt \subseteq Turns
  /\ serving \in 0..MaxTurns /\ alive \in BOOLEAN
  /\ pipe \in Seq([kind : {"print", "event", "fatal", "garbage"}, turn : Turns,
                   lo : Nat, hi : Nat])
  /\ printed \in Seq(Sizes)
  /\ collected \in Seq(Nat) /\ failed \in BOOLEAN
  /\ bytes \in Nat

(***************************************************************************)
(* The event that a turn returns answers the request of that turn: what is *)
(* left in the pipe by a turn that timed out, or whose print callback      *)
(* failed, is never taken for the answer to a later request.               *)
(***************************************************************************)
AnswersItsRequest ==
  \A t \in Turns : result[t].kind \in {"event", "fatal"} => result[t].turn = t

(***************************************************************************)
(* The pipe of a live worker has one reader, that of the turn under way;   *)
(* only on a dead worker do readers of old turns linger.                   *)
(***************************************************************************)
OneReader ==
  /\ \A t \in Turns : Active(t) /\ ~dead => waiting /\ t = turn
  /\ \A t, u \in Turns : Active(t) /\ Active(u) => t = u

(***************************************************************************)
(* The collector holds the output from its start, in order and without a   *)
(* gap, however many turns and failures there were; and if it has not      *)
(* failed, all output that came before the event of a turn is in it when   *)
(* the turn returns that event.  It never holds more than its cap.         *)
(***************************************************************************)
OutputInOrder ==
  /\ \A k \in 1..Len(collected) : collected[k] = k
  /\ turn > 0 /\ ~waiting /\ result[turn].kind = "event" /\ ~failed
       => Len(collected) = Len(printed)
  /\ MaxBytes >= 0 => bytes <= MaxBytes

(***************************************************************************)
(* No reader goroutine is leaked: each ends, whether or not anybody still  *)
(* waits for its answer and whatever the process does.                     *)
(***************************************************************************)
ReadersEnd == \A t \in Turns : Active(t) ~> ~Active(t)
=============================================================================
