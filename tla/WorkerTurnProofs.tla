-------------------------- MODULE WorkerTurnProofs --------------------------
(***************************************************************************)
(* Proofs about WorkerTurn, for any number of turns and chunks, any chunk  *)
(* sizes and any cap of the collector.                                     *)
(***************************************************************************)
EXTENDS WorkerTurn, TLAPS

Frames == [kind : {"print", "event", "fatal", "garbage"}, turn : Turns, lo : Nat, hi : Nat]

\* Nothing is on its way from the process to the host.
Quiet == pipe = <<>> /\ serving = 0

(***************************************************************************)
(* Turns and readers: only the last turn's reader is active, and on a live *)
(* worker only while that turn waits; an answer is a reader's last word.   *)
(***************************************************************************)
Turning ==
  /\ \A t \in Turns : Active(t) => t = turn /\ (dead \/ waiting)
  /\ \A t \in Turns : t > turn => reader[t] = "none"
  /\ \A t \in Turns : answer[t] # Nothing => reader[t] = "gone"
  /\ waiting => turn > 0
  /\ dead => ~alive

(***************************************************************************)
(* The pipe holds frames of the last turn only, the last event of the turn *)
(* at the end; and nothing is on its way unless the turn's reader is there *)
(* to read it, or the worker is dead.                                      *)
(***************************************************************************)
Framing ==
  /\ serving \in {0, turn}
  /\ \A i \in 1..Len(pipe) : pipe[i].turn = turn
  /\ \A i \in 1..Len(pipe) : pipe[i].kind # "print" => i = Len(pipe) /\ serving = 0
  /\ ~dead /\ ~waiting => Quiet
  /\ \A t \in Turns : reader[t] = "write" => Quiet
  /\ \A t \in Turns : t = turn /\ answer[t].kind \in {"event", "fatal", "callback"} => Quiet
  /\ \A t \in Turns : t = turn /\ ~waiting /\ result[t].kind = "event" => Quiet /\ reader[t] = "gone"

Answering ==
  \A t \in Turns : /\ answer[t].kind \in {"event", "fatal"} => answer[t].turn = t
                   /\ result[t].kind \in {"event", "fatal"} => result[t].turn = t

(***************************************************************************)
(* Chunks: a reader that is not printing has none, all that are under way  *)
(* have been printed, and a callback error means a failed collector.       *)
(***************************************************************************)
Chunks ==
  /\ \A t \in Turns : left[t] # <<>> => reader[t] = "print"
  /\ \A t \in Turns : \A k \in 1..Len(left[t]) : left[t][k] \in 1..Len(printed)
  /\ \A i \in 1..Len(pipe) : pipe[i].kind = "print" =>
       1 <= pipe[i].lo /\ pipe[i].lo <= pipe[i].hi /\ pipe[i].hi <= Len(printed)
  /\ spoilt # {} => failed

\* The chunk after those that come before the frame i of the pipe.
Mark(i) ==
  IF i \in 1..Len(pipe) /\ pipe[i].kind = "print" THEN pipe[i].lo ELSE Len(printed) + 1

(***************************************************************************)
(* Until the collector fails no chunk is missing on the way from the       *)
(* sandbox to it: collected, then with the reader, then in the pipe.       *)
(***************************************************************************)
Flowing ==
  /\ \A k \in 1..Len(collected) : collected[k] = k
  /\ MaxBytes >= 0 => bytes <= MaxBytes
  /\ ~failed =>
       /\ \A t \in Turns : t = turn =>
            /\ \A k \in 1..Len(left[t]) : left[t][k] = Len(collected) + k
            /\ Len(collected) + Len(left[t]) + 1 = Mark(1)
       /\ turn = 0 => Len(collected) + 1 = Mark(1)
       /\ \A i \in 1..Len(pipe) : pipe[i].kind = "print" => pipe[i].hi + 1 = Mark(i + 1)

\* The first frame is read.
LEMMA Popping ==
  ASSUME TypeOK, pipe # <<>>, pipe' = Tail(pipe)
  PROVE  /\ pipe' \in Seq(Frames) /\ Len(pipe) \in Nat /\ Len(pipe) >= 1
         /\ Len(pipe') = Len(pipe) - 1
         /\ \A i \in 1..Len(pipe') : i + 1 \in 1..Len(pipe) /\ pipe'[i] = pipe[i + 1]
         /\ Head(pipe) \in Frames /\ Head(pipe) = pipe[1] /\ 1 \in 1..Len(pipe)
  <1>1. pipe \in Seq(Frames)
    BY DEF TypeOK, Frames
  <1> QED
    BY <1>1

\* A frame is written.
LEMMA Pushing ==
  ASSUME TypeOK, NEW f \in Frames, pipe' = Append(pipe, f)
  PROVE  /\ pipe' \in Seq(Frames) /\ Len(pipe) \in Nat /\ Len(pipe') = Len(pipe) + 1
         /\ \A i \in 1..Len(pipe) : pipe'[i] = pipe[i]
         /\ pipe'[Len(pipe) + 1] = f
  <1>1. pipe \in Seq(Frames)
    BY DEF TypeOK, Frames
  <1> QED
    BY <1>1

LEMMA FrameTypes ==
  ASSUME TypeOK, serving # 0
  PROVE  /\ \A n \in 1..2 : Output(serving, Len(printed) + 1, Len(printed) + n) \in Frames
         /\ \A k \in {"event", "fatal", "garbage"} : Last(serving, k) \in Frames
  <1>1. serving \in Turns /\ Len(printed) \in Nat
    BY TurnsAssumption DEF TypeOK, Turns
  <1> QED
    BY <1>1 DEF Output, Last, Frames

LEMMA AnswerTypes ==
  /\ Nothing \in Answers
  /\ [kind |-> "error", turn |-> 0] \in Answers /\ [kind |-> "callback", turn |-> 0] \in Answers
  /\ \A k \in {"event", "fatal"}, t \in Turns : [kind |-> k, turn |-> t] \in Answers
  BY DEF Answers, Nothing
-----------------------------------------------------------------------------
LEMMA PrintsTypes ==
  ASSUME TypeOK, Chunks, Prints
  PROVE  TypeOK' /\ Chunks'
  <1>1. PICK n \in 1..2, s \in Sizes :
          /\ printed' = printed \o [k \in 1..n |-> s]
          /\ pipe' = Append(pipe, Output(serving, Len(printed) + 1, Len(printed) + n))
    BY DEF Prints
  <1>2. serving # 0 /\ UNCHANGED <<serving, alive, exchange, readers, collector>>
    BY DEF Prints
  <1>3. printed' \in Seq(Sizes) /\ Len(printed') = Len(printed) + n /\ Len(printed) \in Nat
    <2>1. printed \in Seq(Sizes) /\ [k \in 1..n |-> s] \in Seq(Sizes) /\ Len([k \in 1..n |-> s]) = n
      BY DEF TypeOK
    <2> QED
      BY <1>1, <2>1
  <1> DEFINE f == Output(serving, Len(printed) + 1, Len(printed) + n)
  <1>4. /\ f \in Frames /\ f.lo = Len(printed) + 1 /\ f.hi = Len(printed) + n
    BY <1>2, FrameTypes DEF Output
  <1> HIDE DEF f
  <1>5. /\ pipe' \in Seq(Frames) /\ Len(pipe') = Len(pipe) + 1 /\ Len(pipe) \in Nat
        /\ \A i \in 1..Len(pipe) : pipe'[i] = pipe[i]
        /\ pipe'[Len(pipe) + 1] = f
    BY <1>1, <1>4, Pushing DEF f
  <1>6. TypeOK'
    BY <1>2, <1>3, <1>5 DEF TypeOK, exchange, readers, collector, Frames
  <1>7. \A i \in 1..Len(pipe') : pipe'[i].kind = "print" =>
          1 <= pipe'[i].lo /\ pipe'[i].lo <= pipe'[i].hi /\ pipe'[i].hi <= Len(printed')
    <2>1. \A i \in 1..Len(pipe) : pipe[i].lo \in Nat /\ pipe[i].hi \in Nat
      <3>1. pipe \in Seq(Frames)
        BY DEF TypeOK, Frames
      <3>2. \A i \in 1..Len(pipe) : pipe[i] \in Frames
        BY <3>1
      <3> QED
        BY <3>2 DEF Frames
    <2>2. ASSUME NEW i \in 1..Len(pipe'), pipe'[i].kind = "print"
          PROVE  1 <= pipe'[i].lo /\ pipe'[i].lo <= pipe'[i].hi /\ pipe'[i].hi <= Len(printed')
      <3>1. CASE i \in 1..Len(pipe)
        <4>1. pipe'[i] = pipe[i] /\ pipe[i].kind = "print"
          BY <2>2, <3>1, <1>5
        <4>2. 1 <= pipe[i].lo /\ pipe[i].lo <= pipe[i].hi /\ pipe[i].hi <= Len(printed)
          BY <3>1, <4>1 DEF Chunks
        <4> QED
          BY <2>1, <3>1, <4>1, <4>2, <1>3
      <3>2. CASE i = Len(pipe) + 1
        BY <3>2, <1>3, <1>4, <1>5
      <3> QED
        BY <3>1, <3>2, <1>5
    <2> QED
      BY <2>2
  <1>8. \A t \in Turns : \A k \in 1..Len(left[t]) : left[t][k] \in 1..Len(printed')
    BY <1>3 DEF Chunks
  <1> QED
    BY <1>2, <1>6, <1>7, <1>8 DEF Chunks, readers, collector

LEMMA RespondsTypes ==
  ASSUME TypeOK, Chunks, Responds
  PROVE  TypeOK' /\ Chunks'
  <1>1. PICK k \in {"event", "fatal", "garbage"} : pipe' = Append(pipe, Last(serving, k))
    BY DEF Responds
  <1>2. serving # 0 /\ serving' = 0 /\ UNCHANGED <<alive, printed, exchange, readers, collector>>
    BY DEF Responds
  <1>3. Last(serving, k) \in Frames /\ Last(serving, k).kind # "print"
    BY <1>2, FrameTypes DEF Last
  <1>4. /\ pipe' \in Seq(Frames) /\ Len(pipe') = Len(pipe) + 1 /\ Len(pipe) \in Nat
        /\ \A i \in 1..Len(pipe) : pipe'[i] = pipe[i]
        /\ pipe'[Len(pipe) + 1].kind # "print"
    BY <1>1, <1>3, Pushing
  <1>5. TypeOK'
    BY <1>2, <1>4, TurnsAssumption DEF TypeOK, exchange, readers, collector, Frames
  <1>6. \A i \in 1..Len(pipe') : pipe'[i].kind = "print" => i \in 1..Len(pipe) /\ pipe'[i] = pipe[i]
    BY <1>4
  <1> QED
    BY <1>2, <1>5, <1>6 DEF Chunks, readers, collector

LEMMA ReadPrintTypes ==
  ASSUME TypeOK, Chunks, NEW t \in Turns, ReadPrint(t)
  PROVE  TypeOK' /\ Chunks'
  <1> DEFINE f == Head(pipe)
             chunks == [k \in 1..(f.hi - f.lo + 1) |-> f.lo + k - 1]
  <1>1. /\ reader[t] = "read" /\ pipe # <<>> /\ pipe' = Tail(pipe) /\ f.kind = "print"
        /\ UNCHANGED <<answer, spoilt, serving, alive, printed, exchange, collector>>
    BY DEF ReadPrint, Reads
  <1>2. /\ pipe' \in Seq(Frames) /\ Len(pipe') = Len(pipe) - 1 /\ Len(pipe) \in Nat
        /\ \A i \in 1..Len(pipe') : i + 1 \in 1..Len(pipe) /\ pipe'[i] = pipe[i + 1]
        /\ f \in Frames /\ f = pipe[1] /\ 1 \in 1..Len(pipe)
    BY <1>1, Popping
  <1>3. /\ f.lo \in Nat /\ f.hi \in Nat /\ Len(printed) \in Nat
        /\ 1 <= f.lo /\ f.lo <= f.hi /\ f.hi <= Len(printed)
    BY <1>1, <1>2 DEF Chunks, Frames, TypeOK
  <1>4. /\ chunks \in Seq(Nat) /\ Len(chunks) = f.hi - f.lo + 1
        /\ \A k \in 1..Len(chunks) : chunks[k] \in 1..Len(printed)
    <2>1. f.hi - f.lo + 1 \in Nat
      BY <1>3
    <2>2. \A k \in 1..(f.hi - f.lo + 1) : f.lo + k - 1 \in Nat /\ f.lo + k - 1 \in 1..Len(printed)
      BY <1>3
    <2> DEFINE n == f.hi - f.lo + 1
    <2>3. chunks \in [1..n -> Nat] /\ \A k \in 1..n : chunks[k] \in 1..Len(printed)
      BY <2>2
    <2>4. n \in Nat
      BY <2>1
    <2> HIDE DEF n, chunks
    <2>5. chunks \in Seq(Nat) /\ Len(chunks) = n
      BY <2>3, <2>4
    <2> QED
      BY <2>3, <2>5 DEF n
  <1> HIDE DEF chunks
  <1>5. \/ UNCHANGED <<reader, left>>
        \/ reader' = [reader EXCEPT ![t] = "print"] /\ left' = [left EXCEPT ![t] = chunks]
    BY DEF ReadPrint, chunks
  <1>6. /\ reader' \in [Turns -> {"none", "write", "read", "print", "gone"}]
        /\ left' \in [Turns -> Seq(Nat)]
    BY <1>4, <1>5 DEF TypeOK
  <1>7. TypeOK'
    BY <1>1, <1>2, <1>6 DEF TypeOK, exchange, collector, Frames
  <1>8. /\ \A u \in Turns : left'[u] # <<>> => reader'[u] = "print"
        /\ \A u \in Turns : \A k \in 1..Len(left'[u]) : left'[u][k] \in 1..Len(printed)
    BY <1>4, <1>5 DEF TypeOK, Chunks
  <1> QED
    BY <1>1, <1>2, <1>7, <1>8 DEF Chunks, collector

LEMMA DeliverTypes ==
  ASSUME TypeOK, Chunks, NEW t \in Turns, Deliver(t)
  PROVE  TypeOK' /\ Chunks'
  <1> DEFINE c == Head(left[t])
  <1>1. left[t] \in Seq(Nat) /\ left[t] # <<>> /\ reader[t] = "print"
    BY DEF Deliver, TypeOK
  <1>2. /\ c = left[t][1] /\ 1 \in 1..Len(left[t]) /\ c \in Nat
        /\ Tail(left[t]) \in Seq(Nat) /\ Len(Tail(left[t])) = Len(left[t]) - 1
        /\ \A k \in 1..Len(Tail(left[t])) : k + 1 \in 1..Len(left[t]) /\ Tail(left[t])[k] = left[t][k + 1]
    BY <1>1
  <1>3. c \in 1..Len(printed) /\ printed[c] \in Nat
    <2>1. c \in 1..Len(printed)
      BY <1>2 DEF Chunks
    <2>2. printed \in Seq(Sizes)
      BY DEF TypeOK
    <2>3. printed[c] \in Sizes
      BY <2>1, <2>2
    <2> QED
      BY <2>1, <2>3, TurnsAssumption
  <1> HIDE DEF c
  <1>4. /\ collected' = Append(collected, c) /\ bytes' = bytes + printed[c] /\ failed' = failed
        /\ left' = [left EXCEPT ![t] = Tail(left[t])]
        /\ UNCHANGED <<reader, answer, spoilt, process, exchange>>
    BY DEF Deliver, Write, c
  <1>5. collected' \in Seq(Nat) /\ bytes' \in Nat /\ left' \in [Turns -> Seq(Nat)]
    BY <1>2, <1>3, <1>4 DEF TypeOK
  <1>6. TypeOK'
    BY <1>4, <1>5 DEF TypeOK, process, exchange
  <1>7. /\ \A u \in Turns : u # t => left'[u] = left[u]
        /\ left'[t] = Tail(left[t])
    BY <1>4 DEF TypeOK
  <1>8. /\ \A u \in Turns : left'[u] # <<>> => reader[u] = "print"
        /\ \A u \in Turns : \A k \in 1..Len(left'[u]) : left'[u][k] \in 1..Len(printed)
    BY <1>1, <1>2, <1>7 DEF Chunks
  <1> QED
    BY <1>4, <1>6, <1>8 DEF Chunks, process

LEMMA Typing == Spec => [](TypeOK /\ Turning /\ Chunks)
  <1>1. Init => TypeOK /\ Turning /\ Chunks
    <2> SUFFICES ASSUME Init PROVE TypeOK /\ Turning /\ Chunks
      OBVIOUS
    <2>1. /\ reader = [t \in Turns |-> "none"] /\ left = [t \in Turns |-> <<>>]
          /\ result = [t \in Turns |-> Nothing] /\ answer = [t \in Turns |-> Nothing]
          /\ turn = 0 /\ serving = 0 /\ bytes = 0 /\ waiting = FALSE /\ dead = FALSE
          /\ alive = TRUE /\ failed = FALSE /\ spoilt = {}
          /\ pipe = <<>> /\ printed = <<>> /\ collected = <<>>
      BY DEF Init
    <2>2. result \in [Turns -> Answers] /\ answer \in [Turns -> Answers]
      BY <2>1, AnswerTypes
    <2>3. /\ reader \in [Turns -> {"none", "write", "read", "print", "gone"}]
          /\ left \in [Turns -> Seq(Nat)] /\ collected \in Seq(Nat) /\ printed \in Seq(Sizes)
          /\ pipe \in Seq([kind : {"print", "event", "fatal", "garbage"}, turn : Turns, lo : Nat, hi : Nat])
          /\ Len(pipe) = 0
      BY <2>1
    <2>4. turn \in 0..MaxTurns /\ serving \in 0..MaxTurns /\ bytes \in Nat /\ spoilt \subseteq Turns
      BY <2>1, TurnsAssumption
    <2>5. TypeOK
      BY <2>1, <2>2, <2>3, <2>4, Zenon DEF TypeOK
    <2>6. Turning
      BY <2>1 DEF Turning, Active
    <2>7. Chunks
      BY <2>1, <2>3 DEF Chunks
    <2> QED
      BY <2>5, <2>6, <2>7
  <1>2. TypeOK /\ Turning /\ Chunks /\ [Next]_vars => TypeOK' /\ Chunks'
    <2> SUFFICES ASSUME TypeOK, Turning, Chunks, [Next]_vars
                 PROVE  TypeOK' /\ Chunks'
      OBVIOUS
    <2>1. CASE Begin
      <3>1. /\ turn' = turn + 1 /\ turn' \in 0..MaxTurns /\ waiting'
            /\ reader' = [reader EXCEPT ![turn + 1] = "write"] /\ ~waiting /\ ~dead
            /\ UNCHANGED <<result, dead, answer, left, spoilt, process, collector>>
        BY <2>1, TurnsAssumption DEF Begin, TypeOK
      <3>2. left[turn + 1] = <<>>
        <4>1. turn + 1 \in Turns /\ turn + 1 > turn
          BY <3>1, TurnsAssumption DEF TypeOK, Turns
        <4> QED
          BY <4>1 DEF Turning, Chunks
      <3>3. TypeOK'
        BY <3>1 DEF TypeOK, process, collector
      <3>4. \A t \in Turns : left[t] # <<>> => reader'[t] = "print"
        BY <3>1, <3>2 DEF TypeOK, Chunks
      <3> QED
        BY <3>1, <3>3, <3>4 DEF Chunks, process, collector
    <2>2. CASE TakeAnswer
      BY <2>2, AnswerTypes DEF TakeAnswer, ReturnWith, Kill, exchange, readers, process, collector, TypeOK, Chunks, Turns
    <2>3. CASE TimesOut
      BY <2>3, AnswerTypes DEF TimesOut, ReturnWith, Kill, exchange, readers, process, collector, TypeOK, Chunks, Turns
    <2>4. CASE KillIdle
      BY <2>4 DEF KillIdle, Kill, exchange, readers, process, collector, TypeOK, Chunks
    <2>5. CASE Prints
      BY <2>5, PrintsTypes
    <2>6. CASE Responds
      BY <2>6, RespondsTypes
    <2>7. CASE Exits
      BY <2>7 DEF Exits, exchange, readers, process, collector, TypeOK, Chunks
    <2>8. ASSUME NEW t \in Turns, WriteRequest(t)
          PROVE  TypeOK' /\ Chunks'
      <3>1. serving' \in 0..MaxTurns
        BY <2>8, TurnsAssumption DEF WriteRequest, Turns
      <3>2. TypeOK'
        BY <2>8, <3>1 DEF WriteRequest, exchange, collector, TypeOK
      <3> QED
        BY <2>8, <3>2 DEF WriteRequest, collector, TypeOK, Chunks
    <2>9. ASSUME NEW t \in Turns, WriteFails(t)
          PROVE  TypeOK' /\ Chunks'
      BY <2>9, AnswerTypes DEF WriteFails, Fails, Answer, exchange, readers, process, collector, TypeOK, Chunks
    <2>10. ASSUME NEW t \in Turns, ReadPrint(t)
          PROVE  TypeOK' /\ Chunks'
      BY <2>10, ReadPrintTypes
    <2>11. ASSUME NEW t \in Turns, Deliver(t)
          PROVE  TypeOK' /\ Chunks'
      BY <2>11, DeliverTypes
    <2>12. ASSUME NEW t \in Turns, DeliverFails(t)
          PROVE  TypeOK' /\ Chunks'
      BY <2>12 DEF DeliverFails, WriteRefused, exchange, readers, process, collector, TypeOK, Chunks
    <2>13. ASSUME NEW t \in Turns, Delivered(t)
          PROVE  TypeOK' /\ Chunks'
      BY <2>13 DEF Delivered, exchange, readers, process, collector, TypeOK, Chunks
    <2>14. ASSUME NEW t \in Turns, ReadLast(t)
          PROVE  TypeOK' /\ Chunks'
      <3>1. /\ pipe' \in Seq(Frames) /\ Len(pipe') = Len(pipe) - 1
            /\ \A i \in 1..Len(pipe') : i + 1 \in 1..Len(pipe) /\ pipe'[i] = pipe[i + 1]
            /\ Head(pipe) \in Frames
        BY <2>14, Popping DEF ReadLast, Reads
      <3>2. PICK a \in Answers : Answer(t, a)
        BY <2>14, <3>1, AnswerTypes DEF ReadLast, Reads, Frames
      <3>3. answer' \in [Turns -> Answers] /\ reader' \in [Turns -> {"none", "write", "read", "print", "gone"}]
        BY <3>2 DEF Answer, TypeOK
      <3>4. \A u \in Turns : left[u] # <<>> => reader'[u] = "print"
        BY <2>14, <3>2 DEF ReadLast, Reads, Answer, TypeOK, Chunks
      <3>5. TypeOK'
        BY <2>14, <3>1, <3>3 DEF ReadLast, exchange, collector, TypeOK, Frames
      <3>6. Chunks'
        BY <2>14, <3>1, <3>4 DEF ReadLast, collector, Chunks
      <3> QED
        BY <3>5, <3>6
    <2>15. ASSUME NEW t \in Turns, ReadGarbage(t)
          PROVE  TypeOK' /\ Chunks'
      <3>1. /\ pipe' \in Seq(Frames) /\ Len(pipe') = Len(pipe) - 1
            /\ \A i \in 1..Len(pipe') : i + 1 \in 1..Len(pipe) /\ pipe'[i] = pipe[i + 1]
            /\ Head(pipe) \in Frames
        BY <2>15, Popping DEF ReadGarbage, Reads
      <3>2. PICK a \in Answers : Answer(t, a)
        BY <2>15, <3>1, AnswerTypes DEF ReadGarbage, Fails
      <3>3. answer' \in [Turns -> Answers] /\ reader' \in [Turns -> {"none", "write", "read", "print", "gone"}]
        BY <3>2 DEF Answer, TypeOK
      <3>4. \A u \in Turns : left[u] # <<>> => reader'[u] = "print"
        BY <2>15, <3>2 DEF ReadGarbage, Reads, Answer, TypeOK, Chunks
      <3>5. TypeOK'
        BY <2>15, <3>1, <3>3 DEF ReadGarbage, exchange, collector, TypeOK, Frames
      <3>6. Chunks'
        BY <2>15, <3>1, <3>4 DEF ReadGarbage, collector, Chunks
      <3> QED
        BY <3>5, <3>6
    <2>16. ASSUME NEW t \in Turns, ReadFails(t)
          PROVE  TypeOK' /\ Chunks'
      BY <2>16, AnswerTypes DEF ReadFails, Fails, Answer, exchange, readers, process, collector, TypeOK, Chunks
    <2>17. CASE UNCHANGED vars
      BY <2>17 DEF vars, exchange, readers, process, collector, TypeOK, Chunks
    <2> QED
      BY <2>1, <2>2, <2>3, <2>4, <2>5, <2>6, <2>7, <2>8, <2>9, <2>10, <2>11, <2>12,
         <2>13, <2>14, <2>15, <2>16, <2>17 DEF Next, ReaderStep, Finished
  <1>3. TypeOK /\ Turning /\ [Next]_vars => Turning'
    <2> SUFFICES ASSUME TypeOK, Turning, [Next]_vars
                 PROVE  Turning'
      OBVIOUS
    <2>1. CASE Begin
      <3>1. /\ turn' = turn + 1 /\ turn + 1 \in Turns /\ turn \in Nat /\ waiting'
            /\ reader' = [reader EXCEPT ![turn + 1] = "write"] /\ ~waiting /\ ~dead
            /\ UNCHANGED <<dead, answer, alive>>
        BY <2>1, TurnsAssumption DEF Begin, TypeOK, Turns, process
      <3>2. \A t \in Turns : t # turn + 1 => reader'[t] = reader[t]
        BY <3>1 DEF TypeOK
      <3>3. reader[turn + 1] = "none" /\ reader'[turn + 1] = "write"
        BY <3>1 DEF TypeOK, Turning
      <3>4. \A t \in Turns : t > turn + 1 => t > turn /\ t # turn + 1
        BY <3>1 DEF Turns
      <3> QED
        BY <3>1, <3>2, <3>3, <3>4 DEF Turning, Active
    <2>2. CASE TakeAnswer
      BY <2>2 DEF TakeAnswer, ReturnWith, Kill, exchange, readers, process, collector, Turning, Active, TypeOK, Turns, Nothing
    <2>3. CASE TimesOut
      BY <2>3 DEF TimesOut, ReturnWith, Kill, exchange, readers, process, collector, Turning, Active, TypeOK, Turns, Nothing
    <2>4. CASE KillIdle
      BY <2>4 DEF KillIdle, Kill, exchange, readers, process, collector, Turning, Active, TypeOK, Turns, Nothing
    <2>5. CASE Prints
      BY <2>5 DEF Prints, exchange, readers, Turning, Active, TypeOK
    <2>6. CASE Responds
      BY <2>6 DEF Responds, exchange, readers, Turning, Active, TypeOK
    <2>7. CASE Exits
      BY <2>7 DEF Exits, exchange, readers, Turning, Active, TypeOK
    <2>8. ASSUME NEW t \in Turns, WriteRequest(t)
          PROVE  Turning'
      BY <2>8 DEF WriteRequest, exchange, readers, process, collector, Turning, Active, TypeOK, Turns, Nothing
    <2>9. ASSUME NEW t \in Turns, WriteFails(t)
          PROVE  Turning'
      BY <2>9 DEF WriteFails, Fails, Answer, exchange, readers, process, collector, Turning, Active, TypeOK, Turns, Nothing
    <2>10. ASSUME NEW t \in Turns, ReadPrint(t)
          PROVE  Turning'
      BY <2>10 DEF ReadPrint, Reads, exchange, readers, process, collector, Turning, Active, TypeOK, Turns, Nothing
    <2>11. ASSUME NEW t \in Turns, Deliver(t)
          PROVE  Turning'
      BY <2>11 DEF Deliver, Write, exchange, readers, process, collector, Turning, Active, TypeOK, Turns, Nothing
    <2>12. ASSUME NEW t \in Turns, DeliverFails(t)
          PROVE  Turning'
      BY <2>12 DEF DeliverFails, WriteRefused, exchange, readers, process, collector, Turning, Active, TypeOK, Turns, Nothing
    <2>13. ASSUME NEW t \in Turns, Delivered(t)
          PROVE  Turning'
      BY <2>13 DEF Delivered, exchange, readers, process, collector, Turning, Active, TypeOK, Turns, Nothing
    <2>14. ASSUME NEW t \in Turns, ReadLast(t)
          PROVE  Turning'
      <3>1. PICK a : Answer(t, a)
        BY <2>14 DEF ReadLast
      <3> QED
        BY <2>14, <3>1 DEF ReadLast, Reads, Answer, exchange, Turning, Active, TypeOK
    <2>15. ASSUME NEW t \in Turns, ReadGarbage(t)
          PROVE  Turning'
      <3>1. PICK a : Answer(t, a)
        BY <2>15 DEF ReadGarbage, Fails
      <3> QED
        BY <2>15, <3>1 DEF ReadGarbage, Reads, Answer, exchange, Turning, Active, TypeOK
    <2>16. ASSUME NEW t \in Turns, ReadFails(t)
          PROVE  Turning'
      BY <2>16 DEF ReadFails, Fails, Answer, exchange, readers, process, collector, Turning, Active, TypeOK, Turns, Nothing
    <2>17. CASE UNCHANGED vars
      BY <2>17 DEF vars, exchange, readers, process, Turning, Active
    <2> QED
      BY <2>1, <2>2, <2>3, <2>4, <2>5, <2>6, <2>7, <2>8, <2>9, <2>10, <2>11, <2>12,
         <2>13, <2>14, <2>15, <2>16, <2>17 DEF Next, ReaderStep, Finished
  <1> QED
    BY <1>1, <1>2, <1>3, PTL DEF Spec
-----------------------------------------------------------------------------
\* The last event of a turn is the last frame of its answer.
LEMMA LastFrame ==
  ASSUME TypeOK, Framing, pipe # <<>>, pipe[1].kind # "print", pipe' = Tail(pipe)
  PROVE  pipe' = <<>> /\ serving = 0
  <1>1. /\ pipe' \in Seq(Frames) /\ Len(pipe) \in Nat /\ Len(pipe') = Len(pipe) - 1 /\ 1 \in 1..Len(pipe)
    BY Popping
  <1>2. 1 = Len(pipe) /\ serving = 0
    BY <1>1 DEF Framing
  <1>3. Len(pipe') = 0
    BY <1>1, <1>2
  <1> QED
    BY <1>1, <1>2, <1>3

LEMMA KindsOfAnswer ==
  ASSUME NEW a \in Answers, a # Nothing
  PROVE  a.kind \in {"event", "fatal", "callback", "error"}
  BY DEF Answers, Nothing

LEMMA FramingPop ==
  ASSUME TypeOK, Framing, pipe # <<>>, pipe' = Tail(pipe), serving' = serving, turn' = turn,
         ~dead, waiting, waiting', answer' = answer,
         \A u \in Turns : reader'[u] = "write" => reader[u] = "write"
  PROVE  Framing'
  <1>1. /\ Len(pipe) \in Nat /\ Len(pipe') = Len(pipe) - 1
    BY Popping
  <1>2. \A i \in 1..Len(pipe') : i + 1 \in 1..Len(pipe) /\ pipe'[i] = pipe[i + 1]
    BY Popping
  <1>3. ~Quiet
    BY DEF Quiet
  <1>4. \A m, n \in Nat : m = n - 1 => \A i \in 1..m : i + 1 = n => i = m
    OBVIOUS
  <1>5. Len(pipe') \in Nat
    BY Popping
  <1>6. \A i \in 1..Len(pipe') : i + 1 = Len(pipe) => i = Len(pipe')
    BY <1>1, <1>4, <1>5, Zenon
  <1> QED
    BY <1>2, <1>3, <1>6 DEF Framing

LEMMA FramingPush ==
  ASSUME TypeOK, Turning, Framing, alive, serving # 0, NEW f \in Frames, f.turn = serving,
         pipe' = Append(pipe, f), serving' \in {0, serving}, f.kind # "print" => serving' = 0,
         UNCHANGED <<exchange, readers>>
  PROVE  Framing'
  <1>1. /\ Len(pipe) \in Nat /\ Len(pipe') = Len(pipe) + 1
        /\ \A i \in 1..Len(pipe) : pipe'[i] = pipe[i]
        /\ pipe'[Len(pipe) + 1] = f
    BY Pushing
  <1>2. ~Quiet /\ serving = turn
    BY DEF Quiet, Framing
  <1>3. \A i \in 1..Len(pipe') : i \in 1..Len(pipe) \/ i = Len(pipe) + 1
    BY <1>1
  <1>4. \A i \in 1..Len(pipe) : pipe[i].kind = "print"
    BY DEF Framing
  <1>5. /\ \A i \in 1..Len(pipe') : pipe'[i].turn = turn
        /\ \A i \in 1..Len(pipe') : pipe'[i].kind # "print" => i = Len(pipe') /\ serving' = 0
    BY <1>1, <1>2, <1>3, <1>4 DEF Framing
  <1> QED
    BY <1>2, <1>5 DEF Framing, Turning, exchange, readers

LEMMA FramingHolds == Spec => []Framing
  <1>1. Init => Framing
    BY DEF Init, Framing, Quiet, Nothing
  <1>2. TypeOK /\ Turning /\ Framing /\ [Next]_vars => Framing'
    <2> SUFFICES ASSUME TypeOK, Turning, Framing, [Next]_vars
                 PROVE  Framing'
      OBVIOUS
    <2>1. CASE Begin
      <3>1. turn' = turn + 1 /\ turn \in Nat /\ waiting' /\ Quiet /\ UNCHANGED <<pipe, serving, answer>>
        BY <2>1 DEF Begin, TypeOK, Framing, process
      <3> QED
        BY <3>1 DEF Framing, Quiet
    <2>2. CASE TakeAnswer
      <3>1. /\ waiting /\ ~waiting' /\ turn \in Turns /\ answer[turn] # Nothing /\ reader[turn] = "gone"
            /\ result'[turn] = answer[turn] /\ answer'[turn] = Nothing
            /\ UNCHANGED <<turn, reader, pipe, serving>>
            /\ \A t \in Turns : t # turn => answer'[t] = answer[t]
        BY <2>2, TurnsAssumption DEF TakeAnswer, ReturnWith, Kill, process, Turning, TypeOK, Turns
      <3>2. answer[turn].kind \in {"event", "fatal", "callback"} \/ dead'
        BY <2>2, <3>1, KindsOfAnswer DEF TakeAnswer, Kill, TypeOK
      <3> QED
        BY <3>1, <3>2 DEF Framing, Quiet, Nothing
    <2>3. CASE TimesOut
      BY <2>3 DEF TimesOut, ReturnWith, Kill, exchange, readers, process, collector, Framing, Quiet, Turning, Active, TypeOK, Turns, Nothing
    <2>4. CASE KillIdle
      BY <2>4 DEF KillIdle, Kill, exchange, readers, process, collector, Framing, Quiet, Turning, Active, TypeOK, Turns, Nothing
    <2>5. CASE Prints
      <3>1. PICK n \in 1..2 : pipe' = Append(pipe, Output(serving, Len(printed) + 1, Len(printed) + n))
        BY <2>5 DEF Prints
      <3>2. serving # 0 /\ alive /\ serving' = serving /\ UNCHANGED <<exchange, readers>>
        BY <2>5 DEF Prints
      <3>3. Output(serving, Len(printed) + 1, Len(printed) + n) \in Frames
        BY <3>2, FrameTypes
      <3> QED
        BY <3>1, <3>2, <3>3, FramingPush DEF Output
    <2>6. CASE Responds
      <3>1. PICK k \in {"event", "fatal", "garbage"} : pipe' = Append(pipe, Last(serving, k))
        BY <2>6 DEF Responds
      <3>2. serving # 0 /\ alive /\ serving' = 0 /\ UNCHANGED <<exchange, readers>>
        BY <2>6 DEF Responds
      <3>3. Last(serving, k) \in Frames
        BY <3>2, FrameTypes
      <3> QED
        BY <3>1, <3>2, <3>3, FramingPush DEF Last
    <2>7. CASE Exits
      BY <2>7 DEF Exits, exchange, readers, process, collector, Framing, Quiet, Turning, Active, TypeOK, Turns, Nothing
    <2>8. ASSUME NEW t \in Turns, WriteRequest(t)
          PROVE  Framing'
      BY <2>8 DEF WriteRequest, exchange, readers, process, collector, Framing, Quiet, Turning, Active, TypeOK, Turns, Nothing
    <2>9. ASSUME NEW t \in Turns, WriteFails(t)
          PROVE  Framing'
      BY <2>9 DEF WriteFails, Fails, Answer, exchange, readers, process, collector, Framing, Quiet, Turning, Active, TypeOK, Turns, Nothing
    <2>10. ASSUME NEW t \in Turns, ReadPrint(t)
          PROVE  Framing'
      <3>1. /\ t = turn /\ ~dead /\ waiting /\ answer[t] = Nothing /\ reader[t] = "read"
        BY <2>10 DEF ReadPrint, Reads, Turning, Active
      <3>2. \A u \in Turns : reader'[u] = "write" => reader[u] = "write"
        BY <2>10 DEF ReadPrint, TypeOK
      <3> QED
        BY <2>10, <3>1, <3>2, FramingPop DEF ReadPrint, Reads, exchange, Nothing
    <2>11. ASSUME NEW t \in Turns, Deliver(t)
          PROVE  Framing'
      BY <2>11 DEF Deliver, Write, exchange, readers, process, collector, Framing, Quiet, Turning, Active, TypeOK, Turns, Nothing
    <2>12. ASSUME NEW t \in Turns, DeliverFails(t)
          PROVE  Framing'
      BY <2>12 DEF DeliverFails, WriteRefused, exchange, readers, process, collector, Framing, Quiet, Turning, Active, TypeOK, Turns, Nothing
    <2>13. ASSUME NEW t \in Turns, Delivered(t)
          PROVE  Framing'
      BY <2>13 DEF Delivered, exchange, readers, process, collector, Framing, Quiet, Turning, Active, TypeOK, Turns, Nothing
    <2>14. ASSUME NEW t \in Turns, ReadLast(t)
          PROVE  Framing'
      <3>1. /\ t = turn /\ ~dead /\ waiting /\ reader[t] = "read"
        BY <2>14 DEF ReadLast, Reads, Turning, Active
      <3>2. pipe # <<>> /\ pipe' = Tail(pipe) /\ pipe[1].kind # "print"
        BY <2>14, Popping DEF ReadLast, Reads
      <3>3. pipe' = <<>> /\ serving' = 0 /\ serving = 0
        BY <2>14, <3>2, LastFrame DEF ReadLast
      <3>4. \A u \in Turns : reader'[u] = "write" => reader[u] = "write"
        BY <2>14 DEF ReadLast, Answer, TypeOK
      <3> QED
        BY <2>14, <3>1, <3>3, <3>4 DEF ReadLast, exchange, Framing, Quiet
    <2>15. ASSUME NEW t \in Turns, ReadGarbage(t)
          PROVE  Framing'
      <3>1. /\ t = turn /\ ~dead /\ waiting /\ reader[t] = "read"
        BY <2>15 DEF ReadGarbage, Reads, Turning, Active
      <3>2. pipe # <<>> /\ pipe' = Tail(pipe) /\ pipe[1].kind # "print"
        BY <2>15, Popping DEF ReadGarbage, Reads
      <3>3. pipe' = <<>> /\ serving' = 0 /\ serving = 0
        BY <2>15, <3>2, LastFrame DEF ReadGarbage
      <3>4. \A u \in Turns : reader'[u] = "write" => reader[u] = "write"
        BY <2>15 DEF ReadGarbage, Fails, Answer, TypeOK
      <3> QED
        BY <2>15, <3>1, <3>3, <3>4 DEF ReadGarbage, exchange, Framing, Quiet
    <2>16. ASSUME NEW t \in Turns, ReadFails(t)
          PROVE  Framing'
      BY <2>16 DEF ReadFails, Fails, Answer, exchange, readers, process, collector, Framing, Quiet, Turning, Active, TypeOK, Turns, Nothing
    <2>17. CASE UNCHANGED vars
      BY <2>17 DEF vars, exchange, readers, process, Framing, Quiet
    <2> QED
      BY <2>1, <2>2, <2>3, <2>4, <2>5, <2>6, <2>7, <2>8, <2>9, <2>10, <2>11, <2>12,
         <2>13, <2>14, <2>15, <2>16, <2>17 DEF Next, ReaderStep, Finished
  <1> QED
    BY <1>1, <1>2, Typing, PTL DEF Spec

LEMMA AnsweringHolds == Spec => []Answering
  <1>1. Init => Answering
    BY DEF Init, Answering, Nothing
  <1>2. TypeOK /\ Turning /\ Framing /\ Answering /\ [Next]_vars => Answering'
    <2> SUFFICES ASSUME TypeOK, Turning, Framing, Answering, [Next]_vars
                 PROVE  Answering'
      OBVIOUS
    <2>1. CASE Begin
      BY <2>1 DEF Begin, exchange, readers, process, collector, Answering, TypeOK, Turns, Nothing
    <2>2. CASE TakeAnswer
      BY <2>2 DEF TakeAnswer, ReturnWith, Kill, exchange, readers, process, collector, Answering, TypeOK, Turns, Nothing
    <2>3. CASE TimesOut
      BY <2>3 DEF TimesOut, ReturnWith, Kill, exchange, readers, process, collector, Answering, TypeOK, Turns, Nothing
    <2>4. CASE KillIdle
      BY <2>4 DEF KillIdle, Kill, exchange, readers, process, collector, Answering, TypeOK, Turns, Nothing
    <2>5. CASE Prints
      BY <2>5 DEF Prints, exchange, readers, Answering
    <2>6. CASE Responds
      BY <2>6 DEF Responds, exchange, readers, Answering
    <2>7. CASE Exits
      BY <2>7 DEF Exits, exchange, readers, Answering
    <2>8. ASSUME NEW t \in Turns, WriteRequest(t)
          PROVE  Answering'
      BY <2>8 DEF WriteRequest, exchange, readers, process, collector, Answering, TypeOK, Turns, Nothing
    <2>9. ASSUME NEW t \in Turns, WriteFails(t)
          PROVE  Answering'
      BY <2>9 DEF WriteFails, Fails, Answer, exchange, readers, process, collector, Answering, TypeOK, Turns, Nothing
    <2>10. ASSUME NEW t \in Turns, ReadPrint(t)
          PROVE  Answering'
      BY <2>10 DEF ReadPrint, Reads, exchange, readers, process, collector, Answering, TypeOK, Turns, Nothing
    <2>11. ASSUME NEW t \in Turns, Deliver(t)
          PROVE  Answering'
      BY <2>11 DEF Deliver, Write, exchange, readers, process, collector, Answering, TypeOK, Turns, Nothing
    <2>12. ASSUME NEW t \in Turns, DeliverFails(t)
          PROVE  Answering'
      BY <2>12 DEF DeliverFails, WriteRefused, exchange, readers, process, collector, Answering, TypeOK, Turns, Nothing
    <2>13. ASSUME NEW t \in Turns, Delivered(t)
          PROVE  Answering'
      BY <2>13 DEF Delivered, exchange, readers, process, collector, Answering, TypeOK, Turns, Nothing
    <2>14. ASSUME NEW t \in Turns, ReadLast(t)
          PROVE  Answering'
      <3>1. t = turn /\ Head(pipe).turn = turn
        BY <2>14, Popping DEF ReadLast, Reads, Turning, Active, Framing
      <3> QED
        BY <2>14, <3>1 DEF ReadLast, Answer, exchange, Answering, TypeOK
    <2>15. ASSUME NEW t \in Turns, ReadGarbage(t)
          PROVE  Answering'
      BY <2>15 DEF ReadGarbage, Reads, Fails, Answer, exchange, readers, process, collector, Answering, TypeOK, Turns, Nothing
    <2>16. ASSUME NEW t \in Turns, ReadFails(t)
          PROVE  Answering'
      BY <2>16 DEF ReadFails, Fails, Answer, exchange, readers, process, collector, Answering, TypeOK, Turns, Nothing
    <2>17. CASE UNCHANGED vars
      BY <2>17 DEF vars, exchange, readers, Answering
    <2> QED
      BY <2>1, <2>2, <2>3, <2>4, <2>5, <2>6, <2>7, <2>8, <2>9, <2>10, <2>11, <2>12,
         <2>13, <2>14, <2>15, <2>16, <2>17 DEF Next, ReaderStep, Finished
  <1> QED
    BY <1>1, <1>2, Typing, FramingHolds, PTL DEF Spec

LEMMA FlowSame ==
  ASSUME Flowing, UNCHANGED <<turn, left, pipe, printed, collector>>
  PROVE  Flowing'
  BY DEF Flowing, Mark, collector

LEMMA FlowBegin ==
  ASSUME TypeOK, Turning, Chunks, Framing, Flowing, Begin
  PROVE  Flowing'
  <1>1. /\ turn' = turn + 1 /\ turn + 1 \in Turns /\ turn \in 0..MaxTurns /\ ~waiting /\ ~dead
        /\ UNCHANGED <<left, pipe, printed, collector>>
    BY TurnsAssumption DEF Begin, TypeOK, Turns, process
  <1>2. \A t \in Turns : left[t] = <<>>
    BY <1>1 DEF Turning, Chunks, Active
  <1>3. \A t \in Turns : Len(left[t]) = 0
    BY <1>2
  <1>4. turn + 1 # 0 /\ (turn = 0 \/ turn \in Turns)
    BY <1>1 DEF Turns
  <1>5. Len(collected) \in Nat
    BY DEF TypeOK
  <1>6. ~failed => Len(collected) + 1 = Mark(1)
    BY <1>3, <1>4, <1>5 DEF Flowing
  <1>7. \A i : Mark(i)' = Mark(i)
    BY <1>1 DEF Mark
  <1>8. \A t \in Turns : Len(collected) + Len(left[t]) + 1 = Len(collected) + 1
    BY <1>3, <1>5
  <1> QED
    BY <1>1, <1>3, <1>4, <1>6, <1>7, <1>8 DEF Flowing, collector

LEMMA FlowPrints ==
  ASSUME TypeOK, Framing, Flowing, Prints
  PROVE  Flowing'
  <1>1. PICK n \in 1..2, s \in Sizes :
          /\ printed' = printed \o [k \in 1..n |-> s]
          /\ pipe' = Append(pipe, Output(serving, Len(printed) + 1, Len(printed) + n))
    BY DEF Prints
  <1>2. serving # 0 /\ UNCHANGED <<turn, left, collector>>
    BY DEF Prints, exchange, readers
  <1>3. Len(printed') = Len(printed) + n /\ Len(printed) \in Nat
    <2>1. printed \in Seq(Sizes) /\ [k \in 1..n |-> s] \in Seq(Sizes) /\ Len([k \in 1..n |-> s]) = n
      BY DEF TypeOK
    <2> QED
      BY <1>1, <2>1
  <1> DEFINE f == Output(serving, Len(printed) + 1, Len(printed) + n)
  <1>4. /\ f \in Frames /\ f.kind = "print" /\ f.lo = Len(printed) + 1 /\ f.hi = Len(printed) + n
    BY <1>2, FrameTypes DEF Output
  <1> HIDE DEF f
  <1>5. /\ Len(pipe') = Len(pipe) + 1 /\ Len(pipe) \in Nat
        /\ \A i \in 1..Len(pipe) : pipe'[i] = pipe[i]
        /\ pipe'[Len(pipe) + 1] = f
    BY <1>1, <1>4, Pushing DEF f
  <1>6. \A i \in 1..Len(pipe) : pipe[i].kind = "print"
    BY <1>2 DEF Framing
  <1>7. \A i \in 1..Len(pipe) + 1 : Mark(i)' = Mark(i)
    <2>1. ASSUME NEW i \in 1..Len(pipe)
          PROVE  Mark(i)' = Mark(i)
      BY <1>5, <1>6 DEF Mark
    <2>2. Len(pipe) + 1 \in 1..Len(pipe') /\ Len(pipe) + 1 \notin 1..Len(pipe)
      BY <1>5
    <2>3. ASSUME NEW i, i = Len(pipe) + 1
          PROVE  Mark(i)' = Mark(i)
      BY <2>2, <2>3, <1>4, <1>5 DEF Mark
    <2>4. \A i \in 1..Len(pipe) + 1 : i \in 1..Len(pipe) \/ i = Len(pipe) + 1
      BY <1>5
    <2> QED
      BY <2>1, <2>3, <2>4
  <1>8. ASSUME NEW i, i = Len(pipe) + 2
        PROVE  Mark(i)' = f.hi + 1
    BY <1>3, <1>4, <1>5, <1>8 DEF Mark
  <1>9. ~failed => \A i \in 1..Len(pipe') : pipe'[i].kind = "print" => pipe'[i].hi + 1 = Mark(i + 1)'
    <2> SUFFICES ASSUME ~failed, NEW i \in 1..Len(pipe')
                 PROVE  pipe'[i].hi + 1 = Mark(i + 1)'
      OBVIOUS
    <2>1. CASE i \in 1..Len(pipe)
      <3>1. pipe[i].hi + 1 = Mark(i + 1) /\ i + 1 \in 1..Len(pipe) + 1
        BY <2>1, <1>5, <1>6 DEF Flowing
      <3> QED
        BY <2>1, <3>1, <1>5, <1>7
    <2>2. CASE i = Len(pipe) + 1
      <3>1. i + 1 = Len(pipe) + 2
        BY <2>2, <1>5
      <3> QED
        BY <2>2, <3>1, <1>5, <1>8
    <2> QED
      BY <2>1, <2>2, <1>5
  <1>10. Mark(1)' = Mark(1)
    BY <1>5, <1>7
  <1> QED
    BY <1>2, <1>9, <1>10 DEF Flowing, collector

LEMMA FlowResponds ==
  ASSUME TypeOK, Framing, Flowing, Responds
  PROVE  Flowing'
  <1>1. PICK k \in {"event", "fatal", "garbage"} : pipe' = Append(pipe, Last(serving, k))
    BY DEF Responds
  <1>2. serving # 0 /\ UNCHANGED <<turn, left, printed, collector>>
    BY DEF Responds, exchange, readers
  <1>3. Last(serving, k) \in Frames /\ Last(serving, k).kind # "print"
    BY <1>2, FrameTypes DEF Last
  <1>4. /\ Len(pipe') = Len(pipe) + 1 /\ Len(pipe) \in Nat
        /\ \A i \in 1..Len(pipe) : pipe'[i] = pipe[i]
        /\ pipe'[Len(pipe) + 1].kind # "print"
    BY <1>1, <1>3, Pushing
  <1>5. \A i \in Int : i \in 1..Len(pipe') /\ pipe'[i].kind = "print"
                       <=> i \in 1..Len(pipe) /\ pipe[i].kind = "print"
    BY <1>4
  <1>6. \A i \in Int : Mark(i)' = Mark(i)
    BY <1>2, <1>4, <1>5 DEF Mark
  <1> QED
    BY <1>2, <1>4, <1>5, <1>6 DEF Flowing, collector

\* The last event is taken out of the pipe, which is empty then.
LEMMA FlowReadLast ==
  ASSUME TypeOK, Framing, Flowing, NEW t \in Turns,
         Reads(t, {"event", "fatal"}) \/ Reads(t, {"garbage"}),
         UNCHANGED <<left, printed, exchange, collector>>
  PROVE  Flowing'
  <1>1. pipe # <<>> /\ pipe' = Tail(pipe) /\ pipe[1].kind # "print"
    BY Popping DEF Reads
  <1>2. pipe' = <<>>
    BY <1>1, LastFrame
  <1>3. Len(pipe') = 0
    BY <1>2
  <1>4. Mark(1)' = Mark(1)
    <2>1. 1 \notin 1..Len(pipe')
      BY <1>3
    <2> QED
      BY <2>1, <1>1 DEF Mark
  <1> QED
    BY <1>3, <1>4 DEF Flowing, exchange, collector

LEMMA FlowReadPrint ==
  ASSUME TypeOK, Turning, Chunks, Flowing, NEW t \in Turns, ReadPrint(t)
  PROVE  Flowing'
  <1> SUFFICES ASSUME ~failed
               PROVE  Flowing'
    BY DEF Flowing, ReadPrint, collector
  <1> DEFINE f == Head(pipe)
             n == f.hi - f.lo + 1
             chunks == [k \in 1..n |-> f.lo + k - 1]
  <1>1. /\ reader[t] = "read" /\ pipe # <<>> /\ pipe' = Tail(pipe) /\ f.kind = "print" /\ t \notin spoilt
        /\ UNCHANGED <<turn, printed, collector>>
    BY DEF ReadPrint, Reads, Chunks, exchange
  <1>2. /\ Len(pipe) \in Nat /\ Len(pipe') = Len(pipe) - 1
        /\ f \in Frames /\ f = pipe[1] /\ 1 \in 1..Len(pipe)
    BY <1>1, Popping
  <1>3. \A i \in 1..Len(pipe') : i + 1 \in 1..Len(pipe) /\ pipe'[i] = pipe[i + 1]
    BY <1>1, Popping
  <1>4. t = turn /\ left[t] = <<>> /\ turn # 0
    BY <1>1 DEF Turning, Active, Chunks, Turns
  <1>5. f.lo \in Nat /\ f.hi \in Nat /\ 1 <= f.lo /\ f.lo <= f.hi /\ n \in Nat
    BY <1>1, <1>2 DEF Chunks, Frames
  <1>6. left' = [left EXCEPT ![t] = chunks]
    BY <1>1 DEF ReadPrint
  <1>7. Mark(1) = f.lo /\ Mark(2) = f.hi + 1
    BY <1>1, <1>2 DEF Flowing, Mark
  <1> HIDE DEF f
  <1>8. Len(chunks) = n /\ \A k \in 1..n : chunks[k] = f.lo + k - 1
    BY <1>5
  <1> HIDE DEF chunks
  <1>9. left'[t] = chunks
    BY <1>6 DEF TypeOK
  <1>10. Len(collected) \in Nat /\ Len(collected) + 1 = f.lo
    BY <1>4, <1>7 DEF Flowing, TypeOK
  <1>11. \A i \in 1..Len(pipe') + 1 : Mark(i)' = Mark(i + 1)
    <2>1. ASSUME NEW i \in 1..Len(pipe')
          PROVE  Mark(i)' = Mark(i + 1)
      BY <1>1, <1>3 DEF Mark
    <2>2. Len(pipe') + 1 \notin 1..Len(pipe') /\ Len(pipe') + 1 + 1 \notin 1..Len(pipe)
      BY <1>2
    <2>3. ASSUME NEW i, i = Len(pipe') + 1
          PROVE  Mark(i)' = Mark(i + 1)
      BY <2>2, <2>3, <1>1 DEF Mark
    <2>4. \A i \in 1..Len(pipe') + 1 : i \in 1..Len(pipe') \/ i = Len(pipe') + 1
      BY <1>2
    <2> QED
      BY <2>1, <2>3, <2>4
  <1>12. \A i \in 1..Len(pipe') : pipe'[i].kind = "print" => pipe'[i].hi + 1 = Mark(i + 1)'
    <2> SUFFICES ASSUME NEW i \in 1..Len(pipe'), pipe'[i].kind = "print"
                 PROVE  pipe'[i].hi + 1 = Mark(i + 1)'
      OBVIOUS
    <2>1. pipe[i + 1].hi + 1 = Mark(i + 1 + 1)
      BY <1>3 DEF Flowing
    <2>2. i + 1 \in 1..Len(pipe') + 1
      BY <1>2
    <2> QED
      BY <1>3, <1>11, <2>1, <2>2
  <1>13. Mark(1)' = f.hi + 1
    BY <1>2, <1>7, <1>11
  <1>14. /\ \A k \in 1..Len(chunks) : chunks[k] = Len(collected) + k
         /\ Len(collected) + Len(chunks) + 1 = Mark(1)'
    <2>1. Len(collected) = f.lo - 1
      BY <1>5, <1>10
    <2> HIDE DEF n
    <2>2. \A k \in 1..Len(chunks) : chunks[k] = Len(collected) + k
      BY <1>5, <1>8, <2>1
    <2>3. Len(chunks) = f.hi - f.lo + 1
      BY <1>8 DEF n
    <2>4. Len(collected) + Len(chunks) + 1 = Mark(1)'
      BY <1>5, <1>13, <2>1, <2>3
    <2> QED
      BY <2>2, <2>4
  <1> QED
    BY <1>1, <1>4, <1>9, <1>12, <1>14 DEF Flowing, collector

LEMMA FlowDeliver ==
  ASSUME TypeOK, Turning, Chunks, Flowing, NEW t \in Turns, Deliver(t)
  PROVE  Flowing'
  <1> DEFINE c == Head(left[t])
  <1>1. left[t] \in Seq(Nat) /\ left[t] # <<>> /\ reader[t] = "print" /\ ~failed /\ ~Overflows(printed[c])
    BY DEF Deliver, TypeOK, Write
  <1>2. /\ c = left[t][1] /\ 1 \in 1..Len(left[t]) /\ Len(left[t]) \in Nat
        /\ Len(Tail(left[t])) = Len(left[t]) - 1
        /\ \A k \in 1..Len(Tail(left[t])) : k + 1 \in 1..Len(left[t]) /\ Tail(left[t])[k] = left[t][k + 1]
    BY <1>1
  <1>3. t = turn /\ turn # 0
    BY <1>1 DEF Turning, Active, Turns
  <1>4. Len(collected) \in Nat /\ collected \in Seq(Nat)
    BY DEF TypeOK
  <1>5. c = Len(collected) + 1
    BY <1>1, <1>2, <1>3 DEF Flowing
  <1>6. /\ collected' = Append(collected, c) /\ bytes' = bytes + printed[c] /\ failed' = failed
        /\ left' = [left EXCEPT ![t] = Tail(left[t])]
        /\ UNCHANGED <<turn, pipe, printed>>
    BY DEF Deliver, Write, process, exchange
  <1>7. MaxBytes >= 0 => bytes' <= MaxBytes
    <2>1. bytes \in Nat /\ bytes' \in Nat
      BY DeliverTypes DEF TypeOK
    <2> QED
      BY <2>1, <1>1, <1>6, TurnsAssumption DEF Overflows
  <1> HIDE DEF c
  <1>8. Len(collected') = Len(collected) + 1 /\ \A k \in 1..Len(collected') : collected'[k] = k
    <2>1. /\ Len(collected') = Len(collected) + 1 /\ collected'[Len(collected) + 1] = c
          /\ \A k \in 1..Len(collected) : collected'[k] = collected[k]
      BY <1>4, <1>5, <1>6
    <2> QED
      BY <2>1, <1>4, <1>5 DEF Flowing
  <1>9. left'[t] = Tail(left[t])
    BY <1>6 DEF TypeOK
  <1>10. /\ \A k \in 1..Len(Tail(left[t])) : Tail(left[t])[k] = Len(collected') + k
         /\ Len(collected') + Len(Tail(left[t])) + 1 = Mark(1)
    <2>1. /\ \A k \in 1..Len(left[t]) : left[t][k] = Len(collected) + k
          /\ Len(collected) + Len(left[t]) + 1 = Mark(1)
      BY <1>1, <1>3 DEF Flowing
    <2> DEFINE rest == Tail(left[t])
    <2>2. Len(rest) = Len(left[t]) - 1 /\ Len(left[t]) \in Nat /\ Len(collected') = Len(collected) + 1
      BY <1>2, <1>8
    <2>3. \A k \in 1..Len(rest) : k + 1 \in 1..Len(left[t]) /\ rest[k] = left[t][k + 1]
      BY <1>2
    <2> HIDE DEF rest
    <2>4. Len(collected') + Len(rest) + 1 = Mark(1)
      <3>1. \A a, b \in Nat : (a + 1) + (b - 1) + 1 = a + b + 1
        OBVIOUS
      <3>2. Len(collected') + Len(rest) + 1 = Len(collected) + Len(left[t]) + 1
        BY <2>2, <1>4, <3>1
      <3>3. Len(collected) + Len(left[t]) + 1 = Mark(1)
        BY <2>1
      <3> QED
        BY <3>2, <3>3
    <2>5. \A k \in 1..Len(rest) : rest[k] = Len(collected) + (k + 1)
      BY <2>1, <2>3
    <2>6. \A k \in Int : Len(collected) + (k + 1) = Len(collected') + k
      BY <2>2, <1>4
    <2> QED
      BY <2>4, <2>5, <2>6 DEF rest
  <1>11. \A i : Mark(i)' = Mark(i)
    BY <1>6 DEF Mark
  <1> QED
    BY <1>1, <1>3, <1>6, <1>7, <1>8, <1>9, <1>10, <1>11 DEF Flowing

LEMMA FlowingHolds == Spec => []Flowing
  <1>1. Init => Flowing
    <2> SUFFICES ASSUME Init PROVE Flowing
      OBVIOUS
    <2>1. /\ turn = 0 /\ pipe = <<>> /\ Len(pipe) = 0 /\ Len(printed) = 0 /\ Len(collected) = 0 /\ bytes = 0
      BY DEF Init
    <2>2. Mark(1) = 1
      BY <2>1 DEF Mark
    <2> QED
      BY <2>1, <2>2, TurnsAssumption DEF Flowing, Turns
  <1>2. TypeOK /\ Turning /\ Chunks /\ Framing /\ Flowing /\ [Next]_vars => Flowing'
    <2> SUFFICES ASSUME TypeOK, Turning, Chunks, Framing, Flowing, [Next]_vars
                 PROVE  Flowing'
      OBVIOUS
    <2>1. CASE Begin
      BY <2>1, FlowBegin
    <2>2. CASE TakeAnswer
      BY <2>2, FlowSame DEF TakeAnswer, ReturnWith, Kill, exchange, readers, process, collector
    <2>3. CASE TimesOut
      BY <2>3, FlowSame DEF TimesOut, ReturnWith, Kill, exchange, readers, process, collector
    <2>4. CASE KillIdle
      BY <2>4, FlowSame DEF KillIdle, Kill, exchange, readers, process, collector
    <2>5. CASE Prints
      BY <2>5, FlowPrints
    <2>6. CASE Responds
      BY <2>6, FlowResponds
    <2>7. CASE Exits
      BY <2>7, FlowSame DEF Exits, exchange, readers, process, collector
    <2>8. ASSUME NEW t \in Turns, WriteRequest(t)
          PROVE  Flowing'
      BY <2>8, FlowSame DEF WriteRequest, exchange, readers, process, collector
    <2>9. ASSUME NEW t \in Turns, WriteFails(t)
          PROVE  Flowing'
      BY <2>9, FlowSame DEF WriteFails, Fails, Answer, exchange, readers, process, collector
    <2>10. ASSUME NEW t \in Turns, ReadPrint(t)
          PROVE  Flowing'
      BY <2>10, FlowReadPrint
    <2>11. ASSUME NEW t \in Turns, Deliver(t)
          PROVE  Flowing'
      BY <2>11, FlowDeliver
    <2>12. ASSUME NEW t \in Turns, DeliverFails(t)
          PROVE  Flowing'
      BY <2>12 DEF DeliverFails, WriteRefused, Flowing
    <2>13. ASSUME NEW t \in Turns, Delivered(t)
          PROVE  Flowing'
      BY <2>13, FlowSame DEF Delivered, exchange, readers, process, collector
    <2>14. ASSUME NEW t \in Turns, ReadLast(t)
          PROVE  Flowing'
      BY <2>14, FlowReadLast DEF ReadLast
    <2>15. ASSUME NEW t \in Turns, ReadGarbage(t)
          PROVE  Flowing'
      BY <2>15, FlowReadLast DEF ReadGarbage
    <2>16. ASSUME NEW t \in Turns, ReadFails(t)
          PROVE  Flowing'
      BY <2>16, FlowSame DEF ReadFails, Fails, Answer, exchange, readers, process, collector
    <2>17. CASE UNCHANGED vars
      BY <2>17, FlowSame DEF vars, exchange, readers, process, collector
    <2> QED
      BY <2>1, <2>2, <2>3, <2>4, <2>5, <2>6, <2>7, <2>8, <2>9, <2>10, <2>11, <2>12,
         <2>13, <2>14, <2>15, <2>16, <2>17 DEF Next, ReaderStep, Finished
  <1> QED
    BY <1>1, <1>2, Typing, FramingHolds, PTL DEF Spec
-----------------------------------------------------------------------------
\* Type correctness of WorkerTurn.
THEOREM TypeCorrect == Spec => []TypeOK
  BY Typing, PTL

\* The event a turn returns answers that turn's request, whatever turns before it
\* have left behind.
THEOREM AnswersItsRequestAlways == Spec => []AnswersItsRequest
  <1>1. Answering => AnswersItsRequest
    BY DEF Answering, AnswersItsRequest
  <1> QED
    BY <1>1, AnsweringHolds, PTL

\* A live worker's pipe has the reader of the turn under way and no other.
THEOREM OneReaderAlways == Spec => []OneReader
  <1>1. Turning => OneReader
    BY DEF Turning, OneReader
  <1> QED
    BY <1>1, Typing, PTL

\* Output reaches the collector in order and without a gap, all of it before the
\* turn returns its event, and never more than the cap.
THEOREM OutputInOrderAlways == Spec => []OutputInOrder
  <1>1. TypeOK /\ Chunks /\ Framing /\ Flowing => OutputInOrder
    <2> SUFFICES ASSUME TypeOK, Chunks, Framing, Flowing
                 PROVE  OutputInOrder
      OBVIOUS
    <2>1. ASSUME turn > 0, ~waiting, result[turn].kind = "event", ~failed
          PROVE  Len(collected) = Len(printed)
      <3>1. turn \in Turns
        BY <2>1, TurnsAssumption DEF TypeOK, Turns
      <3>2. Quiet /\ reader[turn] = "gone"
        BY <2>1, <3>1 DEF Framing
      <3>3. left[turn] = <<>>
        BY <3>1, <3>2 DEF Chunks
      <3>4. Mark(1) = Len(printed) + 1
        <4>1. Len(pipe) = 0
          BY <3>2 DEF Quiet
        <4> QED
          BY <4>1 DEF Mark
      <3>5. Len(collected) + Len(left[turn]) + 1 = Mark(1)
        BY <2>1, <3>1 DEF Flowing
      <3>6. Len(left[turn]) = 0 /\ Len(collected) \in Nat /\ Len(printed) \in Nat
        BY <3>3 DEF TypeOK
      <3> QED
        BY <3>4, <3>5, <3>6
    <2> QED
      BY <2>1 DEF Flowing, OutputInOrder
  <1> QED
    BY <1>1, Typing, FramingHolds, FlowingHolds, PTL
=============================================================================
