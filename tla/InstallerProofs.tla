-------------------------- MODULE InstallerProofs --------------------------
(***************************************************************************)
(* Proofs about Installer, for any finite set of installers, forced or     *)
(* not, crashing anywhere.                                                 *)
(***************************************************************************)
EXTENDS Installer, TLAPS

\* The disjuncts of Next, one per system call, for the case distinctions below.
LEMMA NextCases ==
  ASSUME Next
  PROVE  \/ Ages \/ Finished
         \/ \E i \in Installers :
              \/ FastPath(i) \/ NeedsInstall(i) \/ CreateLock(i) \/ LockExists(i)
              \/ FindsStale(i) \/ FindsFresh(i) \/ Steal(i) \/ StealFails(i) \/ Pause(i)
              \/ GivesUp(i) \/ Crash(i)
              \/ Recheck(i) \/ Download(i) \/ DownloadFails(i) \/ Digest(i) \/ Compare(i)
              \/ Unlink(i) \/ Rename(i) \/ WriteFails(i) \/ Verify(i) \/ Unlock(i)
  BY DEF Next, Install

(***************************************************************************)
(* Steps of a call that change no file and no result: they only move pc,   *)
(* and not into the part of installRuntime that holds the lock.            *)
(***************************************************************************)
Moves(i) ==
  /\ pc' = [pc EXCEPT ![i] = pc'[i]]
  /\ pc[i] \notin Ended
  /\ pc'[i] \in {"lock", "stat", "steal", "pause", "crashed", "failed"}
  /\ UNCHANGED <<target, lock, old, staged, error, stolen>>

LEMMA MovesCases ==
  ASSUME NEW i \in Installers, TypeOK,
         NeedsInstall(i) \/ LockExists(i) \/ FindsStale(i) \/ FindsFresh(i)
           \/ StealFails(i) \/ Pause(i) \/ GivesUp(i) \/ Crash(i)
  PROVE  Moves(i)
  BY DEF TypeOK, Moves, Ended, Goto, NeedsInstall, LockExists, FindsStale, FindsFresh,
         StealFails, Pause, GivesUp, Crash

(***************************************************************************)
(* The state of Install is well typed.                                     *)
(***************************************************************************)
THEOREM TypeCorrect == Spec => []TypeOK
  <1> USE InstallersAssumption DEF TypeOK, PCs, Locked, Ended, Contents
  <1>1. Init => TypeOK
    BY DEF Init
  <1>2. TypeOK /\ [Next]_vars => TypeOK'
    <2> SUFFICES ASSUME TypeOK, [Next]_vars
                 PROVE  TypeOK'
      OBVIOUS
    <2>1. CASE UNCHANGED vars \/ Finished
      BY <2>1 DEF vars, Finished
    <2>2. CASE Ages
      BY <2>2 DEF Ages
    <2>3. ASSUME NEW i \in Installers, Moves(i)
          PROVE  TypeOK'
      BY <2>3 DEF Moves
    <2>4. ASSUME NEW i \in Installers, FastPath(i) \/ Recheck(i) \/ Compare(i)
          PROVE  TypeOK'
      BY <2>4 DEF FastPath, Recheck, Compare, Goto
    <2>5. ASSUME NEW i \in Installers, CreateLock(i) \/ Steal(i) \/ Unlock(i)
          PROVE  TypeOK'
      BY <2>5 DEF CreateLock, Steal, Unlock, Goto
    <2>6. ASSUME NEW i \in Installers, Download(i)
          PROVE  TypeOK'
      BY <2>6 DEF Download, Goto
    <2>7. ASSUME NEW i \in Installers,
                 DownloadFails(i) \/ Digest(i) \/ WriteFails(i) \/ Verify(i)
          PROVE  TypeOK'
      BY <2>7 DEF DownloadFails, Digest, WriteFails, Verify, Goto
    <2>8. ASSUME NEW i \in Installers, Unlink(i) \/ Rename(i)
          PROVE  TypeOK'
      BY <2>8 DEF Unlink, Rename, Goto
    <2> QED
      BY <2>1, <2>2, <2>3, <2>4, <2>5, <2>6, <2>7, <2>8, MovesCases, NextCases
  <1> QED
    BY <1>1, <1>2, PTL DEF Spec

(***************************************************************************)
(* What a call is about to publish has passed its verification.            *)
(***************************************************************************)
StagedValid ==
  \A i \in Installers : pc[i] \in {"compare", "unlink", "rename"} => staged[i] = "valid"

\* The digest alone decides whether a call gets as far as the rename.
LEMMA StagedIsValid == Spec => []StagedValid
  <1>1. Init => StagedValid
    BY DEF Init, StagedValid
  <1>2. TypeOK /\ StagedValid /\ [Next]_vars => StagedValid'
    <2> SUFFICES ASSUME TypeOK, StagedValid, [Next]_vars
                 PROVE  StagedValid'
      OBVIOUS
    <2> USE DEF TypeOK, StagedValid
    <2>1. CASE UNCHANGED vars \/ Finished \/ Ages
      BY <2>1 DEF vars, Finished, Ages
    <2>2. ASSUME NEW i \in Installers, Moves(i)
          PROVE  StagedValid'
      BY <2>2 DEF Moves
    <2>3. ASSUME NEW i \in Installers,
                 FastPath(i) \/ CreateLock(i) \/ Steal(i) \/ Recheck(i) \/ DownloadFails(i)
                   \/ Compare(i) \/ Unlink(i) \/ Rename(i) \/ WriteFails(i) \/ Verify(i)
                   \/ Unlock(i)
          PROVE  StagedValid'
      BY <2>3 DEF FastPath, CreateLock, Steal, Recheck, DownloadFails, Compare, Unlink,
                  Rename, WriteFails, Verify, Unlock, Goto
    <2>4. ASSUME NEW i \in Installers, Download(i)
          PROVE  StagedValid'
      BY <2>4 DEF Download, Goto
    <2>5. ASSUME NEW i \in Installers, Digest(i)
          PROVE  StagedValid'
      BY <2>5 DEF Digest, Goto
    <2> QED
      BY <2>1, <2>2, <2>3, <2>4, <2>5, MovesCases, NextCases
  <1> QED
    BY <1>1, <1>2, TypeCorrect, PTL DEF Spec

(***************************************************************************)
(* An executable is published only after its verification, even if lock    *)
(* files get stale and several installers believe they hold the lock.      *)
(***************************************************************************)
THEOREM OnlyVerifiedIsPublished == Spec => PublishesVerified
  <1>1. TypeOK /\ StagedValid /\ [Next]_vars
          => [target' # target => target' \in {"absent", "valid"}]_vars
    <2> SUFFICES ASSUME TypeOK, StagedValid, Next, target' # target
                 PROVE  target' \in {"absent", "valid"}
      OBVIOUS
    <2>1. \E i \in Installers : Unlink(i) \/ Rename(i)
      <3>1. ASSUME NEW i \in Installers, Moves(i)
            PROVE  FALSE
        BY <3>1 DEF Moves
      <3> QED
        BY <3>1, NextCases, MovesCases
           DEF FastPath, CreateLock, Steal, Recheck, Download, DownloadFails, Digest, Compare,
               WriteFails, Verify, Unlock, Ages, Finished, vars
    <2> QED
      BY <2>1 DEF Unlink, Rename, Goto, StagedValid
  <1> QED
    BY <1>1, TypeCorrect, StagedIsValid, PTL DEF Spec, PublishesVerified

(***************************************************************************)
(* The argument for the rest: as long as no owner at work has lost its     *)
(* lock file, whoever is past acquireInstallLock owns the lock file, and   *)
(* only the owner changes the executable, which it does only while there   *)
(* is no valid one.                                                        *)
(***************************************************************************)
LockOwned == ~stolen => \A i \in Installers : pc[i] \in Locked => lock = i

TargetKept ==
  ~stolen =>
    \A i \in Installers :
      /\ pc[i] \in {"unlink", "rename"} => target # "valid"
      /\ pc[i] = "unlock" /\ i \notin error => target = "valid"
      /\ pc[i] = "returned" => target = "valid"

\* Removing a lock file whose owner is not at work leaves no one past the lock.
LEMMA LockIsOwned == Spec => []LockOwned
  <1> USE InstallersAssumption DEF LockOwned, Locked, Ended
  <1>1. Init => LockOwned
    BY DEF Init
  <1>2. TypeOK /\ LockOwned /\ [Next]_vars => LockOwned'
    <2> SUFFICES ASSUME TypeOK, LockOwned, [Next]_vars
                 PROVE  LockOwned'
      OBVIOUS
    <2> USE DEF TypeOK
    <2>1. CASE UNCHANGED vars \/ Finished \/ Ages
      BY <2>1 DEF vars, Finished, Ages
    <2>2. ASSUME NEW i \in Installers, Moves(i)
          PROVE  LockOwned'
      BY <2>2 DEF Moves
    <2>3. ASSUME NEW i \in Installers, FastPath(i)
          PROVE  LockOwned'
      BY <2>3 DEF FastPath, Goto
    <2>4. ASSUME NEW i \in Installers, Steal(i)
          PROVE  LockOwned'
      BY <2>4 DEF Steal, Goto
    <2>5. ASSUME NEW i \in Installers, CreateLock(i)
          PROVE  LockOwned'
      BY <2>5 DEF CreateLock, Goto
    <2>6. ASSUME NEW i \in Installers,
                 Recheck(i) \/ Download(i) \/ DownloadFails(i) \/ Digest(i) \/ Compare(i)
                   \/ Unlink(i) \/ Rename(i) \/ WriteFails(i) \/ Verify(i)
          PROVE  LockOwned'
      BY <2>6 DEF Recheck, Download, DownloadFails, Digest, Compare, Unlink, Rename,
                  WriteFails, Verify, Goto
    <2>7. ASSUME NEW i \in Installers, Unlock(i)
          PROVE  LockOwned'
      BY <2>7 DEF Unlock, Goto
    <2> QED
      BY <2>1, <2>2, <2>3, <2>4, <2>5, <2>6, <2>7, MovesCases, NextCases
  <1> QED
    BY <1>1, <1>2, TypeCorrect, PTL DEF Spec

(***************************************************************************)
(* The lock file excludes as long as no owner at work has lost its own,    *)
(* for any number of installers, crashes and removals of stale lock files. *)
(***************************************************************************)
THEOREM Excludes == Spec => []OneHolder
  <1>1. LockOwned => OneHolder
    BY DEF LockOwned, OneHolder
  <1> QED
    BY <1>1, LockIsOwned, PTL

(***************************************************************************)
(* As long as no owner at work has lost its lock file, the executable      *)
(* whose path Install has returned stays in place.                         *)
(***************************************************************************)
THEOREM ReturnedStays == Spec => []KeptWhileLocksHold
  <1>1. Init => TargetKept
    BY DEF Init, TargetKept
  <1>2. TypeOK /\ LockOwned /\ StagedValid /\ TargetKept /\ [Next]_vars => TargetKept'
    <2> SUFFICES ASSUME TypeOK, LockOwned, StagedValid, TargetKept, [Next]_vars, ~stolen'
                 PROVE  TargetKept'
      BY DEF TargetKept
    <2> USE DEF TypeOK, TargetKept
    <2>1. CASE UNCHANGED vars \/ Finished \/ Ages
      BY <2>1 DEF vars, Finished, Ages
    <2>2. ASSUME NEW i \in Installers, Moves(i)
          PROVE  TargetKept'
      BY <2>2 DEF Moves
    <2>3. ASSUME NEW i \in Installers, FastPath(i) \/ Recheck(i) \/ Compare(i)
          PROVE  TargetKept'
      BY <2>3 DEF FastPath, Recheck, Compare, Cached, Goto
    <2>4. ASSUME NEW i \in Installers,
                 CreateLock(i) \/ Steal(i) \/ Download(i) \/ DownloadFails(i) \/ Digest(i)
                   \/ WriteFails(i) \/ Verify(i) \/ Unlock(i)
          PROVE  TargetKept'
      BY <2>4 DEF CreateLock, Steal, Download, DownloadFails, Digest, WriteFails, Verify,
                  Unlock, Goto
    <2>5. ASSUME NEW i \in Installers, Unlink(i) \/ Rename(i)
          PROVE  TargetKept'
      <3>1. \A j \in Installers \ {i} : pc[j] \notin Locked
        BY <2>5 DEF LockOwned, Unlink, Rename, Goto, Locked
      <3>2. CASE Unlink(i)
        BY <3>1, <3>2 DEF Unlink, Goto, Locked
      <3>3. CASE Rename(i)
        BY <3>1, <3>3 DEF Rename, Goto, Locked, StagedValid
      <3> QED
        BY <2>5, <3>2, <3>3
    <2> QED
      BY <2>1, <2>2, <2>3, <2>4, <2>5, MovesCases, NextCases
  <1>3. TargetKept => KeptWhileLocksHold
    BY DEF TargetKept, KeptWhileLocksHold, ReturnedIsInstalled
  <1> QED
    BY <1>1, <1>2, <1>3, TypeCorrect, LockIsOwned, StagedIsValid, PTL DEF Spec
=============================================================================
