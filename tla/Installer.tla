----------------------------- MODULE Installer -----------------------------
(***************************************************************************)
(* Install of installer.go: goroutines and processes that install the same *)
(* runtime into the same cache directory.  They share two files, the       *)
(* executable ("target") and the lock file next to it; an action is one    *)
(* system call on one of them, or a step that touches neither.             *)
(***************************************************************************)
EXTENDS Naturals, FiniteSets

CONSTANTS
  Installers,   \* calls of Install
  Forced,       \* the calls with InstallOptions.Force
  NoOne,        \* the owner of a lock file that does not exist
  Past          \* the owner of a lock file that a crashed process has left

ASSUME InstallersAssumption ==
  /\ IsFiniteSet(Installers)
  /\ Forced \subseteq Installers
  /\ NoOne \notin Installers
  /\ Past \notin Installers \cup {NoOne}

VARIABLES
  pc,       \* where each call is
  target,   \* the executable in the cache
  lock,     \* who created the lock file
  old,      \* the lock file is older than installLockStaleAfter
  staged,   \* the content of each call's temporary file
  error,    \* calls that are going to return an error
  stolen    \* a lock file was removed as stale while its owner was at work (history)

vars == <<pc, target, lock, old, staged, error, stolen>>

Contents == {"absent", "corrupt", "valid"}

\* Between the creation of the lock file and its removal.
Locked == {"recheck", "download", "digest", "compare", "unlink", "rename", "verify", "unlock"}
Ended == {"returned", "failed", "crashed"}

Init ==
  /\ pc = [i \in Installers |-> "start"]
  /\ target \in Contents
  /\ lock \in {NoOne, Past}
  /\ old = (lock = Past)
  /\ staged = [i \in Installers |-> "absent"]
  /\ error = {}
  /\ stolen = FALSE

Goto(i, from, to) ==
  /\ pc[i] = from
  /\ pc' = [pc EXCEPT ![i] = to]

\* cachedRuntimeBinary succeeds for this call.
Cached(i) == target = "valid" /\ i \notin Forced

-----------------------------------------------------------------------------
(***************************************************************************)
(* installRuntime before the lock, and acquireInstallLock: create the lock *)
(* file, or look at its age, remove it if it is stale, and try again.      *)
(***************************************************************************)
FastPath(i) ==
  /\ Cached(i)
  /\ Goto(i, "start", "returned")
  /\ UNCHANGED <<target, lock, old, staged, error, stolen>>

NeedsInstall(i) ==
  /\ ~Cached(i)
  /\ Goto(i, "start", "lock")
  /\ UNCHANGED <<target, lock, old, staged, error, stolen>>

\* Mutant: the lock file is opened without O_EXCL.
CreateLock_NotExclusive(i) ==
  /\ Goto(i, "lock", "recheck")
  /\ lock' = i
  /\ old' = FALSE
  /\ UNCHANGED <<target, staged, error, stolen>>

CreateLock(i) ==
  /\ lock = NoOne
  /\ Goto(i, "lock", "recheck")
  /\ lock' = i
  /\ old' = FALSE
  /\ UNCHANGED <<target, staged, error, stolen>>

LockExists(i) ==
  /\ lock # NoOne
  /\ Goto(i, "lock", "stat")
  /\ UNCHANGED <<target, lock, old, staged, error, stolen>>

\* Mutant: a lock file is never taken for stale.
FindsStale_Never(i) == FALSE

FindsStale(i) ==
  /\ lock # NoOne /\ old
  /\ Goto(i, "stat", "steal")
  /\ UNCHANGED <<target, lock, old, staged, error, stolen>>

FindsFresh(i) ==
  /\ lock = NoOne \/ ~old
  /\ Goto(i, "stat", "pause")
  /\ UNCHANGED <<target, lock, old, staged, error, stolen>>

\* os.Remove takes whatever lock file is there by now, or finds none.
Steal(i) ==
  /\ Goto(i, "steal", "lock")
  /\ lock' = NoOne
  /\ old' = FALSE
  /\ stolen' = (stolen \/ \E j \in Installers : lock = j /\ pc[j] \in Locked)
  /\ UNCHANGED <<target, staged, error>>

\* It may fail for another reason.
StealFails(i) ==
  /\ Goto(i, "steal", "pause")
  /\ UNCHANGED <<target, lock, old, staged, error, stolen>>

Pause(i) ==
  /\ Goto(i, "pause", "lock")
  /\ UNCHANGED <<target, lock, old, staged, error, stolen>>

\* The context ends, or the directory or the lock file cannot be created.
GivesUp(i) ==
  /\ pc[i] \in {"start", "lock", "pause"}
  /\ pc' = [pc EXCEPT ![i] = "failed"]
  /\ UNCHANGED <<target, lock, old, staged, error, stolen>>

(***************************************************************************)
(* installRuntime with the lock, down to writeRuntimeBinary.               *)
(***************************************************************************)
Recheck(i) ==
  /\ Goto(i, "recheck", IF Cached(i) THEN "unlock" ELSE "download")
  /\ UNCHANGED <<target, lock, old, staged, error, stolen>>

\* The executable is extracted from what the server sent into a temporary file.
Download(i) ==
  /\ Goto(i, "download", "digest")
  /\ \E c \in {"corrupt", "valid"} : staged' = [staged EXCEPT ![i] = c]
  /\ UNCHANGED <<target, lock, old, error, stolen>>

\* Request, download, archive or extraction fails.
DownloadFails(i) ==
  /\ Goto(i, "download", "unlock")
  /\ error' = error \cup {i}
  /\ UNCHANGED <<target, lock, old, staged, stolen>>

\* Mutant: the digest of the extracted file is not compared.
Digest_NotCompared(i) ==
  /\ Goto(i, "digest", "compare")
  /\ UNCHANGED <<target, lock, old, staged, error, stolen>>

\* The digests of the archive and of the extracted file.
Digest(i) ==
  /\ Goto(i, "digest", IF staged[i] = "valid" THEN "compare" ELSE "unlock")
  /\ error' = IF staged[i] = "valid" THEN error ELSE error \cup {i}
  /\ UNCHANGED <<target, lock, old, staged, stolen>>

\* Mutant: the executable is replaced without looking at it.
Compare_AlwaysReplaces(i) ==
  /\ Goto(i, "compare", "unlink")
  /\ UNCHANGED <<target, lock, old, staged, error, stolen>>

\* writeRuntimeBinary keeps a valid executable.
Compare(i) ==
  /\ Goto(i, "compare", IF target = "valid" THEN "verify" ELSE "unlink")
  /\ UNCHANGED <<target, lock, old, staged, error, stolen>>

Unlink(i) ==
  /\ Goto(i, "unlink", "rename")
  /\ target' = "absent"
  /\ UNCHANGED <<lock, old, staged, error, stolen>>

Rename(i) ==
  /\ Goto(i, "rename", "verify")
  /\ target' = staged[i]
  /\ UNCHANGED <<lock, old, staged, error, stolen>>

\* The remove, the rename or an earlier file operation fails.
WriteFails(i) ==
  /\ pc[i] \in {"compare", "unlink", "rename"}
  /\ pc' = [pc EXCEPT ![i] = "unlock"]
  /\ error' = error \cup {i}
  /\ UNCHANGED <<target, lock, old, staged, stolen>>

Verify(i) ==
  /\ Goto(i, "verify", "unlock")
  /\ error' = IF target = "valid" THEN error ELSE error \cup {i}
  /\ UNCHANGED <<target, lock, old, staged, stolen>>

\* release: the lock file is removed, whoever created it.
Unlock(i) ==
  /\ Goto(i, "unlock", IF i \in error THEN "failed" ELSE "returned")
  /\ lock' = NoOne
  /\ old' = FALSE
  /\ UNCHANGED <<target, staged, error, stolen>>

Install(i) ==
  \/ FastPath(i) \/ NeedsInstall(i) \/ CreateLock(i) \/ LockExists(i)
  \/ FindsStale(i) \/ FindsFresh(i) \/ Steal(i) \/ StealFails(i) \/ Pause(i)
  \/ Recheck(i) \/ Download(i) \/ DownloadFails(i) \/ Digest(i) \/ Compare(i)
  \/ Unlink(i) \/ Rename(i) \/ WriteFails(i) \/ Verify(i) \/ Unlock(i)
-----------------------------------------------------------------------------
\* The process ends; its lock file and its half of the work stay.
Crash(i) ==
  /\ pc[i] \notin Ended \cup {"start"}
  /\ pc' = [pc EXCEPT ![i] = "crashed"]
  /\ UNCHANGED <<target, lock, old, staged, error, stolen>>

\* The lock file has been there for more than installLockStaleAfter.
Ages ==
  /\ lock # NoOne /\ ~old
  /\ old' = TRUE
  /\ UNCHANGED <<pc, target, lock, staged, error, stolen>>

Finished ==
  /\ \A i \in Installers : pc[i] \in Ended
  /\ UNCHANGED vars

Next ==
  \/ \E i \in Installers : Install(i) \/ GivesUp(i) \/ Crash(i)
  \/ Ages
  \/ Finished

Spec == Init /\ [][Next]_vars

\* Time passes, a call that is not cancelled goes on, and removing a stale
\* lock file does not fail every time it is tried.
FairSpec ==
  /\ Spec
  /\ WF_vars(Ages)
  /\ \A i \in Installers : WF_vars(Install(i)) /\ SF_vars(Steal(i))
-----------------------------------------------------------------------------
PCs == {"start", "lock", "stat", "steal", "pause"} \cup Locked \cup Ended

TypeOK ==
  /\ pc \in [Installers -> PCs]
  /\ target \in Contents
  /\ lock \in Installers \cup {NoOne, Past}
  /\ old \in BOOLEAN
  /\ staged \in [Installers -> Contents]
  /\ error \subseteq Installers
  /\ stolen \in BOOLEAN

(***************************************************************************)
(* An executable is published only after its verification, whoever crashes *)
(* and however many installers believe they hold the lock: the content of  *)
(* the target never changes to anything but a valid executable.            *)
(***************************************************************************)
PublishesVerified == [][target' # target => target' \in {"absent", "valid"}]_vars

(***************************************************************************)
(* The lock file excludes, whoever crashes and however many lock files of  *)
(* crashed owners are removed: as long as no owner at work has lost its    *)
(* own, at most one call is between its creation and its removal.          *)
(***************************************************************************)
OneHolder ==
  ~stolen => \A i, j \in Installers : pc[i] \in Locked /\ pc[j] \in Locked => i = j

(***************************************************************************)
(* "It is safe to call repeatedly and concurrently. The returned path is   *)
(* absolute and can be passed to Options.BinaryPath." (installer.go): the  *)
(* executable is there from the first successful return on.                *)
(***************************************************************************)
ReturnedIsInstalled == (\E i \in Installers : pc[i] = "returned") => target = "valid"

(***************************************************************************)
(* It is there as long as no owner at work has lost its lock file: neither *)
(* a crash, nor a forced installation, nor the recovery from a stale lock  *)
(* file removes what was returned.                                         *)
(***************************************************************************)
KeptWhileLocksHold == ~stolen => ReturnedIsInstalled

(***************************************************************************)
(* A lock file left by a crash does not block the others for ever.         *)
(***************************************************************************)
InstallEnds == \A i \in Installers : (pc[i] = "lock") ~> (pc[i] \in Ended)
=============================================================================
