-------------------------- MODULE ControllerStore --------------------------
(***************************************************************************)
(* How the controller changes its record and the project on disk: the lock *)
(* directory .tinysdd/runs/controller.lock (withExclusiveLock in           *)
(* src/src/fs-utils.mjs), the transaction run inside it (mutateState) and  *)
(* task apply's writes and rollback (src/src/controller.mjs).              *)
(*                                                                         *)
(* Each element of Procs is one invocation of the CLI.  A step is one      *)
(* system call on shared state, so invocations interleave, fail and die    *)
(* between any two of them, and an editor may write a file at any moment.  *)
(* Which operation is legal when is TaskLifecycle's subject: here the      *)
(* record is the set of operations it holds.                               *)
(***************************************************************************)
EXTENDS Naturals, FiniteSets

CONSTANTS
  Procs,    \* invocations of the CLI, each of one operation
  Files,    \* project files that runs change
  Runs,     \* runs whose candidates are applied
  Run,      \* the run each invocation applies, None if it only records
  Before,   \* what each changed file held when the run started
  After,    \* the candidate each run left in the files it changed
  Initial,  \* the project at the start
  Edited,   \* what an operator's editor leaves in a file
  None      \* no process, no run

ASSUME RunAssumption     == None \notin Procs /\ None \notin Runs /\ Run \in [Procs -> Runs \cup {None}]
ASSUME InitialAssumption == Initial \in [Files -> {Initial[f] : f \in Files}]
ASSUME ChangeAssumption  ==
  \A r \in Runs : /\ DOMAIN After[r] \subseteq Files
                  /\ DOMAIN Before[r] = DOMAIN After[r]
                  /\ \A f \in DOMAIN After[r] : Before[r][f] # After[r][f]
ASSUME EditAssumption    ==
  \A r \in Runs : \A f \in DOMAIN After[r] : Edited \notin {Before[r][f], After[r][f]}

VARIABLES
  project,  \* the content of every project file
  saved,    \* the operations controller.json records
  lock,     \* the process whose mkdir made the lock directory, or None
  owner,    \* the process named by the directory's owner.json, or None
  pc,       \* where each invocation is
  memory,   \* the record an invocation read and is changing
  left,     \* files its plan has still to write
  touched,  \* files it may have written and has not restored
  stuck,    \* touched files it failed to restore
  previous, \* what the files held when it planned
  asked,    \* the owner it read from a lock it found held
  report    \* what it will report: "none" while it is under way

vars == <<project, saved, lock, owner, pc, memory, left, touched, stuck, previous, asked, report>>

transaction == <<memory, left, touched, stuck, previous>>

Changes(p) == IF Run[p] = None THEN {} ELSE DOMAIN After[Run[p]]

Contents == {Edited} \cup {Initial[f] : f \in Files}
                     \cup UNION {{After[r][f] : f \in DOMAIN After[r]} : r \in Runs}

Locked   == {"owning", "reading", "planning", "writing", "saving", "undoing",
             "releasing", "removing"}
Running  == Locked \cup {"asking", "probing"}
Reports  == {"none", "done", "refused", "failed", "torn", "locked", "stale", "ambiguous"}

(* Every variable has its type, and an invocation rolls back only files    *)
(* its run changes.                                                        *)
TypeOK ==
  /\ project \in [Files -> Contents]
  /\ saved \subseteq Procs
  /\ lock \in Procs \cup {None}
  /\ owner \in Procs \cup {None}
  /\ pc \in [Procs -> Running \cup {"idle", "ended", "left", "crashed"}]
  /\ memory \in [Procs -> SUBSET Procs]
  /\ left \in [Procs -> SUBSET Files]
  /\ touched \in [Procs -> SUBSET Files]
  /\ stuck \in [Procs -> SUBSET Files]
  /\ previous \in [Procs -> [Files -> Contents]]
  /\ asked \in [Procs -> Procs \cup {None}]
  /\ report \in [Procs -> Reports]
  /\ \A p \in Procs : left[p] \cup touched[p] \subseteq Changes(p) /\ stuck[p] \subseteq touched[p]

Init ==
  /\ project = Initial
  /\ saved = {}
  /\ lock = None
  /\ owner = None
  /\ pc = [p \in Procs |-> "idle"]
  /\ memory = [p \in Procs |-> {}]
  /\ left = [p \in Procs |-> {}]
  /\ touched = [p \in Procs |-> {}]
  /\ stuck = [p \in Procs |-> {}]
  /\ previous = [p \in Procs |-> Initial]
  /\ asked = [p \in Procs |-> None]
  /\ report = [p \in Procs |-> "none"]

Go(p, from, to) == pc[p] = from /\ pc' = [pc EXCEPT ![p] = to]

-----------------------------------------------------------------------------
(* Taking the lock                                                         *)

MakeLock(p) ==
  /\ lock = None
  /\ Go(p, "idle", "owning")
  /\ lock' = p
  /\ UNCHANGED <<project, saved, owner, transaction, asked, report>>

FindLock(p) ==
  /\ lock # None
  /\ Go(p, "idle", "asking")
  /\ UNCHANGED <<project, saved, lock, owner, transaction, asked, report>>

WriteOwner(p) ==
  /\ Go(p, "owning", "reading")
  /\ owner' = p
  /\ UNCHANGED <<project, saved, lock, transaction, asked, report>>

(* The lock was found held: owner.json names the holder, or is not (yet)   *)
(* there, which is ambiguous.  A dead holder's lock is never reclaimed.    *)
AskOwner(p) ==
  /\ asked' = [asked EXCEPT ![p] = owner]
  /\ IF owner = None
       THEN Go(p, "asking", "ended") /\ report' = [report EXCEPT ![p] = "ambiguous"]
       ELSE Go(p, "asking", "probing") /\ UNCHANGED report
  /\ UNCHANGED <<project, saved, lock, owner, transaction>>

Alive(p) == pc[p] \in Running

ProbeOwner(p) ==
  /\ Go(p, "probing", "ended")
  /\ report' = [report EXCEPT ![p] = IF Alive(asked[p]) THEN "locked" ELSE "stale"]
  /\ UNCHANGED <<project, saved, lock, owner, transaction, asked>>

-----------------------------------------------------------------------------
(* The transaction                                                         *)

\* Mutant: a record that cannot be read counts as an empty one.
ReadStateOrEmpty(p) ==
  /\ Go(p, "reading", IF Run[p] = None THEN "saving" ELSE "planning")
  /\ \E record \in {saved, {}} : memory' = [memory EXCEPT ![p] = record]
  /\ UNCHANGED <<project, saved, lock, owner, left, touched, stuck, previous, asked, report>>

ReadState(p) ==
  /\ Go(p, "reading", IF Run[p] = None THEN "saving" ELSE "planning")
  /\ memory' = [memory EXCEPT ![p] = saved]
  /\ UNCHANGED <<project, saved, lock, owner, left, touched, stuck, previous, asked, report>>

\* Mutant: one file that fits is taken for all of them.
ApplicableInPart(p) ==
  \E f \in Changes(p) : project[f] \in {Before[Run[p]][f], After[Run[p]][f]}

(* Every changed file must hold the run's start or already its candidate.  *)
Applicable(p) ==
  \A f \in Changes(p) : project[f] \in {Before[Run[p]][f], After[Run[p]][f]}

PlanApply(p) ==
  /\ Go(p, "planning", "writing")
  /\ Applicable(p)
  /\ left' = [left EXCEPT ![p] = {f \in Changes(p) : project[f] # After[Run[p]][f]}]
  /\ previous' = [previous EXCEPT ![p] = project]
  /\ UNCHANGED <<project, saved, lock, owner, memory, touched, stuck, asked, report>>

\* Mutant: a refusal leaves the lock behind.
RefuseKeepsLock(p) ==
  /\ \E here \in {"owning", "reading", "planning"} : Go(p, here, "ended")
  /\ report' = [report EXCEPT ![p] = "refused"]
  /\ UNCHANGED <<project, saved, lock, owner, transaction, asked>>

(* The operation's own checks refuse, or a file or the record cannot be    *)
(* read, before anything is written.                                       *)
Refuse(p) ==
  /\ \E here \in {"owning", "reading", "planning"} : Go(p, here, "releasing")
  /\ report' = [report EXCEPT ![p] = "refused"]
  /\ UNCHANGED <<project, saved, lock, owner, transaction, asked>>

WriteFile(p) ==
  /\ pc[p] = "writing"
  /\ \E f \in left[p] :
       /\ project' = [project EXCEPT ![f] = After[Run[p]][f]]
       /\ touched' = [touched EXCEPT ![p] = @ \cup {f}]
       /\ left' = [left EXCEPT ![p] = @ \ {f}]
  /\ UNCHANGED <<saved, lock, owner, pc, memory, stuck, previous, asked, report>>

(* A write that fails leaves the file as it was, but is rolled back too.   *)
FailWrite(p) ==
  /\ Go(p, "writing", "undoing")
  /\ \E f \in left[p] : touched' = [touched EXCEPT ![p] = @ \cup {f}]
  /\ UNCHANGED <<project, saved, lock, owner, memory, left, stuck, previous, asked, report>>

\* Mutant: the record is saved before the writes have ended.
EndWritesEarly(p) ==
  /\ Go(p, "writing", "saving")
  /\ UNCHANGED <<project, saved, lock, owner, transaction, asked, report>>

EndWrites(p) ==
  /\ left[p] = {}
  /\ Go(p, "writing", "saving")
  /\ UNCHANGED <<project, saved, lock, owner, transaction, asked, report>>

SaveState(p) ==
  /\ Go(p, "saving", "releasing")
  /\ saved' = memory[p] \cup {p}
  /\ report' = [report EXCEPT ![p] = "done"]
  /\ UNCHANGED <<project, lock, owner, transaction, asked>>

\* Mutant: a record that cannot be saved leaves the files written.
FailSaveKeepsFiles(p) ==
  /\ Go(p, "saving", "releasing")
  /\ report' = [report EXCEPT ![p] = "failed"]
  /\ UNCHANGED <<project, saved, lock, owner, transaction, asked>>

FailSave(p) ==
  /\ Go(p, "saving", "undoing")
  /\ UNCHANGED <<project, saved, lock, owner, transaction, asked, report>>

-----------------------------------------------------------------------------
(* Rollback, still under the lock: one file failing does not stop the rest *)

RestoreFile(p) ==
  /\ pc[p] = "undoing"
  /\ \E f \in touched[p] \ stuck[p] :
       /\ project' = [project EXCEPT ![f] = previous[p][f]]
       /\ touched' = [touched EXCEPT ![p] = @ \ {f}]
  /\ UNCHANGED <<saved, lock, owner, pc, memory, left, stuck, previous, asked, report>>

FailRestore(p) ==
  /\ pc[p] = "undoing"
  /\ \E f \in touched[p] \ stuck[p] : stuck' = [stuck EXCEPT ![p] = @ \cup {f}]
  /\ UNCHANGED <<project, saved, lock, owner, pc, memory, left, touched, previous, asked, report>>

EndRollback(p) ==
  /\ touched[p] = stuck[p]
  /\ Go(p, "undoing", "releasing")
  /\ report' = [report EXCEPT ![p] = IF stuck[p] = {} THEN "failed" ELSE "torn"]
  /\ UNCHANGED <<project, saved, lock, owner, transaction, asked>>

-----------------------------------------------------------------------------
(* Releasing the lock: the directory is emptied, then removed; an error is *)
(* swallowed and leaves it behind.                                         *)

RemoveOwner(p) ==
  /\ Go(p, "releasing", "removing")
  /\ owner' = None
  /\ UNCHANGED <<project, saved, lock, transaction, asked, report>>

RemoveLock(p) ==
  /\ Go(p, "removing", "ended")
  /\ lock' = None
  /\ UNCHANGED <<project, saved, owner, transaction, asked, report>>

LeaveLock(p) ==
  /\ \E here \in {"releasing", "removing"} : Go(p, here, "left")
  /\ UNCHANGED <<project, saved, lock, owner, transaction, asked, report>>

-----------------------------------------------------------------------------
(* What happens around an invocation                                       *)

Crash(p) ==
  /\ pc[p] \in Running
  /\ pc' = [pc EXCEPT ![p] = "crashed"]
  /\ UNCHANGED <<project, saved, lock, owner, transaction, asked, report>>

(* The operator inspects a lock by hand and removes it only if no process  *)
(* still owns it, as docs/quickstart.md asks.                              *)
ClearLock ==
  /\ lock # None
  /\ ~Alive(lock)
  /\ lock' = None
  /\ owner' = None
  /\ UNCHANGED <<project, saved, pc, transaction, asked, report>>

EditFile ==
  /\ \E f \in Files : project[f] # Edited /\ project' = [project EXCEPT ![f] = Edited]
  /\ UNCHANGED <<saved, lock, owner, pc, transaction, asked, report>>

(* The steps an invocation takes by itself once it has started.            *)
Step(p) ==
  \/ WriteOwner(p) \/ AskOwner(p) \/ ProbeOwner(p)
  \/ ReadState(p) \/ PlanApply(p) \/ Refuse(p)
  \/ WriteFile(p) \/ FailWrite(p) \/ EndWrites(p) \/ SaveState(p) \/ FailSave(p)
  \/ RestoreFile(p) \/ FailRestore(p) \/ EndRollback(p)
  \/ RemoveOwner(p) \/ RemoveLock(p) \/ LeaveLock(p)

Next ==
  \/ \E p \in Procs : MakeLock(p) \/ FindLock(p) \/ Step(p) \/ Crash(p)
  \/ ClearLock
  \/ EditFile

Spec == Init /\ [][Next]_vars

-----------------------------------------------------------------------------
(* Properties                                                              *)

(* At most one invocation is in the locked part, whoever crashed, was      *)
(* cleared or found the lock stale (withExclusiveLock).                    *)
OneHolder == \A p, q \in Procs : pc[p] \in Locked /\ pc[q] \in Locked => p = q

(* An operation that reports success stays in the record: no other one     *)
(* overwrites controller.json from a copy read before it (mutateState).    *)
ReportedStaysSaved == \A p \in Procs : report[p] = "done" => p \in saved

(* A file holds a run's candidate only if the apply that wrote it is       *)
(* recorded, is under way, died, or reported that it could not restore it. *)
CandidatesAccounted ==
  \A f \in Files :
    \/ project[f] \in {Initial[f], Edited}
    \/ \E p \in Procs : /\ f \in Changes(p)
                        /\ project[f] = After[Run[p]][f]
                        /\ \/ p \in saved
                           \/ pc[p] \in Locked \cup {"crashed"}
                           \/ report[p] = "torn"

(* Apply and its rollback overwrite an operator's edit only if it was made *)
(* after the apply compared the file (planFrom's conflict check).          *)
EditsBeforePlanStay ==
  [][\A f \in Files : project[f] = Edited /\ project'[f] # Edited
       => \E p \in Procs : pc[p] \in {"writing", "undoing"} /\ previous[p][f] # Edited]_vars

(* An invocation that ended has given the lock up, whichever way its       *)
(* operation ended: refused, failed, undone or done (withExclusiveLock).   *)
LockReleased == \A p \in Procs : pc[p] = "ended" => lock # p

-----------------------------------------------------------------------------
(* The files an operation has rewritten and not accounted for count as what*)
(* they held when it planned; an invocation that died before it reported   *)
(* is abandoned once the lock is no longer its own.                        *)
Visible ==
  [f \in Files |-> IF lock # None /\ report[lock] = "none" /\ f \in touched[lock]
                     THEN previous[lock][f] ELSE project[f]]

Reported ==
  [p \in Procs |-> IF report[p] = "none" /\ pc[p] = "crashed" /\ lock # p
                     THEN "abandoned"
                   ELSE IF report[p] \in {"locked", "stale", "ambiguous"} THEN "refused"
                   ELSE report[p]]

Abstract == INSTANCE AtomicStore
              WITH files <- Visible, recorded <- saved, report <- Reported

(* All or nothing: every history of the lock, the writes, the rollback and *)
(* the crashes is one of the atomic store's.                               *)
AllOrNothing == Abstract!ASpec
=============================================================================
