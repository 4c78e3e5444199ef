---------------------------- MODULE AtomicStore ----------------------------
(***************************************************************************)
(* What the controller promises of an operation that changes its record    *)
(* and, for task apply, the project (docs/quickstart.md, "Apply is all or  *)
(* nothing"): it happens in one step or it changes nothing.  Three things  *)
(* are let through: an operation that reports what it could not restore,   *)
(* one whose process died, once the operator has removed its lock, and the *)
(* loss of an edit made while an apply is under way.                       *)
(***************************************************************************)
CONSTANTS
  Procs,    \* invocations of the CLI, each of one operation
  Files,    \* project files that runs change
  Runs,     \* runs whose candidates are applied
  Run,      \* the run each invocation applies, None if it only records
  Before,   \* what each changed file held when the run started
  After,    \* the candidate each run left in the files it changed
  Initial,  \* the project at the start
  Edited,   \* what an operator's editor leaves in a file
  None

VARIABLES
  files,    \* the project as an operation that is not under way sees it
  recorded, \* the operations the controller's record holds
  report    \* what each operation reports

Changes(p) == IF Run[p] = None THEN {} ELSE DOMAIN After[Run[p]]

(* The files in S are rewritten; an edit made meanwhile may have the last  *)
(* word on a file.                                                         *)
Rewrite(p, S) ==
  /\ S \subseteq Changes(p)
  /\ DOMAIN files' = Files
  /\ \A f \in S : files'[f] \in {After[Run[p]][f], Edited}
  /\ \A f \in Files \ S : files'[f] = files[f]

AInit ==
  /\ files = Initial
  /\ recorded = {}
  /\ report = [p \in Procs |-> "none"]

(* Every changed file holds the candidate, rewritten now or found there.   *)
Commit(p) ==
  /\ report[p] = "none"
  /\ recorded' = recorded \cup {p}
  /\ report' = [report EXCEPT ![p] = "done"]
  /\ \E S \in SUBSET Changes(p) :
       /\ Rewrite(p, S)
       /\ \A f \in Changes(p) : files'[f] \in {After[Run[p]][f], Edited}

Refuse(p) ==
  /\ report[p] = "none"
  /\ \E r \in {"refused", "failed"} : report' = [report EXCEPT ![p] = r]
  /\ UNCHANGED <<files, recorded>>

(* The report names files that may not have been restored.                 *)
Tear(p) ==
  /\ report[p] = "none"
  /\ report' = [report EXCEPT ![p] = "torn"]
  /\ \E S \in SUBSET Changes(p) : Rewrite(p, S)
  /\ UNCHANGED recorded

Abandon(p) ==
  /\ report[p] = "none"
  /\ report' = [report EXCEPT ![p] = "abandoned"]
  /\ \E S \in SUBSET Changes(p) : Rewrite(p, S)
  /\ UNCHANGED recorded

Edit(f) ==
  /\ files' = [files EXCEPT ![f] = Edited]
  /\ UNCHANGED <<recorded, report>>

(* The editor knows nothing of the lock: what it wrote after the apply     *)
(* compared the file gives way to what the file held then.                 *)
LoseEdit(p, f) ==
  /\ report[p] = "none"
  /\ f \in Changes(p)
  /\ files[f] = Edited
  /\ files' = [files EXCEPT ![f] = Before[Run[p]][f]]
  /\ UNCHANGED <<recorded, report>>

ANext ==
  \/ \E p \in Procs : Commit(p) \/ Refuse(p) \/ Tear(p) \/ Abandon(p)
  \/ \E p \in Procs, f \in Files : LoseEdit(p, f)
  \/ \E f \in Files : Edit(f)

ASpec == AInit /\ [][ANext]_<<files, recorded, report>>
=============================================================================
