-------------------------- MODULE SliceTestReview --------------------------
(***************************************************************************)
(* The slice test review (src/src/slice-test-review-workflow.mjs and       *)
(* slice-test-review.mjs): the ledger of workflow events each slice's      *)
(* tests go through before its candidate may be applied and accepted, and  *)
(* the controller's operations it gates.                                   *)
(*                                                                         *)
(* Every operation holds workflow.lock from its first read to its last     *)
(* write, a provider's answer or the checks of a candidate included; one   *)
(* that finds the lock held fails at once.  An event is two writes, its    *)
(* record and its line of the ledger, so an operation is a step up to each *)
(* write.  A run id is the index of the run, an event's id its sequence.   *)
(***************************************************************************)
EXTENDS Naturals, Sequences, FiniteSets

CONSTANTS
  Slices,        \* task ids, each the task of one slice
  Policies,      \* the settings of config.testReview an operator uses
  None,          \* no policy, lock holder, intent, run or worker
  Edited,        \* slices whose files are also changed by hand: bounds edits
  MaxEvents,     \* bound on the ledger
  MaxRuns,       \* bound on worker runs
  MaxApprovals   \* bound on the approvals of one task

PolicyType == [limit : Nat \ {0}, unavailable : {"revision", "escalation", "unavailable"}]

ASSUME PoliciesAssumption == Policies \subseteq PolicyType \cup {None}
ASSUME EditedAssumption   == Edited \subseteq Slices
ASSUME NoneAssumption     == None \notin PolicyType \cup Nat
ASSUME BoundsAssumption   == MaxEvents \in Nat /\ MaxRuns \in Nat /\ MaxApprovals \in Nat

VARIABLES
  ledger,    \* events.jsonl
  records,   \* the immutable event files
  intent,    \* the operator revision each slice still has to publish
  held,      \* the operation that holds workflow.lock
  working,   \* the worker that revises each slice's candidate
  saving,    \* the revision review that holds the controller's lock
  runs,      \* completed worker runs
  approval,  \* how often each task was approved
  review,    \* each task's last review
  applied,   \* the run whose candidate was applied
  project,   \* the run whose candidate the slice's files hold, or 0
  policy     \* the active test-review policy

controller == <<saving, approval, review, applied, project>>
vars == <<ledger, records, intent, held, working, runs, policy, controller>>

Completions == {"initial-assessment", "revision-assessment", "provider-failure"}
Types  == Completions \cup {"assessment-started", "independent-checks", "strong-review",
            "revision-dispatched", "revision-candidate", "operator-revision"}
Routes == {"assessment-pending", "assessment-required", "independent-review", "escalation",
           "revision", "dispatch-pending", "operator-acceptance", "unavailable"}

(* What an assessment captured: a run, the approval it worked under, and   *)
(* the event that took it.                                                 *)
Envelopes == [run : Nat, approval : Nat, taken : Nat]
Events == [slice : Slices, sequence : Nat, type : Types, route : Routes, revision : Nat,
           prev : Nat, envelope : Envelopes, policy : PolicyType, assessment : Nat,
           checks : {"none", "passed", "failed"}, verdict : {"none", "accepted", "rejected"},
           candidate : Nat, fromProject : BOOLEAN]
Intents == [run : Nat, event : Events]
Stages  == {"append", "provider", "checking", "publish", "link", "clear"}
Runs    == [slice : Slices, base : Nat, start : Nat, approval : Nat]
Reviews == [verdict : {"none", "accepted", "revision", "blocked"}, approval : Nat,
            appliedFrom : Nat \cup {None}, proof : Nat, content : Nat]

ASSUME IntentAssumption == None \notin Intents

TypeOK ==
  /\ ledger \in Seq(Events) /\ records \subseteq Events
  /\ intent \in [Slices -> Intents \cup {None}]
  /\ held \in [slice : Slices, stage : Stages, event : Events, packet : Nat] \cup {None}
  /\ working \in [Slices -> [dispatched : Nat, start : Nat, approval : Nat] \cup {None}]
  /\ saving \in [slice : Slices, run : Nat \cup {None}] \cup {None}
  /\ runs \in Seq(Runs)
  /\ approval \in [Slices -> Nat]
  /\ review \in [Slices -> Reviews]
  /\ applied \in [Slices -> Nat \cup {None}]
  /\ project \in [Slices -> Nat]
  /\ policy \in PolicyType \cup {None}

-----------------------------------------------------------------------------
(* The ledger                                                              *)

Positions(s)  == {i \in DOMAIN ledger : ledger[i].slice = s}
LastOf(S)     == CHOOSE i \in S \cup {0} : \A j \in S : j <= i
Last(s)       == LastOf(Positions(s))
LastEvent(s)  == ledger[Last(s)]
LastRoute(s)  == IF Last(s) = 0 THEN "assessment-required" ELSE LastEvent(s).route
Room(n)       == Len(ledger) + n <= MaxEvents

\* Mutant: the last revision the policy allows may be followed by one more.
RevisionLeftInclusive(e, p) == e.revision <= p.limit

RevisionLeft(e, p) == e.revision < p.limit

BudgetRoute(e) == IF RevisionLeft(e, e.policy) THEN "revision" ELSE "escalation"

UnavailableRoute(e) ==
  IF e.policy.unavailable = "revision" THEN BudgetRoute(e) ELSE e.policy.unavailable

(* What the event at i must be after the event p of the same slice.        *)
Succeeds(i, p) ==
  LET e == ledger[i]
      parent == LastOf({j \in Positions(e.slice) : j < i /\ ledger[j].type \in Completions})
      spends == e.type = "revision-dispatched"
                  \/ (e.type = "assessment-started" /\ p.route = "revision")
  IN
  /\ e.prev = p.sequence
  /\ e.revision = p.revision + (IF spends THEN 1 ELSE 0)
  /\ e.type = "assessment-started" =>
       p.route \in {"revision", "assessment-required"}
  /\ e.type # "assessment-started" => e.policy = p.policy /\ e.envelope = p.envelope
  /\ e.type \in Completions =>
       p.type = "assessment-started" /\ e.assessment = p.sequence
  /\ e.type = "operator-revision" =>
       /\ p.type = "strong-review" /\ p.route = "operator-acceptance"
       /\ e.route = BudgetRoute(e) /\ e.fromProject
  /\ e.type = "revision-dispatched" => p.route = "revision"
  /\ e.type = "revision-candidate" => p.type = "revision-dispatched"
  /\ e.type \in {"independent-checks", "strong-review"} =>
       /\ p.route \in {"independent-review", "escalation"}
       /\ parent # 0 /\ e.assessment = parent /\ e.envelope = ledger[parent].envelope
  /\ e.type = "strong-review" =>
       IF e.verdict = "accepted"
       THEN /\ p.type = "independent-checks" /\ p.checks = "passed"
            /\ e.route = "operator-acceptance"
       ELSE e.route = BudgetRoute(e)

(* history() returns the slice's events instead of refusing them.          *)
Readable(s) ==
  \A i \in Positions(s) :
    LET before == {j \in Positions(s) : j < i} IN
    /\ ledger[i] \in records
    /\ ledger[i].revision <= ledger[i].policy.limit
    /\ IF before = {}
       THEN ledger[i].type = "assessment-started" /\ ledger[i].revision = 0 /\ ledger[i].prev = 0
       ELSE Succeeds(i, ledger[LastOf(before)])

-----------------------------------------------------------------------------
(* The task as the controller sees it                                      *)

ApprovalFresh(s) ==
  /\ approval[s] # 0
  /\ ~(review[s].verdict = "blocked" /\ review[s].approval = approval[s])

\* A task whose acceptance is no longer current is stale, not ready.
Ready(s) == ApprovalFresh(s) /\ review[s].verdict # "accepted"

ProofHolds(s) ==
  review[s].proof # 0 =>
    /\ policy # None
    /\ Readable(s)
    /\ Last(s) = review[s].proof
    /\ LastEvent(s).envelope.run = applied[s]
    /\ LastEvent(s).policy = policy
    /\ project[s] = applied[s]

AcceptedNow(s) ==
  /\ review[s].verdict = "accepted"
  /\ ApprovalFresh(s)
  /\ review[s].approval = approval[s]
  /\ review[s].content = project[s]
  /\ ProofHolds(s)

(* resolveTaskPacket: with reviewed the applied run, an applied candidate  *)
(* and its current acceptance do not stand in the way.                     *)
Resolvable(s, reviewed) ==
  /\ Ready(s) \/ (AcceptedNow(s) /\ reviewed = applied[s])
  /\ applied[s] \in {None, reviewed}

(* freshInput: what the event assessed would be captured again unchanged.  *)
Fresh(s, e, reviewed) ==
  /\ Resolvable(s, reviewed)
  /\ e.envelope.approval = approval[s]
  /\ e.policy = policy

\* Mutant: a strong review of the slice lets any of its runs through.
AcceptableAnyRun(s, r, reviewed) ==
  /\ Readable(s)
  /\ Last(s) # 0
  /\ LastEvent(s).type = "strong-review"
  /\ LastEvent(s).route = "operator-acceptance"
  /\ Fresh(s, LastEvent(s), reviewed)
  /\ reviewed # None => project[s] = r

Acceptable(s, r, reviewed) ==
  /\ Readable(s)
  /\ Last(s) # 0
  /\ LastEvent(s).type = "strong-review"
  /\ LastEvent(s).route = "operator-acceptance"
  /\ LastEvent(s).envelope.run = r
  /\ Fresh(s, LastEvent(s), reviewed)
  /\ reviewed # None => project[s] = r

-----------------------------------------------------------------------------
(* Writing an event: its record, then its line of the ledger               *)

\* What a retry of the same step would write again, byte for byte.
Repeatable == {"revision-dispatched", "revision-candidate", "strong-review"}

(* The next event of a slice inherits the workflow of the last one.        *)
Follow(e, type, route) ==
  [e EXCEPT !.sequence = Len(ledger) + 1, !.type = type, !.route = route,
            !.prev = e.sequence, !.verdict = "none"]

(* An orphaned record of the same event makes the write fail for good.     *)
WriteRecord(e) ==
  /\ ~(e.type \in Repeatable /\ e \in records)
  /\ records' = records \cup {e}
  /\ held' = [slice |-> e.slice, stage |-> "append", event |-> e, packet |-> approval[e.slice]]

AppendEvent ==
  /\ held # None /\ held.stage = "append"
  /\ LET e == held.event IN
     /\ e.sequence = Len(ledger) + 1
     /\ ledger' = Append(ledger, e)
     /\ held' = IF e.type = "assessment-started"
                THEN [held EXCEPT !.stage = "provider"] ELSE None
     /\ working' = IF e.type # "revision-dispatched" THEN working
                   ELSE [working EXCEPT ![e.slice] =
                          [dispatched |-> e.sequence, start |-> project[e.slice],
                           approval |-> held.packet]]
  /\ UNCHANGED <<records, intent, runs, policy, controller>>

(* The holder fails, or dies and the operator clears its lock.  A record   *)
(* nothing would write again stays behind unseen and is left out.          *)
Interrupt ==
  /\ held # None
  /\ held' = None
  /\ records' = IF held.stage = "append" /\ held.event.type \notin Repeatable
                THEN records \ {held.event} ELSE records
  /\ UNCHANGED <<ledger, intent, working, runs, policy, controller>>

-----------------------------------------------------------------------------
(* Assessing a candidate                                                   *)

\* What the run's copy of the slice's files held before the worker.
Before(r) == IF runs[r].base = 0 THEN runs[r].start ELSE runs[r].base

(* The run revises the candidate assessed last.                            *)
Revises(s, r) ==
  LET last == LastEvent(s) IN
  /\ last.candidate \in {0, r}
  /\ IF last.fromProject THEN Before(r) = last.envelope.run ELSE runs[r].base = last.envelope.run

StartAssessment(s, r) ==
  /\ Room(2)
  /\ held = None /\ policy # None
  /\ Readable(s)
  /\ LastRoute(s) \in {"revision", "assessment-required"}
  /\ Last(s) # 0 => Revises(s, r)
  /\ runs[r].slice = s /\ runs[r].approval = approval[s]
  /\ Resolvable(s, None)
  /\ LET spent    == IF Last(s) = 0 THEN 0 ELSE LastEvent(s).revision
         revision == spent + (IF LastRoute(s) = "revision" THEN 1 ELSE 0)
     IN  /\ revision <= policy.limit
         /\ WriteRecord([slice |-> s, sequence |-> Len(ledger) + 1,
              type |-> "assessment-started", route |-> "assessment-pending",
              revision |-> revision, prev |-> Last(s),
              envelope |-> [run |-> r, approval |-> approval[s], taken |-> Len(ledger) + 1],
              policy |-> policy, assessment |-> 0, checks |-> "none", verdict |-> "none",
              candidate |-> 0, fromProject |-> FALSE])
  /\ UNCHANGED <<ledger, intent, working, runs, policy, controller>>

Complete(type, route) ==
  /\ WriteRecord([Follow(held.event, type, route) EXCEPT !.assessment = held.event.sequence])
  /\ UNCHANGED <<ledger, intent, working, runs, policy, controller>>

AssessmentRoute(e, verdict) ==
  CASE verdict = "positive"  -> "independent-review"
    [] verdict = "negative"  -> BudgetRoute(e)
    [] verdict = "uncertain" -> "escalation"

(* The provider answers, and the inputs are still what it was asked about. *)
FinishAssessment(verdict) ==
  /\ held # None /\ held.stage = "provider"
  /\ Fresh(held.slice, held.event, None)
  /\ Complete(IF held.event.revision = 0 THEN "initial-assessment" ELSE "revision-assessment",
              AssessmentRoute(held.event, verdict))

(* It does not, or the task is no longer ready for a worker.               *)
LoseAssessment ==
  /\ held # None /\ held.stage = "provider"
  /\ Complete("provider-failure", UnavailableRoute(held.event))

(* The task is ready, under another approval or another policy.            *)
StaleAssessment ==
  /\ held # None /\ held.stage = "provider"
  /\ Resolvable(held.slice, None)
  /\ ~Fresh(held.slice, held.event, None)
  /\ Complete("provider-failure", "escalation")

-----------------------------------------------------------------------------
(* Checks and the strong review                                            *)

\* Mutant: any event of the slice may be checked or reviewed.
AwaitsReviewAnyRoute(s) == Last(s) # 0

AwaitsReview(s) == LastRoute(s) \in {"independent-review", "escalation"}

\* Mutant: the assessment event itself is taken for its invocation.
AssessmentInherited(e) == e.assessment

(* The assessment a check or a review is of.                               *)
AssessmentOf(e) == IF e.type \in Completions THEN e.sequence ELSE e.assessment

StartChecks(s) ==
  /\ Room(1)
  /\ held = None
  /\ Readable(s)
  /\ AwaitsReview(s)
  /\ Fresh(s, LastEvent(s), None)
  /\ held' = [slice |-> s, stage |-> "checking", event |-> LastEvent(s), packet |-> approval[s]]
  /\ UNCHANGED <<ledger, records, intent, working, runs, policy, controller>>

FinishChecks(passed) ==
  /\ held # None /\ held.stage = "checking"
  /\ passed => Fresh(held.slice, held.event, None)
  /\ LET e     == held.event
         route == IF passed THEN e.route ELSE BudgetRoute(e)
     IN  WriteRecord([Follow(e, "independent-checks", route) EXCEPT
           !.assessment = AssessmentOf(e), !.checks = IF passed THEN "passed" ELSE "failed"])
  /\ UNCHANGED <<ledger, intent, working, runs, policy, controller>>

ChecksSupport(e, verdict) ==
  verdict = "accepted" => e.type = "independent-checks" /\ e.checks = "passed"

StrongReview(s, verdict) ==
  /\ Room(1)
  /\ held = None
  /\ Readable(s)
  /\ AwaitsReview(s)
  /\ \A i \in Positions(s) : ~(/\ ledger[i].type = "strong-review"
                               /\ ledger[i].envelope = LastEvent(s).envelope)
  /\ Fresh(s, LastEvent(s), None)
  /\ ChecksSupport(LastEvent(s), verdict)
  /\ LET e     == LastEvent(s)
         route == IF verdict = "accepted" THEN "operator-acceptance" ELSE BudgetRoute(e)
     IN  WriteRecord([Follow(e, "strong-review", route) EXCEPT
           !.assessment = AssessmentOf(e), !.verdict = verdict])
  /\ UNCHANGED <<ledger, intent, working, runs, policy, controller>>

-----------------------------------------------------------------------------
(* Workers                                                                 *)

Run(s, base, start, given) ==
  Append(runs, [slice |-> s, base |-> base, start |-> start, approval |-> given])

(* The gate lets the worker of a slice without events, or without an       *)
(* active policy, run unrecorded; only its completed run is ever looked at.*)
RunWorker(s, base) ==
  /\ Len(runs) < MaxRuns
  /\ policy # None => held = None /\ Last(s) = 0
  /\ Resolvable(s, None)
  /\ base # 0 => runs[base].slice = s
  /\ runs' = Run(s, base, project[s], approval[s])
  /\ UNCHANGED <<ledger, records, intent, held, working, policy, controller>>

DispatchRevision(s) ==
  /\ Room(1)
  /\ held = None /\ policy # None /\ working[s] = None
  /\ Resolvable(s, None)
  /\ Readable(s) /\ Last(s) # 0
  /\ LastRoute(s) = "revision"
  /\ RevisionLeft(LastEvent(s), policy)
  /\ IF LastEvent(s).fromProject
     THEN policy = LastEvent(s).policy /\ project[s] = LastEvent(s).envelope.run
     ELSE Fresh(s, LastEvent(s), None)
  /\ WriteRecord([Follow(LastEvent(s), "revision-dispatched", "dispatch-pending") EXCEPT
                    !.revision = LastEvent(s).revision + 1])
  /\ UNCHANGED <<ledger, intent, working, runs, policy, controller>>

CandidateOf(s) ==
  Run(s, IF ledger[working[s].dispatched].fromProject THEN 0
         ELSE ledger[working[s].dispatched].envelope.run,
      working[s].start, working[s].approval)

(* The worker returns, with a completed run or without one.                *)
ReturnCandidate(s, complete) ==
  /\ Room(1)
  /\ working[s] # None
  /\ held = None
  /\ Readable(s) /\ Last(s) = working[s].dispatched
  /\ complete => Len(runs) < MaxRuns
  /\ runs' = IF complete THEN CandidateOf(s) ELSE runs
  /\ WriteRecord([Follow(LastEvent(s), "revision-candidate",
                         IF complete THEN "assessment-required" ELSE "escalation") EXCEPT
                    !.candidate = IF complete THEN Len(runs) + 1 ELSE @])
  /\ working' = [working EXCEPT ![s] = None]
  /\ UNCHANGED <<ledger, intent, policy, controller>>

(* Another operation holds the lock as it returns, or the ledger cannot be *)
(* read: its run is kept, and nothing is recorded.                         *)
ReturnUnrecorded(s) ==
  /\ working[s] # None
  /\ held # None \/ ~Readable(s) \/ Last(s) # working[s].dispatched
  /\ Len(runs) < MaxRuns
  /\ runs' = CandidateOf(s)
  /\ working' = [working EXCEPT ![s] = None]
  /\ UNCHANGED <<ledger, records, intent, held, policy, controller>>

(* The worker's host dies.                                                 *)
LoseWorker(s) ==
  /\ working[s] # None
  /\ working' = [working EXCEPT ![s] = None]
  /\ UNCHANGED <<ledger, records, intent, held, runs, policy, controller>>

-----------------------------------------------------------------------------
(* The controller: approvals, applies and reviews                          *)

ApproveTask(s) ==
  /\ saving = None
  /\ approval[s] < MaxApprovals
  /\ approval' = [approval EXCEPT ![s] = @ + 1]
  /\ UNCHANGED <<ledger, records, intent, held, working, saving, runs, review, applied, project, policy>>

(* The run and those it revises, back to the one that started afresh.      *)
Lineage(r) ==
  CHOOSE S \in SUBSET (1..r) :
    /\ r \in S
    /\ \A x \in S : runs[x].base # 0 => runs[x].base \in S
    /\ \A x \in S \ {r} : \E y \in S : y > x /\ runs[y].base = x

ApplyTask(s, r) ==
  /\ saving = None
  /\ Ready(s)
  /\ policy # None => held = None /\ Acceptable(s, r, None)
  /\ runs[r].slice = s /\ runs[r].approval = approval[s]
  /\ project[s] \in {r} \cup {Before(x) : x \in Lineage(r)}
  /\ project' = [project EXCEPT ![s] = r]
  /\ applied' = [applied EXCEPT ![s] = r]
  /\ UNCHANGED <<ledger, records, intent, held, working, saving, runs, approval, review, policy>>

(* The candidate a review is of: the applied run's, or the one an earlier  *)
(* review sent back.                                                       *)
ReviewedRun(s) == IF applied[s] # None THEN applied[s] ELSE review[s].appliedFrom

AcceptTask(s) ==
  /\ saving = None
  /\ ApprovalFresh(s)
  /\ ~(review[s].verdict = "revision" /\ applied[s] = None /\ review[s].appliedFrom # None)
  /\ policy # None => /\ held = None
                      /\ applied[s] # None
                      /\ Acceptable(s, applied[s], applied[s])
  /\ review' = [review EXCEPT ![s] =
       [verdict |-> "accepted", approval |-> approval[s], appliedFrom |-> applied[s],
        proof |-> IF policy = None THEN 0 ELSE Last(s), content |-> project[s]]]
  /\ UNCHANGED <<ledger, records, intent, held, working, saving, runs, approval, applied, project, policy>>

BlockTask(s) ==
  /\ saving = None
  /\ ApprovalFresh(s)
  /\ review' = [review EXCEPT ![s] =
       [verdict |-> "blocked", approval |-> approval[s], appliedFrom |-> None,
        proof |-> 0, content |-> 0]]
  /\ UNCHANGED <<ledger, records, intent, held, working, saving, runs, approval, applied, project, policy>>

-----------------------------------------------------------------------------
(* Sending an applied candidate back                                       *)

(* prepareSliceTestOperatorRevision, under the controller's lock: the      *)
(* event to publish is written down before the review is saved.            *)
PrepareRevision(s) ==
  /\ saving = None
  /\ ApprovalFresh(s)
  /\ saving' = [slice |-> s, run |-> ReviewedRun(s)]
  /\ IF policy = None \/ ReviewedRun(s) = None THEN UNCHANGED intent
     ELSE /\ held = None
          /\ \/ /\ intent[s] # None
                /\ intent[s].run = ReviewedRun(s)
                /\ intent[s].event.policy = policy
                /\ UNCHANGED intent
             \/ /\ intent[s] = None
                /\ Readable(s)
                /\ LastRoute(s) # "operator-acceptance"
                /\ UNCHANGED intent
             \/ /\ intent[s] = None
                /\ Acceptable(s, ReviewedRun(s), ReviewedRun(s))
                /\ intent' = [intent EXCEPT ![s] = [run |-> ReviewedRun(s), event |->
                     [Follow(LastEvent(s), "operator-revision", BudgetRoute(LastEvent(s)))
                        EXCEPT !.fromProject = TRUE]]]
  /\ UNCHANGED <<ledger, records, held, working, runs, approval, review, applied, project, policy>>

SaveRevision ==
  /\ saving # None
  /\ LET s == saving.slice IN
     /\ review' = [review EXCEPT ![s] =
          [verdict |-> "revision", approval |-> approval[s], appliedFrom |-> saving.run,
           proof |-> 0, content |-> 0]]
     /\ applied' = [applied EXCEPT ![s] = None]
  /\ saving' = None
  /\ UNCHANGED <<ledger, records, intent, held, working, runs, approval, project, policy>>

(* The controller's record cannot be saved, or its process dies.           *)
AbandonRevision ==
  /\ saving # None
  /\ saving' = None
  /\ UNCHANGED <<ledger, records, intent, held, working, runs, approval, review, applied, project, policy>>

Published(s) ==
  LET e == intent[s].event IN e.sequence \in DOMAIN ledger /\ ledger[e.sequence] = e

\* Mutant: an intent is published whether or not its review was saved.
CommittedAlways(s) == TRUE

Committed(s) ==
  /\ review[s].verdict = "revision"
  /\ applied[s] = None
  /\ review[s].appliedFrom = intent[s].run

\* Mutant: the renumbered event is published but not written down first.
ResequencedInMemory(s, e) == intent

(* Other slices' events may have taken the number the intent reserved.     *)
Resequenced(s, e) == [intent EXCEPT ![s].event = e]

(* publishSliceTestOperatorRevision, once the review is saved or when it   *)
(* is repeated.                                                            *)
StartPublish(s) ==
  /\ held = None /\ policy # None
  /\ intent[s] # None
  /\ intent[s].event.policy = policy
  /\ Committed(s)
  /\ \/ /\ Published(s)
        /\ held' = [slice |-> s, stage |-> "link", event |-> intent[s].event, packet |-> approval[s]]
        /\ UNCHANGED intent
     \/ /\ ~Published(s)
        /\ Room(1)
        /\ Readable(s)
        /\ Last(s) = intent[s].event.prev
        /\ LET e == [intent[s].event EXCEPT !.sequence = Len(ledger) + 1]
           IN  /\ intent' = Resequenced(s, e)
               /\ held' = [slice |-> s, stage |-> "publish", event |-> e, packet |-> approval[s]]
  /\ UNCHANGED <<ledger, records, working, runs, policy, controller>>

PublishEvent ==
  /\ held # None /\ held.stage = "publish"
  /\ held.event.sequence = Len(ledger) + 1
  /\ ledger' = Append(ledger, held.event)
  /\ held' = [held EXCEPT !.stage = "link"]
  /\ UNCHANGED <<records, intent, working, runs, policy, controller>>

LinkRecord ==
  /\ held # None /\ held.stage = "link"
  /\ records' = records \cup {held.event}
  /\ held' = [held EXCEPT !.stage = "clear"]
  /\ UNCHANGED <<ledger, intent, working, runs, policy, controller>>

ClearIntent ==
  /\ held # None /\ held.stage = "clear"
  /\ intent' = [intent EXCEPT ![held.slice] = None]
  /\ held' = None
  /\ UNCHANGED <<ledger, records, working, runs, policy, controller>>

-----------------------------------------------------------------------------
(* The operator's editor                                                   *)

EditProject(s, x) ==
  /\ s \in Edited
  /\ x # project[s]
  /\ x # 0 => runs[x].slice = s
  /\ project' = [project EXCEPT ![s] = x]
  /\ UNCHANGED <<ledger, records, intent, held, working, saving, runs, approval, review, applied, policy>>

EditPolicy(p) ==
  /\ p # policy
  /\ policy' = p
  /\ UNCHANGED <<ledger, records, intent, held, working, runs, controller>>

-----------------------------------------------------------------------------
Init ==
  /\ ledger = <<>> /\ records = {}
  /\ intent = [s \in Slices |-> None]
  /\ held = None
  /\ working = [s \in Slices |-> None]
  /\ saving = None
  /\ runs = <<>>
  /\ approval = [s \in Slices |-> 0]
  /\ review = [s \in Slices |-> [verdict |-> "none", approval |-> 0, appliedFrom |-> None,
                                 proof |-> 0, content |-> 0]]
  /\ applied = [s \in Slices |-> None]
  /\ project = [s \in Slices |-> 0]
  /\ policy \in Policies

Next ==
  \/ AppendEvent \/ Interrupt
  \/ LoseAssessment \/ StaleAssessment
  \/ \E verdict \in {"positive", "negative", "uncertain"} : FinishAssessment(verdict)
  \/ \E passed \in BOOLEAN : FinishChecks(passed)
  \/ SaveRevision \/ AbandonRevision \/ PublishEvent \/ LinkRecord \/ ClearIntent
  \/ \E s \in Slices :
       \/ StartChecks(s) \/ DispatchRevision(s) \/ ReturnUnrecorded(s) \/ LoseWorker(s)
       \/ ApproveTask(s) \/ AcceptTask(s) \/ BlockTask(s)
       \/ PrepareRevision(s) \/ StartPublish(s)
       \/ \E r \in DOMAIN runs : StartAssessment(s, r) \/ ApplyTask(s, r)
       \/ \E verdict \in {"accepted", "rejected"} : StrongReview(s, verdict)
       \/ \E complete \in BOOLEAN : ReturnCandidate(s, complete)
       \/ \E x \in {0} \cup DOMAIN runs : RunWorker(s, x) \/ EditProject(s, x)
  \/ \E p \in Policies : EditPolicy(p)

Spec == Init /\ [][Next]_vars

-----------------------------------------------------------------------------
(* Properties                                                              *)

(* While a worker revises a candidate no operation, retry or late          *)
(* publication adds an event to its slice: the gate never finds the        *)
(* workflow changed under it (TEST_REVIEW_WORKFLOW_CHANGED).               *)
DispatchUndisturbed ==
  \A s \in Slices : working[s] # None => Last(s) = working[s].dispatched

(* The workers sent to revise a slice never outnumber the limit of the     *)
(* policy, whatever is rejected, retried, sent back or lost in between.    *)
BudgetHeld ==
  \A s \in Slices : \A i \in Positions(s) :
    Cardinality({j \in Positions(s) : j <= i /\ ledger[j].type = "revision-dispatched"})
      <= ledger[i].policy.limit

Vetted(s, r) ==
  \E i, j, k \in Positions(s) :
    /\ i < j /\ j < k /\ k = Last(s)
    /\ ledger[i].type \in Completions
    /\ ledger[j].type = "independent-checks" /\ ledger[j].checks = "passed"
    /\ ledger[k].type = "strong-review" /\ ledger[k].verdict = "accepted"
    /\ \A x \in {i, j, k} : /\ ledger[x].envelope = [ledger[i].envelope EXCEPT !.run = r]
                            /\ ledger[x].envelope.approval = approval[s]

(* Under an active policy a candidate is applied only if that very run was *)
(* assessed, passed the slice's checks and was accepted by a strong        *)
(* reviewer, all under the approval that stands.                           *)
AppliedVetted ==
  [][\A s \in Slices : applied'[s] \notin {applied[s], None} /\ policy # None
                         => Vetted(s, applied'[s])]_vars

(* An operator revision reaches the ledger only while its candidate is     *)
(* neither applied nor accepted: quickstart.md, "An uncommitted intent     *)
(* cannot publish a workflow transition".                                  *)
PublishedOnceCommitted ==
  [][\A i \in DOMAIN ledger' \ DOMAIN ledger :
       ledger'[i].type = "operator-revision" =>
         applied[ledger'[i].slice] = None /\ review[ledger'[i].slice].verdict # "accepted"]_vars

(* A pending operator revision can be published: it is in the ledger       *)
(* already, or the slice is where it was when the intent was written.      *)
IntentPublishable ==
  \A s \in Slices : intent[s] # None => Published(s) \/ Last(s) = intent[s].event.prev

(* A published operator revision whose record is still to be linked.       *)
Unlinked(s) == intent[s] # None /\ Published(s) /\ intent[s].event \notin records

(* A candidate was checked or reviewed after its revision had failed.      *)
FailedRevisionReviewed(s) ==
  \E i, j \in Positions(s) :
    /\ i < j
    /\ ledger[i].type = "revision-candidate" /\ ledger[i].route = "escalation"
    /\ ledger[j].type \in {"independent-checks", "strong-review"}

(* Whatever fails, dies or is repeated, the events of a slice can be read  *)
(* back, except between the two writes of an operator revision and after   *)
(* the checks or the review of a failed revision, which unlink it for good *)
(* (slice-test-review.mjs validateHistory).                                *)
HistoryReadable ==
  \A s \in Slices : Readable(s) \/ Unlinked(s) \/ FailedRevisionReviewed(s)

=============================================================================
