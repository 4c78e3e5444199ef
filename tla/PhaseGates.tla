---------------------------- MODULE PhaseGates ----------------------------
(***************************************************************************)
(* The phase ledger (phase-gates.mjs and its callers in controller.mjs):   *)
(* a human approves the research of a feature and advances it to the plan. *)
(* A decision keeps its inputs in an artifact of its own, and the ledger   *)
(* is readable only while every artifact it names is as it was written.    *)
(*                                                                         *)
(* The policy is resolved before the ledger is locked; the proposal, the   *)
(* context and the producer's qualification are read one after the other   *)
(* while other programs may write them.  Qualification models what moves   *)
(* the producer's record; here it is a version, 0 when not qualified.      *)
(***************************************************************************)
EXTENDS Naturals, Sequences, FiniteSets

CONSTANTS
  Features,
  Ids,        \* ids of phase records, given by --id or made up
  Procs,      \* invocations of the command line
  None,
  MaxEdits,   \* bound on edits of inputs, policy, qualification and artifacts
  MaxRecords, \* PHASE_LEDGER_MAX_RECORDS
  MaxStarts,  \* bound on invocations started
  MaxFaults   \* bound on crashes and failing appends

ASSUME BoundsAssumption == {MaxEdits, MaxRecords, MaxStarts, MaxFaults} \subseteq Nat
ASSUME NoneAssumption   == None \notin Procs

VARIABLES
  inputs,    \* proposal, context and the producer's qualification
  policy,    \* config.phaseGates
  ledger,    \* .tinysdd/runs/phases.jsonl
  torn,      \* the ledger ends in a partial line
  lost,      \* decisions on record whose failed append removed the artifact
  artifacts, \* what is at the artifact path of every id
  lock,      \* who made phases.lock
  proc,      \* what every invocation is doing
  spent      \* edits, starts and faults so far

vars == <<inputs, policy, ledger, torn, lost, artifacts, lock, proc, spent>>

Versions  == 0..MaxEdits
Inputs    == [proposal : Versions, context : Versions, producer : Versions]
Policies  == [version : Versions, qualified : BOOLEAN]
Records   == [type : {"decision", "transition"}, id : Ids, feature : Features, policy : Policies,
              inputs : Inputs, predecessor : Ids \cup {None}]
Artifacts == [state : {"none", "written", "edited", "removed"}, feature : Features \cup {None},
              inputs : Inputs]
Steps     == {"idle", "crashed", "lock", "proposal", "context", "producer", "artifact", "append"}
Invocations == [at : Steps, feature : Features \cup {None}, id : Ids \cup {None},
                policy : Policies, selected : Ids \cup {None}, read : Inputs,
                task : {"none", "record", "advance"}]

TypeOK ==
  /\ inputs \in Inputs /\ policy \in Policies
  /\ ledger \in Seq(Records) /\ Len(ledger) <= MaxRecords
  /\ torn \in BOOLEAN /\ lost \subseteq Ids
  /\ artifacts \in [Ids -> Artifacts]
  /\ lock \in Procs \cup {None}
  /\ proc \in [Procs -> Invocations]
  /\ spent \in [edits : 0..MaxEdits, starts : 0..MaxStarts, faults : 0..MaxFaults]

-----------------------------------------------------------------------------
(* Reading the ledger                                                      *)

NoInputs   == [proposal |-> 0, context |-> 0, producer |-> 0]
NoArtifact == [state |-> "none", feature |-> None, inputs |-> NoInputs]

Written(record) == [state |-> "written", feature |-> record.feature, inputs |-> record.inputs]

Entries(type, f) == {i \in 1..Len(ledger) : ledger[i].type = type /\ ledger[i].feature = f}
Last(S)          == IF S = {} THEN 0 ELSE CHOOSE i \in S : \A j \in S : j <= i

(* verifyArtifact; transitions have no artifact.                           *)
Verified(record) == record.type = "transition" \/ artifacts[record.id] = Written(record)

(* readVerifiedRecordsUnlocked: one record in doubt refuses all of them.   *)
Readable ==
  /\ ~torn
  /\ \A i, j \in 1..Len(ledger) : ledger[i].id = ledger[j].id => i = j
  /\ \A i \in 1..Len(ledger) : Verified(ledger[i])

\* Mutant: any research of the feature will do.
AnyResearch(i) == ledger[i].type = "decision"

(* latestPhaseDecision: the record is the latest of its feature.           *)
LatestResearch(i) == i = Last(Entries("decision", ledger[i].feature))

(* researchFreshness, without the reads that an advance makes one by one.  *)
Fresh(i) ==
  /\ ledger[i].policy = policy /\ LatestResearch(i)
  /\ ledger[i].inputs = [inputs EXCEPT !.producer = IF policy.qualified THEN @ ELSE 0]

(* phaseStatus                                                             *)
ResearchStatus(f) ==
  LET at == Last(Entries("decision", f))
  IN  IF at = 0 THEN "pending" ELSE IF Fresh(at) THEN "approved" ELSE "stale"

PlanStatus(f) ==
  LET at == Last(Entries("transition", f))
      research == {j \in Entries("decision", f) : ledger[j].id = ledger[at].predecessor}
  IN  IF at = 0 THEN "pending"
      ELSE IF ledger[at].policy = policy /\ (\E j \in research : Fresh(j)) THEN "entered" ELSE "stale"

-----------------------------------------------------------------------------
Idle == [at |-> "idle", feature |-> None, id |-> None, policy |-> [version |-> 0, qualified |-> FALSE],
         selected |-> None, read |-> NoInputs, task |-> "none"]

At(p, step) == proc[p].at = step
Go(p, step) == proc' = [proc EXCEPT ![p].at = step]
Leave(p)    == proc' = [proc EXCEPT ![p] = Idle] /\ lock' = IF lock = p THEN None ELSE lock
Spend(what) == spent' = [spent EXCEPT ![what] = @ + 1]
Fault       == spent.faults < MaxFaults /\ Spend("faults")
Advances(p) == proc[p].task = "advance"

(* The record that an advance would name.                                  *)
Selected(p) == ledger[CHOOSE i \in 1..Len(ledger) : ledger[i].id = proc[p].selected]

(* resolvedPhasePolicy, before the ledger is locked.                       *)
Start(p, f, id, task) ==
  /\ At(p, "idle")
  /\ spent.starts < MaxStarts /\ Spend("starts")
  /\ proc' = [proc EXCEPT ![p] = [Idle EXCEPT !.at = "lock", !.feature = f, !.id = id,
                                    !.policy = policy, !.task = task]]
  /\ UNCHANGED <<inputs, policy, ledger, torn, lost, artifacts, lock>>

RecordResearch(p, f, id) == Start(p, f, id, "record")
AdvancePhase(p, f, id)   == Start(p, f, id, "advance")

(* A lock that is taken and a ledger in doubt refuse.  An advance selects  *)
(* the latest research or the one the operator names (--record).           *)
LockLedger(p) ==
  /\ At(p, "lock")
  /\ IF lock # None \/ ~Readable THEN Leave(p)
     ELSE \/ /\ ~Advances(p)
             /\ lock' = p /\ Go(p, "proposal")
          \/ /\ Advances(p)
             /\ \E i \in Entries("decision", proc[p].feature) :
                  IF ledger[i].policy = proc[p].policy /\ LatestResearch(i)
                  THEN lock' = p /\ proc' = [proc EXCEPT ![p].at = "proposal", ![p].selected = ledger[i].id]
                  ELSE Leave(p)
          \/ /\ Advances(p) /\ Entries("decision", proc[p].feature) = {}
             /\ Leave(p)
  /\ UNCHANGED <<inputs, policy, ledger, torn, lost, artifacts, spent>>

(* A decision keeps what it reads; an advance compares it.                 *)
ReadInput(p, what, next) ==
  /\ At(p, what)
  /\ IF Advances(p) /\ Selected(p).inputs[what] # inputs[what] THEN Leave(p)
     ELSE proc' = [proc EXCEPT ![p].at = next, ![p].read[what] = inputs[what]] /\ UNCHANGED lock
  /\ UNCHANGED <<inputs, policy, ledger, torn, lost, artifacts, spent>>

ReadProposal(p) == ReadInput(p, "proposal", "context")
ReadContext(p)  == ReadInput(p, "context", "producer")

(* phaseQualification: only a policy that names a producer asks for it.    *)
ReadProducer(p) ==
  /\ At(p, "producer")
  /\ LET next == IF Advances(p) THEN "append" ELSE "artifact"
     IN  IF ~proc[p].policy.qualified THEN Go(p, next) /\ UNCHANGED lock
         ELSE IF inputs.producer = 0 \/ (Advances(p) /\ Selected(p).inputs.producer # inputs.producer)
         THEN Leave(p)
         ELSE proc' = [proc EXCEPT ![p].at = next, ![p].read.producer = inputs.producer] /\ UNCHANGED lock
  /\ UNCHANGED <<inputs, policy, ledger, torn, lost, artifacts, spent>>

NewRecord(p) ==
  [type |-> IF Advances(p) THEN "transition" ELSE "decision", id |-> proc[p].id,
   feature |-> proc[p].feature, policy |-> proc[p].policy,
   inputs |-> IF Advances(p) THEN NoInputs ELSE proc[p].read, predecessor |-> proc[p].selected]

\* Mutant: only decisions are searched for the id.
UnusedDecision(id) == \A i \in 1..Len(ledger) : ledger[i].type = "decision" => ledger[i].id # id

(* checkLedgerCapacityUnlocked                                             *)
Unused(id) == \A i \in 1..Len(ledger) : ledger[i].id # id
Fits(id)   == Unused(id) /\ Len(ledger) < MaxRecords

(* The artifact's path must be free: a retry with the id of a decision     *)
(* that crashed here is refused.                                           *)
WriteArtifact(p) ==
  /\ At(p, "artifact")
  /\ IF Fits(proc[p].id) /\ artifacts[proc[p].id].state \in {"none", "removed"}
     THEN artifacts' = [artifacts EXCEPT ![proc[p].id] = Written(NewRecord(p))] /\ Go(p, "append") /\ UNCHANGED lock
     ELSE Leave(p) /\ UNCHANGED artifacts
  /\ UNCHANGED <<inputs, policy, ledger, torn, lost, spent>>

(* removeOwnedArtifactUnlocked: only the file as it was written.           *)
Withdrawn(p) ==
  IF ~Advances(p) /\ artifacts[proc[p].id] = Written(NewRecord(p))
  THEN [artifacts EXCEPT ![proc[p].id] = NoArtifact] ELSE artifacts

\* What checkLedgerCapacityUnlocked and verifyArtifact ask before the write.
Appendable(p) == Fits(proc[p].id) /\ Verified(NewRecord(p))

AppendRecord(p) ==
  /\ At(p, "append")
  /\ IF Appendable(p)
     THEN ledger' = Append(ledger, NewRecord(p)) /\ UNCHANGED artifacts
     ELSE artifacts' = Withdrawn(p) /\ UNCHANGED ledger
  /\ Leave(p)
  /\ UNCHANGED <<inputs, policy, torn, lost, spent>>

(* A write that fails leaves nothing, part of the line or all of it: the   *)
(* whole line may be there when closing the file fails.                    *)
PartialLine(p) == Appendable(p) /\ torn' = TRUE /\ UNCHANGED ledger
WholeLine(p)   == Appendable(p) /\ ledger' = Append(ledger, NewRecord(p)) /\ UNCHANGED torn

(* The append fails and the decision's artifact is removed, also when the  *)
(* line that names it was written.                                         *)
FailAppend(p) ==
  /\ At(p, "append")
  /\ Fault
  /\ \/ (UNCHANGED <<ledger, torn>> \/ PartialLine(p)) /\ UNCHANGED lost
     \/ WholeLine(p) /\ lost' = IF Advances(p) THEN lost ELSE lost \cup {proc[p].id}
  /\ artifacts' = Withdrawn(p)
  /\ Leave(p)
  /\ UNCHANGED <<inputs, policy>>

-----------------------------------------------------------------------------
(* Other programs, crashes                                                 *)

Edit == spent.edits < MaxEdits /\ Spend("edits")

(* A file may also return to an earlier version; a qualification may go.   *)
ChangeInput(what, version) ==
  /\ Edit
  /\ inputs' = [inputs EXCEPT ![what] = version]
  /\ UNCHANGED <<policy, ledger, torn, lost, artifacts, lock, proc>>

ChangePolicy(version, qualified) ==
  /\ Edit
  /\ policy' = [version |-> version, qualified |-> qualified]
  /\ UNCHANGED <<inputs, ledger, torn, lost, artifacts, lock, proc>>

TamperArtifact(id, state) ==
  /\ Edit
  /\ artifacts[id].state = "written"
  /\ artifacts' = [artifacts EXCEPT ![id].state = state]
  /\ UNCHANGED <<inputs, policy, ledger, torn, lost, lock, proc>>

Crash(p) ==
  /\ proc[p].at \notin {"idle", "crashed"}
  /\ Fault
  /\ \/ UNCHANGED <<ledger, torn>>
     \/ At(p, "append") /\ (PartialLine(p) \/ WholeLine(p))
  /\ proc' = [proc EXCEPT ![p] = [Idle EXCEPT !.at = "crashed"]]
  /\ UNCHANGED <<inputs, policy, lost, artifacts, lock>>

RemoveLock(p) ==
  /\ At(p, "crashed")
  /\ Leave(p)
  /\ UNCHANGED <<inputs, policy, ledger, torn, lost, artifacts, spent>>

-----------------------------------------------------------------------------
Init ==
  /\ inputs = NoInputs
  /\ policy = [version |-> 0, qualified |-> FALSE]
  /\ ledger = <<>> /\ torn = FALSE /\ lost = {}
  /\ artifacts = [id \in Ids |-> NoArtifact]
  /\ lock = None
  /\ proc = [p \in Procs |-> Idle]
  /\ spent = [edits |-> 0, starts |-> 0, faults |-> 0]

Continue(p) == LockLedger(p) \/ ReadProposal(p) \/ ReadContext(p) \/ ReadProducer(p)
               \/ WriteArtifact(p) \/ AppendRecord(p)

Next ==
  \/ \E p \in Procs, f \in Features, id \in Ids : RecordResearch(p, f, id) \/ AdvancePhase(p, f, id)
  \/ \E p \in Procs : Continue(p) \/ FailAppend(p) \/ Crash(p) \/ RemoveLock(p)
  \/ \E what \in {"proposal", "context", "producer"}, v \in Versions : ChangeInput(what, v)
  \/ \E v \in Versions, qualified \in BOOLEAN : ChangePolicy(v, qualified)
  \/ \E id \in Ids, state \in {"edited", "removed"} : TamperArtifact(id, state)

Spec == Init /\ [][Next]_vars

-----------------------------------------------------------------------------
(* A record is in doubt only when its artifact was touched by hand or when *)
(* its own append failed after the whole line was written; no crash, no    *)
(* retry and no rollback of another decision costs a record its artifact,  *)
(* and without a partial line and a record in doubt the ledger is readable *)
(* (phase-gates.mjs 587-685).                                              *)
LedgerReadable ==
  LET doubted == {ledger[i].id : i \in {n \in 1..Len(ledger) : ~Verified(ledger[n])}}
  IN  /\ \A id \in doubted : artifacts[id].state \in {"edited", "removed"} \/ id \in lost
      /\ ~torn /\ doubted = {} => Readable

(* A transition names the research that was the latest of its feature when *)
(* it was appended, approved under the same policy, whatever was recorded, *)
(* edited or crashed between the selection and the append; and the plan is *)
(* shown as entered only while that research is shown as approved          *)
(* (phase-gates.mjs 1036-1135).                                            *)
PlanNeedsResearch ==
  /\ \A t \in 1..Len(ledger) : ledger[t].type = "transition" =>
       \E d \in 1..(t - 1) :
         /\ ledger[d].type = "decision" /\ ledger[d].id = ledger[t].predecessor
         /\ ledger[d].feature = ledger[t].feature /\ ledger[d].policy = ledger[t].policy
         /\ \A j \in (d + 1)..(t - 1) :
              ledger[j].type = "decision" => ledger[j].feature # ledger[t].feature
  /\ \A f \in Features : PlanStatus(f) = "entered" => ResearchStatus(f) = "approved"
=============================================================================
