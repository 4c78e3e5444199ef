-------------------------- MODULE PhaseGatesProofs --------------------------
(* What holds of the phase ledger for every set of features, ids and       *)
(* invocations and every bound: one invocation works on it at a time, it   *)
(* stays readable, and a plan follows the research it names.               *)
EXTENDS PhaseGates, SequenceTheorems, FiniteSetTheorems, WellFoundedInduction, TLAPS

-----------------------------------------------------------------------------
(* The inductive invariant                                                 *)

Working == {"proposal", "context", "producer", "artifact", "append"}

(* An invocation works on the ledger under the lock it made, and leaves it *)
(* behind only when it dies.                                               *)
HolderInvariant ==
  \A p \in Procs : /\ proc[p].at \in Working => lock = p
                   /\ lock = p => proc[p].at \in Working \cup {"crashed"}

(* What an invocation at work was asked; only a decision has an artifact.  *)
RequestInvariant ==
  \A p \in Procs :
    /\ proc[p].at \in Working \cup {"lock"} =>
         proc[p].feature \in Features /\ proc[p].id \in Ids /\ proc[p].task \in {"record", "advance"}
    /\ proc[p].at = "artifact" => proc[p].task = "record"

(* Records have ids of their own; a decision's artifact is as it was       *)
(* written, was touched by hand or was lost with its append; and the       *)
(* artifact that an append may still withdraw belongs to no record.        *)
ArtifactInvariant ==
  /\ \A i, j \in 1..Len(ledger) : ledger[i].id = ledger[j].id => i = j
  /\ \A i \in 1..Len(ledger) :
       \/ Verified(ledger[i])
       \/ artifacts[ledger[i].id].state \in {"edited", "removed"}
       \/ ledger[i].id \in lost
  /\ \A p \in Procs : proc[p].at = "append" /\ ~Advances(p) => Unused(proc[p].id)

(* Record d is the research of feature f, approved under that policy, and  *)
(* no later record before t decides the feature's research.                *)
Follows(d, t, f, id, pol) ==
  /\ ledger[d].type = "decision" /\ ledger[d].id = id
  /\ ledger[d].feature = f /\ ledger[d].policy = pol
  /\ \A j \in (d + 1)..(t - 1) : ledger[j].type = "decision" => ledger[j].feature # f

(* The research an advance selected is still the latest of its feature.    *)
SelectionInvariant ==
  \A p \in Procs : proc[p].at \in Working /\ Advances(p) =>
    \E d \in 1..Len(ledger) :
      Follows(d, Len(ledger) + 1, proc[p].feature, proc[p].selected, proc[p].policy)

TransitionInvariant ==
  \A t \in 1..Len(ledger) : ledger[t].type = "transition" =>
    \E d \in 1..(t - 1) :
      Follows(d, t, ledger[t].feature, ledger[t].predecessor, ledger[t].policy)

-----------------------------------------------------------------------------
(* Facts about the operators                                               *)

(* Every set of places in a ledger that is not empty has a last one.       *)
LEMMA LastExists ==
  ASSUME NEW n \in Nat, NEW S, S \subseteq 1..n, S # {}
  PROVE  \E m \in S : \A k \in S : k <= m
<1> DEFINE Above(x) == {k \in 1..n : k > x}
           T == {Above(x) : x \in S}
           R == StrictSubsetOrdering(1..n)
<1>1. IsWellFoundedOn(R, FiniteSubsetsOf(1..n))
  BY FS_StrictSubsetOrderingWellFounded
<1>2. T \subseteq FiniteSubsetsOf(1..n)
  <2>1. IsFiniteSet(1..n)
    BY FS_Interval
  <2>2. FiniteSubsetsOf(1..n) = SUBSET (1..n)
    BY <2>1, FS_FiniteSubsetsOfFinite
  <2>3. QED
    BY <2>2
<1>3. T # {}
  OBVIOUS
<1>4. PICK U \in T : \A V \in T : ~(<<V, U>> \in R)
  BY <1>1, <1>2, <1>3, WFMin
<1>5. PICK m \in S : U = Above(m)
  BY <1>4
<1>6. ASSUME NEW k \in S PROVE k <= m
  <2>1. SUFFICES ASSUME k > m PROVE FALSE
    OBVIOUS
  <2>2. Above(k) \subseteq Above(m) /\ m \notin Above(m) /\ k \in Above(m) /\ k \notin Above(k)
    BY <2>1
  <2>3. <<Above(k), Above(m)>> \in R
    BY <2>2 DEF StrictSubsetOrdering
  <2>4. QED
    BY <1>4, <1>5, <2>3
<1>7. QED
  BY <1>6

(* Last is the last place, or 0.                                           *)
LEMMA LastFacts ==
  ASSUME NEW n \in Nat, NEW S, S \subseteq 1..n
  PROVE  S # {} => Last(S) \in S /\ \A k \in S : k <= Last(S)
  BY LastExists DEF Last

-----------------------------------------------------------------------------
(* Each part is kept by every step                                         *)

(* A step of the specification is one of these.                            *)
Moves ==
  \/ \E p \in Procs, f \in Features, id \in Ids, task \in {"record", "advance"} : Start(p, f, id, task)
  \/ \E p \in Procs : \/ LockLedger(p) \/ ReadProposal(p) \/ ReadContext(p) \/ ReadProducer(p)
                      \/ WriteArtifact(p) \/ AppendRecord(p) \/ FailAppend(p) \/ Crash(p) \/ RemoveLock(p)
  \/ \E what \in {"proposal", "context", "producer"}, v \in Versions : ChangeInput(what, v)
  \/ \E v \in Versions, qualified \in BOOLEAN : ChangePolicy(v, qualified)
  \/ \E id \in Ids, state \in {"edited", "removed"} : TamperArtifact(id, state)
  \/ UNCHANGED vars

LEMMA StepMoves == [Next]_vars => Moves
  BY DEF Next, Moves, Continue, RecordResearch, AdvancePhase

LEMMA IdleType == Idle \in Invocations /\ NoInputs \in Inputs /\ NoArtifact \in Artifacts
  BY BoundsAssumption DEF Idle, Invocations, Steps, Policies, Versions, Inputs, NoInputs, NoArtifact, Artifacts

LEMMA SpendType ==
  ASSUME TypeOK, NEW what \in {"edits", "starts", "faults"}, Spend(what),
         what = "edits" => spent.edits < MaxEdits,
         what = "starts" => spent.starts < MaxStarts,
         what = "faults" => spent.faults < MaxFaults
  PROVE  spent' \in [edits : 0..MaxEdits, starts : 0..MaxStarts, faults : 0..MaxFaults]
  BY BoundsAssumption DEF TypeOK, Spend

(* A record that an invocation at work appends.                            *)
LEMMA NewRecordType ==
  ASSUME TypeOK, NEW p \in Procs, proc[p].feature \in Features, proc[p].id \in Ids
  PROVE  NewRecord(p) \in Records
  BY IdleType DEF NewRecord, Records, TypeOK, Invocations

LEMMA WrittenType ==
  ASSUME NEW r \in Records
  PROVE  Written(r) \in Artifacts /\ Written(r).state = "written"
  BY DEF Written, Records, Artifacts

LEMMA LeaveType ==
  ASSUME TypeOK, NEW p \in Procs, Leave(p)
  PROVE  proc' \in [Procs -> Invocations] /\ lock' \in Procs \cup {None}
  BY IdleType DEF TypeOK, Leave

LEMMA GoType ==
  ASSUME TypeOK, NEW p \in Procs, NEW step \in Steps, Go(p, step)
  PROVE  proc' \in [Procs -> Invocations]
<1>1. [proc[p] EXCEPT !.at = step] \in Invocations
  BY DEF TypeOK, Invocations
<1>2. QED
  BY <1>1 DEF TypeOK, Go

LEMMA UpdateType ==
  ASSUME TypeOK, NEW p \in Procs, NEW step \in Steps, NEW id \in Ids
  PROVE  [proc EXCEPT ![p].at = step, ![p].selected = id] \in [Procs -> Invocations]
<1>1. [proc[p] EXCEPT !.at = step, !.selected = id] \in Invocations
  BY DEF TypeOK, Invocations
<1>2. QED
  BY <1>1 DEF TypeOK

LEMMA ReadType ==
  ASSUME TypeOK, NEW p \in Procs, NEW step \in Steps, NEW what \in {"proposal", "context"}
  PROVE  [proc EXCEPT ![p].at = step, ![p].read[what] = inputs[what]] \in [Procs -> Invocations]
<1>1. [proc[p].read EXCEPT ![what] = inputs[what]] \in Inputs
  BY DEF TypeOK, Invocations, Inputs
<1>2. [proc[p] EXCEPT !.at = step, !.read = [proc[p].read EXCEPT ![what] = inputs[what]]] \in Invocations
  BY <1>1 DEF TypeOK, Invocations
<1>3. QED
  BY <1>2 DEF TypeOK

LEMMA ReadProducerType ==
  ASSUME TypeOK, NEW p \in Procs, NEW step \in Steps
  PROVE  [proc EXCEPT ![p].at = step, ![p].read.producer = inputs.producer] \in [Procs -> Invocations]
<1>1. [proc[p].read EXCEPT !.producer = inputs.producer] \in Inputs
  BY DEF TypeOK, Invocations, Inputs
<1>2. [proc[p] EXCEPT !.at = step, !.read = [proc[p].read EXCEPT !.producer = inputs.producer]] \in Invocations
  BY <1>1 DEF TypeOK, Invocations
<1>3. QED
  BY <1>2 DEF TypeOK

LEMMA WithdrawnType ==
  ASSUME TypeOK, NEW p \in Procs
  PROVE  Withdrawn(p) \in [Ids -> Artifacts]
  BY IdleType DEF TypeOK, Withdrawn

(* What a write that fails leaves of the ledger.                           *)
LEMMA LineType ==
  ASSUME TypeOK, NEW p \in Procs, NewRecord(p) \in Records, PartialLine(p) \/ WholeLine(p)
  PROVE  ledger' \in Seq(Records) /\ Len(ledger') <= MaxRecords /\ torn' \in BOOLEAN
<1>1. CASE PartialLine(p)
  BY <1>1 DEF TypeOK, PartialLine
<1>2. CASE WholeLine(p)
  BY <1>2, AppendProperties, BoundsAssumption DEF TypeOK, WholeLine, Appendable, Fits
<1>3. QED
  BY <1>1, <1>2

(* The types.                                                              *)
LEMMA TypeStep ==
  ASSUME TypeOK, RequestInvariant, [Next]_vars
  PROVE  TypeOK'
<1>1. ASSUME NEW p \in Procs, NEW f \in Features, NEW id \in Ids,
             NEW task \in {"record", "advance"}, Start(p, f, id, task)
      PROVE  TypeOK'
  <2> DEFINE new == [Idle EXCEPT !.at = "lock", !.feature = f, !.id = id, !.policy = policy, !.task = task]
  <2>1. new \in Invocations
    BY IdleType DEF TypeOK, Idle, Invocations, Steps
  <2>2. proc' = [proc EXCEPT ![p] = new]
    BY <1>1 DEF Start
  <2>3. proc' \in [Procs -> Invocations]
    BY <2>1, <2>2 DEF TypeOK
  <2>4. QED
    BY <1>1, <2>3, SpendType DEF TypeOK, Start
<1>2. ASSUME NEW p \in Procs, LockLedger(p) PROVE TypeOK'
  <2>1. CASE Leave(p)
    BY <1>2, <2>1, LeaveType DEF TypeOK, LockLedger
  <2>2. CASE lock' = p /\ Go(p, "proposal")
    BY <1>2, <2>2, GoType DEF TypeOK, LockLedger, Steps
  <2>3. CASE lock' = p /\ \E i \in 1..Len(ledger) :
               proc' = [proc EXCEPT ![p].at = "proposal", ![p].selected = ledger[i].id]
    <3>1. PICK i \in 1..Len(ledger) :
            proc' = [proc EXCEPT ![p].at = "proposal", ![p].selected = ledger[i].id]
      BY <2>3
    <3>2. ledger[i].id \in Ids
      <4>1. ledger[i] \in Records
        BY ElementOfSeq DEF TypeOK
      <4>2. QED
        BY <4>1 DEF Records
    <3>3. proc' \in [Procs -> Invocations]
      BY <3>1, <3>2, UpdateType DEF Steps
    <3>4. QED
      BY <1>2, <2>3, <3>3 DEF TypeOK, LockLedger
  <2>4. QED
    BY <1>2, <2>1, <2>2, <2>3 DEF LockLedger, Entries
<1>3. ASSUME NEW p \in Procs, NEW what \in {"proposal", "context"}, NEW next \in Steps,
             ReadInput(p, what, next)
      PROVE  TypeOK'
  <2>1. CASE Leave(p)
    BY <1>3, <2>1, LeaveType DEF TypeOK, ReadInput
  <2>2. CASE proc' = [proc EXCEPT ![p].at = next, ![p].read[what] = inputs[what]] /\ UNCHANGED lock
    <3>1. proc' \in [Procs -> Invocations]
      BY <2>2, ReadType
    <3>2. QED
      BY <1>3, <2>2, <3>1 DEF TypeOK, ReadInput
  <2>3. QED
    BY <1>3, <2>1, <2>2 DEF ReadInput
<1>4. ASSUME NEW p \in Procs, ReadProducer(p) PROVE TypeOK'
  <2>1. CASE Leave(p)
    BY <1>4, <2>1, LeaveType DEF TypeOK, ReadProducer
  <2>2. CASE UNCHANGED lock /\ \E next \in {"append", "artifact"} : Go(p, next)
    BY <1>4, <2>2, GoType DEF TypeOK, ReadProducer, Steps
  <2>3. CASE UNCHANGED lock /\ \E next \in {"append", "artifact"} :
               proc' = [proc EXCEPT ![p].at = next, ![p].read.producer = inputs.producer]
    <3>1. PICK next \in {"append", "artifact"} :
            proc' = [proc EXCEPT ![p].at = next, ![p].read.producer = inputs.producer]
      BY <2>3
    <3>2. next \in Steps
      BY DEF Steps
    <3>3. proc' \in [Procs -> Invocations]
      BY <3>1, <3>2, ReadProducerType
    <3>4. QED
      BY <1>4, <2>3, <3>3 DEF TypeOK, ReadProducer
  <2>4. QED
    BY <1>4, <2>1, <2>2, <2>3 DEF ReadProducer
<1>5. ASSUME NEW p \in Procs, WriteArtifact(p) PROVE TypeOK'
  <2>1. NewRecord(p) \in Records
    BY <1>5, NewRecordType DEF WriteArtifact, At, RequestInvariant, Working
  <2>2. Written(NewRecord(p)) \in Artifacts
    BY <2>1, WrittenType
  <2>3. CASE Leave(p) /\ UNCHANGED artifacts
    BY <1>5, <2>3, LeaveType DEF TypeOK, WriteArtifact
  <2>4. CASE Go(p, "append") /\ UNCHANGED lock
             /\ artifacts' = [artifacts EXCEPT ![proc[p].id] = Written(NewRecord(p))]
    BY <1>5, <2>2, <2>4, GoType DEF TypeOK, WriteArtifact, Steps
  <2>5. QED
    BY <1>5, <2>3, <2>4 DEF WriteArtifact
<1>6. ASSUME NEW p \in Procs, AppendRecord(p) PROVE TypeOK'
  <2>1. NewRecord(p) \in Records
    BY <1>6, NewRecordType DEF AppendRecord, At, RequestInvariant, Working
  <2>2. CASE ledger' = Append(ledger, NewRecord(p)) /\ UNCHANGED artifacts /\ Appendable(p)
    <3>1. ledger' \in Seq(Records) /\ Len(ledger') <= MaxRecords
      BY <2>1, <2>2, AppendProperties, BoundsAssumption DEF TypeOK, Fits, Appendable
    <3>2. QED
      BY <1>6, <2>2, <3>1, LeaveType DEF TypeOK, AppendRecord
  <2>3. CASE artifacts' = Withdrawn(p) /\ UNCHANGED ledger
    BY <1>6, <2>3, LeaveType, WithdrawnType DEF TypeOK, AppendRecord
  <2>4. QED
    BY <1>6, <2>2, <2>3 DEF AppendRecord
<1>7. ASSUME NEW p \in Procs, FailAppend(p) PROVE TypeOK'
  <2>1. NewRecord(p) \in Records /\ proc[p].id \in Ids
    BY <1>7, NewRecordType DEF FailAppend, At, RequestInvariant, Working
  <2>2. ledger' \in Seq(Records) /\ Len(ledger') <= MaxRecords /\ torn' \in BOOLEAN /\ lost' \subseteq Ids
    BY <1>7, <2>1, LineType DEF FailAppend, TypeOK
  <2>3. QED
    BY <1>7, <2>2, LeaveType, WithdrawnType, SpendType DEF TypeOK, FailAppend, Fault
<1>8. ASSUME NEW p \in Procs, Crash(p) PROVE TypeOK'
  <2>1. proc' \in [Procs -> Invocations]
    BY <1>8, IdleType DEF TypeOK, Crash, Invocations, Steps
  <2>2. ledger' \in Seq(Records) /\ Len(ledger') <= MaxRecords /\ torn' \in BOOLEAN
    <3>1. At(p, "append") => NewRecord(p) \in Records
      BY NewRecordType DEF At, RequestInvariant, Working
    <3>2. QED
      BY <1>8, <3>1, LineType DEF TypeOK, Crash
  <2>3. QED
    BY <1>8, <2>1, <2>2, SpendType DEF TypeOK, Crash, Fault
<1>9. ASSUME NEW p \in Procs, RemoveLock(p) PROVE TypeOK'
  BY <1>9, LeaveType DEF TypeOK, RemoveLock
<1>10. ASSUME NEW what \in {"proposal", "context", "producer"}, NEW v \in Versions, ChangeInput(what, v)
       PROVE  TypeOK'
  BY <1>10, SpendType DEF TypeOK, ChangeInput, Edit, Inputs
<1>11. ASSUME NEW v \in Versions, NEW qualified \in BOOLEAN, ChangePolicy(v, qualified)
       PROVE  TypeOK'
  BY <1>11, SpendType DEF TypeOK, ChangePolicy, Edit, Policies
<1>12. ASSUME NEW id \in Ids, NEW state \in {"edited", "removed"}, TamperArtifact(id, state)
       PROVE  TypeOK'
  BY <1>12, SpendType DEF TypeOK, TamperArtifact, Edit, Artifacts
<1>13. ASSUME UNCHANGED vars PROVE TypeOK'
  BY <1>13 DEF TypeOK, vars
<1>14. QED
  <2>1. ASSUME NEW p \in Procs, ReadProposal(p) \/ ReadContext(p) PROVE TypeOK'
    BY <1>3, <2>1 DEF ReadProposal, ReadContext, Steps
  <2>2. QED
    BY StepMoves, <1>1, <1>2, <2>1, <1>4, <1>5, <1>6, <1>7, <1>8, <1>9, <1>10, <1>11, <1>12, <1>13
    DEF Moves

(* A step changes one invocation at most: it goes on under the lock it     *)
(* holds or just took, keeping its request, or leaves and gives it up.     *)
Held(p)  == proc[p].at \in Working \cup {"lock"}
Kept(p)  == /\ proc'[p].feature = proc[p].feature /\ proc'[p].id = proc[p].id
            /\ proc'[p].policy = proc[p].policy /\ proc'[p].task = proc[p].task
Takes(p) == LockLedger(p) /\ proc[p].at = "lock" /\ lock = None /\ lock' = p /\ proc'[p].at = "proposal"
Goes(p)  == /\ proc[p].at \in Working /\ proc'[p].at \in Working /\ lock' = lock
            /\ proc'[p].selected = proc[p].selected
            /\ proc'[p].at = "artifact" => ~Advances(p)
            /\ proc'[p].at = "append" => Advances(p) \/ Unused(proc[p].id)
Leaves(p) == proc'[p] = Idle /\ lock' = (IF lock = p THEN None ELSE lock)
Dies(p)   == proc'[p].at = "crashed" /\ lock' = lock
Begins(p) == /\ proc'[p].at = "lock" /\ proc[p].at = "idle" /\ lock' = lock
             /\ proc'[p].feature \in Features /\ proc'[p].id \in Ids /\ proc'[p].task \in {"record", "advance"}

Others(p) == \A q \in Procs \ {p} : proc'[q] = proc[q]

Moved(p) == \/ Kept(p) /\ (Takes(p) \/ Goes(p))
            \/ Leaves(p) \/ Dies(p) \/ Begins(p)

LEMMA LeaveFacts ==
  ASSUME TypeOK, NEW p \in Procs, Leave(p)
  PROVE  Others(p) /\ Leaves(p)
  BY DEF TypeOK, Leave, Others, Leaves

LEMMA GoFacts ==
  ASSUME TypeOK, NEW p \in Procs, NEW step, Go(p, step)
  PROVE  Others(p) /\ Kept(p) /\ proc'[p].at = step /\ proc'[p].selected = proc[p].selected
  BY DEF TypeOK, Go, Others, Kept, Invocations

LEMMA StepMoved ==
  ASSUME TypeOK, [Next]_vars
  PROVE  (\E p \in Procs : Moved(p) /\ Others(p)) \/ UNCHANGED <<proc, lock>>
<1>1. ASSUME NEW p \in Procs, NEW f \in Features, NEW id \in Ids,
             NEW task \in {"record", "advance"}, Start(p, f, id, task)
      PROVE  Begins(p) /\ Others(p)
  BY <1>1 DEF TypeOK, Start, At, Begins, Others, Idle
<1>2. ASSUME NEW p \in Procs, LockLedger(p) PROVE Moved(p) /\ Others(p)
  <2>1. CASE Leave(p)
    BY <2>1, LeaveFacts DEF Moved
  <2>2. CASE lock = None /\ lock' = p /\ Go(p, "proposal")
    BY <1>2, <2>2, GoFacts DEF LockLedger, At, Moved, Takes
  <2>3. CASE lock = None /\ lock' = p /\ \E i \in 1..Len(ledger) :
               proc' = [proc EXCEPT ![p].at = "proposal", ![p].selected = ledger[i].id]
    <3>1. PICK id : proc' = [proc EXCEPT ![p].at = "proposal", ![p].selected = id]
      BY <2>3
    <3>2. proc'[p] = [proc[p] EXCEPT !.at = "proposal", !.selected = id] /\ Others(p)
      BY <3>1 DEF TypeOK, Others
    <3>3. Kept(p) /\ proc'[p].at = "proposal"
      BY <3>2 DEF TypeOK, Invocations, Kept
    <3>4. QED
      BY <1>2, <2>3, <3>2, <3>3 DEF LockLedger, At, Moved, Takes
  <2>4. QED
    BY <1>2, <2>1, <2>2, <2>3 DEF LockLedger, Entries
<1>3. ASSUME NEW p \in Procs, ReadProposal(p) \/ ReadContext(p) PROVE Moved(p) /\ Others(p)
  <2>1. CASE Leave(p)
    BY <2>1, LeaveFacts DEF Moved
  <2>2. CASE lock' = lock /\ \E what \in {"proposal", "context"}, next \in {"context", "producer"} :
                                proc' = [proc EXCEPT ![p].at = next, ![p].read[what] = inputs[what]]
    BY <1>3, <2>2 DEF ReadProposal, ReadContext, ReadInput, At, Moved, Goes, Kept, Others, Working,
                      TypeOK, Invocations
  <2>3. QED
    BY <1>3, <2>1, <2>2 DEF ReadProposal, ReadContext, ReadInput
<1>4. ASSUME NEW p \in Procs, ReadProducer(p) PROVE Moved(p) /\ Others(p)
  <2>1. CASE Leave(p)
    BY <2>1, LeaveFacts DEF Moved
  <2> DEFINE next == IF Advances(p) THEN "append" ELSE "artifact"
  <2>2. CASE lock' = lock /\ Go(p, next)
    BY <1>4, <2>2, GoFacts DEF ReadProducer, At, Moved, Goes, Working
  <2>3. CASE lock' = lock /\ proc' = [proc EXCEPT ![p].at = next, ![p].read.producer = inputs.producer]
    BY <1>4, <2>3 DEF ReadProducer, At, Moved, Goes, Kept, Others, Working, TypeOK, Invocations
  <2>4. QED
    BY <1>4, <2>1, <2>2, <2>3 DEF ReadProducer
<1>5. ASSUME NEW p \in Procs, WriteArtifact(p) PROVE Moved(p) /\ Others(p)
  BY <1>5, LeaveFacts, GoFacts DEF WriteArtifact, At, Moved, Goes, Fits, Working
<1>6. ASSUME NEW p \in Procs, AppendRecord(p) \/ FailAppend(p) \/ RemoveLock(p)
      PROVE  Moved(p) /\ Others(p)
  BY <1>6, LeaveFacts DEF AppendRecord, FailAppend, RemoveLock, Moved
<1>7. ASSUME NEW p \in Procs, Crash(p) PROVE Moved(p) /\ Others(p)
  BY <1>7 DEF Crash, Moved, Dies, Others, TypeOK, Idle
<1>8. QED
  <2>1. ASSUME \/ \E what \in {"proposal", "context", "producer"}, v \in Versions : ChangeInput(what, v)
               \/ \E v \in Versions, qualified \in BOOLEAN : ChangePolicy(v, qualified)
               \/ \E id \in Ids, state \in {"edited", "removed"} : TamperArtifact(id, state)
               \/ UNCHANGED vars
        PROVE  UNCHANGED <<proc, lock>>
    BY <2>1 DEF ChangeInput, ChangePolicy, TamperArtifact, vars
  <2>2. QED
    BY StepMoves, <1>1, <1>2, <1>3, <1>4, <1>5, <1>6, <1>7, <2>1 DEF Moves, Moved

LEMMA HolderStep ==
  ASSUME TypeOK, HolderInvariant, [Next]_vars
  PROVE  HolderInvariant'
<1>1. ASSUME NEW p \in Procs, Moved(p), Others(p) PROVE HolderInvariant'
  BY <1>1, NoneAssumption
  DEF HolderInvariant, Moved, Others, Takes, Goes, Leaves, Dies, Begins, Idle, Working
<1>2. QED
  BY <1>1, StepMoved DEF HolderInvariant

LEMMA RequestStep ==
  ASSUME TypeOK, RequestInvariant, [Next]_vars
  PROVE  RequestInvariant'
<1>1. ASSUME NEW p \in Procs, Moved(p), Others(p) PROVE RequestInvariant'
  BY <1>1 DEF RequestInvariant, Moved, Others, Kept, Takes, Goes, Leaves, Dies, Begins, Idle, Working,
              Advances
<1>2. QED
  BY <1>1, StepMoved DEF RequestInvariant

(* The ledger grows by one record at a time, which the holder appends.     *)
Grown(r) == /\ Len(ledger') = Len(ledger) + 1
            /\ \A i \in 1..Len(ledger) : ledger'[i] = ledger[i]
            /\ ledger'[Len(ledger) + 1] = r

Appends(p) == /\ proc[p].at = "append" /\ proc'[p].at \in {"idle", "crashed"} /\ Grown(NewRecord(p))
              /\ Unused(proc[p].id) /\ Verified(NewRecord(p))
              /\ \/ UNCHANGED artifacts
                 \/ artifacts' = Withdrawn(p) /\ proc[p].id \in lost'

LEMMA StepAppends ==
  ASSUME TypeOK, RequestInvariant, [Next]_vars
  PROVE  \/ UNCHANGED ledger
         \/ \E p \in Procs : Appends(p) /\ Moved(p) /\ Others(p)
<1>1. ASSUME NEW p \in Procs, At(p, "append"), Appendable(p), ledger' = Append(ledger, NewRecord(p))
      PROVE  Grown(NewRecord(p)) /\ Unused(proc[p].id) /\ Verified(NewRecord(p))
  <2>1. NewRecord(p) \in Records
    BY <1>1, NewRecordType DEF At, RequestInvariant, Working
  <2>2. QED
    BY <1>1, <2>1, AppendProperties DEF TypeOK, Grown, Appendable, Fits
<1>2. ASSUME NEW p \in Procs, AppendRecord(p), ledger' # ledger
      PROVE  Appends(p) /\ Moved(p) /\ Others(p)
  <2>1. /\ At(p, "append") /\ Appendable(p) /\ ledger' = Append(ledger, NewRecord(p))
        /\ UNCHANGED artifacts /\ Leave(p)
    BY <1>2 DEF AppendRecord
  <2>2. Grown(NewRecord(p)) /\ Unused(proc[p].id) /\ Verified(NewRecord(p))
    BY <1>1, <2>1
  <2>3. Leaves(p) /\ Others(p)
    BY <2>1, LeaveFacts
  <2>4. QED
    BY <2>1, <2>2, <2>3 DEF At, Appends, Moved, Leaves, Idle
<1>3. ASSUME NEW p \in Procs, FailAppend(p), ledger' # ledger
      PROVE  Appends(p) /\ Moved(p) /\ Others(p)
  <2>1. WholeLine(p) /\ (UNCHANGED artifacts \/ (artifacts' = Withdrawn(p) /\ proc[p].id \in lost'))
    BY <1>3 DEF FailAppend, PartialLine, Withdrawn
  <2>2. At(p, "append") /\ Leave(p)
    BY <1>3 DEF FailAppend
  <2>3. Grown(NewRecord(p)) /\ Unused(proc[p].id) /\ Verified(NewRecord(p))
    BY <1>1, <2>1, <2>2 DEF WholeLine
  <2>4. Leaves(p) /\ Others(p)
    BY <2>2, LeaveFacts
  <2>5. QED
    BY <2>1, <2>2, <2>3, <2>4 DEF At, Appends, Moved, Leaves, Idle
<1>4. ASSUME NEW p \in Procs, Crash(p), ledger' # ledger
      PROVE  Appends(p) /\ Moved(p) /\ Others(p)
  <2>1. WholeLine(p) /\ At(p, "append") /\ UNCHANGED artifacts
    BY <1>4 DEF Crash, PartialLine
  <2>2. Dies(p) /\ Others(p)
    BY <1>4 DEF Crash, Dies, Others, TypeOK, Idle
  <2>3. QED
    BY <1>1, <2>1, <2>2 DEF WholeLine, At, Appends, Moved, Dies
<1>5. QED
  BY StepMoves, <1>2, <1>3, <1>4
  DEF Moves, Start, LockLedger, ReadProposal, ReadContext, ReadInput, ReadProducer, WriteArtifact,
      RemoveLock, ChangeInput, ChangePolicy, TamperArtifact, vars

(* A decision that lost its artifact stays known.                          *)
LEMMA LostStays ==
  ASSUME [Next]_vars
  PROVE  lost \subseteq lost'
  BY StepMoves
  DEF Moves, Start, LockLedger, ReadProposal, ReadContext, ReadInput, ReadProducer, WriteArtifact,
      AppendRecord, FailAppend, Crash, RemoveLock, ChangeInput, ChangePolicy, TamperArtifact, vars

LEMMA ArtifactStep ==
  ASSUME TypeOK, HolderInvariant, RequestInvariant, ArtifactInvariant, [Next]_vars
  PROVE  ArtifactInvariant'
<1> USE DEF Verified, Advances, Unused
<1>1. \A i \in 1..Len(ledger) : ledger[i] \in Records
  BY ElementOfSeq DEF TypeOK
<1>2. \A p \in Procs : UNCHANGED ledger /\ proc'[p].at = "append" /\ ~Advances(p)' => Unused(proc'[p].id)
  <2>1. ASSUME NEW p \in Procs, Moved(p), Others(p), UNCHANGED ledger,
               NEW q \in Procs, proc'[q].at = "append", ~Advances(q)'
        PROVE  Unused(proc'[q].id)
    BY <2>1 DEF ArtifactInvariant, Moved, Others, Kept, Takes, Goes, Leaves, Dies, Begins, Idle
  <2>2. QED
    BY <2>1, StepMoved DEF ArtifactInvariant
<1>3. CASE UNCHANGED <<ledger, artifacts>>
  BY <1>2, <1>3, LostStays DEF ArtifactInvariant
<1>4. ASSUME NEW p \in Procs, Appends(p), Moved(p), Others(p) PROVE ArtifactInvariant'
  <2> DEFINE n == Len(ledger) + 1
             SoundAfter(r) == \/ r.type = "transition" \/ artifacts'[r.id] = Written(r)
                              \/ artifacts'[r.id].state \in {"edited", "removed"}
                              \/ r.id \in lost'
  <2>1. Len(ledger) \in Nat /\ Len(ledger') = n /\ ledger'[n] = NewRecord(p)
    BY <1>4, LenProperties DEF TypeOK, Appends, Grown
  <2>2. \A i \in 1..n : (i \in 1..Len(ledger) /\ ledger'[i] = ledger[i]) \/ i = n
    BY <1>4, <2>1 DEF Appends, Grown
  <2>3. ledger'[n].id = proc[p].id /\ \A i \in 1..Len(ledger) : ledger[i].id # proc[p].id
    BY <1>4, <2>1 DEF Appends, NewRecord
  <2>4. \A i, j \in 1..n : ledger'[i].id = ledger'[j].id => i = j
    BY <2>2, <2>3 DEF ArtifactInvariant
  <2>5. \A i \in 1..n : SoundAfter(ledger'[i])
    <3>1. \A i \in 1..Len(ledger) : ledger[i].id \in Ids /\ artifacts'[ledger[i].id] = artifacts[ledger[i].id]
      BY <1>1, <1>4, <2>3 DEF Appends, Withdrawn, TypeOK, Records
    <3>2. \A i \in 1..Len(ledger) : SoundAfter(ledger[i])
      BY <3>1, LostStays DEF ArtifactInvariant
    <3>3. SoundAfter(NewRecord(p))
      BY <1>4 DEF Appends, NewRecord
    <3>4. QED
      BY <2>1, <2>2, <3>2, <3>3
  <2>6. \A q \in Procs : proc'[q].at # "append"
    BY <1>4, NoneAssumption DEF HolderInvariant, Appends, Others, Idle, Working
  <2>7. QED
    BY <1>4, <2>1, <2>4, <2>5, <2>6 DEF ArtifactInvariant, Appends
<1>5. ASSUME NEW p \in Procs, WriteArtifact(p) PROVE ArtifactInvariant'
  <2>1. UNCHANGED ledger
    BY <1>5 DEF WriteArtifact
  <2>2. \A i \in 1..Len(ledger) : artifacts'[ledger[i].id] = artifacts[ledger[i].id]
    BY <1>1, <1>5 DEF WriteArtifact, Fits, TypeOK, Records
  <2>3. QED
    BY <1>2, <2>1, <2>2, LostStays DEF ArtifactInvariant
<1>6. ASSUME NEW p \in Procs, At(p, "append"), artifacts' = Withdrawn(p), UNCHANGED ledger
      PROVE  ArtifactInvariant'
  <2>1. \A i \in 1..Len(ledger) : artifacts'[ledger[i].id] = artifacts[ledger[i].id]
    BY <1>1, <1>6 DEF Withdrawn, TypeOK, Records, ArtifactInvariant, At
  <2>2. QED
    BY <1>2, <1>6, <2>1, LostStays DEF ArtifactInvariant
<1>7. ASSUME NEW id \in Ids, NEW state \in {"edited", "removed"}, TamperArtifact(id, state)
      PROVE  ArtifactInvariant'
  <2>1. UNCHANGED ledger
    BY <1>7 DEF TamperArtifact
  <2>2. \A x \in Ids : artifacts'[x] = artifacts[x] \/ artifacts'[x].state \in {"edited", "removed"}
    BY <1>7 DEF TamperArtifact, TypeOK, Artifacts
  <2>3. QED
    BY <1>1, <1>2, <2>1, <2>2, LostStays DEF ArtifactInvariant, Records
<1>8. QED
  <2>1. ASSUME NEW p \in Procs, AppendRecord(p) \/ FailAppend(p), UNCHANGED ledger PROVE ArtifactInvariant'
    BY <2>1, <1>3, <1>6 DEF AppendRecord, FailAppend
  <2>2. ASSUME UNCHANGED ledger,
               ~(\E p \in Procs : AppendRecord(p) \/ FailAppend(p) \/ WriteArtifact(p)),
               ~(\E id \in Ids, state \in {"edited", "removed"} : TamperArtifact(id, state))
        PROVE  UNCHANGED <<ledger, artifacts>>
    BY <2>2, StepMoves
    DEF Moves, Start, LockLedger, ReadProposal, ReadContext, ReadInput, ReadProducer, Crash,
        RemoveLock, ChangeInput, ChangePolicy, vars
  <2>3. QED
    BY <1>3, <1>4, <1>5, <1>7, <2>1, <2>2, StepAppends

(* The lock is taken by an advance with the latest research of its feature *)
(* in hand.                                                                *)
LEMMA TakesLatest ==
  ASSUME TypeOK, NEW p \in Procs, LockLedger(p), Takes(p), Advances(p)
  PROVE  \E d \in 1..Len(ledger) :
           Follows(d, Len(ledger) + 1, proc[p].feature, proc'[p].selected, proc[p].policy)
<1>1. lock' = p /\ proc'[p].at = "proposal"
  BY DEF Takes
<1>2. PICK d \in Entries("decision", proc[p].feature) :
        /\ ledger[d].policy = proc[p].policy /\ LatestResearch(d)
        /\ proc' = [proc EXCEPT ![p].at = "proposal", ![p].selected = ledger[d].id]
  <2>1. ~Leave(p)
    BY <1>1, LeaveFacts DEF Leaves, Idle
  <2>2. QED
    BY <2>1 DEF LockLedger
<1>3. proc'[p].selected = ledger[d].id
  BY <1>2 DEF TypeOK, Invocations
<1>4. Len(ledger) \in Nat /\ Entries("decision", proc[p].feature) \subseteq 1..Len(ledger)
  BY LenProperties DEF TypeOK, Entries
<1>5. d \in 1..Len(ledger) /\ ledger[d].type = "decision" /\ ledger[d].feature = proc[p].feature
  BY <1>2 DEF Entries
<1>6. \A j \in Entries("decision", proc[p].feature) : j <= d
  BY <1>2, <1>4, <1>5, LastFacts DEF LatestResearch
<1>7. ASSUME NEW j \in (d + 1)..Len(ledger), ledger[j].type = "decision"
      PROVE  ledger[j].feature # proc[p].feature
  <2>1. j \in 1..Len(ledger) /\ j > d
    BY <1>4, <1>5
  <2>2. QED
    BY <1>4, <1>5, <1>6, <1>7, <2>1 DEF Entries
<1>8. QED
  BY <1>2, <1>3, <1>4, <1>5, <1>7 DEF Follows

LEMMA SelectionStep ==
  ASSUME TypeOK, HolderInvariant, RequestInvariant, SelectionInvariant, [Next]_vars
  PROVE  SelectionInvariant'
<1> USE DEF Advances
<1>1. ASSUME NEW p \in Procs, Appends(p), Others(p) PROVE SelectionInvariant'
  <2>1. \A q \in Procs : proc'[q].at \notin Working
    BY <1>1, NoneAssumption DEF HolderInvariant, Appends, Others, Idle, Working
  <2>2. QED
    BY <2>1 DEF SelectionInvariant
<1>2. ASSUME UNCHANGED ledger, UNCHANGED <<proc, lock>> PROVE SelectionInvariant'
  BY <1>2 DEF SelectionInvariant, Follows
<1>3. ASSUME UNCHANGED ledger, NEW p \in Procs, Moved(p), Others(p), ~Takes(p) PROVE SelectionInvariant'
  BY <1>3 DEF SelectionInvariant, Follows, Moved, Others, Kept, Goes, Leaves, Dies, Begins, Idle, Working
<1>4. ASSUME UNCHANGED ledger, NEW p \in Procs, Moved(p), Others(p), Takes(p) PROVE SelectionInvariant'
  <2>1. LockLedger(p)
    BY <1>4 DEF Takes
  <2>2. Kept(p)
    BY <1>4 DEF Moved, Takes, Goes, Leaves, Dies, Begins, Idle
  <2>3. Advances(p) =>
          \E d \in 1..Len(ledger) :
            Follows(d, Len(ledger) + 1, proc'[p].feature, proc'[p].selected, proc'[p].policy)
    BY <1>4, <2>1, <2>2, TakesLatest DEF Kept
  <2>4. QED
    BY <1>4, <2>2, <2>3 DEF SelectionInvariant, Follows, Others, Kept
<1>5. QED
  BY <1>1, <1>2, <1>3, <1>4, StepAppends, StepMoved

LEMMA TransitionStep ==
  ASSUME TypeOK, HolderInvariant, RequestInvariant, SelectionInvariant, TransitionInvariant, [Next]_vars
  PROVE  TransitionInvariant'
<1>1. CASE UNCHANGED ledger
  BY <1>1 DEF TransitionInvariant, Follows
<1>2. ASSUME NEW p \in Procs, Appends(p) PROVE TransitionInvariant'
  <2>1. PICK n \in Nat : n = Len(ledger) + 1 /\ Len(ledger) \in Nat /\ Len(ledger') = n /\ ledger'[n] = NewRecord(p)
    BY <1>2, LenProperties DEF TypeOK, Appends, Grown
  <2>2. \A i \in 1..Len(ledger) : ledger'[i] = ledger[i]
    BY <1>2 DEF Appends, Grown
  <2>3. ASSUME NEW t \in 1..Len(ledger), ledger'[t].type = "transition"
        PROVE  \E d \in 1..(t - 1) :
                 Follows(d, t, ledger[t].feature, ledger[t].predecessor, ledger[t].policy)'
    <3>1. ledger[t].type = "transition"
      BY <2>2, <2>3
    <3>2. PICK d \in 1..(t - 1) : Follows(d, t, ledger[t].feature, ledger[t].predecessor, ledger[t].policy)
      BY <3>1 DEF TransitionInvariant
    <3>3. d \in 1..Len(ledger) /\ \A j \in (d + 1)..(t - 1) : j \in 1..Len(ledger)
      BY <2>1
    <3>4. QED
      BY <2>2, <3>2, <3>3 DEF Follows
  <2>4. ASSUME ledger'[n].type = "transition"
        PROVE  \E d \in 1..(n - 1) :
                 Follows(d, n, ledger[n].feature, ledger[n].predecessor, ledger[n].policy)'
    <3>1. /\ Advances(p) /\ ledger'[n].feature = proc[p].feature
          /\ ledger'[n].predecessor = proc[p].selected /\ ledger'[n].policy = proc[p].policy
      BY <2>1, <2>4 DEF NewRecord
    <3>2. PICK d \in 1..Len(ledger) : Follows(d, n, proc[p].feature, proc[p].selected, proc[p].policy)
      BY <1>2, <2>1, <3>1 DEF SelectionInvariant, Appends, Working
    <3>3. \A j \in (d + 1)..(n - 1) : j \in 1..Len(ledger)
      BY <2>1
    <3>4. QED
      BY <2>1, <2>2, <3>1, <3>2, <3>3 DEF Follows
  <2>5. QED
    BY <2>1, <2>2, <2>3, <2>4 DEF TransitionInvariant
<1>3. QED
  BY <1>1, <1>2, StepAppends

-----------------------------------------------------------------------------
(* The invariant, and the safety properties it gives                       *)

PhaseInvariant == TypeOK /\ HolderInvariant /\ RequestInvariant /\ ArtifactInvariant
                  /\ SelectionInvariant /\ TransitionInvariant

LEMMA InvariantInit == Init => PhaseInvariant
<1>1. SUFFICES ASSUME Init PROVE PhaseInvariant
  OBVIOUS
<1>2. TypeOK
  <2>1. ledger \in Seq(Records) /\ Len(ledger) <= MaxRecords
    BY <1>1, EmptySeq, BoundsAssumption DEF Init
  <2>2. inputs \in Inputs /\ policy \in Policies
    BY <1>1, IdleType, BoundsAssumption DEF Init, Policies, Versions
  <2>3. spent \in [edits : 0..MaxEdits, starts : 0..MaxStarts, faults : 0..MaxFaults]
    BY <1>1, BoundsAssumption DEF Init
  <2>4. QED
    BY <1>1, <2>1, <2>2, <2>3, IdleType DEF Init, TypeOK
<1>3. HolderInvariant /\ RequestInvariant /\ SelectionInvariant
  BY <1>1, NoneAssumption DEF Init, HolderInvariant, RequestInvariant, SelectionInvariant, Idle, Working
<1>4. ArtifactInvariant /\ TransitionInvariant
  BY <1>1 DEF Init, ArtifactInvariant, TransitionInvariant, Idle
<1>5. QED
  BY <1>2, <1>3, <1>4 DEF PhaseInvariant

LEMMA InvariantStep == PhaseInvariant /\ [Next]_vars => PhaseInvariant'
  BY TypeStep, HolderStep, RequestStep, ArtifactStep, SelectionStep, TransitionStep DEF PhaseInvariant

(* The invariant holds of every state of the phase ledger.                 *)
THEOREM LedgerKeepsInvariant == Spec => []PhaseInvariant
<1>1. QED
  BY InvariantInit, InvariantStep, PTL DEF Spec

(* Every variable of the phase ledger keeps its type, and the ledger its   *)
(* bound.                                                                  *)
THEOREM LedgerTyped == Spec => []TypeOK
<1>1. PhaseInvariant => TypeOK
  BY DEF PhaseInvariant
<1>2. QED
  BY <1>1, LedgerKeepsInvariant, PTL

(* One invocation at a time works on the ledger, whoever died with the     *)
(* lock and whoever removed it.                                            *)
OneAtWork == \A p, q \in Procs : proc[p].at \in Working /\ proc[q].at \in Working => p = q

THEOREM OneInvocationAtWork == Spec => []OneAtWork
<1>1. PhaseInvariant => OneAtWork
  BY DEF PhaseInvariant, HolderInvariant, OneAtWork
<1>2. QED
  BY <1>1, LedgerKeepsInvariant, PTL

(* Through crashes, failing appends and retries a record is in doubt only  *)
(* for what was done to its own artifact, and without such a record and    *)
(* without a partial line the ledger is readable.                          *)
THEOREM LedgerStaysReadable == Spec => []LedgerReadable
<1>1. PhaseInvariant => LedgerReadable
  <2> DEFINE doubted == {ledger[i].id : i \in {n \in 1..Len(ledger) : ~Verified(ledger[n])}}
  <2>1. SUFFICES ASSUME PhaseInvariant PROVE LedgerReadable
    OBVIOUS
  <2>2. \A id \in doubted : artifacts[id].state \in {"edited", "removed"} \/ id \in lost
    BY <2>1 DEF PhaseInvariant, ArtifactInvariant
  <2>3. ~torn /\ doubted = {} => Readable
    BY <2>1 DEF PhaseInvariant, ArtifactInvariant, Readable
  <2>4. QED
    BY <2>2, <2>3 DEF LedgerReadable
<1>2. QED
  BY <1>1, LedgerKeepsInvariant, PTL

(* A plan follows the latest research of its feature, and is entered only  *)
(* while that research is approved.                                        *)
THEOREM PlansNeedResearch == Spec => []PlanNeedsResearch
<1>1. PhaseInvariant => PlanNeedsResearch
  <2>1. SUFFICES ASSUME PhaseInvariant PROVE PlanNeedsResearch
    OBVIOUS
  <2>2. ASSUME NEW f \in Features, PlanStatus(f) = "entered" PROVE ResearchStatus(f) = "approved"
    <3>1. PICK j \in Entries("decision", f) : Fresh(j)
      BY <2>2 DEF PlanStatus
    <3>2. j \in 1..Len(ledger) /\ j = Last(Entries("decision", f))
      BY <3>1 DEF Entries, Fresh, LatestResearch
    <3>3. QED
      BY <3>1, <3>2 DEF ResearchStatus
  <2>3. QED
    BY <2>1, <2>2 DEF PhaseInvariant, TransitionInvariant, Follows, PlanNeedsResearch
<1>2. QED
  BY <1>1, LedgerKeepsInvariant, PTL
=============================================================================
