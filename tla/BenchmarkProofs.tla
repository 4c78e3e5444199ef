-------------------------- MODULE BenchmarkProofs --------------------------
(* What holds of the two ways in which models are measured.  Of            *)
(* qualification, for every set of invocations, whatever the bounds: the   *)
(* store has one writer and stays acceptable, no counted run is lost, and  *)
(* who is dispatched as qualified was measured.  Of the polyglot benchmark *)
(* (Polyglot), for any queue, hosts, models and solutions: an entry gets   *)
(* one result, from its own attempts.  Of the scores (QualificationScore), *)
(* for any numbers of results: a status follows them.                      *)
EXTENDS Qualification, QualificationScore, Polyglot, FiniteSetTheorems, TLAPS

-----------------------------------------------------------------------------
(* The inductive invariant                                                 *)

Writing   == {"index", "record", "refs"}
Measuring == {"work", "verify", "settle", "results"}
Scoring   == {"target", "pool", "lock", "record", "refs", "decide", "decided"}

(* Who writes the store made its lock, and leaves it behind only when it   *)
(* dies.                                                                   *)
WriterInvariant ==
  \A p \in Procs : /\ proc[p].at \in Writing => lock = p
                   /\ lock = p => proc[p].at \in Writing \cup {"crashed"}

(* What an invocation carries at each step.                                *)
Carries(inv) ==
  /\ inv.at \in Measuring \cup {"register", "index"} =>
       inv.task = "bench" /\ inv.run \in Runs /\ inv.identity \in Identities
  /\ inv.at \in {"settle", "results"} => inv.result \in Results
  /\ inv.at \in Scoring => inv.identity \in Identities /\ inv.task # "bench"
  /\ inv.at \in Scoring \ {"target"} => inv.target \in Targets
  /\ inv.at \in {"record", "refs", "decide", "decided"} => inv.merged \in Records
  /\ inv.at \in {"decide", "decided"} => inv.task = "assess"
  /\ inv.at \in Scoring \ {"target"} /\ inv.task = "assess" => inv.seen \in Records
CarriedInvariant == \A p \in Procs : Carries(proc[p])

(* The writer works on the record it has read: until the record is         *)
(* written nothing else has changed, until the associations are written    *)
(* they bind the record as it was.  Without a writer, and unless a fault   *)
(* tore it, the store is one that the next operation accepts.              *)
StoreInvariant ==
  /\ \A p \in Procs :
       /\ proc[p].at \in {"record", "refs"} =>
            proc[p].merged = Merge(proc[p].before, proc[p].pool, proc[p].target)
       /\ proc[p].at = "record" => proc[p].before = records[proc[p].identity] /\ Bound
       /\ proc[p].at = "refs" =>
            /\ records[proc[p].identity] = proc[p].merged
            /\ refs[proc[p].identity] \in {None, proc[p].before}
            /\ \A i \in Identities \ {proc[p].identity} : refs[i] \in {None, records[i]}
  /\ ~spent.torn /\ (\A p \in Procs : proc[p].at \notin {"record", "refs"}) => Bound

(* A run is written once, by the benchmark that started it, and counts as  *)
(* passed only if its verifiers ran from the suite of its identity.        *)
Sound(result, identity) ==
  result.identity = identity /\ (result.passed => result.verified = identity.suite)
RunInvariant ==
  /\ \A r \in Runs : results[r] # None =>
       r <= spent.runs /\ Sound(results[r], results[r].identity)
  /\ \A p \in Procs : proc[p].at \in Measuring =>
       proc[p].run <= spent.runs /\ results[proc[p].run] = None
  /\ \A p, q \in Procs : p # q /\ proc[p].at \in Measuring /\ proc[q].at \in Measuring =>
       proc[p].run # proc[q].run
  /\ \A p \in Procs : proc[p].at \in {"settle", "results"} => Sound(proc[p].result, proc[p].identity)

(* Every run of a record, saved or carried, has a result of the record's   *)
(* identity; and what an assessment has read it still counts, unchanged    *)
(* since the last edit it has seen.                                        *)
RecordedIn(res, i) == {r \in Runs : res[r] # None /\ res[r].identity = i}
Supported(record, i, res) == record # None => record.runs \subseteq RecordedIn(res, i)
Backed == {"lock", "record", "refs", "decide", "decided"}
Evident(inv, res, files, edits) ==
  /\ inv.at \in Backed => inv.pool \subseteq RecordedIn(res, inv.identity)
  /\ inv.at \in {"record", "refs"} => Supported(inv.before, inv.identity, res)
  /\ inv.at \in Backed \ {"lock"} =>
       Supported(inv.merged, inv.identity, res) /\ inv.pool \subseteq inv.merged.runs
  /\ inv.at \in Backed /\ inv.task = "assess" =>
       /\ inv.seen.runs \subseteq inv.pool
       /\ inv.edits <= edits
       /\ \A r \in inv.pool : files[r] = "kept" \/ inv.edits < edits
       /\ inv.pool = {} =>
            inv.at \in {"decide", "decided"} /\ inv.merged = inv.seen /\ inv.seen.legacy # None
EvidenceInvariant ==
  /\ \A i \in Identities : Supported(records[i], i, results)
  /\ \A p \in Procs : Evident(proc[p], results, kept, spent.edits)

QualificationInvariant ==
  /\ TypeOK
  /\ WriterInvariant
  /\ CarriedInvariant
  /\ StoreInvariant
  /\ RunInvariant
  /\ EvidenceInvariant

-----------------------------------------------------------------------------
(* What a step does to the invocations                                     *)

Others(p) == \A q \in Procs \ {p} : proc'[q] = proc[q]

LEMMA LeaveFacts ==
  ASSUME TypeOK, NEW p \in Procs, Leave(p)
  PROVE  proc'[p] = Idle /\ Others(p)
  BY DEF TypeOK, Leave, Others

LEMMA GoFacts ==
  ASSUME TypeOK, NEW p \in Procs, NEW step, Go(p, step)
  PROVE  proc'[p] = [proc[p] EXCEPT !.at = step] /\ Others(p)
  BY DEF TypeOK, Go, Others

LEMMA IdleType == Idle \in Invocations
  BY BoundsAssumption DEF Idle, Invocations, Steps, Runs

LEMMA SpendType ==
  ASSUME TypeOK, NEW what \in {"edits", "runs", "starts", "faults"}, Spend(what),
         what = "edits" => spent.edits < MaxEdits,
         what = "runs" => spent.runs < MaxRuns,
         what = "starts" => spent.starts < MaxStarts,
         what = "faults" => spent.faults < MaxFaults
  PROVE  spent' \in [edits : 0..MaxEdits, runs : 0..MaxRuns, starts : 0..MaxStarts,
                     faults : 0..MaxFaults, torn : BOOLEAN]
  BY BoundsAssumption DEF TypeOK, Spend

LEMMA GoType ==
  ASSUME TypeOK, NEW p \in Procs, NEW step \in Steps, Go(p, step)
  PROVE  proc' \in [Procs -> Invocations]
<1>1. [proc[p] EXCEPT !.at = step] \in Invocations
  BY DEF TypeOK, Invocations
<1>2. QED
  BY <1>1 DEF TypeOK, Go

LEMMA LeaveType ==
  ASSUME TypeOK, NEW p \in Procs, Leave(p)
  PROVE  proc' \in [Procs -> Invocations]
  BY IdleType DEF TypeOK, Leave

LEMMA UnlockType ==
  ASSUME TypeOK, NEW p \in Procs, Unlock(p)
  PROVE  lock' \in Procs \cup {None}
  BY DEF TypeOK, Unlock

LEMMA MergeType ==
  ASSUME NEW old \in Records \cup {None}, NEW runs \in SUBSET Runs, NEW target \in Targets,
         Combines(old, runs)
  PROVE  Merge(old, runs, target) \in Records
<1>1. CASE old = None
  BY <1>1 DEF Merge, Records
<1>2. CASE old # None
  <2>1. /\ old.runs \in SUBSET Runs /\ old.legacy \in Aggregates \cup {None}
        /\ old.legacy # None => old.runs = {} /\ runs = {}
    BY <1>2 DEF Records, Combines
  <2>2. Merge(old, runs, target) = [runs |-> runs \cup old.runs, target |-> target, legacy |-> old.legacy]
    BY <1>2 DEF Merge
  <2>3. QED
    BY <2>1, <2>2 DEF Records
<1>3. QED
  BY <1>1, <1>2

(* What the steps write into an invocation keeps its type.                 *)
LEMMA UpdateType ==
  ASSUME NEW inv \in Invocations, NEW at \in Steps
  PROVE  /\ \A x \in Results : [inv EXCEPT !.at = at, !.result = x] \in Invocations
         /\ \A x \in Records, t \in Targets :
              [inv EXCEPT !.at = at, !.seen = x, !.target = t] \in Invocations
         /\ \A S \in SUBSET Runs, n \in 0..MaxEdits :
              [inv EXCEPT !.at = at, !.pool = S, !.edits = n] \in Invocations
         /\ \A x \in Records \cup {None}, y \in Records :
              [inv EXCEPT !.at = at, !.before = x, !.merged = y] \in Invocations
         /\ \A b \in BOOLEAN : [inv EXCEPT !.at = at, !.qualified = b] \in Invocations
         /\ \A x \in Records, n \in 0..MaxEdits :
              [inv EXCEPT !.at = at, !.pool = {}, !.merged = x, !.edits = n] \in Invocations
<1>1. ASSUME NEW x \in Results PROVE [inv EXCEPT !.at = at, !.result = x] \in Invocations
  BY DEF Invocations
<1>2. ASSUME NEW x \in Records, NEW t \in Targets
      PROVE  [inv EXCEPT !.at = at, !.seen = x, !.target = t] \in Invocations
  BY DEF Invocations
<1>3. ASSUME NEW S \in SUBSET Runs, NEW n \in 0..MaxEdits
      PROVE  [inv EXCEPT !.at = at, !.pool = S, !.edits = n] \in Invocations
  BY DEF Invocations
<1>4. ASSUME NEW x \in Records \cup {None}, NEW y \in Records
      PROVE  [inv EXCEPT !.at = at, !.before = x, !.merged = y] \in Invocations
  BY DEF Invocations
<1>5. ASSUME NEW b \in BOOLEAN PROVE [inv EXCEPT !.at = at, !.qualified = b] \in Invocations
  BY DEF Invocations
<1>6. ASSUME NEW x \in Records, NEW n \in 0..MaxEdits
      PROVE  [inv EXCEPT !.at = at, !.pool = {}, !.merged = x, !.edits = n] \in Invocations
  BY DEF Invocations
<1>7. QED
  BY <1>1, <1>2, <1>3, <1>4, <1>5, <1>6

LEMMA SettleType ==
  ASSUME TypeOK, NEW p \in Procs, proc[p].identity \in Identities, NEW passed \in BOOLEAN,
         NEW verified \in Versions, Settle(p, passed, verified)
  PROVE  proc' \in [Procs -> Invocations]
<1>1. [identity |-> proc[p].identity, passed |-> passed, verified |-> verified] \in Results
  BY DEF Results
<1>2. [proc[p] EXCEPT !.at = "results",
          !.result = [identity |-> proc[p].identity, passed |-> passed, verified |-> verified]] \in Invocations
  <2>1. proc[p] \in Invocations /\ "results" \in Steps
    BY DEF TypeOK, Steps
  <2>2. QED
    BY <1>1, <2>1, UpdateType
<1>3. QED
  BY <1>2 DEF TypeOK, Settle

-----------------------------------------------------------------------------
(* Each part is kept by every step                                         *)

(* The types.                                                              *)
LEMMA TypeStep ==
  ASSUME TypeOK, CarriedInvariant, [Next]_vars
  PROVE  TypeOK'
<1> USE DEF At
<1>1. ASSUME NEW p \in Procs, RunBenchmark(p) PROVE TypeOK'
  <2> DEFINE new == [Idle EXCEPT !.at = "work", !.task = "bench", !.run = spent.runs + 1, !.identity = current]
  <2>1. new \in Invocations
    <3>1. spent.runs + 1 \in 0..MaxRuns /\ current \in Identities
      BY <1>1, BoundsAssumption DEF RunBenchmark, TypeOK
    <3>2. QED
      BY <3>1, IdleType DEF Idle, Invocations, Steps
  <2>2. proc' \in [Procs -> Invocations]
    BY <1>1, <2>1 DEF RunBenchmark, TypeOK
  <2>3. QED
    BY <1>1, <2>2, SpendType DEF RunBenchmark, TypeOK, store
<1>2. ASSUME NEW p \in Procs, RunCase(p) PROVE TypeOK'
  <2>1. proc[p].identity \in Identities /\ current.suite \in Versions
    BY <1>2 DEF RunCase, CarriedInvariant, Carries, Measuring, TypeOK, Identities
  <2>2. proc' \in [Procs -> Invocations]
    BY <1>2, <2>1, GoType, SettleType DEF RunCase, Steps
  <2>3. QED
    BY <1>2, <2>2 DEF RunCase, TypeOK, store
<1>3. ASSUME NEW p \in Procs, RunVerifiers(p) PROVE TypeOK'
  <2>1. proc[p].identity \in Identities /\ current.suite \in Versions
    BY <1>3 DEF RunVerifiers, CarriedInvariant, Carries, Measuring, TypeOK, Identities
  <2>2. PICK passed \in BOOLEAN :
          proc' = [proc EXCEPT ![p].at = "settle",
                     ![p].result = [identity |-> proc[p].identity, passed |-> passed, verified |-> current.suite]]
    BY <1>3 DEF RunVerifiers
  <2> DEFINE result == [identity |-> proc[p].identity, passed |-> passed, verified |-> current.suite]
  <2>3. result \in Results
    BY <2>1 DEF Results
  <2>4. [proc[p] EXCEPT !.at = "settle", !.result = result] \in Invocations
    <3>1. proc[p] \in Invocations /\ "settle" \in Steps
      BY DEF TypeOK, Steps
    <3>2. QED
      BY <2>3, <3>1, UpdateType
  <2>5. proc' \in [Procs -> Invocations]
    BY <2>2, <2>4 DEF TypeOK
  <2>6. QED
    BY <1>3, <2>5 DEF RunVerifiers, TypeOK, store
<1>4. ASSUME NEW p \in Procs, VerifiersUnstable(p) PROVE TypeOK'
  <2>1. proc[p].identity \in Identities /\ current.suite \in Versions
    BY <1>4 DEF VerifiersUnstable, CarriedInvariant, Carries, Measuring, TypeOK, Identities
  <2>2. QED
    BY <1>4, <2>1, SettleType DEF VerifiersUnstable, TypeOK, store
<1>5. ASSUME NEW p \in Procs, SettleCase(p) PROVE TypeOK'
  <2>1. proc[p].identity \in Identities /\ proc[p].result.verified \in Versions
        /\ proc[p].result.passed \in BOOLEAN
    BY <1>5 DEF SettleCase, CarriedInvariant, Carries, Measuring, Results
  <2>2. proc' \in [Procs -> Invocations]
    BY <1>5, <2>1, SettleType DEF SettleCase
  <2>3. QED
    BY <1>5, <2>2 DEF SettleCase, TypeOK, store
<1>6. ASSUME NEW p \in Procs, WriteResults(p) PROVE TypeOK'
  BY <1>6, GoType DEF WriteResults, CarriedInvariant, Carries, Measuring, TypeOK, store, Steps
<1>7. ASSUME NEW p \in Procs, LockIndex(p) PROVE TypeOK'
  BY <1>7, GoType, LeaveType DEF LockIndex, TypeOK, store, Steps
<1>8. ASSUME NEW p \in Procs, WriteIndex(p) PROVE TypeOK'
  BY <1>8, LeaveType, UnlockType DEF WriteIndex, CarriedInvariant, Carries, TypeOK
<1>9. ASSUME NEW p \in Procs, AssessQualification(p) PROVE TypeOK'
  <2> DEFINE new == [Idle EXCEPT !.at = "target", !.task = "assess", !.identity = current]
  <2>1. new \in Invocations
    BY IdleType DEF TypeOK, Idle, Invocations, Steps
  <2>2. proc' \in [Procs -> Invocations]
    BY <1>9, <2>1 DEF AssessQualification, TypeOK
  <2>3. QED
    BY <1>9, <2>2, SpendType DEF AssessQualification, Start, TypeOK, store
<1>10. ASSUME NEW p \in Procs, ReadRecord(p) PROVE TypeOK'
  <2> DEFINE saved == records[proc[p].identity]
  <2>1. CASE Leave(p)
    BY <1>10, <2>1, LeaveType DEF ReadRecord, TypeOK, store
  <2>2. CASE proc' = [proc EXCEPT ![p].at = "pool", ![p].seen = saved, ![p].target = saved.target]
             /\ saved # None
    <3>1. saved \in Records /\ saved.target \in Targets
      BY <1>10, <2>2 DEF ReadRecord, CarriedInvariant, Carries, Scoring, TypeOK, Records
    <3>2. [proc[p] EXCEPT !.at = "pool", !.seen = saved, !.target = saved.target] \in Invocations
      <4>1. proc[p] \in Invocations /\ "pool" \in Steps
        BY DEF TypeOK, Steps
      <4>2. QED
        BY <3>1, <4>1, UpdateType
    <3>3. proc' \in [Procs -> Invocations]
      BY <2>2, <3>2 DEF TypeOK
    <3>4. QED
      BY <1>10, <3>3 DEF ReadRecord, TypeOK, store
  <2>3. QED
    BY <1>10, <2>1, <2>2 DEF ReadRecord
<1>11. ASSUME NEW p \in Procs, ReadPool(p) PROVE TypeOK'
  <2> DEFINE pool == PoolOf(proc[p].identity)
  <2>1. CASE Leave(p)
    BY <1>11, <2>1, LeaveType DEF ReadPool, TypeOK, store
  <2>2. CASE proc' = [proc EXCEPT ![p].at = "lock", ![p].pool = pool, ![p].edits = spent.edits]
    <3>1. pool \in SUBSET Runs /\ spent.edits \in 0..MaxEdits
      BY DEF PoolOf, Recorded, TypeOK
    <3>2. [proc[p] EXCEPT !.at = "lock", !.pool = pool, !.edits = spent.edits] \in Invocations
      <4>1. proc[p] \in Invocations /\ "lock" \in Steps
        BY DEF TypeOK, Steps
      <4>2. QED
        BY <3>1, <4>1, UpdateType
    <3>3. proc' \in [Procs -> Invocations]
      BY <2>2, <3>2 DEF TypeOK
    <3>4. QED
      BY <1>11, <3>3 DEF ReadPool, TypeOK, store
  <2>3. CASE /\ Unnamed(p)
             /\ proc' = [proc EXCEPT ![p].at = "decide", ![p].pool = {}, ![p].merged = proc[p].seen,
                                     ![p].edits = spent.edits]
    <3>1. proc[p].seen \in Records /\ spent.edits \in 0..MaxEdits
      BY <1>11, <2>3 DEF ReadPool, Unnamed, CarriedInvariant, Carries, Scoring, TypeOK
    <3>2. [proc[p] EXCEPT !.at = "decide", !.pool = {}, !.merged = proc[p].seen, !.edits = spent.edits]
            \in Invocations
      <4>1. proc[p] \in Invocations /\ "decide" \in Steps
        BY DEF TypeOK, Steps
      <4>2. QED
        BY <3>1, <4>1, UpdateType
    <3>3. proc' \in [Procs -> Invocations]
      BY <2>3, <3>2 DEF TypeOK
    <3>4. QED
      BY <1>11, <3>3 DEF ReadPool, TypeOK, store
  <2>4. QED
    BY <1>11, <2>1, <2>2, <2>3 DEF ReadPool
<1>12. ASSUME NEW p \in Procs, LockStore(p) PROVE TypeOK'
  <2> DEFINE old == records[proc[p].identity]
             merged == Merge(old, proc[p].pool, proc[p].target)
  <2>1. CASE Leave(p) /\ UNCHANGED lock
    BY <1>12, <2>1, LeaveType DEF LockStore, TypeOK, store
  <2>2. CASE /\ Combines(old, proc[p].pool) /\ lock' = p
             /\ proc' = [proc EXCEPT ![p].at = "record", ![p].before = old, ![p].merged = merged]
    <3>1. old \in Records \cup {None} /\ proc[p].pool \in SUBSET Runs /\ proc[p].target \in Targets
      BY <1>12 DEF LockStore, CarriedInvariant, Carries, Scoring, TypeOK, Invocations
    <3>2. merged \in Records
      BY <2>2, <3>1, MergeType
    <3>3. [proc[p] EXCEPT !.at = "record", !.before = old, !.merged = merged] \in Invocations
      <4>1. proc[p] \in Invocations /\ "record" \in Steps
        BY DEF TypeOK, Steps
      <4>2. QED
        BY <3>1, <3>2, <4>1, UpdateType
    <3>4. proc' \in [Procs -> Invocations]
      BY <2>2, <3>3 DEF TypeOK
    <3>5. QED
      BY <1>12, <2>2, <3>4 DEF LockStore, TypeOK, store
  <2>3. QED
    BY <1>12, <2>1, <2>2 DEF LockStore
<1>13. ASSUME NEW p \in Procs, WriteRecord(p) PROVE TypeOK'
  BY <1>13, GoType DEF WriteRecord, CarriedInvariant, Carries, TypeOK, Steps
<1>14. ASSUME NEW p \in Procs, WriteRefs(p) PROVE TypeOK'
  <2>1. proc' \in [Procs -> Invocations]
    BY <1>14, GoType, LeaveType DEF WriteRefs, Steps
  <2>2. refs' \in [Identities -> Records \cup {None}]
    BY <1>14 DEF WriteRefs, CarriedInvariant, Carries, TypeOK
  <2>3. QED
    BY <1>14, <2>1, <2>2, UnlockType DEF WriteRefs, TypeOK
<1>15. ASSUME NEW p \in Procs, Decide(p) PROVE TypeOK'
  <2> DEFINE verdict == RecordStatus(proc[p].merged) = "qualified"
  <2>1. verdict \in BOOLEAN
    OBVIOUS
  <2>2. [proc[p] EXCEPT !.at = "decided", !.qualified = verdict] \in Invocations
    <3>1. proc[p] \in Invocations /\ "decided" \in Steps
      BY DEF TypeOK, Steps
    <3>2. QED
      BY <2>1, <3>1, UpdateType
  <2>3. proc' \in [Procs -> Invocations]
    BY <1>15, <2>2 DEF Decide, TypeOK
  <2>4. QED
    BY <1>15, <2>3 DEF Decide, TypeOK, store
<1>16. ASSUME NEW p \in Procs, Dispatch(p) PROVE TypeOK'
  BY <1>16, LeaveType DEF Dispatch, TypeOK, store
<1>17. ASSUME NEW p \in Procs, FailWrite(p) PROVE TypeOK'
  <2>1. records' \in [Identities -> Records \cup {None}]
    BY <1>17 DEF FailWrite, CarriedInvariant, Carries, Scoring, TypeOK, Invocations
  <2>2. spent' \in [edits : 0..MaxEdits, runs : 0..MaxRuns, starts : 0..MaxStarts,
                    faults : 0..MaxFaults, torn : BOOLEAN]
    <3>1. spent.faults + 1 \in 0..MaxFaults
      BY <1>17, BoundsAssumption DEF FailWrite, Fault, TypeOK
    <3>2. spent' = [spent EXCEPT !.faults = @ + 1] \/ spent' = [spent EXCEPT !.faults = @ + 1, !.torn = TRUE]
      BY <1>17 DEF FailWrite, Spend
    <3>3. QED
      BY <3>1, <3>2 DEF TypeOK
  <2>3. QED
    BY <1>17, <2>1, <2>2, LeaveType, UnlockType DEF FailWrite, TypeOK
<1>18. ASSUME NEW p \in Procs, Crash(p) PROVE TypeOK'
  <2>1. [Idle EXCEPT !.at = "crashed"] \in Invocations
    BY IdleType DEF Idle, Invocations, Steps
  <2>2. proc' \in [Procs -> Invocations]
    BY <1>18, <2>1 DEF Crash, TypeOK
  <2>3. spent' \in [edits : 0..MaxEdits, runs : 0..MaxRuns, starts : 0..MaxStarts,
                    faults : 0..MaxFaults, torn : BOOLEAN]
    <3>1. spent.faults + 1 \in 0..MaxFaults
      BY <1>18, BoundsAssumption DEF Crash, Fault, TypeOK
    <3>2. spent' = [spent EXCEPT !.faults = @ + 1, !.torn = @ \/ At(p, "refs")]
      BY <1>18 DEF Crash
    <3>3. (spent.torn \/ At(p, "refs")) \in BOOLEAN
      BY DEF TypeOK
    <3>4. QED
      BY <3>1, <3>2, <3>3 DEF TypeOK
  <2>4. QED
    BY <1>18, <2>2, <2>3 DEF Crash, TypeOK, store
<1>19. ASSUME NEW p \in Procs, RemoveLock(p) PROVE TypeOK'
  BY <1>19, LeaveType, UnlockType DEF RemoveLock, TypeOK, store
<1>20. ASSUME NEW p \in Procs, NEW r \in Runs, NEW t \in Targets, NEW worker \in BOOLEAN,
              QualifyBenchmark(p, r, t, worker)
       PROVE  TypeOK'
  <2> DEFINE new == [Idle EXCEPT !.at = "pool", !.task = "qualify", !.target = t,
                                 !.identity = results[r].identity, !.worker = worker]
  <2>1. results[r].identity \in Identities
    BY <1>20 DEF QualifyBenchmark, TypeOK, Results
  <2>2. new \in Invocations
    BY <2>1, IdleType DEF TypeOK, Idle, Invocations, Steps
  <2>3. proc' \in [Procs -> Invocations]
    BY <1>20, <2>2 DEF QualifyBenchmark, TypeOK
  <2>4. QED
    BY <1>20, <2>3, SpendType DEF QualifyBenchmark, Start, TypeOK, store
<1>21. ASSUME NEW p \in Procs, NEW i \in Identities, NEW t \in Targets, RescoreBenchmark(p, i, t)
       PROVE  TypeOK'
  <2> DEFINE new == [Idle EXCEPT !.at = "lock", !.task = "rescore", !.identity = i,
                                 !.target = t, !.pool = records[i].runs]
  <2>1. records[i].runs \in SUBSET Runs
    BY <1>21 DEF RescoreBenchmark, TypeOK, Records
  <2>2. new \in Invocations
    BY <2>1, IdleType DEF TypeOK, Idle, Invocations, Steps
  <2>3. proc' \in [Procs -> Invocations]
    BY <1>21, <2>2 DEF RescoreBenchmark, TypeOK
  <2>4. QED
    BY <1>21, <2>3, SpendType DEF RescoreBenchmark, Start, TypeOK, store
<1>22. ASSUME EditConfig \/ EditSuite PROVE TypeOK'
  <2>1. spent.edits + 1 \in Versions
    BY <1>22, BoundsAssumption DEF EditConfig, EditSuite, Edit, TypeOK, Versions
  <2>2. current' \in Identities
    BY <1>22, <2>1 DEF EditConfig, EditSuite, TypeOK, Identities
  <2>3. QED
    BY <1>22, <2>2, SpendType DEF EditConfig, EditSuite, Edit, TypeOK, store
<1>23. ASSUME NEW r \in Runs, NEW how \in {"changed", "deleted"}, LoseResult(r, how) PROVE TypeOK'
  BY <1>23, SpendType DEF LoseResult, Edit, TypeOK, store
<1>24. ASSUME UNCHANGED vars PROVE TypeOK'
  BY <1>24 DEF vars, store, TypeOK
<1>25. QED
  BY <1>1, <1>2, <1>3, <1>4, <1>5, <1>6, <1>7, <1>8, <1>9, <1>10, <1>11, <1>12, <1>13, <1>14, <1>15,
     <1>16, <1>17, <1>18, <1>19, <1>20, <1>21, <1>22, <1>23, <1>24 DEF Next, Continue

-----------------------------------------------------------------------------
(* What each step leaves in the invocation that takes it                   *)

Moved(new, inv, step) ==
  /\ new.at = step /\ new.task = inv.task /\ new.run = inv.run
  /\ new.identity = inv.identity /\ new.worker = inv.worker
SameResult(new, inv) == new.result = inv.result
SameSource(new, inv) == new.target = inv.target /\ new.seen = inv.seen
SamePool(new, inv)   == new.pool = inv.pool /\ new.edits = inv.edits
SameRecord(new, inv) == new.before = inv.before /\ new.merged = inv.merged

LEMMA SpendFacts ==
  ASSUME TypeOK, NEW what \in {"edits", "runs", "starts", "faults"}, Spend(what)
  PROVE  /\ spent'.torn = spent.torn
         /\ spent'.edits = IF what = "edits" THEN spent.edits + 1 ELSE spent.edits
         /\ spent'.runs = IF what = "runs" THEN spent.runs + 1 ELSE spent.runs
  BY DEF TypeOK, Spend

LEMMA MovesFacts ==
  ASSUME TypeOK, NEW p \in Procs, NEW step, Go(p, step)
  PROVE  /\ Others(p) /\ Moved(proc'[p], proc[p], step) /\ SameResult(proc'[p], proc[p])
         /\ SameSource(proc'[p], proc[p]) /\ SamePool(proc'[p], proc[p]) /\ SameRecord(proc'[p], proc[p])
<1>1. proc'[p] = [proc[p] EXCEPT !.at = step] /\ Others(p) /\ proc[p] \in Invocations
  BY GoFacts DEF TypeOK
<1>2. QED
  BY <1>1 DEF Invocations, Moved, SameResult, SameSource, SamePool, SameRecord

LEMMA ResultFacts ==
  ASSUME TypeOK, NEW p \in Procs, NEW step, NEW x,
         proc' = [proc EXCEPT ![p].at = step, ![p].result = x]
  PROVE  /\ Others(p) /\ Moved(proc'[p], proc[p], step) /\ proc'[p].result = x
         /\ SameSource(proc'[p], proc[p]) /\ SamePool(proc'[p], proc[p]) /\ SameRecord(proc'[p], proc[p])
<1>1. \A inv \in Invocations : LET new == [inv EXCEPT !.at = step, !.result = x]
                               IN  /\ Moved(new, inv, step) /\ new.result = x
                                   /\ SameSource(new, inv) /\ SamePool(new, inv) /\ SameRecord(new, inv)
  BY DEF Invocations, Moved, SameSource, SamePool, SameRecord
<1>2. proc'[p] = [proc[p] EXCEPT !.at = step, !.result = x] /\ Others(p) /\ proc[p] \in Invocations
  BY DEF TypeOK, Others
<1>3. QED
  BY <1>1, <1>2

LEMMA SourceFacts ==
  ASSUME TypeOK, NEW p \in Procs, NEW x, NEW y,
         proc' = [proc EXCEPT ![p].at = "pool", ![p].seen = x, ![p].target = y]
  PROVE  /\ Others(p) /\ Moved(proc'[p], proc[p], "pool") /\ proc'[p].seen = x /\ proc'[p].target = y
         /\ SameResult(proc'[p], proc[p]) /\ SamePool(proc'[p], proc[p]) /\ SameRecord(proc'[p], proc[p])
<1>1. \A inv \in Invocations : LET new == [inv EXCEPT !.at = "pool", !.seen = x, !.target = y]
                               IN  /\ Moved(new, inv, "pool") /\ new.seen = x /\ new.target = y
                                   /\ SameResult(new, inv) /\ SamePool(new, inv) /\ SameRecord(new, inv)
  BY DEF Invocations, Moved, SameResult, SamePool, SameRecord
<1>2. proc'[p] = [proc[p] EXCEPT !.at = "pool", !.seen = x, !.target = y] /\ Others(p) /\ proc[p] \in Invocations
  BY DEF TypeOK, Others
<1>3. QED
  BY <1>1, <1>2

LEMMA PoolFacts ==
  ASSUME TypeOK, NEW p \in Procs, NEW x, NEW y,
         proc' = [proc EXCEPT ![p].at = "lock", ![p].pool = x, ![p].edits = y]
  PROVE  /\ Others(p) /\ Moved(proc'[p], proc[p], "lock") /\ proc'[p].pool = x /\ proc'[p].edits = y
         /\ SameResult(proc'[p], proc[p]) /\ SameSource(proc'[p], proc[p]) /\ SameRecord(proc'[p], proc[p])
<1>1. \A inv \in Invocations : LET new == [inv EXCEPT !.at = "lock", !.pool = x, !.edits = y]
                               IN  /\ Moved(new, inv, "lock") /\ new.pool = x /\ new.edits = y
                                   /\ SameResult(new, inv) /\ SameSource(new, inv) /\ SameRecord(new, inv)
  BY DEF Invocations, Moved, SameResult, SameSource, SameRecord
<1>2. proc'[p] = [proc[p] EXCEPT !.at = "lock", !.pool = x, !.edits = y] /\ Others(p) /\ proc[p] \in Invocations
  BY DEF TypeOK, Others
<1>3. QED
  BY <1>1, <1>2

LEMMA AnswerFacts ==
  ASSUME TypeOK, NEW p \in Procs, NEW x, NEW y, NEW z,
         proc' = [proc EXCEPT ![p].at = "decide", ![p].pool = x, ![p].merged = y, ![p].edits = z]
  PROVE  /\ Others(p) /\ Moved(proc'[p], proc[p], "decide") /\ SameSource(proc'[p], proc[p])
         /\ proc'[p].pool = x /\ proc'[p].merged = y /\ proc'[p].edits = z
<1>1. \A inv \in Invocations : LET new == [inv EXCEPT !.at = "decide", !.pool = x, !.merged = y, !.edits = z]
                               IN  /\ Moved(new, inv, "decide") /\ SameSource(new, inv)
                                   /\ new.pool = x /\ new.merged = y /\ new.edits = z
  BY DEF Invocations, Moved, SameSource
<1>2. /\ proc'[p] = [proc[p] EXCEPT !.at = "decide", !.pool = x, !.merged = y, !.edits = z]
      /\ Others(p) /\ proc[p] \in Invocations
  BY DEF TypeOK, Others
<1>3. QED
  BY <1>1, <1>2

LEMMA RecordFacts ==
  ASSUME TypeOK, NEW p \in Procs, NEW x, NEW y,
         proc' = [proc EXCEPT ![p].at = "record", ![p].before = x, ![p].merged = y]
  PROVE  /\ Others(p) /\ Moved(proc'[p], proc[p], "record") /\ proc'[p].before = x /\ proc'[p].merged = y
         /\ SameResult(proc'[p], proc[p]) /\ SameSource(proc'[p], proc[p]) /\ SamePool(proc'[p], proc[p])
<1>1. \A inv \in Invocations : LET new == [inv EXCEPT !.at = "record", !.before = x, !.merged = y]
                               IN  /\ Moved(new, inv, "record") /\ new.before = x /\ new.merged = y
                                   /\ SameResult(new, inv) /\ SameSource(new, inv) /\ SamePool(new, inv)
  BY DEF Invocations, Moved, SameResult, SameSource, SamePool
<1>2. proc'[p] = [proc[p] EXCEPT !.at = "record", !.before = x, !.merged = y] /\ Others(p) /\ proc[p] \in Invocations
  BY DEF TypeOK, Others
<1>3. QED
  BY <1>1, <1>2

LEMMA VerdictFacts ==
  ASSUME TypeOK, NEW p \in Procs, NEW x,
         proc' = [proc EXCEPT ![p].at = "decided", ![p].qualified = x]
  PROVE  /\ Others(p) /\ Moved(proc'[p], proc[p], "decided") /\ proc'[p].qualified = x
         /\ SameResult(proc'[p], proc[p]) /\ SameSource(proc'[p], proc[p]) /\ SamePool(proc'[p], proc[p]) /\ SameRecord(proc'[p], proc[p])
<1>1. \A inv \in Invocations : LET new == [inv EXCEPT !.at = "decided", !.qualified = x]
                               IN  /\ Moved(new, inv, "decided") /\ new.qualified = x
                                   /\ SameResult(new, inv) /\ SameSource(new, inv) /\ SamePool(new, inv) /\ SameRecord(new, inv)
  BY DEF Invocations, Moved, SameResult, SameSource, SamePool, SameRecord
<1>2. proc'[p] = [proc[p] EXCEPT !.at = "decided", !.qualified = x] /\ Others(p) /\ proc[p] \in Invocations
  BY DEF TypeOK, Others
<1>3. QED
  BY <1>1, <1>2

LEMMA NewFacts ==
  ASSUME TypeOK, NEW p \in Procs, NEW new, proc' = [proc EXCEPT ![p] = new]
  PROVE  Others(p) /\ proc'[p] = new
  BY DEF TypeOK, Others

(* The result that a case settles with.                                    *)
Outcome(p, passed, verified) == [identity |-> proc[p].identity, passed |-> passed, verified |-> verified]

Settles(p, step, result) == /\ Others(p) /\ Moved(proc'[p], proc[p], step) /\ proc'[p].result = result
                            /\ SameSource(proc'[p], proc[p]) /\ SamePool(proc'[p], proc[p])
                            /\ SameRecord(proc'[p], proc[p])
Goes(p, step) == /\ Others(p) /\ Moved(proc'[p], proc[p], step) /\ SameResult(proc'[p], proc[p])
                 /\ SameSource(proc'[p], proc[p]) /\ SamePool(proc'[p], proc[p])
                 /\ SameRecord(proc'[p], proc[p])
Leaves(p) == Others(p) /\ proc'[p] = Idle
Quiet == UNCHANGED <<current, results, kept, store, lock, spent>>

LEMMA RunCaseEffect ==
  ASSUME TypeOK, NEW p \in Procs, RunCase(p)
  PROVE  /\ At(p, "work") /\ Quiet
         /\ Goes(p, "verify") \/ Settles(p, "results", Outcome(p, FALSE, current.suite))
<1>0. At(p, "work") /\ Quiet
  BY DEF RunCase, Quiet
<1>1. CASE Go(p, "verify")
  BY <1>0, <1>1, MovesFacts DEF Goes
<1>2. CASE Settle(p, FALSE, current.suite)
  <2> DEFINE result == Outcome(p, FALSE, current.suite)
  <2>1. proc' = [proc EXCEPT ![p].at = "results", ![p].result = result]
    BY <1>2 DEF Settle, Outcome
  <2> HIDE DEF result
  <2>2. Settles(p, "results", result)
    BY <2>1, ResultFacts DEF Settles
  <2>3. QED
    BY <1>0, <2>2 DEF result
<1>3. QED
  BY <1>1, <1>2 DEF RunCase

LEMMA RunVerifiersEffect ==
  ASSUME TypeOK, NEW p \in Procs, RunVerifiers(p)
  PROVE  /\ At(p, "verify") /\ InputsStable(p) /\ Quiet
         /\ \E passed \in BOOLEAN : Settles(p, "settle", Outcome(p, passed, current.suite))
<1>1. PICK passed \in BOOLEAN :
        proc' = [proc EXCEPT ![p].at = "settle", ![p].result = Outcome(p, passed, current.suite)]
  BY DEF RunVerifiers, Outcome
<1> DEFINE result == Outcome(p, passed, current.suite)
<1>2. proc' = [proc EXCEPT ![p].at = "settle", ![p].result = result]
  BY <1>1
<1> HIDE DEF result
<1>3. Settles(p, "settle", result)
  BY <1>2, ResultFacts DEF Settles
<1>4. QED
  BY <1>3 DEF result, RunVerifiers, Quiet

LEMMA SettleEffect ==
  ASSUME TypeOK, NEW p \in Procs, NEW passed, NEW verified, Settle(p, passed, verified)
  PROVE  Settles(p, "results", Outcome(p, passed, verified))
<1> DEFINE result == Outcome(p, passed, verified)
<1>1. proc' = [proc EXCEPT ![p].at = "results", ![p].result = result]
  BY DEF Settle, Outcome
<1> HIDE DEF result
<1>2. Settles(p, "results", result)
  BY <1>1, ResultFacts DEF Settles
<1>3. QED
  BY <1>2 DEF result

LEMMA VerifiersUnstableEffect ==
  ASSUME TypeOK, NEW p \in Procs, VerifiersUnstable(p)
  PROVE  At(p, "verify") /\ Quiet /\ Settles(p, "results", Outcome(p, FALSE, current.suite))
  BY SettleEffect DEF VerifiersUnstable, Quiet

LEMMA SettleCaseEffect ==
  ASSUME TypeOK, NEW p \in Procs, SettleCase(p)
  PROVE  /\ At(p, "settle") /\ Quiet
         /\ \E passed \in {proc[p].result.passed, FALSE} :
              Settles(p, "results", Outcome(p, passed, proc[p].result.verified))
  BY SettleEffect DEF SettleCase, Quiet

LEMMA ReadRecordEffect ==
  ASSUME TypeOK, NEW p \in Procs, ReadRecord(p)
  PROVE  /\ At(p, "target") /\ Quiet
         /\ \/ Leaves(p)
            \/ /\ Others(p) /\ Moved(proc'[p], proc[p], "pool") /\ SameRecord(proc'[p], proc[p])
               /\ proc'[p].seen = records[proc[p].identity] /\ records[proc[p].identity] # None
               /\ proc'[p].target = records[proc[p].identity].target
<1>0. At(p, "target") /\ Quiet
  BY DEF ReadRecord, Quiet
<1>1. CASE Leave(p)
  BY <1>0, <1>1, LeaveFacts DEF Leaves
<1>2. CASE ~Leave(p)
  <2> DEFINE saved == records[proc[p].identity]
             target == saved.target
  <2>1. saved # None /\ proc' = [proc EXCEPT ![p].at = "pool", ![p].seen = saved, ![p].target = target]
    BY <1>2 DEF ReadRecord
  <2>2. saved # None
    BY <2>1
  <2> HIDE DEF saved, target
  <2>3. /\ Others(p) /\ Moved(proc'[p], proc[p], "pool") /\ SameRecord(proc'[p], proc[p])
        /\ proc'[p].seen = saved /\ proc'[p].target = target
    BY <2>1, SourceFacts
  <2>4. QED
    BY <1>0, <2>2, <2>3 DEF saved, target
<1>3. QED
  BY <1>1, <1>2

LEMMA ReadPoolEffect ==
  ASSUME TypeOK, NEW p \in Procs, ReadPool(p)
  PROVE  /\ At(p, "pool") /\ Quiet
         /\ \/ Leaves(p)
            \/ /\ PoolReads(proc[p].identity) /\ Retained(p)
               /\ Others(p) /\ Moved(proc'[p], proc[p], "lock") /\ SameSource(proc'[p], proc[p])
               /\ SameRecord(proc'[p], proc[p])
               /\ proc'[p].pool = PoolOf(proc[p].identity) /\ proc'[p].edits = spent.edits
            \/ /\ Unnamed(p)
               /\ Others(p) /\ Moved(proc'[p], proc[p], "decide") /\ SameSource(proc'[p], proc[p])
               /\ proc'[p].pool = {} /\ proc'[p].merged = proc[p].seen /\ proc'[p].edits = spent.edits
<1>0. At(p, "pool") /\ Quiet
  BY DEF ReadPool, Quiet
<1> DEFINE pool == PoolOf(proc[p].identity)
           edits == spent.edits
           seen == proc[p].seen
<1>1. CASE Leave(p)
  BY <1>0, <1>1, LeaveFacts DEF Leaves
<1>2. CASE PoolReads(proc[p].identity) /\ Retained(p)
  <2>1. proc' = [proc EXCEPT ![p].at = "lock", ![p].pool = pool, ![p].edits = edits]
    BY <1>2 DEF ReadPool
  <2> HIDE DEF pool, edits
  <2>2. /\ Others(p) /\ Moved(proc'[p], proc[p], "lock") /\ SameSource(proc'[p], proc[p])
        /\ SameRecord(proc'[p], proc[p]) /\ proc'[p].pool = pool /\ proc'[p].edits = edits
    BY <2>1, PoolFacts
  <2>3. QED
    BY <1>0, <1>2, <2>2 DEF pool, edits
<1>3. CASE ~(PoolReads(proc[p].identity) /\ Retained(p)) /\ Unnamed(p)
  <2>1. proc' = [proc EXCEPT ![p].at = "decide", ![p].pool = {}, ![p].merged = seen, ![p].edits = edits]
    BY <1>3 DEF ReadPool
  <2> HIDE DEF seen, edits
  <2>2. /\ Others(p) /\ Moved(proc'[p], proc[p], "decide") /\ SameSource(proc'[p], proc[p])
        /\ proc'[p].pool = {} /\ proc'[p].merged = seen /\ proc'[p].edits = edits
    BY <2>1, AnswerFacts
  <2>3. QED
    BY <1>0, <1>3, <2>2 DEF seen, edits
<1>4. QED
  BY <1>1, <1>2, <1>3 DEF ReadPool

LEMMA LockStoreEffect ==
  ASSUME TypeOK, NEW p \in Procs, LockStore(p)
  PROVE  /\ At(p, "lock") /\ UNCHANGED <<current, results, kept, store, spent>>
         /\ \/ Leaves(p) /\ UNCHANGED lock
            \/ /\ lock = None /\ lock' = p /\ Bound
               /\ Combines(records[proc[p].identity], proc[p].pool)
               /\ Others(p) /\ Moved(proc'[p], proc[p], "record") /\ SameSource(proc'[p], proc[p])
               /\ SamePool(proc'[p], proc[p]) /\ proc'[p].before = records[proc[p].identity]
               /\ proc'[p].merged = Merge(records[proc[p].identity], proc[p].pool, proc[p].target)
<1>0. At(p, "lock") /\ UNCHANGED <<current, results, kept, store, spent>>
  BY DEF LockStore, Quiet
<1>1. CASE Leave(p) /\ UNCHANGED lock
  BY <1>0, <1>1, LeaveFacts DEF Leaves
<1>2. CASE ~(Leave(p) /\ UNCHANGED lock)
  <2> DEFINE old == records[proc[p].identity]
             merged == Merge(records[proc[p].identity], proc[p].pool, proc[p].target)
  <2>1. /\ lock = None /\ lock' = p /\ Bound /\ Combines(old, proc[p].pool)
        /\ proc' = [proc EXCEPT ![p].at = "record", ![p].before = old, ![p].merged = merged]
    BY <1>2 DEF LockStore
  <2> HIDE DEF old, merged
  <2>2. /\ Others(p) /\ Moved(proc'[p], proc[p], "record") /\ SameSource(proc'[p], proc[p])
        /\ SamePool(proc'[p], proc[p]) /\ proc'[p].before = old /\ proc'[p].merged = merged
    BY <2>1, RecordFacts
  <2>3. QED
    BY <1>0, <2>1, <2>2 DEF old, merged
<1>3. QED
  BY <1>1, <1>2

LEMMA DecideEffect ==
  ASSUME TypeOK, NEW p \in Procs, Decide(p)
  PROVE  At(p, "decide") /\ Quiet /\ Goes(p, "decided")
<1> DEFINE verdict == RecordStatus(proc[p].merged) = "qualified"
<1>1. proc' = [proc EXCEPT ![p].at = "decided", ![p].qualified = verdict]
  BY DEF Decide
<1> HIDE DEF verdict
<1>2. QED
  BY <1>1, VerdictFacts DEF Goes, Decide, Quiet

LEMMA RunBenchmarkEffect ==
  ASSUME TypeOK, NEW p \in Procs, RunBenchmark(p)
  PROVE  /\ At(p, "idle") /\ UNCHANGED <<current, results, kept, store, lock>>
         /\ spent.runs < MaxRuns /\ Spend("runs")
         /\ Others(p) /\ proc'[p].at = "work" /\ proc'[p].task = "bench"
         /\ proc'[p].run = spent.runs + 1 /\ proc'[p].identity = current
<1>1. /\ proc'[p] = [Idle EXCEPT !.at = "work", !.task = "bench", !.run = spent.runs + 1, !.identity = current]
      /\ Others(p)
  BY NewFacts DEF RunBenchmark
<1>2. At(p, "idle") /\ UNCHANGED <<current, results, kept, store, lock>> /\ spent.runs < MaxRuns /\ Spend("runs")
  BY DEF RunBenchmark, Start
<1>3. /\ proc'[p].at = "work"
      /\ proc'[p].task = "bench"
      /\ proc'[p].run = spent.runs + 1
      /\ proc'[p].identity = current
  BY <1>1 DEF Idle
<1>4. QED
  BY <1>1, <1>2, <1>3

LEMMA AssessEffect ==
  ASSUME TypeOK, NEW p \in Procs, AssessQualification(p)
  PROVE  /\ At(p, "idle") /\ UNCHANGED <<current, results, kept, store, lock>> /\ Spend("starts")
         /\ Others(p) /\ proc'[p].at = "target" /\ proc'[p].task = "assess" /\ proc'[p].identity = current
<1>1. proc'[p] = [Idle EXCEPT !.at = "target", !.task = "assess", !.identity = current] /\ Others(p)
  BY NewFacts DEF AssessQualification
<1>2. At(p, "idle") /\ UNCHANGED <<current, results, kept, store, lock>> /\ Spend("starts")
  BY DEF AssessQualification, Start
<1>3. /\ proc'[p].at = "target"
      /\ proc'[p].task = "assess"
      /\ proc'[p].identity = current
  BY <1>1 DEF Idle
<1>4. QED
  BY <1>1, <1>2, <1>3

LEMMA QualifyEffect ==
  ASSUME TypeOK, NEW p \in Procs, NEW r \in Runs, NEW t \in Targets, NEW worker \in BOOLEAN,
         QualifyBenchmark(p, r, t, worker)
  PROVE  /\ At(p, "idle") /\ UNCHANGED <<current, results, kept, store, lock>> /\ Spend("starts")
         /\ results[r] # None /\ Others(p) /\ proc'[p].at = "pool" /\ proc'[p].task = "qualify"
         /\ proc'[p].target = t /\ proc'[p].identity = results[r].identity /\ proc'[p].seen = None
<1>1. /\ proc'[p] = [Idle EXCEPT !.at = "pool", !.task = "qualify", !.target = t,
                                 !.identity = results[r].identity, !.worker = worker]
      /\ Others(p)
  BY NewFacts DEF QualifyBenchmark
<1>2. At(p, "idle") /\ UNCHANGED <<current, results, kept, store, lock>> /\ Spend("starts") /\ results[r] # None
  BY DEF QualifyBenchmark, Start
<1>3. /\ proc'[p].at = "pool"
      /\ proc'[p].task = "qualify"
      /\ proc'[p].target = t
      /\ proc'[p].identity = results[r].identity
      /\ proc'[p].seen = None
  BY <1>1 DEF Idle
<1>4. QED
  BY <1>1, <1>2, <1>3

LEMMA RescoreEffect ==
  ASSUME TypeOK, NEW p \in Procs, NEW i \in Identities, NEW t \in Targets, RescoreBenchmark(p, i, t)
  PROVE  /\ At(p, "idle") /\ UNCHANGED <<current, results, kept, store, lock>> /\ Spend("starts")
         /\ records[i] # None /\ Others(p) /\ proc'[p].at = "lock" /\ proc'[p].task = "rescore"
         /\ proc'[p].target = t /\ proc'[p].identity = i /\ proc'[p].pool = records[i].runs
<1>1. /\ proc'[p] = [Idle EXCEPT !.at = "lock", !.task = "rescore", !.identity = i,
                                 !.target = t, !.pool = records[i].runs]
      /\ Others(p)
  BY NewFacts DEF RescoreBenchmark
<1>2. At(p, "idle") /\ UNCHANGED <<current, results, kept, store, lock>> /\ Spend("starts") /\ records[i] # None
  BY DEF RescoreBenchmark, Start
<1>3. /\ proc'[p].at = "lock"
      /\ proc'[p].task = "rescore"
      /\ proc'[p].target = t
      /\ proc'[p].identity = i
      /\ proc'[p].pool = records[i].runs
  BY <1>1 DEF Idle
<1>4. QED
  BY <1>1, <1>2, <1>3

LEMMA CrashEffect ==
  ASSUME TypeOK, NEW p \in Procs, Crash(p)
  PROVE  /\ proc[p].at \notin {"idle", "crashed"} /\ UNCHANGED <<current, results, kept, store, lock>>
         /\ Others(p) /\ proc'[p].at = "crashed"
         /\ spent' = [spent EXCEPT !.faults = @ + 1, !.torn = @ \/ At(p, "refs")]
<1>1. Others(p) /\ proc'[p] = [Idle EXCEPT !.at = "crashed"]
  BY NewFacts DEF Crash
<1>2. /\ proc[p].at \notin {"idle", "crashed"} /\ UNCHANGED <<current, results, kept, store, lock>>
      /\ spent' = [spent EXCEPT !.faults = @ + 1, !.torn = @ \/ At(p, "refs")]
  BY DEF Crash
<1>3. proc'[p].at = "crashed"
  BY <1>1 DEF Idle
<1>4. QED
  BY <1>1, <1>2, <1>3

LEMMA LeaveEffect ==
  ASSUME TypeOK, NEW p \in Procs, WriteIndex(p) \/ FailWrite(p) \/ RemoveLock(p) \/ Dispatch(p)
  PROVE  Leaves(p)
  BY LeaveFacts DEF WriteIndex, FailWrite, RemoveLock, Dispatch, Leaves

LEMMA LockIndexEffect ==
  ASSUME TypeOK, NEW p \in Procs, LockIndex(p)
  PROVE  /\ At(p, "register") /\ UNCHANGED <<current, results, kept, store, spent>>
         /\ \/ Leaves(p) /\ UNCHANGED lock
            \/ lock = None /\ lock' = p /\ Goes(p, "index")
  BY LeaveFacts, MovesFacts DEF LockIndex, Leaves, Goes

LEMMA WriteResultsEffect ==
  ASSUME TypeOK, NEW p \in Procs, WriteResults(p)
  PROVE  /\ At(p, "results") /\ UNCHANGED <<current, kept, store, lock, spent>>
         /\ results' = [results EXCEPT ![proc[p].run] = proc[p].result]
         /\ Goes(p, "register")
  BY MovesFacts DEF WriteResults, Goes

LEMMA WriteRecordEffect ==
  ASSUME TypeOK, NEW p \in Procs, WriteRecord(p)
  PROVE  /\ At(p, "record") /\ UNCHANGED <<current, results, kept, index, refs, lock, spent>>
         /\ records' = [records EXCEPT ![proc[p].identity] = proc[p].merged]
         /\ Goes(p, "refs")
  BY MovesFacts DEF WriteRecord, Goes

LEMMA WriteRefsEffect ==
  ASSUME TypeOK, NEW p \in Procs, WriteRefs(p)
  PROVE  /\ At(p, "refs") /\ UNCHANGED <<current, results, kept, index, records, spent>> /\ Unlock(p)
         /\ refs' = IF Associates(p) THEN [refs EXCEPT ![proc[p].identity] = proc[p].merged] ELSE refs
         /\ IF proc[p].task = "assess" THEN Goes(p, "decide") ELSE Leaves(p)
  BY LeaveFacts, MovesFacts DEF WriteRefs, Goes, Leaves

-----------------------------------------------------------------------------
(* Each part is kept by every step                                         *)

LEMMA WriterStep ==
  ASSUME TypeOK, WriterInvariant, [Next]_vars
  PROVE  WriterInvariant'
<1> USE NoneAssumption DEF At, WriterInvariant, Writing, Others, store
<1>1. ASSUME NEW p \in Procs, RunBenchmark(p) PROVE WriterInvariant'
  BY <1>1, RunBenchmarkEffect
<1>2. ASSUME NEW p \in Procs, RunCase(p) PROVE WriterInvariant'
  BY <1>2, RunCaseEffect
  DEF Quiet, Goes, Settles, Moved
<1>3. ASSUME NEW p \in Procs, RunVerifiers(p) PROVE WriterInvariant'
  BY <1>3, RunVerifiersEffect
  DEF Quiet, Settles, Moved
<1>4. ASSUME NEW p \in Procs, VerifiersUnstable(p) PROVE WriterInvariant'
  BY <1>4, VerifiersUnstableEffect
  DEF Quiet, Settles, Moved
<1>5. ASSUME NEW p \in Procs, SettleCase(p) PROVE WriterInvariant'
  BY <1>5, SettleCaseEffect
  DEF Quiet, Settles, Moved
<1>6. ASSUME NEW p \in Procs, WriteResults(p) PROVE WriterInvariant'
  BY <1>6, WriteResultsEffect
  DEF Goes, Moved
<1>7. ASSUME NEW p \in Procs, LockIndex(p) PROVE WriterInvariant'
  BY <1>7, LockIndexEffect
  DEF Leaves, Goes, Idle, Moved
<1>8. ASSUME NEW p \in Procs, WriteIndex(p) PROVE WriterInvariant'
  BY <1>8, LeaveEffect
  DEF WriteIndex, Leaves, Unlock, Idle
<1>9. ASSUME NEW p \in Procs, AssessQualification(p) PROVE WriterInvariant'
  BY <1>9, AssessEffect
<1>10. ASSUME NEW p \in Procs, ReadRecord(p) PROVE WriterInvariant'
  BY <1>10, ReadRecordEffect
  DEF Quiet, Leaves, Idle, Moved
<1>11. ASSUME NEW p \in Procs, ReadPool(p) PROVE WriterInvariant'
  BY <1>11, ReadPoolEffect
  DEF Quiet, Leaves, Idle, Moved
<1>12. ASSUME NEW p \in Procs, LockStore(p) PROVE WriterInvariant'
  BY <1>12, LockStoreEffect
  DEF Leaves, Idle, Moved
<1>13. ASSUME NEW p \in Procs, WriteRecord(p) PROVE WriterInvariant'
  BY <1>13, WriteRecordEffect
  DEF Goes, Moved
<1>14. ASSUME NEW p \in Procs, WriteRefs(p) PROVE WriterInvariant'
  BY <1>14, WriteRefsEffect
  DEF Unlock, Goes, Leaves, Idle, Moved
<1>15. ASSUME NEW p \in Procs, Decide(p) PROVE WriterInvariant'
  BY <1>15, DecideEffect
  DEF Quiet, Goes, Moved
<1>16. ASSUME NEW p \in Procs, Dispatch(p) PROVE WriterInvariant'
  BY <1>16, LeaveEffect
  DEF Dispatch, Leaves, Idle
<1>17. ASSUME NEW p \in Procs, FailWrite(p) PROVE WriterInvariant'
  BY <1>17, LeaveEffect
  DEF FailWrite, Leaves, Unlock, Idle
<1>18. ASSUME NEW p \in Procs, Crash(p) PROVE WriterInvariant'
  BY <1>18, CrashEffect
<1>19. ASSUME NEW p \in Procs, RemoveLock(p) PROVE WriterInvariant'
  BY <1>19, LeaveEffect
  DEF RemoveLock, Leaves, Unlock, Idle
<1>20. ASSUME NEW p \in Procs, NEW r \in Runs, NEW t \in Targets, NEW worker \in BOOLEAN, QualifyBenchmark(p, r, t, worker)
      PROVE  WriterInvariant'
  BY <1>20, QualifyEffect
<1>21. ASSUME NEW p \in Procs, NEW i \in Identities, NEW t \in Targets, RescoreBenchmark(p, i, t)
      PROVE  WriterInvariant'
  BY <1>21, RescoreEffect
<1>22. ASSUME EditConfig \/ EditSuite PROVE WriterInvariant'
  BY <1>22
  DEF EditConfig, EditSuite, Edit
<1>23. ASSUME NEW r \in Runs, NEW how \in {"changed", "deleted"}, LoseResult(r, how)
      PROVE  WriterInvariant'
  BY <1>23
  DEF LoseResult, Edit
<1>24. ASSUME UNCHANGED vars PROVE WriterInvariant'
  BY <1>24
  DEF vars
<1>25. QED
  BY <1>1, <1>2, <1>3, <1>4, <1>5, <1>6, <1>7, <1>8, <1>9, <1>10, <1>11, <1>12, <1>13, <1>14,
     <1>15, <1>16, <1>17, <1>18, <1>19, <1>20, <1>21, <1>22, <1>23, <1>24 DEF Next, Continue

LEMMA CarriedByOthers ==
  ASSUME CarriedInvariant, NEW p \in Procs, Carries(proc'[p]), Others(p)
  PROVE  CarriedInvariant'
  BY DEF CarriedInvariant, Others

LEMMA CarriedStep ==
  ASSUME TypeOK, CarriedInvariant, [Next]_vars
  PROVE  CarriedInvariant'
<1>1. ASSUME NEW p \in Procs, RunBenchmark(p) PROVE CarriedInvariant'
  <2>1. Carries(proc[p])
    BY DEF CarriedInvariant
  <2>2. spent.runs < MaxRuns /\ spent.runs + 1 \in Runs /\ current \in Identities
    BY <1>1, RunBenchmarkEffect, BoundsAssumption DEF TypeOK, Runs
  <2>9. Carries(proc'[p]) /\ Others(p)
    BY <1>1, <2>1, <2>2, RunBenchmarkEffect
    DEF Carries, Measuring, Scoring, At
  <2>10. QED
    BY <2>9, CarriedByOthers
<1>2. ASSUME NEW p \in Procs, RunCase(p) PROVE CarriedInvariant'
  <2>1. Carries(proc[p])
    BY DEF CarriedInvariant
  <2>2. proc[p].identity \in Identities /\ current.suite \in Versions
    BY <1>2, <2>1, RunCaseEffect DEF TypeOK, Identities, Carries, Measuring, At
  <2>3. \A passed \in BOOLEAN : Outcome(p, passed, current.suite) \in Results
    BY <2>2 DEF Outcome, Results
  <2>9. Carries(proc'[p]) /\ Others(p)
    BY <1>2, <2>1, <2>3, RunCaseEffect
    DEF Carries, Measuring, Scoring, At, Goes, Settles, Moved, SameResult, SameSource, SameRecord
  <2>10. QED
    BY <2>9, CarriedByOthers
<1>3. ASSUME NEW p \in Procs, RunVerifiers(p) PROVE CarriedInvariant'
  <2>1. Carries(proc[p])
    BY DEF CarriedInvariant
  <2>2. proc[p].identity \in Identities /\ current.suite \in Versions
    BY <1>3, <2>1, RunVerifiersEffect DEF TypeOK, Identities, Carries, Measuring, At
  <2>3. \A passed \in BOOLEAN : Outcome(p, passed, current.suite) \in Results
    BY <2>2 DEF Outcome, Results
  <2>9. Carries(proc'[p]) /\ Others(p)
    BY <1>3, <2>1, <2>3, RunVerifiersEffect
    DEF Carries, Measuring, Scoring, At, Goes, Settles, Moved, SameResult, SameSource, SameRecord
  <2>10. QED
    BY <2>9, CarriedByOthers
<1>4. ASSUME NEW p \in Procs, VerifiersUnstable(p) PROVE CarriedInvariant'
  <2>1. Carries(proc[p])
    BY DEF CarriedInvariant
  <2>2. proc[p].identity \in Identities /\ current.suite \in Versions
    BY <1>4, <2>1, VerifiersUnstableEffect DEF TypeOK, Identities, Carries, Measuring, At
  <2>3. \A passed \in BOOLEAN : Outcome(p, passed, current.suite) \in Results
    BY <2>2 DEF Outcome, Results
  <2>9. Carries(proc'[p]) /\ Others(p)
    BY <1>4, <2>1, <2>3, VerifiersUnstableEffect
    DEF Carries, Measuring, Scoring, At, Goes, Settles, Moved, SameResult, SameSource, SameRecord
  <2>10. QED
    BY <2>9, CarriedByOthers
<1>5. ASSUME NEW p \in Procs, SettleCase(p) PROVE CarriedInvariant'
  <2>1. Carries(proc[p])
    BY DEF CarriedInvariant
  <2>2. proc[p].identity \in Identities /\ proc[p].result \in Results
    BY <1>5, <2>1, SettleCaseEffect DEF Carries, Measuring, At
  <2>3. \A passed \in {proc[p].result.passed, FALSE} : Outcome(p, passed, proc[p].result.verified) \in Results
    BY <2>2 DEF Outcome, Results
  <2>9. Carries(proc'[p]) /\ Others(p)
    BY <1>5, <2>1, <2>3, SettleCaseEffect
    DEF Carries, Measuring, Scoring, At, Goes, Settles, Moved, SameResult, SameSource, SameRecord
  <2>10. QED
    BY <2>9, CarriedByOthers
<1>6. ASSUME NEW p \in Procs, WriteResults(p) PROVE CarriedInvariant'
  <2>1. Carries(proc[p])
    BY DEF CarriedInvariant
  <2>9. Carries(proc'[p]) /\ Others(p)
    BY <1>6, <2>1, WriteResultsEffect
    DEF Carries, Measuring, Scoring, At, Goes, Settles, Moved, SameResult, SameSource, SameRecord
  <2>10. QED
    BY <2>9, CarriedByOthers
<1>7. ASSUME NEW p \in Procs, LockIndex(p) PROVE CarriedInvariant'
  <2>1. Carries(proc[p])
    BY DEF CarriedInvariant
  <2>9. Carries(proc'[p]) /\ Others(p)
    BY <1>7, <2>1, LockIndexEffect
    DEF Carries, Measuring, Scoring, At, Goes, Settles, Moved, SameResult, SameSource, SameRecord, Leaves, Idle
  <2>10. QED
    BY <2>9, CarriedByOthers
<1>8. ASSUME NEW p \in Procs, WriteIndex(p) PROVE CarriedInvariant'
  <2>1. Carries(proc[p])
    BY DEF CarriedInvariant
  <2>9. Carries(proc'[p]) /\ Others(p)
    BY <1>8, <2>1, LeaveEffect
    DEF Carries, Measuring, Scoring, At, Leaves, Idle
  <2>10. QED
    BY <2>9, CarriedByOthers
<1>9. ASSUME NEW p \in Procs, AssessQualification(p) PROVE CarriedInvariant'
  <2>1. Carries(proc[p])
    BY DEF CarriedInvariant
  <2>9. Carries(proc'[p]) /\ Others(p)
    BY <1>9, <2>1, AssessEffect
    DEF Carries, Measuring, Scoring, At, TypeOK
  <2>10. QED
    BY <2>9, CarriedByOthers
<1>10. ASSUME NEW p \in Procs, ReadRecord(p) PROVE CarriedInvariant'
  <2>1. Carries(proc[p])
    BY DEF CarriedInvariant
  <2>2. records[proc[p].identity] # None => /\ records[proc[p].identity] \in Records
                                            /\ records[proc[p].identity].target \in Targets
    BY <1>10, <2>1, ReadRecordEffect DEF Carries, Scoring, TypeOK, Records, At
  <2>9. Carries(proc'[p]) /\ Others(p)
    BY <1>10, <2>1, <2>2, ReadRecordEffect
    DEF Carries, Measuring, Scoring, At, Goes, Settles, Moved, SameResult, SameSource, SameRecord, Leaves, Idle
  <2>10. QED
    BY <2>9, CarriedByOthers
<1>11. ASSUME NEW p \in Procs, ReadPool(p) PROVE CarriedInvariant'
  <2>1. Carries(proc[p])
    BY DEF CarriedInvariant
  <2>9. Carries(proc'[p]) /\ Others(p)
    BY <1>11, <2>1, ReadPoolEffect
    DEF Unnamed, Carries, Measuring, Scoring, At, Goes, Settles, Moved, SameResult, SameSource, SameRecord, Leaves, Idle
  <2>10. QED
    BY <2>9, CarriedByOthers
<1>12. ASSUME NEW p \in Procs, LockStore(p) PROVE CarriedInvariant'
  <2>1. Carries(proc[p])
    BY DEF CarriedInvariant
  <2>2. Leaves(p) \/ Merge(records[proc[p].identity], proc[p].pool, proc[p].target) \in Records
    <3>1. records[proc[p].identity] \in Records \cup {None} /\ proc[p].target \in Targets
      BY <1>12, <2>1, LockStoreEffect DEF Carries, Scoring, TypeOK, At
    <3>2. proc[p].pool \in SUBSET Runs
      BY DEF TypeOK, Invocations
    <3>3. Leaves(p) \/ Combines(records[proc[p].identity], proc[p].pool)
      BY <1>12, LockStoreEffect
    <3>4. QED
      BY <3>1, <3>2, <3>3, MergeType
  <2>9. Carries(proc'[p]) /\ Others(p)
    BY <1>12, <2>1, <2>2, LockStoreEffect
    DEF Carries, Measuring, Scoring, At, Goes, Settles, Moved, SameResult, SameSource, SameRecord, Leaves, Idle
  <2>10. QED
    BY <2>9, CarriedByOthers
<1>13. ASSUME NEW p \in Procs, WriteRecord(p) PROVE CarriedInvariant'
  <2>1. Carries(proc[p])
    BY DEF CarriedInvariant
  <2>9. Carries(proc'[p]) /\ Others(p)
    BY <1>13, <2>1, WriteRecordEffect
    DEF Carries, Measuring, Scoring, At, Goes, Settles, Moved, SameResult, SameSource, SameRecord
  <2>10. QED
    BY <2>9, CarriedByOthers
<1>14. ASSUME NEW p \in Procs, WriteRefs(p) PROVE CarriedInvariant'
  <2>1. Carries(proc[p])
    BY DEF CarriedInvariant
  <2>9. Carries(proc'[p]) /\ Others(p)
    BY <1>14, <2>1, WriteRefsEffect
    DEF Carries, Measuring, Scoring, At, Goes, Settles, Moved, SameResult, SameSource, SameRecord, Leaves, Idle
  <2>10. QED
    BY <2>9, CarriedByOthers
<1>15. ASSUME NEW p \in Procs, Decide(p) PROVE CarriedInvariant'
  <2>1. Carries(proc[p])
    BY DEF CarriedInvariant
  <2>9. Carries(proc'[p]) /\ Others(p)
    BY <1>15, <2>1, DecideEffect
    DEF Carries, Measuring, Scoring, At, Goes, Settles, Moved, SameResult, SameSource, SameRecord
  <2>10. QED
    BY <2>9, CarriedByOthers
<1>16. ASSUME NEW p \in Procs, Dispatch(p) PROVE CarriedInvariant'
  <2>1. Carries(proc[p])
    BY DEF CarriedInvariant
  <2>9. Carries(proc'[p]) /\ Others(p)
    BY <1>16, <2>1, LeaveEffect
    DEF Carries, Measuring, Scoring, At, Leaves, Idle
  <2>10. QED
    BY <2>9, CarriedByOthers
<1>17. ASSUME NEW p \in Procs, FailWrite(p) PROVE CarriedInvariant'
  <2>1. Carries(proc[p])
    BY DEF CarriedInvariant
  <2>9. Carries(proc'[p]) /\ Others(p)
    BY <1>17, <2>1, LeaveEffect
    DEF Carries, Measuring, Scoring, At, Leaves, Idle
  <2>10. QED
    BY <2>9, CarriedByOthers
<1>18. ASSUME NEW p \in Procs, Crash(p) PROVE CarriedInvariant'
  <2>1. Carries(proc[p])
    BY DEF CarriedInvariant
  <2>9. Carries(proc'[p]) /\ Others(p)
    BY <1>18, <2>1, CrashEffect
    DEF Carries, Measuring, Scoring, At
  <2>10. QED
    BY <2>9, CarriedByOthers
<1>19. ASSUME NEW p \in Procs, RemoveLock(p) PROVE CarriedInvariant'
  <2>1. Carries(proc[p])
    BY DEF CarriedInvariant
  <2>9. Carries(proc'[p]) /\ Others(p)
    BY <1>19, <2>1, LeaveEffect
    DEF Carries, Measuring, Scoring, At, Leaves, Idle
  <2>10. QED
    BY <2>9, CarriedByOthers
<1>20. ASSUME NEW p \in Procs, NEW r \in Runs, NEW t \in Targets, NEW worker \in BOOLEAN, QualifyBenchmark(p, r, t, worker)
      PROVE  CarriedInvariant'
  <2>1. Carries(proc[p])
    BY DEF CarriedInvariant
  <2>2. results[r] # None => results[r].identity \in Identities
    BY DEF TypeOK, Results
  <2>9. Carries(proc'[p]) /\ Others(p)
    BY <1>20, <2>1, <2>2, QualifyEffect
    DEF Carries, Measuring, Scoring, At
  <2>10. QED
    BY <2>9, CarriedByOthers
<1>21. ASSUME NEW p \in Procs, NEW i \in Identities, NEW t \in Targets, RescoreBenchmark(p, i, t)
      PROVE  CarriedInvariant'
  <2>1. Carries(proc[p])
    BY DEF CarriedInvariant
  <2>9. Carries(proc'[p]) /\ Others(p)
    BY <1>21, <2>1, RescoreEffect
    DEF Carries, Measuring, Scoring, At
  <2>10. QED
    BY <2>9, CarriedByOthers
<1>22. ASSUME EditConfig \/ EditSuite PROVE CarriedInvariant'
  BY <1>22 DEF EditConfig, EditSuite, CarriedInvariant
<1>23. ASSUME NEW r \in Runs, NEW how \in {"changed", "deleted"}, LoseResult(r, how)
      PROVE  CarriedInvariant'
  BY <1>23 DEF LoseResult, CarriedInvariant
<1>24. ASSUME UNCHANGED vars PROVE CarriedInvariant'
  BY <1>24 DEF vars, CarriedInvariant
<1>25. QED
  BY <1>1, <1>2, <1>3, <1>4, <1>5, <1>6, <1>7, <1>8, <1>9, <1>10, <1>11, <1>12, <1>13, <1>14,
     <1>15, <1>16, <1>17, <1>18, <1>19, <1>20, <1>21, <1>22, <1>23, <1>24 DEF Next, Continue

-----------------------------------------------------------------------------
(* The store                                                               *)

Stores == {"record", "refs"}

(* A step that leaves the records, the associations and their writers.     *)
Aside == /\ UNCHANGED <<records, refs>> /\ spent'.torn = spent.torn
         /\ \A p \in Procs : proc'[p] = proc[p] \/ (proc[p].at \notin Stores /\ proc'[p].at \notin Stores)

LEMMA AsideFacts ==
  ASSUME TypeOK, [Next]_vars
  PROVE  \/ Aside
         \/ \E p \in Procs : \/ LockStore(p) /\ At(p, "lock") /\ lock = None /\ lock' = p
                             \/ WriteRecord(p) \/ WriteRefs(p) \/ FailWrite(p)
                             \/ Crash(p) /\ proc[p].at \in Stores
<1> SUFFICES ASSUME ~\E p \in Procs : \/ LockStore(p) /\ At(p, "lock") /\ lock = None /\ lock' = p
                                      \/ WriteRecord(p) \/ WriteRefs(p) \/ FailWrite(p)
                                      \/ Crash(p) /\ proc[p].at \in Stores
             PROVE  Aside
  OBVIOUS
<1> USE DEF Aside, Stores, At, Others, store
<1>1. ASSUME NEW p \in Procs, RunBenchmark(p) PROVE Aside
  BY <1>1, RunBenchmarkEffect, SpendFacts
<1>2. ASSUME NEW p \in Procs, RunCase(p) PROVE Aside
  BY <1>2, RunCaseEffect
  DEF Quiet, Goes, Settles, Moved
<1>3. ASSUME NEW p \in Procs, RunVerifiers(p) PROVE Aside
  BY <1>3, RunVerifiersEffect
  DEF Quiet, Settles, Moved
<1>4. ASSUME NEW p \in Procs, VerifiersUnstable(p) PROVE Aside
  BY <1>4, VerifiersUnstableEffect
  DEF Quiet, Settles, Moved
<1>5. ASSUME NEW p \in Procs, SettleCase(p) PROVE Aside
  BY <1>5, SettleCaseEffect
  DEF Quiet, Settles, Moved
<1>6. ASSUME NEW p \in Procs, WriteResults(p) PROVE Aside
  BY <1>6, WriteResultsEffect
  DEF Goes, Moved
<1>7. ASSUME NEW p \in Procs, LockIndex(p) PROVE Aside
  BY <1>7, LockIndexEffect
  DEF Leaves, Goes, Idle, Moved
<1>8. ASSUME NEW p \in Procs, WriteIndex(p) PROVE Aside
  BY <1>8, LeaveEffect
  DEF WriteIndex, Leaves, Unlock, Idle
<1>9. ASSUME NEW p \in Procs, AssessQualification(p) PROVE Aside
  BY <1>9, AssessEffect, SpendFacts
<1>10. ASSUME NEW p \in Procs, ReadRecord(p) PROVE Aside
  BY <1>10, ReadRecordEffect
  DEF Quiet, Leaves, Idle, Moved
<1>11. ASSUME NEW p \in Procs, ReadPool(p) PROVE Aside
  BY <1>11, ReadPoolEffect
  DEF Quiet, Leaves, Idle, Moved
<1>12. ASSUME NEW p \in Procs, LockStore(p) PROVE Aside
  BY <1>12, LockStoreEffect
  DEF Leaves, Idle, Moved
<1>13. ASSUME NEW p \in Procs, WriteRecord(p) PROVE Aside
  BY <1>13
<1>14. ASSUME NEW p \in Procs, WriteRefs(p) PROVE Aside
  BY <1>14
<1>15. ASSUME NEW p \in Procs, Decide(p) PROVE Aside
  BY <1>15, DecideEffect
  DEF Quiet, Goes, Moved
<1>16. ASSUME NEW p \in Procs, Dispatch(p) PROVE Aside
  BY <1>16, LeaveEffect
  DEF Dispatch, Leaves, Idle
<1>17. ASSUME NEW p \in Procs, FailWrite(p) PROVE Aside
  BY <1>17
<1>18. ASSUME NEW p \in Procs, Crash(p) PROVE Aside
  <2>1. proc[p].at \notin Stores
    BY <1>18
  <2>2. spent'.torn = spent.torn
    <3>1. spent'.torn = (spent.torn \/ At(p, "refs")) /\ spent.torn \in BOOLEAN
      BY <1>18, CrashEffect DEF TypeOK
    <3>2. ~At(p, "refs")
      BY <2>1
    <3> HIDE DEF At
    <3>3. QED
      BY <3>1, <3>2
  <2>3. QED
    BY <1>18, <2>1, <2>2, CrashEffect
<1>19. ASSUME NEW p \in Procs, RemoveLock(p) PROVE Aside
  BY <1>19, LeaveEffect
  DEF RemoveLock, Leaves, Unlock, Idle
<1>20. ASSUME NEW p \in Procs, NEW r \in Runs, NEW t \in Targets, NEW worker \in BOOLEAN, QualifyBenchmark(p, r, t, worker)
      PROVE  Aside
  BY <1>20, QualifyEffect, SpendFacts
<1>21. ASSUME NEW p \in Procs, NEW i \in Identities, NEW t \in Targets, RescoreBenchmark(p, i, t)
      PROVE  Aside
  BY <1>21, RescoreEffect, SpendFacts
<1>22. ASSUME EditConfig \/ EditSuite PROVE Aside
  BY <1>22, SpendFacts
  DEF EditConfig, EditSuite, Edit
<1>23. ASSUME NEW r \in Runs, NEW how \in {"changed", "deleted"}, LoseResult(r, how)
      PROVE  Aside
  BY <1>23, SpendFacts
  DEF LoseResult, Edit
<1>24. ASSUME UNCHANGED vars PROVE Aside
  BY <1>24
  DEF vars
<1>25. QED
  BY <1>1, <1>2, <1>3, <1>4, <1>5, <1>6, <1>7, <1>8, <1>9, <1>10, <1>11, <1>12, <1>13, <1>14,
     <1>15, <1>16, <1>17, <1>18, <1>19, <1>20, <1>21, <1>22, <1>23, <1>24 DEF Next, Continue

LEMMA FailWriteEffect ==
  ASSUME TypeOK, NEW p \in Procs, FailWrite(p)
  PROVE  /\ proc[p].at \in Stores /\ Leaves(p) /\ UNCHANGED <<current, results, kept, index, refs>>
         /\ spent'.runs = spent.runs /\ spent'.edits = spent.edits
         /\ \/ records' = [records EXCEPT ![proc[p].identity] = proc[p].before] /\ spent'.torn = spent.torn
            \/ At(p, "refs") /\ UNCHANGED records /\ spent'.torn
<1>1. proc[p].at \in Stores /\ Leaves(p) /\ UNCHANGED <<current, results, kept, index, refs>>
  BY LeaveEffect DEF FailWrite, Stores, At
<1>2. CASE records' = [records EXCEPT ![proc[p].identity] = proc[p].before] /\ Spend("faults")
  BY <1>1, <1>2, SpendFacts
<1>3. CASE At(p, "refs") /\ UNCHANGED records /\ spent' = [spent EXCEPT !.faults = @ + 1, !.torn = TRUE]
  BY <1>1, <1>3 DEF TypeOK
<1>4. QED
  BY <1>2, <1>3 DEF FailWrite

(* Nobody else writes the store while someone does.                        *)
LEMMA OneWriter ==
  ASSUME WriterInvariant, NEW p \in Procs, NEW q \in Procs, proc[p].at \in Writing, proc[q].at \in Writing
  PROVE  p = q
  BY DEF WriterInvariant

(* The store at every step of its writer.                                  *)
LEMMA StoreStep ==
  ASSUME TypeOK, WriterInvariant, CarriedInvariant, StoreInvariant, [Next]_vars
  PROVE  StoreInvariant'
<1> USE DEF Stores, At, Others
<1>1. CASE Aside
  BY <1>1 DEF Aside, StoreInvariant, Bound
<1>2. ASSUME NEW p \in Procs, LockStore(p), At(p, "lock"), lock = None, lock' = p PROVE StoreInvariant'
  <2>1. /\ Bound /\ UNCHANGED <<records, refs, spent>> /\ Others(p) /\ proc'[p].at = "record"
        /\ proc'[p].before = records[proc'[p].identity]
        /\ proc'[p].merged = Merge(proc'[p].before, proc'[p].pool, proc'[p].target)
    BY <1>2, LockStoreEffect, NoneAssumption DEF store, Moved, SameSource, SamePool
  <2>2. \A q \in Procs \ {p} : proc'[q].at \notin Stores
    BY <1>2, <2>1, NoneAssumption DEF WriterInvariant, Writing
  <2>3. QED
    BY <2>1, <2>2 DEF StoreInvariant, Bound
<1>3. ASSUME NEW p \in Procs, WriteRecord(p) PROVE StoreInvariant'
  <2> DEFINE i == proc[p].identity
  <2>1. /\ proc[p].at = "record" /\ Others(p) /\ proc'[p].at = "refs" /\ UNCHANGED <<refs, spent>>
        /\ records' = [records EXCEPT ![i] = proc[p].merged]
        /\ proc'[p].identity = i /\ proc'[p].before = proc[p].before /\ proc'[p].merged = proc[p].merged
        /\ proc'[p].pool = proc[p].pool /\ proc'[p].target = proc[p].target
    BY <1>3, WriteRecordEffect DEF Goes, Moved, SameRecord, SamePool, SameSource
  <2>2. i \in Identities /\ i \in DOMAIN records
    BY <2>1 DEF CarriedInvariant, Carries, Scoring, TypeOK
  <2>3. \A q \in Procs \ {p} : proc'[q].at \notin Stores
    BY <2>1, OneWriter DEF Writing
  <2>4. /\ records'[i] = proc[p].merged
        /\ \A j \in Identities \ {i} : records'[j] = records[j]
    BY <2>1, <2>2 DEF TypeOK
  <2>5. /\ proc[p].merged = Merge(proc[p].before, proc[p].pool, proc[p].target)
        /\ proc[p].before = records[i] /\ Bound
    BY <2>1 DEF StoreInvariant
  <2>6. refs'[i] \in {None, proc'[p].before} /\ \A j \in Identities \ {i} : refs'[j] \in {None, records'[j]}
    BY <2>1, <2>2, <2>4, <2>5 DEF Bound
  <2> HIDE DEF i
  <2>7. QED
    BY <2>1, <2>3, <2>4, <2>5, <2>6 DEF StoreInvariant
<1>4. ASSUME NEW p \in Procs, WriteRefs(p) PROVE StoreInvariant'
  <2> DEFINE i == proc[p].identity
  <2>1. /\ proc[p].at = "refs" /\ Others(p) /\ proc'[p].at \notin Stores /\ UNCHANGED <<records, spent>>
        /\ refs' = IF Associates(p) THEN [refs EXCEPT ![i] = proc[p].merged] ELSE refs
    BY <1>4, WriteRefsEffect DEF Goes, Moved, Leaves, Idle
  <2>2. i \in Identities
    BY <2>1 DEF CarriedInvariant, Carries, Scoring
  <2>3. \A q \in Procs : proc'[q].at \notin Stores
    BY <2>1, OneWriter DEF Writing
  <2>4. records[i] = proc[p].merged /\ \A j \in Identities \ {i} : refs[j] \in {None, records[j]}
    BY <2>1 DEF StoreInvariant
  <2>5. refs'[i] \in {None, records[i]}
    BY <2>1, <2>2, <2>4 DEF Associates, TypeOK
  <2>6. \A j \in Identities \ {i} : refs'[j] = refs[j]
    BY <2>1 DEF TypeOK
  <2>7. Bound'
    BY <2>1, <2>4, <2>5, <2>6 DEF Bound
  <2>8. QED
    BY <2>3, <2>7 DEF StoreInvariant
<1>5. ASSUME NEW p \in Procs, FailWrite(p) PROVE StoreInvariant'
  <2> DEFINE i == proc[p].identity
  <2>1. proc[p].at \in Stores /\ Leaves(p) /\ UNCHANGED refs
    BY <1>5, FailWriteEffect
  <2>2. i \in Identities
    BY <2>1 DEF CarriedInvariant, Carries, Scoring
  <2>3. \A q \in Procs : proc'[q].at \notin Stores
    BY <2>1, OneWriter DEF Writing, Leaves, Idle
  <2>4. CASE records' = [records EXCEPT ![i] = proc[p].before] /\ spent'.torn = spent.torn
    <3>1. /\ records'[i] = proc[p].before
          /\ \A j \in Identities \ {i} : records'[j] = records[j]
      BY <2>2, <2>4 DEF TypeOK
    <3>2. refs[i] \in {None, proc[p].before} /\ \A j \in Identities \ {i} : refs[j] \in {None, records[j]}
      BY <2>1, <2>2 DEF StoreInvariant, Bound
    <3>3. Bound'
      BY <2>1, <3>1, <3>2 DEF Bound
    <3>4. QED
      BY <2>3, <3>3 DEF StoreInvariant
  <2>5. CASE spent'.torn
    BY <2>3, <2>5 DEF StoreInvariant
  <2>6. QED
    BY <1>5, <2>4, <2>5, FailWriteEffect
<1>6. ASSUME NEW p \in Procs, Crash(p), proc[p].at \in Stores PROVE StoreInvariant'
  <2>1. \A q \in Procs : proc'[q].at \notin Stores
    BY <1>6, CrashEffect, OneWriter DEF Writing
  <2>2. CASE At(p, "record")
    <3>1. Bound'
      BY <1>6, <2>2, CrashEffect DEF StoreInvariant, Bound, store
    <3>2. QED
      BY <2>1, <3>1 DEF StoreInvariant
  <2>3. CASE At(p, "refs")
    <3>1. spent'.torn
      BY <1>6, <2>3, CrashEffect DEF TypeOK
    <3>2. QED
      BY <2>1, <3>1 DEF StoreInvariant
  <2>4. QED
    BY <1>6, <2>2, <2>3
<1>7. QED
  BY <1>1, <1>2, <1>3, <1>4, <1>5, <1>6, AsideFacts

-----------------------------------------------------------------------------
(* No counted run is lost                                                  *)

CommittedIn(procs, recs, i) ==
  LET writers == {p \in Procs : procs[p].at \in {"record", "refs"} /\ procs[p].identity = i}
  IN  IF writers = {} THEN recs[i] ELSE procs[CHOOSE p \in writers : TRUE].before

LEMMA CommittedFacts ==
  ASSUME NEW procs, NEW recs, NEW i,
         \A p, q \in Procs : procs[p].at \in Stores /\ procs[q].at \in Stores => p = q
  PROVE  /\ \A p \in Procs : procs[p].at \in Stores /\ procs[p].identity = i =>
                               CommittedIn(procs, recs, i) = procs[p].before
         /\ (\A p \in Procs : procs[p].at \in Stores => procs[p].identity # i) =>
              CommittedIn(procs, recs, i) = recs[i]
<1> DEFINE writers == {p \in Procs : procs[p].at \in {"record", "refs"} /\ procs[p].identity = i}
<1>1. CommittedIn(procs, recs, i) =
        IF writers = {} THEN recs[i] ELSE procs[CHOOSE p \in writers : TRUE].before
  BY DEF CommittedIn
<1>2. ASSUME NEW p \in Procs, procs[p].at \in Stores, procs[p].identity = i
      PROVE  CommittedIn(procs, recs, i) = procs[p].before
  <2>1. p \in writers
    BY <1>2 DEF Stores
  <2>2. \A q \in writers : q = p
    BY <1>2 DEF Stores
  <2> HIDE DEF writers
  <2>3. (CHOOSE q \in writers : TRUE) = p
    BY <2>1, <2>2
  <2>4. QED
    BY <1>1, <2>1, <2>3
<1>3. ASSUME \A p \in Procs : procs[p].at \in Stores => procs[p].identity # i
      PROVE  CommittedIn(procs, recs, i) = recs[i]
  BY <1>1, <1>3 DEF Stores
<1>4. QED
  BY <1>2, <1>3

(* A record never shrinks.                                                 *)
LEMMA EvidenceStaysStep ==
  ASSUME TypeOK, WriterInvariant, WriterInvariant', CarriedInvariant, StoreInvariant, [Next]_vars,
         NEW i \in Identities, Committed(i) # None
  PROVE  Committed(i)' # None /\ Committed(i).runs \subseteq Committed(i)'.runs
<1>0. /\ \A p \in Procs : proc[p].at \in Stores /\ proc[p].identity = i => Committed(i) = proc[p].before
      /\ (\A p \in Procs : proc[p].at \in Stores => proc[p].identity # i) => Committed(i) = records[i]
  <2>1. \A p, q \in Procs : proc[p].at \in Stores /\ proc[q].at \in Stores => p = q
    BY DEF WriterInvariant, Writing, Stores
  <2>2. Committed(i) = CommittedIn(proc, records, i)
    BY DEF Committed, CommittedIn
  <2>3. QED
    BY <2>1, <2>2, CommittedFacts
<1>1. /\ \A p \in Procs : proc'[p].at \in Stores /\ proc'[p].identity = i => Committed(i)' = proc'[p].before
      /\ (\A p \in Procs : proc'[p].at \in Stores => proc'[p].identity # i) => Committed(i)' = records'[i]
  <2>1. \A p, q \in Procs : proc'[p].at \in Stores /\ proc'[q].at \in Stores => p = q
    BY DEF WriterInvariant, Writing, Stores
  <2>2. Committed(i)' = CommittedIn(proc', records', i)
    BY DEF Committed, CommittedIn
  <2>3. QED
    BY <2>1, <2>2, CommittedFacts
<1> USE DEF At, Others
<1>2. CASE Aside
  <2>1. CASE \E p \in Procs : proc[p].at \in Stores /\ proc[p].identity = i
    <3>1. PICK p \in Procs : proc[p].at \in Stores /\ proc[p].identity = i
      BY <2>1
    <3>2. proc'[p] = proc[p]
      BY <1>2, <3>1 DEF Aside
    <3>3. QED
      BY <1>0, <1>1, <3>1, <3>2
  <2>2. CASE ~\E p \in Procs : proc[p].at \in Stores /\ proc[p].identity = i
    <3>1. \A p \in Procs : proc'[p].at \in Stores => proc'[p].identity # i
      BY <1>2, <2>2 DEF Aside
    <3>2. QED
      BY <1>0, <1>1, <1>2, <2>2, <3>1 DEF Aside
  <2>3. QED
    BY <2>1, <2>2
<1>3. ASSUME NEW p \in Procs, LockStore(p), At(p, "lock"), lock = None, lock' = p
      PROVE  Committed(i)' = Committed(i)
  <2>1. /\ UNCHANGED records /\ Others(p) /\ proc'[p].at = "record"
        /\ proc'[p].before = records[proc'[p].identity]
    BY <1>3, LockStoreEffect, NoneAssumption DEF store, Moved
  <2>2. \A q \in Procs : proc[q].at \notin Stores
    BY <1>3, NoneAssumption DEF WriterInvariant, Writing, Stores
  <2>3. Committed(i) = records[i]
    BY <1>0, <2>2
  <2>4. CASE proc'[p].identity = i
    BY <1>1, <2>1, <2>3, <2>4 DEF Stores
  <2>5. CASE proc'[p].identity # i
    BY <1>1, <2>1, <2>2, <2>3, <2>5
  <2>6. QED
    BY <2>4, <2>5
<1>4. ASSUME NEW p \in Procs, WriteRecord(p) PROVE Committed(i)' = Committed(i)
  <2>1. /\ proc[p].at = "record" /\ Others(p) /\ proc'[p].at = "refs"
        /\ records' = [records EXCEPT ![proc[p].identity] = proc[p].merged]
        /\ proc'[p].identity = proc[p].identity /\ proc'[p].before = proc[p].before
    BY <1>4, WriteRecordEffect DEF Goes, Moved, SameRecord
  <2>2. \A q \in Procs \ {p} : proc[q].at \notin Stores
    BY <2>1, OneWriter DEF Writing, Stores
  <2>3. CASE proc[p].identity = i
    BY <1>0, <1>1, <2>1, <2>3 DEF Stores
  <2>4. CASE proc[p].identity # i
    <3>1. records'[i] = records[i]
      BY <2>1, <2>4 DEF TypeOK
    <3>2. QED
      BY <1>0, <1>1, <2>1, <2>2, <2>4, <3>1
  <2>5. QED
    BY <2>3, <2>4
<1>5. ASSUME NEW p \in Procs, Leaves(p) \/ (proc'[p].at \notin Stores /\ Others(p)), proc[p].at \in Stores,
             proc[p].identity # i, records'[i] = records[i]
      PROVE  Committed(i)' = Committed(i)
  <2>1. \A q \in Procs \ {p} : proc[q].at \notin Stores
    BY <1>5, OneWriter DEF Writing, Stores
  <2>2. \A q \in Procs : proc'[q].at \notin Stores
    BY <1>5, <2>1 DEF Leaves, Idle, Stores
  <2>3. QED
    BY <1>0, <1>1, <1>5, <2>1, <2>2
<1>6. ASSUME NEW p \in Procs, proc'[p].at \notin Stores, Others(p), proc[p].at \in Stores, proc[p].identity = i,
             records'[i] = proc[p].before \/ (proc[p].at = "refs" /\ UNCHANGED records)
      PROVE  Committed(i)' # None /\ Committed(i).runs \subseteq Committed(i)'.runs
  <2>1. \A q \in Procs : proc'[q].at \notin Stores
    BY <1>6, OneWriter DEF Writing, Stores
  <2>2. Committed(i)' = records'[i] /\ Committed(i) = proc[p].before
    BY <1>0, <1>1, <1>6, <2>1
  <2>3. CASE records'[i] = proc[p].before
    BY <2>2, <2>3
  <2>4. CASE proc[p].at = "refs" /\ UNCHANGED records
    <3>1. records'[i] = Merge(proc[p].before, proc[p].pool, proc[p].target) /\ records'[i] \in Records
      BY <1>6, <2>4 DEF StoreInvariant, CarriedInvariant, Carries
    <3>2. proc[p].before.runs \subseteq Merge(proc[p].before, proc[p].pool, proc[p].target).runs
      BY <2>2 DEF Merge
    <3>3. QED
      BY <2>2, <3>1, <3>2, NoneAssumption
  <2>5. QED
    BY <1>6, <2>3, <2>4
<1>7. ASSUME NEW p \in Procs, WriteRefs(p) PROVE Committed(i)' # None /\ Committed(i).runs \subseteq Committed(i)'.runs
  <2>1. proc[p].at = "refs" /\ Others(p) /\ proc'[p].at \notin Stores /\ UNCHANGED records
    BY <1>7, WriteRefsEffect DEF Goes, Moved, Leaves, Idle, Stores
  <2>2. proc[p].at \in Stores
    BY <2>1 DEF Stores
  <2>3. QED
    BY <1>5, <1>6, <2>1, <2>2
<1>8. ASSUME NEW p \in Procs, FailWrite(p) PROVE Committed(i)' # None /\ Committed(i).runs \subseteq Committed(i)'.runs
  <2>1. proc[p].at \in Stores /\ Leaves(p) /\ proc'[p].at \notin Stores /\ Others(p)
    <3>1. proc[p].at \in Stores /\ Leaves(p)
      BY <1>8, FailWriteEffect
    <3>2. QED
      BY <3>1 DEF Leaves, Idle, Stores
  <2>2. \/ records' = [records EXCEPT ![proc[p].identity] = proc[p].before]
        \/ proc[p].at = "refs" /\ UNCHANGED records
    BY <1>8, FailWriteEffect
  <2>3. CASE proc[p].identity = i
    BY <1>6, <2>1, <2>2, <2>3 DEF TypeOK
  <2>4. CASE proc[p].identity # i
    BY <1>5, <2>1, <2>2, <2>4 DEF TypeOK
  <2>5. QED
    BY <2>3, <2>4
<1>9. ASSUME NEW p \in Procs, Crash(p), proc[p].at \in Stores
      PROVE  Committed(i)' # None /\ Committed(i).runs \subseteq Committed(i)'.runs
  <2>1. proc'[p].at \notin Stores /\ Others(p) /\ UNCHANGED records
    BY <1>9, CrashEffect DEF Stores, store
  <2>2. proc[p].at = "refs" \/ records'[proc[p].identity] = proc[p].before
    BY <1>9, <2>1 DEF Stores, StoreInvariant
  <2>3. QED
    BY <1>5, <1>6, <1>9, <2>1, <2>2
<1>10. QED
  BY <1>2, <1>3, <1>4, <1>7, <1>8, <1>9, AsideFacts

-----------------------------------------------------------------------------
(* Runs                                                                    *)

(* A step after which everyone measures as before, or no longer.           *)
Measures == /\ UNCHANGED results /\ spent'.runs = spent.runs
            /\ \A p \in Procs :
                 /\ proc'[p].at \in Measuring => proc[p].at \in Measuring /\ proc'[p].run = proc[p].run
                 /\ proc'[p].at \in {"settle", "results"} => Sound(proc'[p].result, proc'[p].identity)

LEMMA SettlesFacts ==
  ASSUME RunInvariant, NEW p \in Procs, proc[p].at \in Measuring, NEW result,
         Settles(p, "results", result), Sound(result, proc[p].identity), UNCHANGED <<results, spent>>
  PROVE  Measures
  BY DEF Settles, Moved, Others, Measures, Measuring, RunInvariant

LEMMA MeasuresFacts ==
  ASSUME TypeOK, RunInvariant, [Next]_vars
  PROVE  Measures \/ \E p \in Procs : RunBenchmark(p) \/ WriteResults(p)
<1> SUFFICES ASSUME ~\E p \in Procs : RunBenchmark(p) \/ WriteResults(p)
             PROVE  Measures
  OBVIOUS
<1>0. /\ \A p \in Procs : proc[p].at \in {"settle", "results"} => Sound(proc[p].result, proc[p].identity)
      /\ spent.runs \in Int
  BY BoundsAssumption DEF RunInvariant, TypeOK
<1> USE <1>0 DEF Measures, Measuring, At, Others, store
<1>1. ASSUME NEW p \in Procs, RunBenchmark(p) PROVE Measures
  BY <1>1
<1>2. ASSUME NEW p \in Procs, RunCase(p) PROVE Measures
  <2>1. Outcome(p, FALSE, current.suite).identity = proc[p].identity
        /\ ~Outcome(p, FALSE, current.suite).passed
    BY DEF Outcome
  <2>2. Sound(Outcome(p, FALSE, current.suite), proc[p].identity)
    BY <2>1 DEF Sound
  <2>3. CASE Goes(p, "verify")
    BY <1>2, <2>3, RunCaseEffect DEF Quiet, Goes, Moved, SameResult
  <2>4. CASE Settles(p, "results", Outcome(p, FALSE, current.suite))
    BY <1>2, <2>2, <2>4, RunCaseEffect, SettlesFacts DEF Quiet
  <2>5. QED
    BY <1>2, <2>3, <2>4, RunCaseEffect
<1>3. ASSUME NEW p \in Procs, RunVerifiers(p) PROVE Measures
  <2>1. \A passed \in BOOLEAN : Sound(Outcome(p, passed, current.suite), proc[p].identity)
    BY <1>3, RunVerifiersEffect DEF Outcome, Sound, InputsStable
  <2>2. QED
    BY <1>3, <2>1, RunVerifiersEffect DEF Quiet, Settles, Moved
<1>4. ASSUME NEW p \in Procs, VerifiersUnstable(p) PROVE Measures
  <2>1. Sound(Outcome(p, FALSE, current.suite), proc[p].identity)
    BY DEF Outcome, Sound
  <2>2. QED
    BY <1>4, <2>1, VerifiersUnstableEffect, SettlesFacts DEF Quiet
<1>5. ASSUME NEW p \in Procs, SettleCase(p) PROVE Measures
  <2>1. \A passed \in {proc[p].result.passed, FALSE} :
          Sound(Outcome(p, passed, proc[p].result.verified), proc[p].identity)
    BY <1>0, <1>5, SettleCaseEffect DEF Outcome, Sound
  <2>2. QED
    BY <1>5, <2>1, SettleCaseEffect, SettlesFacts DEF Quiet
<1>6. ASSUME NEW p \in Procs, WriteResults(p) PROVE Measures
  BY <1>6
<1>7. ASSUME NEW p \in Procs, LockIndex(p) PROVE Measures
  BY <1>7, LockIndexEffect
  DEF Leaves, Goes, Idle, Moved, SameResult
<1>8. ASSUME NEW p \in Procs, WriteIndex(p) PROVE Measures
  BY <1>8, LeaveEffect
  DEF WriteIndex, Leaves, Unlock, Idle
<1>9. ASSUME NEW p \in Procs, AssessQualification(p) PROVE Measures
  BY <1>9, AssessEffect, SpendFacts
<1>10. ASSUME NEW p \in Procs, ReadRecord(p) PROVE Measures
  BY <1>10, ReadRecordEffect
  DEF Quiet, Leaves, Idle, Moved, SameResult
<1>11. ASSUME NEW p \in Procs, ReadPool(p) PROVE Measures
  BY <1>11, ReadPoolEffect
  DEF Quiet, Leaves, Idle, Moved, SameResult
<1>12. ASSUME NEW p \in Procs, LockStore(p) PROVE Measures
  BY <1>12, LockStoreEffect
  DEF Leaves, Idle, Moved, SameResult
<1>13. ASSUME NEW p \in Procs, WriteRecord(p) PROVE Measures
  BY <1>13, WriteRecordEffect
  DEF Goes, Moved, SameResult
<1>14. ASSUME NEW p \in Procs, WriteRefs(p) PROVE Measures
  BY <1>14, WriteRefsEffect
  DEF Unlock, Goes, Leaves, Idle, Moved, SameResult
<1>15. ASSUME NEW p \in Procs, Decide(p) PROVE Measures
  BY <1>15, DecideEffect
  DEF Quiet, Goes, Moved, SameResult
<1>16. ASSUME NEW p \in Procs, Dispatch(p) PROVE Measures
  BY <1>16, LeaveEffect
  DEF Dispatch, Leaves, Idle
<1>17. ASSUME NEW p \in Procs, FailWrite(p) PROVE Measures
  BY <1>17, FailWriteEffect DEF Leaves, Idle
<1>18. ASSUME NEW p \in Procs, Crash(p) PROVE Measures
  <2>1. spent'.runs = spent.runs
    BY <1>18, CrashEffect DEF TypeOK
  <2>2. QED
    BY <1>18, <2>1, CrashEffect
<1>19. ASSUME NEW p \in Procs, RemoveLock(p) PROVE Measures
  BY <1>19, LeaveEffect
  DEF RemoveLock, Leaves, Unlock, Idle
<1>20. ASSUME NEW p \in Procs, NEW r \in Runs, NEW t \in Targets, NEW worker \in BOOLEAN, QualifyBenchmark(p, r, t, worker)
      PROVE  Measures
  BY <1>20, QualifyEffect, SpendFacts
<1>21. ASSUME NEW p \in Procs, NEW i \in Identities, NEW t \in Targets, RescoreBenchmark(p, i, t)
      PROVE  Measures
  BY <1>21, RescoreEffect, SpendFacts
<1>22. ASSUME EditConfig \/ EditSuite PROVE Measures
  BY <1>22, SpendFacts
  DEF EditConfig, EditSuite, Edit
<1>23. ASSUME NEW r \in Runs, NEW how \in {"changed", "deleted"}, LoseResult(r, how)
      PROVE  Measures
  BY <1>23, SpendFacts
  DEF LoseResult, Edit
<1>24. ASSUME UNCHANGED vars PROVE Measures
  BY <1>24
  DEF vars
<1>25. QED
  BY <1>1, <1>2, <1>3, <1>4, <1>5, <1>6, <1>7, <1>8, <1>9, <1>10, <1>11, <1>12, <1>13, <1>14,
     <1>15, <1>16, <1>17, <1>18, <1>19, <1>20, <1>21, <1>22, <1>23, <1>24 DEF Next, Continue

(* Every run has its own number and one result.                            *)
LEMMA RunStep ==
  ASSUME TypeOK, CarriedInvariant, RunInvariant, [Next]_vars
  PROVE  RunInvariant'
<1>0. spent.runs \in Nat /\ \A p \in Procs : proc[p].at \in Measuring => proc[p].run \in Runs
  BY BoundsAssumption DEF TypeOK, CarriedInvariant, Carries
<1>1. CASE Measures
  <2>1. \A r \in Runs : results'[r] # None => r <= spent'.runs /\ Sound(results'[r], results'[r].identity)
    BY <1>0, <1>1 DEF Measures, RunInvariant, Runs
  <2>2. \A p \in Procs : proc'[p].at \in Measuring => proc'[p].run <= spent'.runs /\ results'[proc'[p].run] = None
    BY <1>0, <1>1 DEF Measures, RunInvariant, Runs
  <2>3. \A p, q \in Procs : p # q /\ proc'[p].at \in Measuring /\ proc'[q].at \in Measuring =>
          proc'[p].run # proc'[q].run
    BY <1>1 DEF Measures, RunInvariant
  <2>4. QED
    BY <1>1, <2>1, <2>2, <2>3 DEF Measures, RunInvariant
<1>2. ASSUME NEW p \in Procs, RunBenchmark(p) PROVE RunInvariant'
  <2>1. /\ UNCHANGED results /\ spent'.runs = spent.runs + 1 /\ Others(p)
        /\ proc'[p].at = "work" /\ proc'[p].run = spent.runs + 1 /\ spent.runs < MaxRuns
    BY <1>2, RunBenchmarkEffect, SpendFacts
  <2>2. results[spent.runs + 1] = None
    <3>1. spent.runs + 1 \in Runs /\ ~(spent.runs + 1 <= spent.runs)
      BY <1>0, <2>1, BoundsAssumption DEF Runs
    <3>2. QED
      BY <3>1 DEF RunInvariant
  <2>3. \A q \in Procs \ {p} : proc[q].at \in Measuring => proc[q].run <= spent.runs /\ proc[q].run # spent.runs + 1
    BY <1>0, BoundsAssumption DEF RunInvariant, Runs
  <2>4. \A r \in Runs : results'[r] # None => r <= spent'.runs /\ Sound(results'[r], results'[r].identity)
    BY <1>0, <2>1 DEF RunInvariant, Runs
  <2>5. \A q \in Procs : proc'[q].at \in Measuring => proc'[q].run <= spent'.runs /\ results'[proc'[q].run] = None
    <3>1. ASSUME NEW q \in Procs \ {p}, proc'[q].at \in Measuring
          PROVE  proc'[q].run <= spent'.runs /\ results'[proc'[q].run] = None
      <4>1. proc'[q] = proc[q] /\ proc[q].run \in Runs /\ proc[q].run <= spent.runs /\ results[proc[q].run] = None
        BY <1>0, <2>1, <3>1 DEF Others, RunInvariant
      <4>2. QED
        BY <1>0, <2>1, <4>1 DEF Runs
    <3>2. QED
      BY <1>0, <2>1, <2>2, <3>1
  <2>6. \A q, s \in Procs : q # s /\ proc'[q].at \in Measuring /\ proc'[s].at \in Measuring =>
          proc'[q].run # proc'[s].run
    BY <2>1, <2>3 DEF Others, RunInvariant
  <2>7. \A q \in Procs : proc'[q].at \in {"settle", "results"} => Sound(proc'[q].result, proc'[q].identity)
    BY <2>1 DEF Others, RunInvariant
  <2>8. QED
    BY <2>4, <2>5, <2>6, <2>7 DEF RunInvariant
<1>3. ASSUME NEW p \in Procs, WriteResults(p) PROVE RunInvariant'
  <2>1. /\ proc[p].at = "results" /\ Others(p) /\ proc'[p].at = "register" /\ UNCHANGED spent
        /\ results' = [results EXCEPT ![proc[p].run] = proc[p].result]
    BY <1>3, WriteResultsEffect DEF Goes, Moved, At
  <2>2. proc[p].at \in Measuring /\ proc[p].run \in Runs /\ Sound(proc[p].result, proc[p].identity)
        /\ proc[p].run <= spent.runs
    BY <1>0, <2>1 DEF Measuring, RunInvariant
  <2>3. results'[proc[p].run] = proc[p].result /\ \A r \in Runs \ {proc[p].run} : results'[r] = results[r]
    BY <2>1, <2>2 DEF TypeOK
  <2>4. \A r \in Runs : results'[r] # None => r <= spent'.runs /\ Sound(results'[r], results'[r].identity)
    BY <2>1, <2>2, <2>3 DEF RunInvariant, Sound
  <2>5. \A q \in Procs \ {p} : proc[q].at \in Measuring => proc[q].run \in Runs \ {proc[p].run}
    BY <1>0, <2>2 DEF RunInvariant
  <2>6. \A q \in Procs : proc'[q].at \in Measuring => q # p /\ proc'[q] = proc[q]
    BY <2>1 DEF Others, Measuring
  <2>7. \A q \in Procs : proc'[q].at \in {"settle", "results"} => Sound(proc'[q].result, proc'[q].identity)
    BY <2>1 DEF Others, RunInvariant
  <2>8. \A q \in Procs : proc'[q].at \in Measuring => proc'[q].run <= spent'.runs /\ results'[proc'[q].run] = None
    BY <2>1, <2>3, <2>5, <2>6 DEF RunInvariant
  <2>9. \A q, s \in Procs : q # s /\ proc'[q].at \in Measuring /\ proc'[s].at \in Measuring =>
          proc'[q].run # proc'[s].run
    BY <2>6 DEF RunInvariant
  <2>10. QED
    BY <2>4, <2>7, <2>8, <2>9 DEF RunInvariant
<1>4. QED
  BY <1>1, <1>2, <1>3, MeasuresFacts

-----------------------------------------------------------------------------
(* Evidence                                                                *)

(* Results are never taken back.                                           *)
LEMMA RecordedGrows ==
  ASSUME TypeOK, CarriedInvariant, RunInvariant, [Next]_vars
  PROVE  \A i \in Identities : RecordedIn(results, i) \subseteq RecordedIn(results', i)
<1>1. CASE UNCHANGED results
  BY <1>1 DEF RecordedIn
<1>2. ASSUME NEW p \in Procs, WriteResults(p) PROVE \A i \in Identities : RecordedIn(results, i) \subseteq RecordedIn(results', i)
  <2>1. proc[p].at = "results" /\ results' = [results EXCEPT ![proc[p].run] = proc[p].result]
    BY <1>2, WriteResultsEffect DEF At
  <2>2. proc[p].run \in Runs /\ results[proc[p].run] = None
    BY <2>1 DEF CarriedInvariant, Carries, RunInvariant, Measuring
  <2>3. \A r \in Runs : results[r] # None => results'[r] = results[r]
    BY <2>1, <2>2 DEF TypeOK
  <2>4. QED
    BY <2>3 DEF RecordedIn
<1>3. UNCHANGED results \/ \E p \in Procs : WriteResults(p)
  BY MeasuresFacts, RunBenchmarkEffect DEF Measures
<1>4. QED
  BY <1>1, <1>2, <1>3

(* A result changes or disappears with an edit only.                       *)
LEMMA EditsFacts ==
  ASSUME TypeOK, [Next]_vars
  PROVE  /\ {spent.edits, spent'.edits} \subseteq Nat /\ spent.edits <= spent'.edits
         /\ UNCHANGED kept \/ spent.edits < spent'.edits
<1> DEFINE Goal == spent'.edits = spent.edits /\ UNCHANGED kept
           More == spent'.edits = spent.edits + 1
<1>0. spent.edits \in Nat
  BY BoundsAssumption DEF TypeOK
<1> USE DEF store, Quiet
<1>1. ASSUME NEW p \in Procs, RunBenchmark(p) PROVE Goal
  BY <1>1, RunBenchmarkEffect, SpendFacts
<1>2. ASSUME NEW p \in Procs, RunCase(p) PROVE Goal
  BY <1>2, RunCaseEffect
  DEF Quiet
<1>3. ASSUME NEW p \in Procs, RunVerifiers(p) PROVE Goal
  BY <1>3, RunVerifiersEffect
  DEF Quiet
<1>4. ASSUME NEW p \in Procs, VerifiersUnstable(p) PROVE Goal
  BY <1>4, VerifiersUnstableEffect
  DEF Quiet
<1>5. ASSUME NEW p \in Procs, SettleCase(p) PROVE Goal
  BY <1>5, SettleCaseEffect
  DEF Quiet
<1>6. ASSUME NEW p \in Procs, WriteResults(p) PROVE Goal
  BY <1>6, WriteResultsEffect
<1>7. ASSUME NEW p \in Procs, LockIndex(p) PROVE Goal
  BY <1>7, LockIndexEffect
<1>8. ASSUME NEW p \in Procs, WriteIndex(p) PROVE Goal
  BY <1>8 DEF WriteIndex
<1>9. ASSUME NEW p \in Procs, AssessQualification(p) PROVE Goal
  BY <1>9, AssessEffect, SpendFacts
<1>10. ASSUME NEW p \in Procs, ReadRecord(p) PROVE Goal
  BY <1>10, ReadRecordEffect
  DEF Quiet
<1>11. ASSUME NEW p \in Procs, ReadPool(p) PROVE Goal
  BY <1>11, ReadPoolEffect
  DEF Quiet
<1>12. ASSUME NEW p \in Procs, LockStore(p) PROVE Goal
  BY <1>12, LockStoreEffect
<1>13. ASSUME NEW p \in Procs, WriteRecord(p) PROVE Goal
  BY <1>13, WriteRecordEffect
<1>14. ASSUME NEW p \in Procs, WriteRefs(p) PROVE Goal
  BY <1>14, WriteRefsEffect
<1>15. ASSUME NEW p \in Procs, Decide(p) PROVE Goal
  BY <1>15, DecideEffect
  DEF Quiet
<1>16. ASSUME NEW p \in Procs, Dispatch(p) PROVE Goal
  BY <1>16 DEF Dispatch
<1>17. ASSUME NEW p \in Procs, FailWrite(p) PROVE Goal
  BY <1>17, FailWriteEffect
<1>18. ASSUME NEW p \in Procs, Crash(p) PROVE Goal
  BY <1>18, CrashEffect DEF TypeOK
<1>19. ASSUME NEW p \in Procs, RemoveLock(p) PROVE Goal
  BY <1>19 DEF RemoveLock
<1>20. ASSUME NEW p \in Procs, NEW r \in Runs, NEW t \in Targets, NEW worker \in BOOLEAN, QualifyBenchmark(p, r, t, worker)
      PROVE  Goal
  BY <1>20, QualifyEffect, SpendFacts
<1>21. ASSUME NEW p \in Procs, NEW i \in Identities, NEW t \in Targets, RescoreBenchmark(p, i, t)
      PROVE  Goal
  BY <1>21, RescoreEffect, SpendFacts
<1>22. ASSUME EditConfig \/ EditSuite PROVE More
  BY <1>22, SpendFacts DEF EditConfig, EditSuite, Edit
<1>23. ASSUME NEW r \in Runs, NEW how \in {"changed", "deleted"}, LoseResult(r, how)
      PROVE  More
  BY <1>23, SpendFacts DEF LoseResult, Edit
<1>24. ASSUME UNCHANGED vars PROVE Goal
  BY <1>24
  DEF vars
<1>25. Goal \/ More
  BY <1>1, <1>2, <1>3, <1>4, <1>5, <1>6, <1>7, <1>8, <1>9, <1>10, <1>11, <1>12,
     <1>13, <1>14, <1>15, <1>16, <1>17, <1>18, <1>19, <1>20, <1>21, <1>22, <1>23, <1>24 DEF Next, Continue
<1>26. QED
  BY <1>0, <1>25

(* The steps that write what an invocation goes on.                        *)
Backs(p) == \/ \E i \in Identities, t \in Targets : RescoreBenchmark(p, i, t)
            \/ ReadPool(p) \/ LockStore(p) \/ WriteRecord(p) \/ WriteRefs(p) \/ Decide(p) \/ FailWrite(p)
Beside == UNCHANGED records /\ \A p \in Procs : proc'[p] = proc[p] \/ proc'[p].at \notin Backed

LEMMA BesideFacts ==
  ASSUME TypeOK, [Next]_vars
  PROVE  Beside \/ \E p \in Procs : Backs(p)
<1> SUFFICES ASSUME ~\E p \in Procs : Backs(p)
             PROVE  Beside
  OBVIOUS
<1> USE DEF Beside, Backed, At, Others, store
<1>1. ASSUME NEW p \in Procs, RunBenchmark(p) PROVE Beside
  BY <1>1, RunBenchmarkEffect
<1>2. ASSUME NEW p \in Procs, RunCase(p) PROVE Beside
  BY <1>2, RunCaseEffect
  DEF Quiet, Goes, Settles, Moved
<1>3. ASSUME NEW p \in Procs, RunVerifiers(p) PROVE Beside
  BY <1>3, RunVerifiersEffect
  DEF Quiet, Settles, Moved
<1>4. ASSUME NEW p \in Procs, VerifiersUnstable(p) PROVE Beside
  BY <1>4, VerifiersUnstableEffect
  DEF Quiet, Settles, Moved
<1>5. ASSUME NEW p \in Procs, SettleCase(p) PROVE Beside
  BY <1>5, SettleCaseEffect
  DEF Quiet, Settles, Moved
<1>6. ASSUME NEW p \in Procs, WriteResults(p) PROVE Beside
  BY <1>6, WriteResultsEffect
  DEF Goes, Moved
<1>7. ASSUME NEW p \in Procs, LockIndex(p) PROVE Beside
  BY <1>7, LockIndexEffect
  DEF Leaves, Goes, Idle, Moved
<1>8. ASSUME NEW p \in Procs, WriteIndex(p) PROVE Beside
  BY <1>8, LeaveEffect
  DEF WriteIndex, Leaves, Unlock, Idle
<1>9. ASSUME NEW p \in Procs, AssessQualification(p) PROVE Beside
  BY <1>9, AssessEffect
<1>10. ASSUME NEW p \in Procs, ReadRecord(p) PROVE Beside
  BY <1>10, ReadRecordEffect
  DEF Quiet, Leaves, Idle, Moved
<1>11. ASSUME NEW p \in Procs, ReadPool(p) PROVE Beside
  BY <1>11 DEF Backs
<1>12. ASSUME NEW p \in Procs, LockStore(p) PROVE Beside
  BY <1>12 DEF Backs
<1>13. ASSUME NEW p \in Procs, WriteRecord(p) PROVE Beside
  BY <1>13 DEF Backs
<1>14. ASSUME NEW p \in Procs, WriteRefs(p) PROVE Beside
  BY <1>14 DEF Backs
<1>15. ASSUME NEW p \in Procs, Decide(p) PROVE Beside
  BY <1>15 DEF Backs
<1>16. ASSUME NEW p \in Procs, Dispatch(p) PROVE Beside
  BY <1>16, LeaveEffect
  DEF Dispatch, Leaves, Idle
<1>17. ASSUME NEW p \in Procs, FailWrite(p) PROVE Beside
  BY <1>17 DEF Backs
<1>18. ASSUME NEW p \in Procs, Crash(p) PROVE Beside
  BY <1>18, CrashEffect
<1>19. ASSUME NEW p \in Procs, RemoveLock(p) PROVE Beside
  BY <1>19, LeaveEffect
  DEF RemoveLock, Leaves, Unlock, Idle
<1>20. ASSUME NEW p \in Procs, NEW r \in Runs, NEW t \in Targets, NEW worker \in BOOLEAN, QualifyBenchmark(p, r, t, worker)
      PROVE  Beside
  BY <1>20, QualifyEffect
<1>21. ASSUME NEW p \in Procs, NEW i \in Identities, NEW t \in Targets, RescoreBenchmark(p, i, t)
      PROVE  Beside
  BY <1>21 DEF Backs
<1>22. ASSUME EditConfig \/ EditSuite PROVE Beside
  BY <1>22
  DEF EditConfig, EditSuite, Edit
<1>23. ASSUME NEW r \in Runs, NEW how \in {"changed", "deleted"}, LoseResult(r, how)
      PROVE  Beside
  BY <1>23
  DEF LoseResult, Edit
<1>24. ASSUME UNCHANGED vars PROVE Beside
  BY <1>24
  DEF vars
<1>25. QED
  BY <1>1, <1>2, <1>3, <1>4, <1>5, <1>6, <1>7, <1>8, <1>9, <1>10, <1>11, <1>12, <1>13, <1>14,
     <1>15, <1>16, <1>17, <1>18, <1>19, <1>20, <1>21, <1>22, <1>23, <1>24 DEF Next, Continue


(* What an invocation goes on stays true while others work.                *)
LEMMA EvidentStays ==
  ASSUME NEW inv, NEW res, NEW res2, NEW files, NEW files2, NEW edits \in Nat, NEW edits2 \in Nat,
         RecordedIn(res, inv.identity) \subseteq RecordedIn(res2, inv.identity),
         inv.at \in Backed => inv.edits \in Nat,
         edits <= edits2, files = files2 \/ edits < edits2, Evident(inv, res, files, edits)
  PROVE  Evident(inv, res2, files2, edits2)
<1>1. /\ inv.at \in Backed => inv.pool \subseteq RecordedIn(res2, inv.identity)
      /\ inv.at \in {"record", "refs"} => Supported(inv.before, inv.identity, res2)
      /\ inv.at \in Backed \ {"lock"} =>
           Supported(inv.merged, inv.identity, res2) /\ inv.pool \subseteq inv.merged.runs
  BY DEF Evident, Supported
<1>2. inv.at \in Backed /\ inv.task = "assess" =>
        /\ inv.seen.runs \subseteq inv.pool
        /\ inv.edits <= edits2
        /\ \A r \in inv.pool : files2[r] = "kept" \/ inv.edits < edits2
        /\ inv.pool = {} =>
             inv.at \in {"decide", "decided"} /\ inv.merged = inv.seen /\ inv.seen.legacy # None
  BY DEF Evident
<1>3. QED
  BY <1>1, <1>2 DEF Evident

LEMMA EvidentElsewhere ==
  ASSUME TypeOK, CarriedInvariant, RunInvariant, EvidenceInvariant, [Next]_vars,
         NEW p \in Procs, proc'[p] = proc[p] \/ proc'[p].at \notin Backed
  PROVE  Evident(proc'[p], results', kept', spent'.edits)
<1>1. CASE proc'[p].at \notin Backed
  BY <1>1 DEF Evident, Backed
<1>2. CASE proc'[p] = proc[p] /\ proc[p].at \in Backed
  <2>1. /\ Evident(proc[p], results, kept, spent.edits)
        /\ proc[p].identity \in Identities /\ proc[p].edits \in Nat
    BY <1>2, BoundsAssumption DEF EvidenceInvariant, CarriedInvariant, Carries, Scoring, Backed, TypeOK, Invocations
  <2>2. RecordedIn(results, proc[p].identity) \subseteq RecordedIn(results', proc[p].identity)
    BY <2>1, RecordedGrows
  <2>3. QED
    BY <1>2, <2>1, <2>2, EditsFacts, EvidentStays
<1>3. QED
  BY <1>1, <1>2

(* Every decision rests on evidence that is there.                         *)
LEMMA EvidenceStep ==
  ASSUME TypeOK, WriterInvariant, CarriedInvariant, StoreInvariant, RunInvariant, EvidenceInvariant, [Next]_vars
  PROVE  EvidenceInvariant'
<1> DEFINE SavedAt == \A i \in Identities : Supported(records'[i], i, results')
           Carried == \A p \in Procs : Evident(proc'[p], results', kept', spent'.edits)
<1>0. /\ \A i \in Identities : RecordedIn(results, i) \subseteq RecordedIn(results', i)
      /\ \A i \in Identities : Supported(records[i], i, results)
      /\ \A p \in Procs : Evident(proc[p], results, kept, spent.edits)
      /\ {spent.edits, spent'.edits} \subseteq Nat /\ spent.edits <= spent'.edits
      /\ UNCHANGED kept \/ spent.edits < spent'.edits
      /\ \A p \in Procs : proc[p].at \in Backed => proc[p].identity \in Identities /\ proc[p].edits \in Nat
  BY RecordedGrows, EditsFacts, BoundsAssumption
     DEF EvidenceInvariant, CarriedInvariant, Carries, Scoring, Backed, TypeOK, Invocations
<1>1. UNCHANGED records => SavedAt
  BY <1>0 DEF Supported
<1>2. ASSUME NEW p \in Procs, Others(p), Evident(proc'[p], results', kept', spent'.edits)
      PROVE  Carried
  BY <1>2, EvidentElsewhere DEF Others
<1>3. ASSUME NEW p \in Procs, Leaves(p)
      PROVE  Carried
  BY <1>2, <1>3 DEF Leaves, Idle, Evident, Backed
<1>4. CASE Beside
  BY <1>1, <1>4, EvidentElsewhere DEF Beside, EvidenceInvariant
<1>5. ASSUME NEW p \in Procs, NEW i \in Identities, NEW t \in Targets, RescoreBenchmark(p, i, t)
      PROVE  SavedAt /\ Carried
  <2>1. /\ records[i] # None /\ UNCHANGED records /\ Others(p) /\ proc'[p].at = "lock"
        /\ proc'[p].task = "rescore" /\ proc'[p].identity = i /\ proc'[p].pool = records[i].runs
    BY <1>5, RescoreEffect DEF store
  <2>2. Evident(proc'[p], results', kept', spent'.edits)
    BY <1>0, <2>1 DEF Evident, Backed, Supported
  <2>3. QED
    BY <1>1, <1>2, <2>1, <2>2
<1>6. ASSUME NEW p \in Procs, ReadPool(p) PROVE SavedAt /\ Carried
  <2>1. UNCHANGED <<records, results, kept, spent>> /\ proc[p].at = "pool"
    BY <1>6, ReadPoolEffect DEF Quiet, store, At
  <2>2. CASE Leaves(p)
    BY <1>1, <1>3, <2>1, <2>2
  <2>3. CASE /\ PoolReads(proc[p].identity) /\ Retained(p)
             /\ Others(p) /\ Moved(proc'[p], proc[p], "lock") /\ SameSource(proc'[p], proc[p])
             /\ proc'[p].pool = PoolOf(proc[p].identity) /\ proc'[p].edits = spent.edits
    <3>1. /\ proc'[p].at = "lock" /\ proc'[p].identity = proc[p].identity /\ proc'[p].task = proc[p].task
          /\ proc'[p].seen = proc[p].seen
      BY <2>3 DEF Moved, SameSource
    <3>2. PoolOf(proc[p].identity) \subseteq RecordedIn(results, proc[p].identity)
      BY DEF PoolOf, Recorded, RecordedIn
    <3>3. PoolOf(proc[p].identity) # {} /\ \A r \in PoolOf(proc[p].identity) : kept[r] = "kept"
      BY <2>3 DEF PoolReads
    <3>4. proc[p].task = "assess" => proc[p].seen.runs \subseteq PoolOf(proc[p].identity)
      BY <2>1, <2>3, NoneAssumption DEF Retained, CarriedInvariant, Carries, Scoring
    <3>5. Evident(proc'[p], results', kept', spent'.edits)
      BY <1>0, <2>1, <2>3, <3>1, <3>2, <3>3, <3>4 DEF Evident, Backed
    <3>6. QED
      BY <1>1, <1>2, <2>1, <2>3, <3>5
  <2>4. CASE /\ Unnamed(p)
             /\ Others(p) /\ Moved(proc'[p], proc[p], "decide") /\ SameSource(proc'[p], proc[p])
             /\ proc'[p].pool = {} /\ proc'[p].merged = proc[p].seen /\ proc'[p].edits = spent.edits
    <3>1. /\ proc'[p].at = "decide" /\ proc'[p].identity = proc[p].identity
          /\ proc'[p].task = "assess" /\ proc'[p].seen = proc[p].seen
      BY <2>4 DEF Moved, SameSource, Unnamed
    <3>2. proc[p].seen \in Records /\ proc[p].seen.legacy # None
      BY <2>1, <2>4 DEF Unnamed, CarriedInvariant, Carries, Scoring
    <3>3. proc[p].seen.runs = {}
      BY <3>2 DEF Records
    <3>4. Evident(proc'[p], results', kept', spent'.edits)
      BY <1>0, <2>1, <2>4, <3>1, <3>2, <3>3 DEF Evident, Backed, Supported
    <3>5. QED
      BY <1>1, <1>2, <2>1, <2>4, <3>4
  <2>5. QED
    BY <1>6, <2>2, <2>3, <2>4, ReadPoolEffect
<1>7. ASSUME NEW p \in Procs, LockStore(p) PROVE SavedAt /\ Carried
  <2>1. UNCHANGED <<records, results, kept, spent>> /\ proc[p].at = "lock"
    BY <1>7, LockStoreEffect DEF store, At
  <2>2. CASE Leaves(p)
    BY <1>1, <1>3, <2>1, <2>2
  <2>3. CASE /\ Others(p) /\ Moved(proc'[p], proc[p], "record") /\ SameSource(proc'[p], proc[p])
             /\ SamePool(proc'[p], proc[p]) /\ proc'[p].before = records[proc[p].identity]
             /\ proc'[p].merged = Merge(records[proc[p].identity], proc[p].pool, proc[p].target)
    <3> DEFINE old == records[proc[p].identity]
               merged == Merge(old, proc[p].pool, proc[p].target)
    <3>1. /\ Evident(proc[p], results, kept, spent.edits) /\ proc[p].at \in Backed
          /\ proc[p].identity \in Identities /\ Supported(old, proc[p].identity, results)
      BY <1>0, <2>1 DEF Backed
    <3>2. proc[p].pool \subseteq merged.runs /\ Supported(merged, proc[p].identity, results)
      BY <3>1 DEF Merge, Supported, Evident
    <3> HIDE DEF old, merged
    <3>3. /\ proc'[p].at = "record" /\ proc'[p].identity = proc[p].identity /\ proc'[p].task = proc[p].task
          /\ proc'[p].seen = proc[p].seen /\ proc'[p].pool = proc[p].pool /\ proc'[p].edits = proc[p].edits
          /\ proc'[p].before = old /\ proc'[p].merged = merged
      BY <2>3 DEF Moved, SameSource, SamePool, old, merged
    <3>4. Evident(proc'[p], results', kept', spent'.edits)
      BY <2>1, <3>1, <3>2, <3>3 DEF Evident, Backed
    <3>5. QED
      BY <1>1, <1>2, <2>1, <2>3, <3>4
  <2>4. QED
    BY <1>7, <2>2, <2>3, LockStoreEffect
<1>8. ASSUME NEW p \in Procs, NEW step \in Backed \ {"lock", "record"}, Goes(p, step),
             UNCHANGED <<results, kept, spent>>, proc[p].at \in Backed \ {"lock"},
             step = "refs" => proc[p].at = "record"
      PROVE  Carried
  <2>1. /\ proc'[p].at = step /\ proc'[p].identity = proc[p].identity /\ proc'[p].task = proc[p].task
        /\ proc'[p].seen = proc[p].seen /\ proc'[p].pool = proc[p].pool /\ proc'[p].edits = proc[p].edits
        /\ proc'[p].before = proc[p].before /\ proc'[p].merged = proc[p].merged /\ Others(p)
    BY <1>8 DEF Goes, Moved, SameSource, SamePool, SameRecord
  <2>2. Evident(proc'[p], results', kept', spent'.edits)
    BY <1>0, <1>8, <2>1 DEF Evident, Backed
  <2>3. QED
    BY <1>2, <2>1, <2>2
<1>9. ASSUME NEW p \in Procs, NEW x, proc[p].at \in Stores, Supported(x, proc[p].identity, results'),
             records' = [records EXCEPT ![proc[p].identity] = x]
      PROVE  SavedAt
  <2>1. proc[p].identity \in Identities
    BY <1>9 DEF Stores, CarriedInvariant, Carries, Scoring
  <2>2. \A i \in Identities : records'[i] = IF i = proc[p].identity THEN x ELSE records[i]
    BY <1>9, <2>1 DEF TypeOK
  <2>3. QED
    BY <1>0, <1>9, <2>2 DEF Supported
<1>10. ASSUME NEW p \in Procs, WriteRecord(p) PROVE SavedAt /\ Carried
  <2>1. /\ proc[p].at = "record" /\ UNCHANGED <<results, kept, spent>> /\ Goes(p, "refs")
        /\ records' = [records EXCEPT ![proc[p].identity] = proc[p].merged]
    BY <1>10, WriteRecordEffect DEF At
  <2>2. Supported(proc[p].merged, proc[p].identity, results')
    BY <1>0, <2>1 DEF Evident, Backed
  <2>3. SavedAt
    <3>1. proc[p].at \in Stores
      BY <2>1 DEF Stores
    <3>2. QED
      BY <1>9, <2>1, <2>2, <3>1
  <2>4. Carried
    BY <1>8, <2>1 DEF Backed
  <2>5. QED
    BY <2>3, <2>4
<1>11. ASSUME NEW p \in Procs, WriteRefs(p) PROVE SavedAt /\ Carried
  <2>1. /\ proc[p].at = "refs" /\ UNCHANGED <<records, results, kept, spent>>
        /\ Goes(p, "decide") \/ Leaves(p)
    BY <1>11, WriteRefsEffect DEF At
  <2>2. Goes(p, "decide") => Carried
    BY <1>8, <2>1 DEF Backed
  <2>3. QED
    BY <1>1, <1>3, <2>1, <2>2
<1>12. ASSUME NEW p \in Procs, Decide(p) PROVE SavedAt /\ Carried
  <2>1. proc[p].at = "decide" /\ UNCHANGED <<records, results, kept, spent>> /\ Goes(p, "decided")
    BY <1>12, DecideEffect DEF At, Quiet, store
  <2>2. Carried
    BY <1>8, <2>1 DEF Backed
  <2>3. QED
    BY <1>1, <2>1, <2>2
<1>13. ASSUME NEW p \in Procs, FailWrite(p) PROVE SavedAt /\ Carried
  <2>1. /\ proc[p].at \in Stores /\ Leaves(p) /\ UNCHANGED results
        /\ records' = [records EXCEPT ![proc[p].identity] = proc[p].before] \/ UNCHANGED records
    BY <1>13, FailWriteEffect
  <2>2. Supported(proc[p].before, proc[p].identity, results')
    BY <1>0, <2>1 DEF Evident, Stores
  <2>3. QED
    BY <1>1, <1>3, <1>9, <2>1, <2>2
<1>14. SavedAt /\ Carried
  BY <1>1, <1>4, <1>5, <1>6, <1>7, <1>10, <1>11, <1>12, <1>13, BesideFacts, EvidentElsewhere DEF Backs, Beside
<1>15. QED
  BY <1>14 DEF EvidenceInvariant

-----------------------------------------------------------------------------
(* The theorems                                                            *)

LEMMA InvariantInit == Init => QualificationInvariant
<1> SUFFICES ASSUME Init PROVE QualificationInvariant
  OBVIOUS
<1>1. \A p \in Procs : proc[p] = Idle /\ proc[p].at = "idle"
  BY DEF Init, Idle
<1>2. TypeOK
  <2>1. 0 \in Versions /\ [config |-> 0, suite |-> 0] \in Identities
    BY BoundsAssumption DEF Versions, Identities
  <2>2. spent \in [edits : 0..MaxEdits, runs : 0..MaxRuns, starts : 0..MaxStarts,
                   faults : 0..MaxFaults, torn : BOOLEAN]
    BY BoundsAssumption DEF Init
  <2>3. records \in [Identities -> Records \cup {None}] /\ refs = records
    <3>1. OldRecords \subseteq Records
      BY DEF OldRecords, Records
    <3>2. QED
      BY <3>1 DEF Init
  <2>4. QED
    BY <2>1, <2>2, <2>3, IdleType DEF Init, TypeOK
<1>3. WriterInvariant
  BY <1>1, NoneAssumption DEF Init, WriterInvariant, Writing
<1>4. CarriedInvariant
  BY <1>1 DEF CarriedInvariant, Carries, Measuring, Scoring
<1>5. StoreInvariant
  BY <1>1 DEF StoreInvariant, Init, Bound
<1>6. RunInvariant
  BY <1>1 DEF RunInvariant, Init, Measuring
<1>7. EvidenceInvariant
  <2>1. \A i \in Identities : records[i] # None => records[i].runs = {}
    BY DEF Init, OldRecords
  <2>2. QED
    BY <1>1, <2>1 DEF EvidenceInvariant, Evident, Backed, Supported
<1>8. QED
  BY <1>2, <1>3, <1>4, <1>5, <1>6, <1>7 DEF QualificationInvariant

LEMMA InvariantStep == QualificationInvariant /\ [Next]_vars => QualificationInvariant'
<1> SUFFICES ASSUME QualificationInvariant, [Next]_vars PROVE QualificationInvariant'
  OBVIOUS
<1>1. TypeOK /\ WriterInvariant /\ CarriedInvariant /\ StoreInvariant /\ RunInvariant /\ EvidenceInvariant
  BY DEF QualificationInvariant
<1>2. TypeOK' /\ WriterInvariant' /\ CarriedInvariant'
  BY <1>1, TypeStep, WriterStep, CarriedStep
<1>3. StoreInvariant' /\ RunInvariant' /\ EvidenceInvariant'
  BY <1>1, StoreStep, RunStep, EvidenceStep
<1>4. QED
  BY <1>2, <1>3 DEF QualificationInvariant

(* The invariant holds of every behaviour.                                 *)
THEOREM QualificationKeepsInvariant == Spec => []QualificationInvariant
  BY InvariantInit, InvariantStep, PTL DEF Spec

(* Type correctness.                                                       *)
THEOREM QualificationTyped == Spec => []TypeOK
<1>1. QualificationInvariant => TypeOK
  BY DEF QualificationInvariant
<1>2. QED
  BY <1>1, QualificationKeepsInvariant, PTL

(* Two invocations never write the store at the same time                  *)
(* (qualification-store.mjs, the lock around every write).                 *)
StoreHasOneWriter == \A p, q \in Procs : proc[p].at \in Writing /\ proc[q].at \in Writing => p = q
THEOREM OneStoreWriter == Spec => []StoreHasOneWriter
<1>1. QualificationInvariant => StoreHasOneWriter
  BY DEF QualificationInvariant, WriterInvariant, StoreHasOneWriter
<1>2. QED
  BY <1>1, QualificationKeepsInvariant, PTL

(* An unlocked store that no fault tore is accepted by the next operation  *)
(* (qualification-store.mjs 496-506, 666-694).                             *)
THEOREM StoreStaysAccepted == Spec => []StoreAccepts
<1>1. QualificationInvariant => StoreAccepts
  BY NoneAssumption DEF QualificationInvariant, WriterInvariant, Writing, StoreInvariant, StoreAccepts
<1>2. QED
  BY <1>1, QualificationKeepsInvariant, PTL

(* Whoever is dispatched as qualified was measured, on the suite of its    *)
(* identity, by runs that were still there when they were read; only the   *)
(* aggregate of an older version answers without a run, and then none is   *)
(* counted with it (qualification-dispatch.mjs 119-167,                    *)
(* benchmark-runner.mjs 652).                                              *)
THEOREM DispatchedOnEvidence == Spec => []QualifiedOnEvidence
<1>1. QualificationInvariant => QualifiedOnEvidence
  <2> SUFFICES ASSUME QualificationInvariant, NEW p \in Procs, At(p, "decided")
               PROVE  /\ \A r \in proc[p].merged.runs :
                           /\ results[r] # None /\ results[r].identity = proc[p].identity
                           /\ results[r].passed => results[r].verified = proc[p].identity.suite
                      /\ \A r \in proc[p].seen.runs \cup proc[p].pool :
                           /\ r \in proc[p].merged.runs
                           /\ kept[r] = "kept" \/ proc[p].edits < spent.edits
                      /\ IF proc[p].merged.legacy = None THEN proc[p].merged.runs # {}
                         ELSE proc[p].merged = proc[p].seen /\ proc[p].merged.runs = {}
    BY DEF QualifiedOnEvidence
  <2>1. /\ proc[p].merged \in Records /\ proc[p].task = "assess"
        /\ Evident(proc[p], results, kept, spent.edits)
    BY DEF QualificationInvariant, CarriedInvariant, Carries, EvidenceInvariant, At
  <2>2. proc[p].merged.runs \subseteq RecordedIn(results, proc[p].identity)
    BY <2>1, NoneAssumption DEF At, Evident, Backed, Supported
  <2>3. \A r \in Runs : results[r] # None => Sound(results[r], results[r].identity)
    BY DEF QualificationInvariant, RunInvariant
  <2>4. /\ proc[p].seen.runs \subseteq proc[p].pool /\ proc[p].pool \subseteq proc[p].merged.runs
        /\ \A r \in proc[p].pool : kept[r] = "kept" \/ proc[p].edits < spent.edits
    BY <2>1 DEF At, Evident, Backed
  <2>5. proc[p].pool = {} => proc[p].merged = proc[p].seen /\ proc[p].seen.legacy # None
    BY <2>1 DEF At, Evident, Backed
  <2>6. proc[p].merged.legacy # None => proc[p].merged.runs = {}
    BY <2>1 DEF Records
  <2>7. QED
    BY <2>2, <2>3, <2>4, <2>5, <2>6 DEF RecordedIn, Sound
<1>2. QED
  BY <1>1, QualificationKeepsInvariant, PTL

(* A record never loses a run it has counted, whoever refreshes, qualifies *)
(* or scores it again at the same time (qualification-store.mjs 633-731).  *)
THEOREM CountedRunsStay == Spec => EvidenceStays
<1>1. QualificationInvariant /\ QualificationInvariant' /\ [Next]_vars =>
        [\A i \in Identities : Committed(i) # None =>
           Committed(i)' # None /\ Committed(i).runs \subseteq Committed(i)'.runs]_vars
  BY EvidenceStaysStep DEF QualificationInvariant
<1>2. QED
  BY <1>1, QualificationKeepsInvariant, PTL DEF Spec, EvidenceStays
-----------------------------------------------------------------------------
(* The polyglot benchmark                                                  *)

Groups == {ModelOf[e] : e \in Entries} \cup {Absent}
Tried == [candidate : Candidates, passed : BOOLEAN]
Flights == [n : Attempts, tries : Nat, pc : {"call", "working", "asleep", "append"},
            previous : Candidates, attempts : Seq(Tried)]
FlightMaps == UNION {[S -> Flights] : S \in SUBSET Entries}
Processes == [on : BOOLEAN, todo : SUBSET Entries, group : Groups, agentDir : Groups,
         stop : {Absent, "sigint", "harness"}, skips : Nat, flight : FlightMaps]

PolyglotTyped ==
  /\ resultLines \in [Entries -> Seq(Seq(Tried))] /\ torn \in BOOLEAN
  /\ cases \in [Entries -> [Attempts -> Candidates]]
  /\ leftover \in [Entries -> Candidates]
  /\ labels \in [Entries -> Seq(Candidates)]
  /\ run \in [Hosts -> Processes]
  /\ up \in BOOLEAN /\ stops \in Nat

(* What the process r of a host has still to run, or runs, is of the       *)
(* host's models, has no result and is not of an excluded exercise; it is  *)
(* there once.                                                             *)
Unrecorded(e) == resultLines[e] = <<>> /\ ExerciseOf[e] \notin Excluded
Assigned(h, r) ==
  /\ r.todo \cap DOMAIN r.flight = {}
  /\ \A e \in r.todo \cup DOMAIN r.flight : ModelOf[e] \in Served[h] /\ Unrecorded(e)

(* The attempts of an entry in flight; first is what lies in its case      *)
(* directory as the solution of the first one, left what lay there when    *)
(* the entry was begun.                                                    *)
FlightFits(f, left, first) ==
  /\ Len(f.attempts) = IF f.pc = "append" THEN f.n ELSE f.n - 1
  /\ first = IF f.attempts = <<>> THEN left ELSE Saved(left, FirstSolution(f.attempts))
  /\ f.n = 2 => ~f.attempts[1].passed /\ f.previous = first
  /\ f.pc = "append" /\ f.n = 1 => f.attempts[1].passed
FlightsFit(r) == \A e \in DOMAIN r.flight : FlightFits(r.flight[e], leftover[e], cases[e][1])

(* One model at a time, in the agent directory of that model, and no more  *)
(* entries than it has lanes.                                              *)
OneModel(r) ==
  \A e \in DOMAIN r.flight :
    /\ ModelOf[e] = r.group
    /\ r.flight[e].pc = "working" => r.agentDir = ModelOf[e]
LanesHeld(r) ==
  /\ IsFiniteSet(DOMAIN r.flight)
  /\ DOMAIN r.flight # {} => Cardinality(DOMAIN r.flight) <= Parallel[r.group]

ProcessSound(h, r) == Assigned(h, r) /\ FlightsFit(r) /\ OneModel(r) /\ LanesHeld(r)

(* The lines of an entry.                                                  *)
LinesFit(lines, excluded, left, first) ==
  /\ Len(lines) <= 1 /\ (excluded => lines = <<>>)
  /\ \A i \in DOMAIN lines :
       /\ Len(lines[i]) = IF lines[i][1].passed THEN 1 ELSE 2
       /\ first = Saved(left, FirstSolution(lines[i]))
AllLinesFit ==
  \A e \in Entries :
    LinesFit(resultLines[e], ExerciseOf[e] \in Excluded, leftover[e], cases[e][1])
LabelsFit ==
  \A e \in Entries : labels[e] # <<>> => resultLines[e] # <<>> /\ labels[e][1] = cases[e][1]

PolyglotInvariant ==
  /\ PolyglotTyped
  /\ \A h \in Hosts : ProcessSound(h, run[h])
  /\ AllLinesFit /\ LabelsFit

-----------------------------------------------------------------------------
LEMMA FlightsTyped ==
  ASSUME NEW f \in FlightMaps
  PROVE  /\ DOMAIN f \subseteq Entries /\ f \in [DOMAIN f -> Flights]
         /\ \A e \in DOMAIN f : f[e] \in Flights
  BY DEF FlightMaps

LEMMA FlightMapsOf ==
  ASSUME NEW S \in SUBSET Entries, NEW f \in [S -> Flights]
  PROVE  f \in FlightMaps
  BY DEF FlightMaps

LEMMA FlightAdded ==
  ASSUME NEW f \in FlightMaps, NEW e \in Entries, NEW r \in Flights
  PROVE  /\ With(f, e, r) \in FlightMaps
         /\ DOMAIN With(f, e, r) = DOMAIN f \cup {e}
         /\ With(f, e, r)[e] = r
         /\ \A x \in DOMAIN f \ {e} : With(f, e, r)[x] = f[x]
<1>1. DOMAIN f \cup {e} \in SUBSET Entries
  BY FlightsTyped
<1>2. With(f, e, r) \in [DOMAIN f \cup {e} -> Flights]
  BY FlightsTyped DEF With
<1> QED BY <1>1, <1>2, FlightMapsOf DEF With

LEMMA FlightRemoved ==
  ASSUME NEW f \in FlightMaps, NEW e
  PROVE  /\ Without(f, e) \in FlightMaps
         /\ DOMAIN Without(f, e) = DOMAIN f \ {e}
         /\ \A x \in DOMAIN f \ {e} : Without(f, e)[x] = f[x]
<1>1. DOMAIN f \ {e} \in SUBSET Entries
  BY FlightsTyped
<1>2. Without(f, e) \in [DOMAIN f \ {e} -> Flights]
  BY FlightsTyped DEF Without
<1> QED BY <1>1, <1>2, FlightMapsOf DEF Without

LEMMA FlightChanged ==
  ASSUME NEW f \in FlightMaps, NEW e \in DOMAIN f, NEW r \in Flights
  PROVE  /\ [f EXCEPT ![e] = r] \in FlightMaps
         /\ DOMAIN [f EXCEPT ![e] = r] = DOMAIN f
         /\ [f EXCEPT ![e] = r][e] = r
         /\ \A x \in DOMAIN f \ {e} : [f EXCEPT ![e] = r][x] = f[x]
<1>1. f \in [DOMAIN f -> Flights] /\ DOMAIN f \in SUBSET Entries
  BY FlightsTyped
<1>2. [f EXCEPT ![e] = r] \in [DOMAIN f -> Flights]
  BY <1>1
<1> QED BY <1>1, <1>2, FlightMapsOf

LEMMA EmptyFlights ==
  /\ <<>> \in FlightMaps /\ DOMAIN <<>> = {}
<1>1. DOMAIN <<>> = {}
  OBVIOUS
<1>2. <<>> \in [{} -> Flights]
  OBVIOUS
<1> QED BY <1>1, <1>2, FlightMapsOf

(* A step of one process that writes nothing but, perhaps, cuts a line off.*)
LEMMA LocalStep ==
  ASSUME PolyglotInvariant, NEW h \in Hosts, NEW r \in Processes, ProcessSound(h, r),
         run' = [run EXCEPT ![h] = r],
         UNCHANGED <<resultLines, cases, leftover, labels, up>>, torn' \in BOOLEAN, stops' \in Nat
  PROVE  PolyglotInvariant'
<1>1. PolyglotTyped'
  BY DEF PolyglotInvariant, PolyglotTyped
<1>2. ASSUME NEW g \in Hosts PROVE ProcessSound(g, run[g])'
  <2>1. ProcessSound(g, run'[g])
    BY DEF PolyglotInvariant, PolyglotTyped
  <2> QED
    BY <2>1 DEF ProcessSound, Assigned, Unrecorded, FlightsFit, OneModel, LanesHeld
<1>3. AllLinesFit' /\ LabelsFit'
  BY DEF PolyglotInvariant, AllLinesFit, LabelsFit
<1> QED BY <1>1, <1>2, <1>3 DEF PolyglotInvariant

LEMMA ProcessTyped ==
  ASSUME PolyglotInvariant, NEW h \in Hosts
  PROVE  run[h] \in Processes /\ ProcessSound(h, run[h]) /\ run[h].flight \in FlightMaps
  BY DEF PolyglotInvariant, PolyglotTyped, Processes

LEMMA FlightTyped ==
  ASSUME PolyglotInvariant, NEW h \in Hosts, NEW e \in Flying(h)
  PROVE  /\ e \in Entries /\ run[h].flight[e] \in Flights
         /\ FlightFits(run[h].flight[e], leftover[e], cases[e][1])
         /\ ModelOf[e] \in Served[h] /\ Unrecorded(e) /\ ModelOf[e] = run[h].group
  BY ProcessTyped, FlightsTyped DEF Flying, ProcessSound, Assigned, FlightsFit, OneModel

(* A process that has nothing in flight.                                   *)
LEMMA DownSound ==
  ASSUME NEW h
  PROVE  Down \in Processes /\ ProcessSound(h, Down)
<1>1. Down \in Processes
  BY EmptyFlights DEF Down, Processes, Groups
<1>2. Down.todo = {} /\ DOMAIN Down.flight = {}
  BY EmptyFlights DEF Down
<1> QED
  BY <1>1, <1>2, FS_EmptySet DEF ProcessSound, Assigned, FlightsFit, OneModel, LanesHeld


LEMMA PolyglotInitially == PolyglotInit => PolyglotInvariant
<1> SUFFICES ASSUME PolyglotInit PROVE PolyglotInvariant
  OBVIOUS
<1>a. <<>> \in Seq(Seq(Tried)) /\ <<>> \in Seq(Candidates)
  OBVIOUS
<1>b. run \in [Hosts -> Processes]
  BY DownSound DEF PolyglotInit
<1>c. resultLines \in [Entries -> Seq(Seq(Tried))] /\ labels \in [Entries -> Seq(Candidates)]
  BY <1>a DEF PolyglotInit
<1>d. cases \in [Entries -> [Attempts -> Candidates]] /\ leftover \in [Entries -> Candidates]
  BY DEF PolyglotInit, Candidates
<1>1. PolyglotTyped
  BY <1>b, <1>c, <1>d DEF PolyglotInit, PolyglotTyped
<1>2. \A h \in Hosts : ProcessSound(h, run[h])
  BY DownSound DEF PolyglotInit
<1>3. AllLinesFit /\ LabelsFit
  BY DEF PolyglotInit, AllLinesFit, LinesFit, LabelsFit
<1> QED BY <1>1, <1>2, <1>3 DEF PolyglotInvariant

(* Steps that change no process.                                           *)
LEMMA QueueStep ==
  ASSUME PolyglotInvariant, NEW plan, Queue(plan)
  PROVE  PolyglotInvariant'
  BY DEF Queue, PolyglotInvariant, PolyglotTyped, ProcessSound, Assigned, Unrecorded,
         FlightsFit, OneModel, LanesHeld, AllLinesFit, LabelsFit

LEMMA SwitchStep ==
  ASSUME PolyglotInvariant, Switch
  PROVE  PolyglotInvariant'
<1>1. up' \in BOOLEAN
  BY DEF Switch
<1> QED
  BY <1>1 DEF Switch, disk, PolyglotInvariant, PolyglotTyped, ProcessSound, Assigned,
     Unrecorded, FlightsFit, OneModel, LanesHeld, AllLinesFit, LabelsFit

LEMMA TriageStep ==
  ASSUME PolyglotInvariant, NEW e \in Entries, Triage(e)
  PROVE  PolyglotInvariant'
<1>1. /\ labels' = [labels EXCEPT ![e] = <<cases[e][1]>>] /\ resultLines[e] # <<>>
      /\ UNCHANGED <<resultLines, torn, cases, leftover, run, up, stops>>
  BY DEF Triage, Shown, Failed
<1>2. <<cases[e][1]>> \in Seq(Candidates) /\ labels \in [Entries -> Seq(Candidates)]
  BY DEF PolyglotInvariant, PolyglotTyped, Attempts
<1>3. PolyglotTyped'
  BY <1>1, <1>2 DEF PolyglotInvariant, PolyglotTyped
<1>4. LabelsFit'
  BY <1>1, <1>2 DEF PolyglotInvariant, LabelsFit
<1>5. \A h \in Hosts : ProcessSound(h, run[h])'
  BY <1>1 DEF PolyglotInvariant, ProcessSound, Assigned, Unrecorded, FlightsFit, OneModel,
     LanesHeld
<1> QED BY <1>1, <1>3, <1>4, <1>5 DEF PolyglotInvariant, AllLinesFit

(* A process starts and ends.                                              *)
LEMMA StartRunStep ==
  ASSUME PolyglotInvariant, NEW h \in Hosts, StartRun(h)
  PROVE  PolyglotInvariant'
<1> DEFINE r == [Down EXCEPT !.on = TRUE, !.todo = Todo(h)]
<1>1. Todo(h) \in SUBSET Entries
  BY DEF Todo, Queued
<1>2. \A e \in Todo(h) : ModelOf[e] \in Served[h] /\ Unrecorded(e)
  BY DEF Todo, Queued, Done, Unrecorded
<1>3. r \in Processes
  BY <1>1, EmptyFlights DEF Down, Processes, Groups
<1>4. r.todo = Todo(h) /\ DOMAIN r.flight = {}
  BY EmptyFlights DEF Down
<1> HIDE DEF r
<1>5. ProcessSound(h, r)
  BY <1>2, <1>4, FS_EmptySet DEF ProcessSound, Assigned, FlightsFit, OneModel, LanesHeld
<1>6. /\ run' = [run EXCEPT ![h] = r]
      /\ UNCHANGED <<resultLines, torn, cases, leftover, labels, up, stops>>
  BY DEF StartRun, disk, r
<1>7. torn' \in BOOLEAN /\ stops' \in Nat
  BY <1>6 DEF PolyglotInvariant, PolyglotTyped
<1> QED BY <1>3, <1>5, <1>6, <1>7, LocalStep

LEMMA EndsStep ==
  ASSUME PolyglotInvariant, NEW h \in Hosts, End(h) \/ Kill(h)
  PROVE  PolyglotInvariant'
<1>1. /\ run' = [run EXCEPT ![h] = Down]
      /\ UNCHANGED <<resultLines, cases, leftover, labels, up>>
  BY DEF End, Kill, disk
<1>2. torn \in BOOLEAN /\ stops \in Nat
  BY DEF PolyglotInvariant, PolyglotTyped
<1>3. torn' = torn \/ torn' = TRUE
  BY DEF End, Kill, disk
<1>4. torn' \in BOOLEAN
  BY <1>2, <1>3
<1>5. stops' = stops \/ stops' = stops + 1
  BY DEF End, Kill
<1>6. stops' \in Nat
  BY <1>2, <1>5
<1> QED BY <1>1, <1>4, <1>6, DownSound, LocalStep

LEMMA InterruptStep ==
  ASSUME PolyglotInvariant, NEW h \in Hosts, Interrupt(h)
  PROVE  PolyglotInvariant'
<1> DEFINE r == [run[h] EXCEPT !.stop = "sigint"]
<1>1. r \in Processes
  BY ProcessTyped DEF Processes
<1>2. r.todo = run[h].todo /\ r.flight = run[h].flight /\ r.group = run[h].group
      /\ r.agentDir = run[h].agentDir
  BY ProcessTyped DEF Processes
<1>3. ProcessSound(h, r)
  BY <1>2, ProcessTyped DEF ProcessSound, Assigned, FlightsFit, OneModel, LanesHeld
<1>4. run' = [run EXCEPT ![h] = r] /\ UNCHANGED <<resultLines, torn, cases, leftover, labels, up>>
  BY DEF Interrupt, disk
<1>5. torn' \in BOOLEAN /\ stops' \in Nat
  BY <1>4 DEF Interrupt, PolyglotInvariant, PolyglotTyped
<1> QED BY <1>1, <1>3, <1>4, <1>5, LocalStep

LEMMA NextGroupStep ==
  ASSUME PolyglotInvariant, NEW h \in Hosts, NextGroup(h)
  PROVE  PolyglotInvariant'
<1>1. PICK e \in run[h].todo :
        run' = [run EXCEPT ![h].group = ModelOf[e], ![h].agentDir = ModelOf[e]]
  BY DEF NextGroup
<1>2. e \in Entries /\ run \in [Hosts -> Processes]
  BY ProcessTyped DEF Processes, PolyglotInvariant, PolyglotTyped
<1> DEFINE r == [run[h] EXCEPT !.group = ModelOf[e], !.agentDir = ModelOf[e]]
<1>3. r \in Processes
  BY <1>2, ProcessTyped DEF Processes, Groups
<1>4. r.todo = run[h].todo /\ r.flight = run[h].flight
  BY ProcessTyped DEF Processes
<1>5. run' = [run EXCEPT ![h] = r]
  BY <1>1, <1>2, ProcessTyped DEF Processes
<1> HIDE DEF r
<1>6. DOMAIN r.flight = {}
  BY <1>4 DEF NextGroup, GroupOver, Flying
<1>7. ProcessSound(h, r)
  BY <1>4, <1>6, ProcessTyped, FS_EmptySet DEF ProcessSound, Assigned, FlightsFit, OneModel, LanesHeld
<1>8. /\ UNCHANGED <<resultLines, torn, cases, leftover, labels, up, stops>>
      /\ torn' \in BOOLEAN /\ stops' \in Nat
  BY DEF NextGroup, disk, PolyglotInvariant, PolyglotTyped
<1> QED BY <1>3, <1>5, <1>7, <1>8, LocalStep


(* The process of a host when an entry goes on, its flight being record,   *)
(* and when it is over.                                                    *)
WithFlight(h, e, record) ==
  [run[h] EXCEPT !.flight = [run[h].flight EXCEPT ![e] = record]]
WithoutFlight(h, e, skips, stop) ==
  [run[h] EXCEPT !.flight = Without(run[h].flight, e), !.skips = skips, !.stop = stop]

LEMMA FlightMovesOn ==
  ASSUME PolyglotInvariant, NEW h \in Hosts, NEW e \in Flying(h), NEW record \in Flights
  PROVE  LET r == WithFlight(h, e, record)
         IN  /\ Onwards(h, e, record) = [run EXCEPT ![h] = r]
             /\ r \in Processes
             /\ r.todo = run[h].todo /\ r.group = run[h].group /\ r.agentDir = run[h].agentDir
             /\ DOMAIN r.flight = Flying(h) /\ r.flight[e] = record
             /\ \A x \in Flying(h) \ {e} : r.flight[x] = run[h].flight[x]
<1>1. run \in [Hosts -> Processes] /\ run[h] \in Processes /\ run[h].flight \in FlightMaps
  BY ProcessTyped DEF PolyglotInvariant, PolyglotTyped
<1> DEFINE m == [run[h].flight EXCEPT ![e] = record]
<1>2. /\ m \in FlightMaps /\ DOMAIN m = Flying(h) /\ m[e] = record
      /\ \A x \in Flying(h) \ {e} : m[x] = run[h].flight[x]
  BY <1>1, FlightChanged DEF Flying
<1>3. Onwards(h, e, record) = [run EXCEPT ![h] = [run[h] EXCEPT !.flight = m]]
  BY <1>1 DEF Onwards
<1> HIDE DEF m
<1>4. [run[h] EXCEPT !.flight = m] \in Processes
  BY <1>1, <1>2 DEF Processes
<1>5. /\ [run[h] EXCEPT !.flight = m].todo = run[h].todo
      /\ [run[h] EXCEPT !.flight = m].group = run[h].group
      /\ [run[h] EXCEPT !.flight = m].agentDir = run[h].agentDir
      /\ [run[h] EXCEPT !.flight = m].flight = m
  BY <1>1 DEF Processes
<1> QED BY <1>2, <1>3, <1>4, <1>5 DEF m, WithFlight

(* It may, where its attempts fit and it does not start to work.           *)
LEMMA MovedSound ==
  ASSUME PolyglotInvariant, NEW h \in Hosts, NEW e \in Flying(h), NEW record \in Flights,
         FlightFits(record, leftover[e], cases[e][1]), record.pc # "working"
  PROVE  ProcessSound(h, WithFlight(h, e, record))
<1> DEFINE r == WithFlight(h, e, record)
<1>1. /\ r.todo = run[h].todo /\ r.group = run[h].group /\ r.agentDir = run[h].agentDir
      /\ DOMAIN r.flight = Flying(h) /\ r.flight[e] = record
      /\ \A x \in Flying(h) \ {e} : r.flight[x] = run[h].flight[x]
  BY FlightMovesOn
<1> HIDE DEF r
<1>2. ProcessSound(h, run[h]) /\ Flying(h) = DOMAIN run[h].flight
  BY ProcessTyped DEF Flying
<1>3. Assigned(h, r)
  BY <1>1, <1>2 DEF ProcessSound, Assigned
<1>4. FlightsFit(r)
  BY <1>1, <1>2 DEF ProcessSound, FlightsFit
<1>5. OneModel(r) /\ LanesHeld(r)
  BY <1>1, <1>2 DEF ProcessSound, OneModel, LanesHeld
<1>6. ProcessSound(h, r)
  BY <1>3, <1>4, <1>5 DEF ProcessSound
<1> QED BY <1>6 DEF r

(* An entry is over; what else changes of its process does not matter.     *)
LEMMA FlightLands ==
  ASSUME PolyglotInvariant, NEW h \in Hosts, NEW e \in Flying(h),
         NEW skips \in Nat, NEW stop \in {Absent, "sigint", "harness"}
  PROVE  LET r == WithoutFlight(h, e, skips, stop)
         IN  /\ r \in Processes /\ ProcessSound(h, r)
             /\ r.todo = run[h].todo /\ DOMAIN r.flight = Flying(h) \ {e}
             /\ \A x \in Flying(h) \ {e} : r.flight[x] = run[h].flight[x]
<1> DEFINE m == Without(run[h].flight, e)
           r == [run[h] EXCEPT !.flight = m, !.skips = skips, !.stop = stop]
<1>1. run[h] \in Processes /\ run[h].flight \in FlightMaps /\ ProcessSound(h, run[h])
  BY ProcessTyped
<1>2. /\ m \in FlightMaps /\ DOMAIN m = Flying(h) \ {e}
      /\ \A x \in Flying(h) \ {e} : m[x] = run[h].flight[x]
  BY <1>1, FlightRemoved DEF Flying
<1> HIDE DEF m
<1>3. r \in Processes
  BY <1>1, <1>2 DEF Processes
<1>4. /\ r.todo = run[h].todo /\ r.group = run[h].group /\ r.agentDir = run[h].agentDir
      /\ r.flight = m
  BY <1>1 DEF Processes
<1> HIDE DEF r
<1>5. Flying(h) = DOMAIN run[h].flight
  BY DEF Flying
<1>6. Assigned(h, r) /\ FlightsFit(r) /\ OneModel(r)
  BY <1>1, <1>2, <1>4, <1>5 DEF ProcessSound, Assigned, FlightsFit, OneModel
<1>7. IsFiniteSet(DOMAIN run[h].flight) /\ IsFiniteSet(DOMAIN m)
      /\ Cardinality(DOMAIN m) <= Cardinality(DOMAIN run[h].flight)
  BY <1>1, <1>2, <1>5, FS_Subset DEF ProcessSound, LanesHeld
<1>8. run[h].group = ModelOf[e] /\ e \in Entries
  BY FlightTyped
<1>9. Cardinality(DOMAIN m) \in Nat /\ Cardinality(DOMAIN run[h].flight) \in Nat
      /\ Parallel[run[h].group] \in Nat
  BY <1>7, <1>8, FS_CardinalityType, PolyglotAssumption
<1>10. LanesHeld(r)
  BY <1>1, <1>4, <1>5, <1>7, <1>9 DEF ProcessSound, LanesHeld
<1> QED BY <1>2, <1>3, <1>4, <1>6, <1>10 DEF ProcessSound, WithoutFlight, r, m


(* What becomes of the processes when an entry is left, and when it is     *)
(* recorded.                                                               *)
LandedLeft(h, e, skips, stop) ==
  [Landed(h, e) EXCEPT ![h].skips = skips, ![h].stop = stop]
LandedRecorded(h, e, skips) == [Landed(h, e) EXCEPT ![h].skips = skips]

LEMMA LandsAs ==
  ASSUME PolyglotInvariant, NEW h \in Hosts, NEW e, NEW skips, NEW stop
  PROVE  /\ LandedLeft(h, e, skips, stop)
              = [run EXCEPT ![h] = WithoutFlight(h, e, skips, stop)]
         /\ LandedRecorded(h, e, skips)
              = [run EXCEPT ![h] = WithoutFlight(h, e, skips, run[h].stop)]
         /\ Landed(h, e) = [run EXCEPT ![h] = WithoutFlight(h, e, run[h].skips, run[h].stop)]
         /\ Landed(h, e)[h].stop = run[h].stop
<1> DEFINE m == Without(run[h].flight, e)
<1>1. run \in [Hosts -> Processes] /\ run[h] \in Processes
  BY ProcessTyped DEF PolyglotInvariant, PolyglotTyped
<1>2. /\ Landed(h, e) = [run EXCEPT ![h] = [run[h] EXCEPT !.flight = m]]
      /\ WithoutFlight(h, e, skips, stop)
           = [run[h] EXCEPT !.flight = m, !.skips = skips, !.stop = stop]
      /\ WithoutFlight(h, e, skips, run[h].stop)
           = [run[h] EXCEPT !.flight = m, !.skips = skips, !.stop = run[h].stop]
      /\ WithoutFlight(h, e, run[h].skips, run[h].stop)
           = [run[h] EXCEPT !.flight = m, !.skips = run[h].skips, !.stop = run[h].stop]
  BY <1>1 DEF Landed, WithoutFlight
<1> HIDE DEF m
<1> DEFINE r == [run[h] EXCEPT !.flight = m]
<1>3. /\ Landed(h, e)[h] = r
      /\ \A x : [Landed(h, e) EXCEPT ![h] = x] = [run EXCEPT ![h] = x]
  BY <1>1, <1>2
<1>4. /\ r.stop = run[h].stop
      /\ [r EXCEPT !.skips = skips, !.stop = stop]
           = [run[h] EXCEPT !.flight = m, !.skips = skips, !.stop = stop]
      /\ [r EXCEPT !.skips = skips]
           = [run[h] EXCEPT !.flight = m, !.skips = skips, !.stop = run[h].stop]
      /\ r = [run[h] EXCEPT !.flight = m, !.skips = run[h].skips, !.stop = run[h].stop]
  BY <1>1 DEF Processes
<1>5. /\ [Landed(h, e) EXCEPT ![h].skips = skips, ![h].stop = stop]
           = [Landed(h, e) EXCEPT ![h] = [r EXCEPT !.skips = skips, !.stop = stop]]
      /\ [Landed(h, e) EXCEPT ![h].skips = skips]
           = [Landed(h, e) EXCEPT ![h] = [r EXCEPT !.skips = skips]]
  BY <1>1, <1>2, <1>3
<1> HIDE DEF r
<1> QED BY <1>2, <1>3, <1>4, <1>5 DEF r, LandedLeft, LandedRecorded

LEMMA TakeStep ==
  ASSUME PolyglotInvariant, NEW h \in Hosts, Take(h)
  PROVE  PolyglotInvariant'
<1>1. PICK e \in OfGroup(h) :
        /\ Cardinality(Flying(h)) < Parallel[run[h].group]
        /\ run' = [run EXCEPT ![h].todo = @ \ {e}, ![h].flight = With(@, e, Launched)]
        /\ leftover' = [leftover EXCEPT ![e] = cases[e][1]]
  BY DEF Take
<1> DEFINE m == With(run[h].flight, e, Launched)
           r == [run[h] EXCEPT !.todo = @ \ {e}, !.flight = m]
<1>2. /\ run \in [Hosts -> Processes] /\ run[h] \in Processes /\ run[h].flight \in FlightMaps
      /\ ProcessSound(h, run[h]) /\ Flying(h) = DOMAIN run[h].flight
  BY ProcessTyped DEF PolyglotInvariant, PolyglotTyped, Flying
<1>3. e \in run[h].todo /\ e \in Entries /\ ModelOf[e] = run[h].group
  BY <1>2 DEF OfGroup, Processes
<1>4. <<>> \in Seq(Tried) /\ Launched \in Flights
  <2>1. <<>> \in Seq(Tried)
    OBVIOUS
  <2> QED BY <2>1 DEF Launched, Flights, Attempts, Candidates
<1>5. /\ m \in FlightMaps /\ DOMAIN m = DOMAIN run[h].flight \cup {e} /\ m[e] = Launched
      /\ \A x \in DOMAIN run[h].flight \ {e} : m[x] = run[h].flight[x]
  <2> DEFINE flight == run[h].flight
  <2>1. flight \in FlightMaps /\ e \in Entries /\ Launched \in Flights
    BY <1>2, <1>3, <1>4
  <2> HIDE DEF flight
  <2>2. /\ With(flight, e, Launched) \in FlightMaps
        /\ DOMAIN With(flight, e, Launched) = DOMAIN flight \cup {e}
        /\ With(flight, e, Launched)[e] = Launched
        /\ \A x \in DOMAIN flight \ {e} : With(flight, e, Launched)[x] = flight[x]
    BY <2>1, FlightAdded
  <2> QED BY <2>2 DEF flight
<1> HIDE DEF m
<1>6. run' = [run EXCEPT ![h] = r]
  <2>1. [run[h] EXCEPT !.todo = @ \ {e}].flight = run[h].flight
    BY <1>2 DEF Processes
  <2>2. run' = [run EXCEPT ![h].todo = @ \ {e}, ![h].flight = m]
    BY <1>1, <1>2, <2>1 DEF m
  <2> QED BY <1>2, <2>2
<1>7. r \in Processes
  BY <1>2, <1>5 DEF Processes
<1>8. /\ r.todo = run[h].todo \ {e} /\ r.flight = m /\ r.group = run[h].group
      /\ r.agentDir = run[h].agentDir
  BY <1>2 DEF Processes
<1> HIDE DEF r
<1>a. /\ leftover' \in [Entries -> Candidates] /\ leftover'[e] = cases[e][1]
      /\ \A x \in Entries \ {e} : leftover'[x] = leftover[x]
  BY <1>1, <1>3 DEF PolyglotInvariant, PolyglotTyped, Attempts
<1>9. FlightFits(Launched, cases[e][1], cases[e][1]) /\ Launched.pc # "working"
  BY DEF FlightFits, Launched
<1>10. Assigned(h, r)
  BY <1>2, <1>3, <1>5, <1>8 DEF ProcessSound, Assigned
<1>11. OneModel(r)
  BY <1>2, <1>3, <1>5, <1>8, <1>9 DEF ProcessSound, OneModel
<1>12. e \notin Flying(h) /\ IsFiniteSet(Flying(h))
  BY <1>2, <1>3 DEF ProcessSound, Assigned, LanesHeld
<1>13. IsFiniteSet(DOMAIN m) /\ Cardinality(DOMAIN m) = Cardinality(Flying(h)) + 1
  BY <1>2, <1>5, <1>12, FS_AddElement
<1>14. Cardinality(Flying(h)) \in Nat /\ Parallel[run[h].group] \in Nat
  BY <1>3, <1>12, FS_CardinalityType, PolyglotAssumption
<1>15. LanesHeld(r)
  BY <1>1, <1>8, <1>13, <1>14 DEF LanesHeld
<1>16. UNCHANGED <<resultLines, torn, cases, labels, up, stops>>
  BY DEF Take
<1>17. PolyglotTyped'
  BY <1>2, <1>6, <1>7, <1>16, <1>a DEF PolyglotInvariant, PolyglotTyped
<1>18. ProcessSound(h, run[h])'
  <2>1. run'[h] = r /\ DOMAIN run[h].flight \subseteq Entries
    BY <1>2, <1>6, FlightsTyped
  <2>2. FlightsFit(run[h])'
    BY <1>2, <1>5, <1>8, <1>9, <1>16, <1>a, <2>1 DEF ProcessSound, FlightsFit
  <2> QED BY <1>10, <1>11, <1>15, <1>16, <2>1, <2>2
          DEF ProcessSound, Assigned, Unrecorded, OneModel, LanesHeld
<1>19. ASSUME NEW g \in Hosts, g # h PROVE ProcessSound(g, run[g])'
  <2>1. ProcessSound(g, run[g]) /\ run'[g] = run[g] /\ DOMAIN run[g].flight \subseteq Entries
    BY <1>2, <1>6, <1>19, ProcessTyped, FlightsTyped
  <2>2. e \notin DOMAIN run[g].flight
    BY <1>2, <1>3, <1>19, <2>1, PolyglotAssumption DEF ProcessSound, Assigned
  <2>3. FlightsFit(run[g])'
    BY <1>16, <1>a, <2>1, <2>2 DEF ProcessSound, FlightsFit
  <2> QED BY <1>16, <2>1, <2>3 DEF ProcessSound, Assigned, Unrecorded, OneModel, LanesHeld
<1>20. AllLinesFit'
  <2> SUFFICES ASSUME NEW x \in Entries
               PROVE  LinesFit(resultLines[x], ExerciseOf[x] \in Excluded, leftover'[x], cases[x][1])
    BY <1>16 DEF AllLinesFit
  <2>1. CASE x = e
    <3>1. resultLines[e] = <<>>
      BY <1>2, <1>3 DEF ProcessSound, Assigned, Unrecorded
    <3> QED BY <2>1, <3>1 DEF LinesFit
  <2>2. CASE x # e
    BY <1>a, <2>2 DEF PolyglotInvariant, AllLinesFit
  <2> QED BY <2>1, <2>2
<1>21. LabelsFit'
  BY <1>16 DEF PolyglotInvariant, LabelsFit
<1> QED BY <1>17, <1>18, <1>19, <1>20, <1>21 DEF PolyglotInvariant

LEMMA StartWorkerStep ==
  ASSUME PolyglotInvariant, NEW h \in Hosts, NEW e \in Flying(h), StartWorker(h, e)
  PROVE  PolyglotInvariant'
<1> DEFINE f == run[h].flight[e]
           m == [run[h].flight EXCEPT ![e].pc = "working"]
           r == [run[h] EXCEPT !.flight = m, !.agentDir = ModelOf[e]]
<1>1. /\ run \in [Hosts -> Processes] /\ run[h] \in Processes /\ run[h].flight \in FlightMaps
      /\ ProcessSound(h, run[h]) /\ Flying(h) = DOMAIN run[h].flight
  BY ProcessTyped DEF PolyglotInvariant, PolyglotTyped, Flying
<1>2. e \in Entries /\ f \in Flights /\ FlightFits(f, leftover[e], cases[e][1]) /\ f.pc = "call"
  BY FlightTyped DEF StartWorker
<1>3. [f EXCEPT !.pc = "working"] \in Flights
  BY <1>2 DEF Flights
<1>4. /\ m \in FlightMaps /\ DOMAIN m = Flying(h)
      /\ m[e] = [f EXCEPT !.pc = "working"]
      /\ \A x \in Flying(h) \ {e} : m[x] = run[h].flight[x]
  <2>1. m = [run[h].flight EXCEPT ![e] = [f EXCEPT !.pc = "working"]]
    BY <1>1, FlightsTyped
  <2> QED BY <1>1, <1>3, <2>1, FlightChanged
<1>5. FlightFits([f EXCEPT !.pc = "working"], leftover[e], cases[e][1])
  BY <1>2 DEF FlightFits, Flights
<1>6. run' = [run EXCEPT ![h] = r]
  BY <1>1 DEF StartWorker, Processes
<1> HIDE DEF m
<1>7. r \in Processes
  BY <1>1, <1>2, <1>4 DEF Processes, Groups
<1>8. /\ r.todo = run[h].todo /\ r.flight = m /\ r.group = run[h].group
      /\ r.agentDir = ModelOf[e]
  BY <1>1 DEF Processes
<1> HIDE DEF r
<1>9. Assigned(h, r) /\ FlightsFit(r)
  BY <1>1, <1>4, <1>5, <1>8 DEF ProcessSound, Assigned, FlightsFit
<1>10. OneModel(r) /\ LanesHeld(r)
  BY <1>1, <1>4, <1>8 DEF ProcessSound, OneModel, LanesHeld
<1>11. ProcessSound(h, r)
  BY <1>9, <1>10 DEF ProcessSound
<1>12. /\ UNCHANGED <<resultLines, torn, cases, leftover, labels, up, stops>>
       /\ torn' \in BOOLEAN /\ stops' \in Nat
  BY DEF StartWorker, disk, PolyglotInvariant, PolyglotTyped
<1> QED BY <1>6, <1>7, <1>11, <1>12, LocalStep

(* An attempt that is repeated.                                            *)
LEMMA FlightRenewed ==
  ASSUME NEW f \in Flights, NEW left, NEW first, FlightFits(f, left, first), f.pc # "append",
         NEW pc \in {"call", "working", "asleep"}, NEW tries \in Nat
  PROVE  LET g == [f EXCEPT !.tries = tries, !.pc = pc]
         IN  g \in Flights /\ FlightFits(g, left, first) /\ g.pc = pc
<1> DEFINE g == [f EXCEPT !.tries = tries, !.pc = pc]
<1>1. g \in Flights
  BY DEF Flights
<1>2. g.pc = pc /\ g.n = f.n /\ g.attempts = f.attempts /\ g.previous = f.previous
  BY DEF Flights
<1> HIDE DEF g
<1>3. FlightFits(g, left, first)
  BY <1>2 DEF FlightFits
<1> QED BY <1>1, <1>2, <1>3 DEF g

LEMMA WakeStep ==
  ASSUME PolyglotInvariant, NEW h \in Hosts, NEW e \in Flying(h), Wake(h, e)
  PROVE  PolyglotInvariant'
<1> DEFINE f == run[h].flight[e]
           g == [f EXCEPT !.pc = "call"]
<1>1. f \in Flights /\ FlightFits(f, leftover[e], cases[e][1]) /\ f.pc = "asleep"
  BY FlightTyped DEF Wake
<1>2. g \in Flights /\ FlightFits(g, leftover[e], cases[e][1]) /\ g.pc # "working"
  BY <1>1 DEF Flights, FlightFits
<1>3. run' = Landed(h, e) \/ run' = Onwards(h, e, g)
  BY DEF Wake
<1>4. /\ UNCHANGED <<resultLines, torn, cases, leftover, labels, up, stops>>
      /\ torn' \in BOOLEAN /\ stops' \in Nat
  BY DEF Wake, disk, PolyglotInvariant, PolyglotTyped
<1> HIDE DEF g
<1>5. CASE run' = Landed(h, e)
  <2>1. run[h].skips \in Nat /\ run[h].stop \in {Absent, "sigint", "harness"}
    BY ProcessTyped DEF Processes
  <2> DEFINE r == WithoutFlight(h, e, run[h].skips, run[h].stop)
  <2>2. run' = [run EXCEPT ![h] = r]
    BY <1>5, LandsAs
  <2>3. r \in Processes /\ ProcessSound(h, r)
    BY <2>1, FlightLands
  <2> HIDE DEF r
  <2> QED BY <1>4, <2>2, <2>3, LocalStep
<1>6. CASE run' = Onwards(h, e, g)
  <2> DEFINE r == WithFlight(h, e, g)
  <2>1. r \in Processes /\ run' = [run EXCEPT ![h] = r]
    BY <1>2, <1>6, FlightMovesOn
  <2>2. ProcessSound(h, r)
    BY <1>2, MovedSound
  <2> HIDE DEF r
  <2> QED BY <1>4, <2>1, <2>2, LocalStep
<1> QED BY <1>3, <1>5, <1>6

LEMMA HarnessErrorStep ==
  ASSUME PolyglotInvariant, NEW h \in Hosts, NEW e \in Flying(h), HarnessError(h, e)
  PROVE  PolyglotInvariant'
<1> DEFINE f == run[h].flight[e]
           g == [f EXCEPT !.tries = @ + 1, !.pc = "asleep"]
           skips == run[h].skips + 1
           stop == IF run[h].stop = Absent /\ skips >= MaxConsecutiveSkips
                   THEN "harness" ELSE run[h].stop
<1>1. f \in Flights /\ FlightFits(f, leftover[e], cases[e][1]) /\ f.pc = "working"
  BY FlightTyped DEF HarnessError
<1>2. g \in Flights /\ FlightFits(g, leftover[e], cases[e][1]) /\ g.pc # "working"
  <2>1. f.tries + 1 \in Nat /\ g = [f EXCEPT !.tries = f.tries + 1, !.pc = "asleep"]
    BY <1>1 DEF Flights
  <2> QED BY <1>1, <2>1, FlightRenewed
<1>3. skips \in Nat /\ stop \in {Absent, "sigint", "harness"}
  BY ProcessTyped DEF Processes
<1>4. \/ run' = [run EXCEPT ![h] = WithoutFlight(h, e, skips, stop)]
      \/ run' = Onwards(h, e, g)
  <2>1. CASE f.tries < HarnessRetries /\ run' = Onwards(h, e, g)
    BY <2>1
  <2>2. CASE run' = [Landed(h, e) EXCEPT
                        ![h].skips = skips,
                        ![h].stop = IF @ = Absent /\ skips >= MaxConsecutiveSkips
                                    THEN "harness" ELSE @]
    <3>1. Landed(h, e)[h].stop = run[h].stop
      BY LandsAs
    <3>2. run' = LandedLeft(h, e, skips, stop)
      <4>1. run \in [Hosts -> Processes] /\ run[h] \in Processes
        BY ProcessTyped DEF PolyglotInvariant, PolyglotTyped
      <4>2. [run[h] EXCEPT !.flight = Without(@, e)].stop = run[h].stop
        BY <4>1 DEF Processes
      <4> QED BY <2>2, <3>1, <4>1, <4>2 DEF Landed, LandedLeft
    <3> HIDE DEF skips, stop
    <3> QED BY <3>2, LandsAs
  <2> QED BY <2>1, <2>2 DEF HarnessError
<1>5. /\ UNCHANGED <<resultLines, torn, cases, leftover, labels, up, stops>>
      /\ torn' \in BOOLEAN /\ stops' \in Nat
  BY DEF HarnessError, disk, PolyglotInvariant, PolyglotTyped
<1> HIDE DEF g, skips, stop
<1>6. CASE run' = [run EXCEPT ![h] = WithoutFlight(h, e, skips, stop)]
  <2>1. WithoutFlight(h, e, skips, stop) \in Processes
        /\ ProcessSound(h, WithoutFlight(h, e, skips, stop))
    BY <1>3, FlightLands
  <2> QED BY <1>5, <1>6, <2>1, LocalStep
<1>7. CASE run' = Onwards(h, e, g)
  <2> DEFINE r == WithFlight(h, e, g)
  <2>1. r \in Processes /\ run' = [run EXCEPT ![h] = r]
    BY <1>2, <1>7, FlightMovesOn
  <2>2. ProcessSound(h, r)
    BY <1>2, MovedSound
  <2> HIDE DEF r
  <2> QED BY <1>5, <2>1, <2>2, LocalStep
<1> QED BY <1>4, <1>6, <1>7


(* Any other error: the entry is left, and the run is to stop.             *)
LEMMA EntryFailsStep ==
  ASSUME PolyglotInvariant, NEW h \in Hosts, NEW e \in Flying(h), EntryFails(h, e)
  PROVE  PolyglotInvariant'
<1> DEFINE stop == IF run[h].stop = Absent THEN "harness" ELSE run[h].stop
           skips == run[h].skips
<1>1. skips \in Nat /\ stop \in {Absent, "sigint", "harness"}
  BY ProcessTyped DEF Processes
<1>2. run \in [Hosts -> Processes] /\ run[h] \in Processes
  BY ProcessTyped DEF PolyglotInvariant, PolyglotTyped
<1>3. run' = [run EXCEPT ![h] = WithoutFlight(h, e, skips, stop)]
  <2> DEFINE r == [run[h] EXCEPT !.flight = Without(run[h].flight, e)]
  <2>1. Landed(h, e) = [run EXCEPT ![h] = r] /\ r.stop = run[h].stop
    BY <1>2 DEF Landed, Processes
  <2>2. run' = [Landed(h, e) EXCEPT ![h].stop = stop]
    <3>1. Landed(h, e)[h].stop = run[h].stop
      BY LandsAs
    <3> QED BY <3>1 DEF EntryFails
  <2> HIDE DEF stop, skips
  <2>3. [r EXCEPT !.stop = stop] = WithoutFlight(h, e, skips, stop)
    BY <1>2 DEF WithoutFlight, Processes, skips
  <2> HIDE DEF r
  <2> QED BY <1>2, <2>1, <2>2, <2>3
<1>4. UNCHANGED <<resultLines, cases, leftover, labels, up>>
  BY DEF EntryFails
<1>5. torn' \in BOOLEAN /\ stops' \in Nat
  <2>1. torn' = torn \/ torn' = TRUE
    BY DEF EntryFails
  <2>2. torn \in BOOLEAN /\ stops \in Nat
    BY DEF PolyglotInvariant, PolyglotTyped
  <2>3. stops' = stops + 1
    BY DEF EntryFails
  <2>4. torn' \in BOOLEAN
    BY <2>1, <2>2
  <2>5. stops' \in Nat
    BY <2>2, <2>3
  <2> QED BY <2>4, <2>5
<1> HIDE DEF skips, stop
<1>6. WithoutFlight(h, e, skips, stop) \in Processes
      /\ ProcessSound(h, WithoutFlight(h, e, skips, stop))
  BY <1>1, FlightLands
<1> QED BY <1>3, <1>4, <1>5, <1>6, LocalStep

LEMMA AppendedAttempt ==
  ASSUME NEW S, NEW s \in Seq(S), NEW t \in S, NEW n \in {1, 2}, Len(s) = n - 1
  PROVE  /\ Append(s, t) \in Seq(S) /\ Len(Append(s, t)) = n /\ Append(s, t) # <<>>
         /\ n = 1 => Append(s, t)[1] = t
         /\ n = 2 => Append(s, t)[1] = s[1] /\ s # <<>>
<1>1. Append(s, t) \in Seq(S) /\ Len(Append(s, t)) = n
  OBVIOUS
<1>2. n = 1 => Append(s, t)[1] = t
  OBVIOUS
<1>3. n = 2 => Append(s, t)[1] = s[1] /\ s # <<>>
  OBVIOUS
<1>4. Append(s, t) # <<>>
  <2>1. Len(Append(s, t)) # 0
    BY <1>1
  <2>2. Len(<<>>) = 0
    OBVIOUS
  <2> QED BY <2>1, <2>2
<1> QED BY <1>1, <1>2, <1>3, <1>4

(* One more attempt.                                                       *)
LEMMA AttemptAdded ==
  ASSUME NEW f \in Flights, NEW left, NEW first, FlightFits(f, left, first), f.pc = "working",
         NEW t \in Tried, NEW now \in Candidates,
         now = IF f.n = 1 THEN Saved(first, t.candidate) ELSE first
  PROVE  LET attempts == Append(f.attempts, t)
             over == [f EXCEPT !.attempts = attempts, !.pc = "append"]
             again == [f EXCEPT !.attempts = attempts, !.n = 2, !.tries = 0,
                                !.previous = now, !.pc = "call"]
         IN  /\ t.passed \/ f.n = 2 => over \in Flights /\ FlightFits(over, left, now)
             /\ ~(t.passed \/ f.n = 2) => again \in Flights /\ FlightFits(again, left, now)
<1> DEFINE attempts == Append(f.attempts, t)
           over == [f EXCEPT !.attempts = attempts, !.pc = "append"]
           again == [f EXCEPT !.attempts = attempts, !.n = 2, !.tries = 0,
                              !.previous = now, !.pc = "call"]
<1>1. f.n \in {1, 2} /\ f.attempts \in Seq(Tried) /\ Len(f.attempts) = f.n - 1
  BY DEF Flights, Attempts, FlightFits
<1>2. /\ attempts \in Seq(Tried) /\ Len(attempts) = f.n /\ attempts # <<>>
      /\ f.n = 1 => attempts[1] = t
      /\ f.n = 2 => attempts[1] = f.attempts[1] /\ f.attempts # <<>>
  <2> PICK s, n : s = f.attempts /\ n = f.n
    OBVIOUS
  <2>1. n \in {1, 2} /\ s \in Seq(Tried) /\ Len(s) = n - 1
    BY <1>1
  <2>2. attempts = Append(s, t)
    OBVIOUS
  <2> HIDE DEF attempts
  <2> QED BY <2>1, <2>2, AppendedAttempt
<1> HIDE DEF attempts
<1>3. over \in Flights /\ again \in Flights
  BY <1>1, <1>2 DEF Flights, Attempts
<1>4. /\ over.n = f.n /\ over.attempts = attempts /\ over.pc = "append"
      /\ over.previous = f.previous
      /\ again.n = 2 /\ again.attempts = attempts /\ again.pc = "call"
      /\ again.previous = now
  BY DEF Flights
<1> HIDE DEF over, again
<1>5. now = Saved(left, FirstSolution(attempts))
  <2>1. CASE f.n = 1
    <3>1. f.attempts = <<>>
      BY <1>1, <2>1
    <3> QED BY <1>2, <2>1, <3>1 DEF FirstSolution, FlightFits
  <2>2. CASE f.n = 2
    BY <1>2, <2>2 DEF FirstSolution, FlightFits
  <2> QED BY <1>1, <2>1, <2>2
<1>6. ASSUME t.passed \/ f.n = 2 PROVE FlightFits(over, left, now)
  <2>1. f.n = 2 => ~attempts[1].passed /\ f.previous = now
    BY <1>1, <1>2 DEF FlightFits
  <2>2. f.n = 1 => attempts[1].passed
    BY <1>2, <1>6
  <2> QED BY <1>1, <1>2, <1>4, <1>5, <2>1, <2>2 DEF FlightFits
<1>7. ASSUME ~(t.passed \/ f.n = 2) PROVE FlightFits(again, left, now)
  <2>1. f.n = 1 /\ ~attempts[1].passed /\ Len(attempts) = 1
    BY <1>1, <1>2, <1>7
  <2> QED BY <1>2, <1>4, <1>5, <2>1 DEF FlightFits
<1> QED BY <1>3, <1>6, <1>7 DEF attempts, over, again

(* No entry is in the hands of two processes.                              *)
LEMMA HandsApart ==
  ASSUME PolyglotInvariant, NEW h \in Hosts, NEW g \in Hosts, g # h, NEW e \in Flying(h)
  PROVE  e \notin run[g].todo \cup DOMAIN run[g].flight
<1>1. ModelOf[e] \in Served[h] /\ ModelOf[e] \notin Served[g]
  BY FlightTyped, PolyglotAssumption
<1> QED BY <1>1, ProcessTyped DEF ProcessSound, Assigned

LEMMA AnswerStep ==
  ASSUME PolyglotInvariant, NEW h \in Hosts, NEW e \in Flying(h),
         NEW candidate \in Candidates, NEW passed \in Verdicts(candidate),
         Answer(h, e, candidate, passed)
  PROVE  PolyglotInvariant'
<1> DEFINE f == run[h].flight[e]
           t == [candidate |-> candidate, passed |-> passed]
           attempts == Append(f.attempts, t)
           solution == Saved(cases[e][f.n], candidate)
           now == cases'[e][1]
           over == [f EXCEPT !.attempts = attempts, !.pc = "append"]
           again == [f EXCEPT !.attempts = attempts, !.n = 2, !.tries = 0,
                              !.previous = solution, !.pc = "call"]
<1>1. /\ e \in Entries /\ f \in Flights /\ FlightFits(f, leftover[e], cases[e][1]) /\ f.pc = "working"
      /\ f.n \in Attempts /\ Unrecorded(e)
  BY FlightTyped DEF Answer, Flights
<1>2. t \in Tried /\ t.candidate = candidate /\ t.passed = passed
  BY DEF Tried, Verdicts
<1>3. cases \in [Entries -> [Attempts -> Candidates]]
  BY DEF PolyglotInvariant, PolyglotTyped
<1>4. solution \in Candidates
  BY <1>1, <1>3 DEF Saved
<1>5. cases' = [cases EXCEPT ![e][f.n] = solution]
  BY DEF Answer
<1>6. /\ cases' \in [Entries -> [Attempts -> Candidates]]
      /\ \A x \in Entries \ {e} : cases'[x] = cases[x]
      /\ now = IF f.n = 1 THEN solution ELSE cases[e][1]
  BY <1>1, <1>3, <1>4, <1>5 DEF Attempts
<1>7. now \in Candidates
  BY <1>1, <1>6 DEF Attempts
<1>8. PICK k : k = now
  OBVIOUS
<1>9. k = IF f.n = 1 THEN Saved(cases[e][1], t.candidate) ELSE cases[e][1]
  BY <1>2, <1>6, <1>8
<1>10. f.n = 1 => solution = k
  BY <1>6, <1>8
<1> HIDE DEF t, solution, now
<1>11. /\ t.passed \/ f.n = 2 => over \in Flights /\ FlightFits(over, leftover[e], k)
       /\ ~(t.passed \/ f.n = 2) => again \in Flights /\ FlightFits(again, leftover[e], k)
  BY <1>1, <1>2, <1>7, <1>8, <1>9, <1>10, AttemptAdded DEF Attempts
<1> DEFINE record == IF passed \/ f.n = 2 THEN over ELSE again
<1>12. record \in Flights /\ FlightFits(record, leftover[e], k) /\ record.pc # "working"
  <2>1. over.pc = "append" /\ again.pc = "call"
    BY <1>1 DEF Flights
  <2> QED BY <1>2, <1>11, <2>1
<1>13. /\ run' = Onwards(h, e, record)
       /\ UNCHANGED <<resultLines, torn, leftover, labels, up, stops>>
  BY DEF Answer, solution, t
<1> HIDE DEF f, record
<1>a. PICK r : r = WithFlight(h, e, record)
  OBVIOUS
<1>14. /\ run' = [run EXCEPT ![h] = r] /\ r \in Processes
       /\ r.todo = run[h].todo /\ r.group = run[h].group /\ r.agentDir = run[h].agentDir
       /\ DOMAIN r.flight = Flying(h) /\ r.flight[e] = record
       /\ \A x \in Flying(h) \ {e} : r.flight[x] = run[h].flight[x]
  BY <1>12, <1>13, <1>a, FlightMovesOn
<1>15. run \in [Hosts -> Processes] /\ Flying(h) \subseteq Entries /\ Flying(h) = DOMAIN run[h].flight
  BY FlightTyped DEF PolyglotInvariant, PolyglotTyped, Flying
<1>16. PolyglotTyped'
  BY <1>6, <1>13, <1>14, <1>15 DEF PolyglotInvariant, PolyglotTyped
<1>17. ProcessSound(h, run[h])'
  <2>1. ProcessSound(h, run[h]) /\ run'[h] = r
    BY <1>14, <1>15, ProcessTyped
  <2>2. Assigned(h, r)'
    BY <1>13, <1>14, <1>15, <2>1 DEF ProcessSound, Assigned, Unrecorded
  <2>3. \A x \in Flying(h) : FlightFits(r.flight[x], leftover[x], cases'[x][1])
    BY <1>6, <1>8, <1>12, <1>14, <1>15, <2>1 DEF ProcessSound, FlightsFit, now
  <2>4. FlightsFit(r)'
    BY <1>13, <1>14, <2>3 DEF FlightsFit
  <2>5. OneModel(r)' /\ LanesHeld(r)'
    BY <1>12, <1>14, <1>15, <2>1 DEF ProcessSound, OneModel, LanesHeld
  <2> QED BY <2>1, <2>2, <2>4, <2>5 DEF ProcessSound
<1>18. ASSUME NEW g \in Hosts, g # h PROVE ProcessSound(g, run[g])'
  <2>1. ProcessSound(g, run[g]) /\ run'[g] = run[g]
        /\ e \notin run[g].todo \cup DOMAIN run[g].flight
        /\ DOMAIN run[g].flight \subseteq Entries
    BY <1>14, <1>15, <1>18, ProcessTyped, FlightsTyped, HandsApart
  <2>2. FlightsFit(run[g])'
    BY <1>6, <1>13, <2>1 DEF ProcessSound, FlightsFit
  <2> QED BY <1>13, <2>1, <2>2 DEF ProcessSound, Assigned, Unrecorded, OneModel, LanesHeld
<1>19. AllLinesFit'
  <2> SUFFICES ASSUME NEW x \in Entries
               PROVE  LinesFit(resultLines[x], ExerciseOf[x] \in Excluded, leftover[x], cases'[x][1])
    BY <1>13 DEF AllLinesFit
  <2>1. CASE x = e
    BY <1>1, <2>1 DEF Unrecorded, LinesFit
  <2>2. CASE x # e
    BY <1>6, <2>2 DEF PolyglotInvariant, AllLinesFit
  <2> QED BY <2>1, <2>2
<1>20. LabelsFit'
  BY <1>1, <1>6, <1>13 DEF PolyglotInvariant, LabelsFit, Unrecorded
<1> QED BY <1>16, <1>17, <1>18, <1>19, <1>20 DEF PolyglotInvariant

LEMMA AppendResultStep ==
  ASSUME PolyglotInvariant, NEW h \in Hosts, NEW e \in Flying(h), AppendResult(h, e)
  PROVE  PolyglotInvariant'
<1> DEFINE f == run[h].flight[e]
           r == WithoutFlight(h, e, 0, run[h].stop)
<1>1. /\ e \in Entries /\ f \in Flights /\ FlightFits(f, leftover[e], cases[e][1]) /\ f.pc = "append"
      /\ resultLines[e] = <<>> /\ ExerciseOf[e] \notin Excluded
  BY FlightTyped DEF AppendResult, Unrecorded
<1>2. resultLines \in [Entries -> Seq(Seq(Tried))] /\ run \in [Hosts -> Processes]
  BY DEF PolyglotInvariant, PolyglotTyped
<1>3. f.attempts \in Seq(Tried) /\ f.n \in {1, 2}
  BY <1>1 DEF Flights, Attempts
<1>4. Append(resultLines[e], f.attempts) = <<f.attempts>>
  BY <1>1
<1>5. resultLines' = [resultLines EXCEPT ![e] = <<f.attempts>>]
  BY <1>4 DEF AppendResult
<1>6. /\ resultLines' \in [Entries -> Seq(Seq(Tried))]
      /\ resultLines'[e] = <<f.attempts>>
      /\ \A x \in Entries \ {e} : resultLines'[x] = resultLines[x]
  <2>1. <<f.attempts>> \in Seq(Seq(Tried))
    BY <1>3
  <2> QED BY <1>1, <1>2, <1>5, <2>1
<1>7. LinesFit(<<f.attempts>>, ExerciseOf[e] \in Excluded, leftover[e], cases[e][1])
  <2>1. /\ Len(f.attempts) = f.n /\ f.attempts # <<>>
        /\ cases[e][1] = Saved(leftover[e], FirstSolution(f.attempts))
        /\ f.n = 2 => ~f.attempts[1].passed
        /\ f.n = 1 => f.attempts[1].passed
    BY <1>1, <1>3 DEF FlightFits
  <2>2. ExerciseOf[e] \notin Excluded
    BY <1>1
  <2> HIDE DEF f
  <2> QED BY <1>3, <2>1, <2>2 DEF LinesFit
<1> HIDE DEF f
<1>8. run' = [run EXCEPT ![h] = r]
  <2>1. run' = LandedRecorded(h, e, 0)
    BY DEF AppendResult, LandedRecorded
  <2> QED BY <2>1, LandsAs
<1>9. /\ r \in Processes /\ ProcessSound(h, r)
      /\ r.todo = run[h].todo /\ DOMAIN r.flight = Flying(h) \ {e}
  <2>1. run[h].stop \in {Absent, "sigint", "harness"} /\ 0 \in Nat
    BY ProcessTyped DEF Processes
  <2> QED BY <2>1, FlightLands
<1> HIDE DEF r
<1>10. UNCHANGED <<torn, cases, leftover, labels, up, stops>>
  BY DEF AppendResult
<1>11. PolyglotTyped'
  BY <1>2, <1>6, <1>8, <1>9, <1>10 DEF PolyglotInvariant, PolyglotTyped
<1>12. ASSUME NEW g \in Hosts PROVE ProcessSound(g, run[g])'
  <2>1. ProcessSound(g, run'[g])
    BY <1>2, <1>8, <1>9, ProcessTyped
  <2>2. e \notin run'[g].todo \cup DOMAIN run'[g].flight
    <3>1. CASE g = h
      <4>1. e \notin run[h].todo
        BY ProcessTyped DEF ProcessSound, Assigned, Flying
      <4> QED BY <1>2, <1>8, <1>9, <3>1, <4>1
    <3>2. CASE g # h
      BY <1>2, <1>8, <3>2, HandsApart
    <3> QED BY <3>1, <3>2
  <2>3. run'[g].todo \cup DOMAIN run'[g].flight \subseteq Entries
    <3>1. run'[g] \in Processes
      BY <1>2, <1>8, <1>9
    <3> QED BY <3>1, FlightsTyped DEF Processes
  <2>4. Assigned(g, run[g])'
    BY <1>6, <2>1, <2>2, <2>3 DEF ProcessSound, Assigned, Unrecorded
  <2> QED BY <1>10, <2>1, <2>4 DEF ProcessSound, FlightsFit, OneModel, LanesHeld
<1>13. AllLinesFit'
  <2> SUFFICES ASSUME NEW x \in Entries
               PROVE  LinesFit(resultLines'[x], ExerciseOf[x] \in Excluded, leftover[x], cases[x][1])
    BY <1>10 DEF AllLinesFit
  <2>1. CASE x = e
    BY <1>1, <1>6, <1>7, <2>1
  <2>2. CASE x # e
    BY <1>6, <2>2 DEF PolyglotInvariant, AllLinesFit
  <2> QED BY <2>1, <2>2
<1>14. LabelsFit'
  BY <1>1, <1>6, <1>10 DEF PolyglotInvariant, LabelsFit
<1> QED BY <1>11, <1>12, <1>13, <1>14 DEF PolyglotInvariant


LEMMA PolyglotStutters ==
  PolyglotInvariant /\ UNCHANGED polyglotVars => PolyglotInvariant'
  BY DEF polyglotVars, PolyglotInvariant, PolyglotTyped, ProcessSound, Assigned, Unrecorded,
     FlightsFit, OneModel, LanesHeld, AllLinesFit, LabelsFit

LEMMA PolyglotSteps == PolyglotInvariant /\ [PolyglotNext]_polyglotVars => PolyglotInvariant'
<1> SUFFICES ASSUME PolyglotInvariant, PolyglotNext PROVE PolyglotInvariant'
  BY PolyglotStutters
<1>1. CASE PlanBaseline \/ \E model \in Range(ModelOf) : PlanConfirm(model)
  BY <1>1, QueueStep DEF PlanBaseline, PlanConfirm
<1>2. ASSUME NEW h \in Hosts, StartRun(h) \/ Work(h) \/ Interrupt(h) \/ Kill(h)
      PROVE  PolyglotInvariant'
  BY <1>2, StartRunStep, NextGroupStep, TakeStep, EndsStep, InterruptStep DEF Work
<1>3. ASSUME NEW h \in Hosts, NEW e \in Flying(h), Fly(h, e) \/ EntryFails(h, e)
      PROVE  PolyglotInvariant'
  <2>1. e \in Entries /\ SolutionsOf[e] \cup {Absent} \subseteq Candidates
    BY FlightTyped, PolyglotAssumption DEF Candidates
  <2> QED BY <1>3, <2>1, StartWorkerStep, HarnessErrorStep, WakeStep, AppendResultStep,
             AnswerStep, EntryFailsStep DEF Fly
<1>4. ASSUME NEW e \in Entries, Triage(e)
      PROVE  PolyglotInvariant'
  BY <1>4, TriageStep
<1>5. CASE Switch
  BY <1>5, SwitchStep
<1> QED BY <1>1, <1>2, <1>3, <1>4, <1>5 DEF PolyglotNext

(* The inductive invariant of the benchmark's processes.                   *)
THEOREM PolyglotKeepsInvariant == PolyglotSpec => []PolyglotInvariant
  BY PolyglotInitially, PolyglotSteps, PTL DEF PolyglotSpec

(* However runs stop and start again on however many hosts, an entry gets  *)
(* one result, and of excluded exercises none; what is recorded of it are  *)
(* one attempt that passed, or two of which the first failed (driver.mjs   *)
(* 168-203).                                                               *)
THEOREM EntriesRecordedOnce == PolyglotSpec => []RecordedOnce
<1>1. PolyglotInvariant => RecordedOnce
  BY DEF PolyglotInvariant, AllLinesFit, LinesFit, RecordedOnce
<1> QED BY <1>1, PolyglotKeepsInvariant, PTL

(* The solution Jev is shown of a failure is the one of the first attempt  *)
(* that is recorded, and the one a second attempt starts from that of the  *)
(* first of the same run; without one it is exactly what lay there when    *)
(* that run of the entry began (worker-run.mjs 91-103, triage.mjs 79-86).  *)
THEOREM SolutionsAreThoseRecorded == PolyglotSpec => []ShownAsRecorded
<1>1. ASSUME PolyglotInvariant PROVE ShownAsRecorded
  <2>1. ASSUME NEW e \in Entries, labels[e] # <<>>
        PROVE  labels[e][1] = Saved(leftover[e], FirstSolution(resultLines[e][1]))
    <3>1. resultLines[e] # <<>> /\ labels[e][1] = cases[e][1]
      BY <1>1, <2>1 DEF PolyglotInvariant, LabelsFit
    <3>2. 1 \in DOMAIN resultLines[e]
      <4>1. resultLines[e] \in Seq(Seq(Tried))
        BY <1>1 DEF PolyglotInvariant, PolyglotTyped
      <4> QED BY <3>1, <4>1
    <3> QED BY <1>1, <3>1, <3>2 DEF PolyglotInvariant, AllLinesFit, LinesFit
  <2>2. ASSUME NEW h \in Hosts, NEW e \in Flying(h), run[h].flight[e].n = 2
        PROVE  run[h].flight[e].previous
                 = Saved(leftover[e], FirstSolution(run[h].flight[e].attempts))
    <3>1. FlightFits(run[h].flight[e], leftover[e], cases[e][1]) /\ run[h].flight[e] \in Flights
      BY <1>1, FlightTyped
    <3>2. run[h].flight[e].attempts # <<>>
      BY <2>2, <3>1 DEF FlightFits, Flights
    <3> QED BY <2>2, <3>1, <3>2 DEF FlightFits
  <2> QED BY <2>1, <2>2 DEF ShownAsRecorded
<1> QED BY <1>1, PolyglotKeepsInvariant, PTL

(* A process runs one model at a time, no more of its entries at once than *)
(* it has lanes, and the agent directory of the process, which is a        *)
(* variable of its environment (worker-run.mjs 105-109), is that of every  *)
(* worker that runs.                                                       *)
OneModelAtATime ==
  \A h \in Hosts : \A e \in Flying(h) :
    /\ ModelOf[e] = run[h].group
    /\ run[h].flight[e].pc = "working" => run[h].agentDir = ModelOf[e]
    /\ Cardinality(Flying(h)) <= Parallel[ModelOf[e]]

THEOREM ModelsTakeTurns == PolyglotSpec => []OneModelAtATime
<1>1. ASSUME PolyglotInvariant PROVE OneModelAtATime
  BY <1>1 DEF PolyglotInvariant, ProcessSound, OneModel, LanesHeld, Flying, OneModelAtATime
<1> QED BY <1>1, PolyglotKeepsInvariant, PTL

-----------------------------------------------------------------------------
(* The scores                                                              *)

(* What an excess over the target says when it rejects it: the share is at *)
(* most one, so the excess alone outweighs the spread of a single result.  *)
LEMMA ExcessOutweighs ==
  ASSUME NEW n \in Nat, NEW d \in Nat, d > 0, NEW t \in 0..10, NEW room \in 0..10,
         d <= room * n, 625 * d * d >= 2401 * n * t * room
  PROVE  625 * d >= 2401 * t
<1>1. 2401 * t * (room * n) >= 2401 * t * d
  OBVIOUS
<1>2. 625 * d * d >= 2401 * t * d
  BY <1>1
<1> QED BY <1>2

(* One more result on the side of the excess keeps it rejected.            *)
LEMMA ExcessGrows ==
  ASSUME NEW n \in Nat, NEW d \in Nat, d > 0, NEW t \in 0..10, NEW room \in 0..10,
         d <= room * n, 625 * d * d >= 2401 * n * t * room
  PROVE  625 * (d + room) * (d + room) - 2401 * (n + 1) * t * room
           >= 625 * d * d - 2401 * n * t * room
<1>1. 625 * d >= 2401 * t
  BY ExcessOutweighs
<1>2. 625 * d * room >= 2401 * t * room
  <2>1. \A a, b, c \in Nat : a >= b => a * c >= b * c
    OBVIOUS
  <2>2. 625 * d \in Nat /\ 2401 * t \in Nat /\ room \in Nat
    OBVIOUS
  <2> QED BY <1>1, <2>1, <2>2
<1>3. 625 * (d + room) * (d + room) = 625 * d * d + 2 * (625 * d * room) + 625 * room * room
  OBVIOUS
<1>4. 2401 * (n + 1) * t * room = 2401 * n * t * room + 2401 * t * room
  OBVIOUS
<1>5. 625 * room * room >= 0 /\ 2401 * t * room >= 0
  OBVIOUS
<1> DEFINE A == 625 * d * room
           B == 2401 * t * room
           C == 625 * d * d
           D == 2401 * n * t * room
           E == 625 * room * room
<1>6. /\ A \in Int /\ B \in Int /\ C \in Int /\ D \in Int /\ E \in Int
      /\ A >= B /\ B >= 0 /\ E >= 0
  BY <1>2, <1>5
<1> HIDE DEF A, B, C, D, E
<1>7. (C + 2 * A + E) - (D + B) >= C - D
  BY <1>6
<1> QED BY <1>3, <1>4, <1>7 DEF A, B, C, D, E

(* Whatever the number of results and the target, a pass can only help and *)
(* a failure only harm: one more of them never turns a status the other way*)
(* (qualification.mjs 256-280), though the interval moves and its width    *)
(* changes with every result.                                              *)
THEOREM StatusesFollow ==
  ASSUME NEW n \in Nat \ {0}, NEW passes \in 0..n, NEW tenths \in 0..10
  PROVE  StatusFollows(n, passes, tenths)
<1>1. ASSUME LowerAtLeast(n, passes, tenths)
      PROVE  LowerAtLeast(n + 1, passes + 1, tenths)
  <2>1. CASE tenths = 0
    BY <2>1 DEF LowerAtLeast
  <2>2. CASE tenths # 0
    <3> DEFINE d == 10 * passes - tenths * n
               room == 10 - tenths
    <3>1. d \in Nat /\ d > 0 /\ 625 * d * d >= 2401 * n * tenths * room
      BY <1>1, <2>2 DEF LowerAtLeast, Rejects, Spread
    <3>2. room \in 0..10 /\ d <= room * n
      OBVIOUS
    <3>3. 10 * (passes + 1) - tenths * (n + 1) = d + room
      OBVIOUS
    <3> HIDE DEF d, room
    <3>4. 625 * (d + room) * (d + room) >= 2401 * (n + 1) * tenths * room
      <4>1. 625 * (d + room) * (d + room) - 2401 * (n + 1) * tenths * room
              >= 625 * d * d - 2401 * n * tenths * room
        BY <3>1, <3>2, ExcessGrows
      <4> QED BY <3>1, <3>2, <4>1
    <3>5. Rejects(n + 1, passes + 1, tenths) >= Spread(n + 1, tenths)
      BY <3>3, <3>4 DEF Rejects, Spread, room
    <3>6. 10 * (passes + 1) > tenths * (n + 1)
      BY <3>1, <3>2, <3>3
    <3> QED BY <3>5, <3>6 DEF LowerAtLeast
  <2> QED BY <2>1, <2>2
<1>2. ASSUME UpperUnder(n, passes, tenths)
      PROVE  UpperUnder(n + 1, passes, tenths)
  <2> DEFINE d == tenths * n - 10 * passes
             other == 10 - tenths
  <2>1. d \in Nat /\ d > 0 /\ 625 * d * d > 2401 * n * other * tenths
    BY <1>2 DEF UpperUnder, Rejects, Spread
  <2>2. other \in 0..10 /\ d <= tenths * n
    OBVIOUS
  <2>3. tenths * (n + 1) - 10 * passes = d + tenths
    OBVIOUS
  <2> HIDE DEF d
  <2>4. 625 * (d + tenths) * (d + tenths) > 2401 * (n + 1) * other * tenths
    <3> HIDE DEF other
    <3>1. 625 * (d + tenths) * (d + tenths) - 2401 * (n + 1) * other * tenths
            >= 625 * d * d - 2401 * n * other * tenths
      BY <2>1, <2>2, ExcessGrows
    <3> QED BY <2>1, <2>2, <3>1
  <2>5. Rejects(n + 1, passes, tenths) > Spread(n + 1, tenths)
    <3>1. 10 * passes - tenths * (n + 1) = -(d + tenths)
      BY <2>1, <2>3
    <3>2. Rejects(n + 1, passes, tenths) = 625 * (d + tenths) * (d + tenths)
      BY <2>1, <3>1 DEF Rejects
    <3>3. Spread(n + 1, tenths) = 2401 * (n + 1) * other * tenths
      BY DEF Spread
    <3> QED BY <2>4, <3>2, <3>3
  <2>6. 10 * passes < tenths * (n + 1)
    BY <2>1, <2>3
  <2> QED BY <2>5, <2>6 DEF UpperUnder
<1>3. ASSUME LowerAtLeast(n + 1, passes, tenths)
      PROVE  LowerAtLeast(n, passes, tenths)
  <2> DEFINE d == 10 * passes - tenths * (n + 1)
             spread == tenths * (10 - tenths)
  <2>1. CASE tenths # 0
    <3>1. d \in Nat /\ d > 0 /\ 625 * d * d >= 2401 * (n + 1) * spread
      BY <1>3, <2>1 DEF LowerAtLeast, Rejects, Spread
    <3>2. spread \in Nat /\ 10 * passes - tenths * n = d + tenths
      OBVIOUS
    <3> HIDE DEF d
    <3>3. 625 * (d + tenths) * (d + tenths) >= 625 * d * d
      BY <3>1
    <3>4. 625 * (d + tenths) * (d + tenths) >= 2401 * n * spread
      <4> HIDE DEF spread
      <4>1. 2401 * (n + 1) * spread = 2401 * n * spread + 2401 * spread
        BY <3>2
      <4> QED BY <3>1, <3>2, <3>3, <4>1
    <3> QED BY <3>1, <3>2, <3>4 DEF LowerAtLeast, Rejects, Spread
  <2> QED BY <2>1 DEF LowerAtLeast
<1>4. ASSUME UpperUnder(n + 1, passes + 1, tenths)
      PROVE  UpperUnder(n, passes, tenths)
  <2> DEFINE d == tenths * (n + 1) - 10 * (passes + 1)
             spread == tenths * (10 - tenths)
             room == 10 - tenths
  <2>1. d \in Nat /\ d > 0 /\ 625 * d * d > 2401 * (n + 1) * spread
    BY <1>4 DEF UpperUnder, Rejects, Spread
  <2>2. spread \in Nat /\ room \in Nat /\ tenths * n - 10 * passes = d + room
    OBVIOUS
  <2> HIDE DEF d, room
  <2>3. 625 * (d + room) * (d + room) >= 625 * d * d
    BY <2>1, <2>2
  <2>4. 625 * (d + room) * (d + room) > 2401 * n * spread
    <3> HIDE DEF spread
    <3>1. 2401 * (n + 1) * spread = 2401 * n * spread + 2401 * spread
      BY <2>2
    <3> QED BY <2>1, <2>2, <2>3, <3>1
  <2>5. 10 * passes - tenths * n = -(d + room)
    BY <2>1, <2>2
  <2>6. Rejects(n, passes, tenths) = 625 * (d + room) * (d + room)
    BY <2>1, <2>2, <2>5 DEF Rejects
  <2> QED BY <2>1, <2>2, <2>4, <2>6 DEF UpperUnder, Spread
<1>5. /\ ~(LowerAtLeast(n, passes, tenths) /\ UpperUnder(n, passes, tenths))
      /\ ~(LowerAtLeast(n + 1, passes, tenths) /\ UpperUnder(n + 1, passes, tenths))
      /\ ~(LowerAtLeast(n + 1, passes + 1, tenths) /\ UpperUnder(n + 1, passes + 1, tenths))
  BY DEF LowerAtLeast, UpperUnder
<1> QED BY <1>1, <1>2, <1>3, <1>4, <1>5 DEF StatusFollows, ScoreStatus

=============================================================================
