--------------------------- MODULE Qualification ---------------------------
(***************************************************************************)
(* How a worker is qualified: benchmark runs leave results                 *)
(* (benchmark-runner.mjs), a record adds them up for the exact identity    *)
(* they ran under (qualification.mjs, qualification-store.mjs), and an     *)
(* assessment before a dispatch refreshes the record from all results that *)
(* are retained and decides (qualification-dispatch.mjs and -reader.mjs).  *)
(*                                                                         *)
(* An identity is the worker's configuration and the suite.  A benchmark   *)
(* run has one case, of one role.  Everything but the store's own writes   *)
(* is read without a lock, so every read is a step.                        *)
(***************************************************************************)
EXTENDS Integers, FiniteSets

CONSTANTS
  Procs,      \* invocations of the command line
  None,
  Targets,    \* targets of a score, in per cent
  Aggregates, \* what a record of an older version may count: results that it does not name
  MaxEdits,   \* bound on edits of the configuration, the suite or a result
  MaxRuns,    \* bound on benchmark runs
  MaxStarts,  \* bound on the other invocations
  MaxFaults   \* bound on crashes and failing writes

ASSUME TargetsAssumption == Targets \subseteq 1..99 /\ Targets # {}
ASSUME AggregatesAssumption == Aggregates \subseteq [n : Nat, passes : Nat]
ASSUME BoundsAssumption  == {MaxEdits, MaxRuns, MaxStarts, MaxFaults} \subseteq Nat

VARIABLES
  current,  \* the identity of the configured worker and the suite
  results,  \* what every benchmark run left under .tinysdd/bench
  kept,     \* what became of these files
  index,    \* evidence.json: the runs that were registered
  records,  \* the qualification record of every identity
  refs,     \* profile-references.json: the record each association binds
  lock,     \* who made .tinysdd/qualifications/.lock
  proc,     \* what every invocation is doing
  spent     \* edits, runs, starts, faults; whether a fault left the store half written

store == <<index, records, refs>>
vars == <<current, results, kept, index, records, refs, lock, proc, spent>>

Versions   == 0..MaxEdits
Identities == [config : Versions, suite : Versions]
Runs       == 1..MaxRuns
Results    == [identity : Identities, passed : BOOLEAN, verified : Versions]
Records    == {record \in [runs : SUBSET Runs, target : Targets, legacy : Aggregates \cup {None}] :
                 record.legacy # None => record.runs = {}}
Steps      == {"idle", "crashed", "work", "verify", "settle", "results", "register", "index",
               "target", "pool", "lock", "record", "refs", "decide", "decided"}
Invocations ==
  [at : Steps, task : {"none", "bench", "qualify", "rescore", "assess"}, run : 0..MaxRuns,
   identity : Identities \cup {None}, result : Results \cup {None}, worker : BOOLEAN,
   target : Targets \cup {None}, seen : Records \cup {None}, pool : SUBSET Runs,
   before : Records \cup {None}, merged : Records \cup {None}, edits : 0..MaxEdits,
   qualified : BOOLEAN]

ASSUME NoneAssumption == None \notin Procs \cup Identities \cup Results \cup Records \cup Aggregates

TypeOK ==
  /\ current \in Identities
  /\ results \in [Runs -> Results \cup {None}]
  /\ kept \in [Runs -> {"kept", "changed", "deleted"}]
  /\ index \subseteq Runs
  /\ records \in [Identities -> Records \cup {None}]
  /\ refs \in [Identities -> Records \cup {None}]
  /\ lock \in Procs \cup {None}
  /\ proc \in [Procs -> Invocations]
  /\ spent \in [edits : 0..MaxEdits, runs : 0..MaxRuns, starts : 0..MaxStarts,
                faults : 0..MaxFaults, torn : BOOLEAN]

-----------------------------------------------------------------------------
(* Scores and records                                                      *)

(* wilsonInterval at 95 %, solved for the target: a bound of the interval  *)
(* reaches T where (100 p - T n)^2 = z^2 n T (100 - T).                    *)
Distance(n, p, T) == 1000 * (100 * p - T * n) * (100 * p - T * n) - 3841 * n * T * (100 - T)
LowerReaches(n, p, T) == 100 * p >= T * n /\ Distance(n, p, T) >= 0
UpperBelow(n, p, T)   == 100 * p < T * n /\ Distance(n, p, T) > 0

StatusFor(n, p, T) ==
  IF n > 0 /\ LowerReaches(n, p, T) THEN "qualified"
  ELSE IF n > 0 /\ UpperBelow(n, p, T) THEN "not_qualified" ELSE "insufficient_evidence"

(* A record without roster and sources has only the counts it states.      *)
RecordStatus(record) ==
  IF record.legacy # None THEN StatusFor(record.legacy.n, record.legacy.passes, record.target)
  ELSE StatusFor(Cardinality(record.runs), Cardinality({r \in record.runs : results[r].passed}),
                 record.target)

\* Mutant: the record is replaced by what this invocation has read.
Overwrite(old, runs, target) == [runs |-> runs, target |-> target, legacy |-> None]

(* mergeQualificationRecords: runs are joined, the target is the given one.*)
Merge(old, runs, target) ==
  [runs |-> runs \cup (IF old = None THEN {} ELSE old.runs), target |-> target,
   legacy |-> IF old = None THEN None ELSE old.legacy]

(* mergeRosters: rostered results are not added to an older aggregate.     *)
Combines(old, runs) == old # None /\ old.legacy # None => runs = {}

(* validateAssociationBindings: every association binds its record's bytes.*)
Bound == \A i \in Identities : refs[i] \in {None, records[i]}

Recorded(i) == {r \in Runs : results[r] # None /\ results[r].identity = i}

(* readQualificationEvidencePool: registered runs must be unchanged; other *)
(* runs count if they are found, and then they must be sound as well.      *)
PoolOf(i)  == {r \in Recorded(i) : r \in index \/ kept[r] # "deleted"}
PoolReads(i) == PoolOf(i) # {} /\ \A r \in PoolOf(i) : kept[r] = "kept"

-----------------------------------------------------------------------------
Idle == [at |-> "idle", task |-> "none", run |-> 0, identity |-> None, result |-> None,
         worker |-> FALSE, target |-> None, seen |-> None, pool |-> {}, before |-> None,
         merged |-> None, edits |-> 0, qualified |-> FALSE]

At(p, step) == proc[p].at = step
Go(p, step) == proc' = [proc EXCEPT ![p].at = step]
Leave(p)    == proc' = [proc EXCEPT ![p] = Idle]
Unlock(p)   == lock' = IF lock = p THEN None ELSE lock
Spend(what) == spent' = [spent EXCEPT ![what] = @ + 1]
Start(p)    == At(p, "idle") /\ spent.starts < MaxStarts /\ Spend("starts")
Fault       == spent.faults < MaxFaults

-----------------------------------------------------------------------------
(* runBenchmark                                                            *)

(* The suite and its verifiers are loaded, the identity is built.          *)
RunBenchmark(p) ==
  /\ At(p, "idle")
  /\ spent.runs < MaxRuns /\ Spend("runs")
  /\ proc' = [proc EXCEPT ![p] = [Idle EXCEPT !.at = "work", !.task = "bench",
                                    !.run = spent.runs + 1, !.identity = current]]
  /\ UNCHANGED <<current, results, kept, store, lock>>

(* assertBenchmarkInputsStable: the suite is still the one of the identity.*)
InputsStable(p) == current.suite = proc[p].identity.suite

Settle(p, passed, verified) ==
  proc' = [proc EXCEPT ![p].at = "results",
             ![p].result = [identity |-> proc[p].identity, passed |-> passed, verified |-> verified]]

(* The worker may fail; the inputs are compared before and after it.       *)
RunCase(p) ==
  /\ At(p, "work")
  /\ \/ InputsStable(p) /\ Go(p, "verify")
     \/ Settle(p, FALSE, current.suite)
  /\ UNCHANGED <<current, results, kept, store, lock, spent>>

(* The verifiers run from the suite's files.                               *)
RunVerifiers(p) ==
  /\ At(p, "verify")
  /\ InputsStable(p)
  /\ \E passed \in BOOLEAN :
       proc' = [proc EXCEPT ![p].at = "settle",
                  ![p].result = [identity |-> proc[p].identity, passed |-> passed,
                                 verified |-> current.suite]]
  /\ UNCHANGED <<current, results, kept, store, lock, spent>>

VerifiersUnstable(p) ==
  /\ At(p, "verify") /\ ~InputsStable(p)
  /\ Settle(p, FALSE, current.suite)
  /\ UNCHANGED <<current, results, kept, store, lock, spent>>

(* After every group of checks the inputs are compared again.  A change    *)
(* that is seen after the first group skips the held-out one; one that is  *)
(* seen after the last leaves passed checks, which casePasses counts.      *)
SettleCase(p) ==
  /\ At(p, "settle")
  /\ \/ Settle(p, proc[p].result.passed, proc[p].result.verified)
     \/ ~InputsStable(p) /\ Settle(p, FALSE, proc[p].result.verified)
  /\ UNCHANGED <<current, results, kept, store, lock, spent>>

WriteResults(p) ==
  /\ At(p, "results")
  /\ results' = [results EXCEPT ![proc[p].run] = proc[p].result]
  /\ Go(p, "register")
  /\ UNCHANGED <<current, kept, store, lock, spent>>

(* registerQualificationInvocation: a busy store leaves the run unlisted.  *)
LockIndex(p) ==
  /\ At(p, "register")
  /\ IF lock = None THEN lock' = p /\ Go(p, "index") ELSE Leave(p) /\ UNCHANGED lock
  /\ UNCHANGED <<current, results, kept, store, spent>>

WriteIndex(p) ==
  /\ At(p, "index")
  /\ index' = index \cup {proc[p].run}
  /\ Leave(p) /\ Unlock(p)
  /\ UNCHANGED <<current, results, kept, records, refs, spent>>

-----------------------------------------------------------------------------
(* bench qualify, bench rescore                                            *)

(* The results that are named select the identity; the target is chosen.   *)
QualifyBenchmark(p, r, t, worker) ==
  /\ Start(p)
  /\ results[r] # None /\ kept[r] = "kept"
  /\ proc' = [proc EXCEPT ![p] = [Idle EXCEPT !.at = "pool", !.task = "qualify", !.target = t,
                                    !.identity = results[r].identity, !.worker = worker]]
  /\ UNCHANGED <<current, results, kept, store, lock>>

(* The saved record is read and scored again before the store is locked.   *)
RescoreBenchmark(p, i, t) ==
  /\ Start(p)
  /\ records[i] # None
  /\ proc' = [proc EXCEPT ![p] = [Idle EXCEPT !.at = "lock", !.task = "rescore", !.identity = i,
                                    !.target = t, !.pool = records[i].runs]]
  /\ UNCHANGED <<current, results, kept, store, lock>>

-----------------------------------------------------------------------------
(* assessQualification                                                     *)

(* The identity is inspected, its record read.                             *)
AssessQualification(p) ==
  /\ Start(p)
  /\ proc' = [proc EXCEPT ![p] = [Idle EXCEPT !.at = "target", !.task = "assess", !.identity = current]]
  /\ UNCHANGED <<current, results, kept, store, lock>>

(* The targets of the saved record are those of the refreshed one.         *)
ReadRecord(p) ==
  /\ At(p, "target")
  /\ LET saved == records[proc[p].identity]
     IN  IF saved = None THEN Leave(p)
         ELSE proc' = [proc EXCEPT ![p].at = "pool", ![p].seen = saved, ![p].target = saved.target]
  /\ UNCHANGED <<current, results, kept, store, lock, spent>>

\* Mutant: the saved record's own sources are not looked up in the pool.
NeverRetained(p) == TRUE

(* assertRetainedSources: what the record counts is still in the pool.     *)
Retained(p) == proc[p].seen # None => proc[p].seen.runs \subseteq PoolOf(proc[p].identity)

(* refreshRecord: an aggregate of which no result is retained is answered  *)
(* from as it was read, without the store's lock.                          *)
Unnamed(p) ==
  /\ proc[p].task = "assess"
  /\ proc[p].seen.legacy # None
  /\ PoolOf(proc[p].identity) = {}

ReadPool(p) ==
  /\ At(p, "pool")
  /\ IF PoolReads(proc[p].identity) /\ Retained(p)
     THEN proc' = [proc EXCEPT ![p].at = "lock", ![p].pool = PoolOf(proc[p].identity),
                               ![p].edits = spent.edits]
     ELSE IF Unnamed(p)
     THEN proc' = [proc EXCEPT ![p].at = "decide", ![p].pool = {}, ![p].merged = proc[p].seen,
                               ![p].edits = spent.edits]
     ELSE Leave(p)
  /\ UNCHANGED <<current, results, kept, store, lock, spent>>

(* roleDecision: the refreshed record qualifies the role or not.           *)
Decide(p) ==
  /\ At(p, "decide")
  /\ proc' = [proc EXCEPT ![p].at = "decided",
                          ![p].qualified = RecordStatus(proc[p].merged) = "qualified"]
  /\ UNCHANGED <<current, results, kept, store, lock, spent>>

Dispatch(p) ==
  /\ At(p, "decided")
  /\ Leave(p)
  /\ UNCHANGED <<current, results, kept, store, lock, spent>>

-----------------------------------------------------------------------------
(* accumulateQualificationRecord, replaceQualificationRecord               *)

(* A store that is busy, or whose associations or record do not fit,       *)
(* refuses.                                                                *)
LockStore(p) ==
  /\ At(p, "lock")
  /\ LET old == records[proc[p].identity]
     IN  IF lock = None /\ Bound /\ Combines(old, proc[p].pool)
         THEN /\ lock' = p
              /\ proc' = [proc EXCEPT ![p].at = "record", ![p].before = old,
                            ![p].merged = Merge(old, proc[p].pool, proc[p].target)]
         ELSE Leave(p) /\ UNCHANGED lock
  /\ UNCHANGED <<current, results, kept, store, spent>>

WriteRecord(p) ==
  /\ At(p, "record")
  /\ records' = [records EXCEPT ![proc[p].identity] = proc[p].merged]
  /\ Go(p, "refs")
  /\ UNCHANGED <<current, results, kept, index, refs, lock, spent>>

\* Mutant: an invocation that names no worker leaves the associations alone.
OnlyNamed(p) == proc[p].worker

(* The association of this worker, or the existing ones of this record.    *)
Associates(p) == proc[p].worker \/ refs[proc[p].identity] # None

WriteRefs(p) ==
  /\ At(p, "refs")
  /\ refs' = IF Associates(p) THEN [refs EXCEPT ![proc[p].identity] = proc[p].merged] ELSE refs
  /\ Unlock(p)
  /\ IF proc[p].task = "assess" THEN Go(p, "decide") ELSE Leave(p)
  /\ UNCHANGED <<current, results, kept, index, records, spent>>

(* A failing write takes the record back; that may fail too.               *)
FailWrite(p) ==
  /\ At(p, "record") \/ At(p, "refs")
  /\ Fault
  /\ \/ records' = [records EXCEPT ![proc[p].identity] = proc[p].before] /\ Spend("faults")
     \/ At(p, "refs") /\ UNCHANGED records
        /\ spent' = [spent EXCEPT !.faults = @ + 1, !.torn = TRUE]
  /\ Leave(p) /\ Unlock(p)
  /\ UNCHANGED <<current, results, kept, index, refs>>

-----------------------------------------------------------------------------
(* The operator, other programs, crashes                                   *)

Edit == spent.edits < MaxEdits /\ Spend("edits")

EditConfig == Edit /\ current' = [current EXCEPT !.config = spent.edits + 1]
              /\ UNCHANGED <<results, kept, store, lock, proc>>
EditSuite  == Edit /\ current' = [current EXCEPT !.suite = spent.edits + 1]
              /\ UNCHANGED <<results, kept, store, lock, proc>>

LoseResult(r, how) ==
  /\ Edit
  /\ results[r] # None /\ kept[r] = "kept"
  /\ kept' = [kept EXCEPT ![r] = how]
  /\ UNCHANGED <<current, results, store, lock, proc>>

Crash(p) ==
  /\ proc[p].at \notin {"idle", "crashed"}
  /\ Fault
  /\ proc' = [proc EXCEPT ![p] = [Idle EXCEPT !.at = "crashed"]]
  /\ spent' = [spent EXCEPT !.faults = @ + 1, !.torn = @ \/ At(p, "refs")]
  /\ UNCHANGED <<current, results, kept, store, lock>>

RemoveLock(p) ==
  /\ At(p, "crashed")
  /\ Leave(p) /\ Unlock(p)
  /\ UNCHANGED <<current, results, kept, store, spent>>

-----------------------------------------------------------------------------
(* The store may hold a record of an older version for the first identity, *)
(* with the worker's association.                                          *)
OldRecords == {[runs |-> {}, target |-> t, legacy |-> a] : t \in Targets, a \in Aggregates}

Init ==
  /\ current = [config |-> 0, suite |-> 0]
  /\ results = [r \in Runs |-> None]
  /\ kept = [r \in Runs |-> "kept"]
  /\ index = {}
  /\ \E old \in OldRecords \cup {None} :
       /\ records = [i \in Identities |-> IF i = current THEN old ELSE None]
       /\ refs = records
  /\ lock = None
  /\ proc = [p \in Procs |-> Idle]
  /\ spent = [edits |-> 0, runs |-> 0, starts |-> 0, faults |-> 0, torn |-> FALSE]

Continue(p) ==
  \/ RunCase(p) \/ RunVerifiers(p) \/ VerifiersUnstable(p) \/ SettleCase(p) \/ WriteResults(p)
  \/ LockIndex(p) \/ WriteIndex(p)
  \/ ReadRecord(p) \/ ReadPool(p) \/ LockStore(p) \/ WriteRecord(p) \/ WriteRefs(p)
  \/ Decide(p) \/ Dispatch(p)

Next ==
  \/ EditConfig \/ EditSuite
  \/ \E r \in Runs, how \in {"changed", "deleted"} : LoseResult(r, how)
  \/ \E p \in Procs : RunBenchmark(p) \/ AssessQualification(p) \/ Continue(p)
                      \/ FailWrite(p) \/ Crash(p) \/ RemoveLock(p)
  \/ \E p \in Procs, r \in Runs, t \in Targets, worker \in BOOLEAN : QualifyBenchmark(p, r, t, worker)
  \/ \E p \in Procs, i \in Identities, t \in Targets : RescoreBenchmark(p, i, t)

Spec == Init /\ [][Next]_vars

-----------------------------------------------------------------------------
(* The record as the last completed store operation left it.               *)
Committed(i) ==
  LET writers == {p \in Procs : proc[p].at \in {"record", "refs"} /\ proc[p].identity = i}
  IN  IF writers = {} THEN records[i] ELSE proc[CHOOSE p \in writers : TRUE].before

(* A record never loses a run it has counted, whoever refreshes, qualifies *)
(* or scores it again at the same time (qualification-store.mjs 633-731).  *)
EvidenceStays ==
  [][\A i \in Identities : Committed(i) # None =>
       Committed(i)' # None /\ Committed(i).runs \subseteq Committed(i)'.runs]_vars

(* Unless a crash or a failing rollback tore it, an unlocked store is one  *)
(* that the next operation accepts: every association binds the record as  *)
(* it is (qualification-store.mjs 496-506, 666-694).                       *)
StoreAccepts == lock = None /\ ~spent.torn => Bound

(* Whoever is dispatched as qualified was measured under the identity that *)
(* was inspected, on that identity's suite, in every run of the record the *)
(* decision was made on, whoever else added to it; and every run that was  *)
(* read from the pool or from the saved record was then still there,       *)
(* unchanged.  There is such a run, unless the record is one of an older   *)
(* version: such a one answers only as it was read, and no measured run is *)
(* ever counted with it (qualification-dispatch.mjs 119-167,               *)
(* benchmark-runner.mjs 652, qualification.mjs 819-826).                   *)
QualifiedOnEvidence ==
  \A p \in Procs : At(p, "decided") /\ proc[p].qualified =>
    /\ \A r \in proc[p].merged.runs :
         /\ results[r] # None /\ results[r].identity = proc[p].identity
         /\ results[r].passed => results[r].verified = proc[p].identity.suite
    /\ \A r \in proc[p].seen.runs \cup proc[p].pool :
         /\ r \in proc[p].merged.runs
         /\ kept[r] = "kept" \/ proc[p].edits < spent.edits
    /\ IF proc[p].merged.legacy = None THEN proc[p].merged.runs # {}
       ELSE proc[p].merged = proc[p].seen /\ proc[p].merged.runs = {}
=============================================================================
