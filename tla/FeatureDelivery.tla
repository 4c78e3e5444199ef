-------------------------- MODULE FeatureDelivery --------------------------
(***************************************************************************)
(* How a finished feature is delivered: the operator accepts it            *)
(* (acceptFeature in src/src/controller.mjs, with the integration check of *)
(* feature-integration.mjs and the ledger of feature-events.mjs), and its  *)
(* change is archived and merged into the living specifications            *)
(* (archiveChange in living-spec.mjs).                                     *)
(*                                                                         *)
(* Both read the project many times while other programs may edit it, so   *)
(* every read is a step of its own.  TaskLifecycle models how a slice is   *)
(* accepted; here a change has one slice, which is accepted in one step.   *)
(* A specification's content is the set of what was written into it; the   *)
(* empty set is a missing file.  An edit always leaves a new content.      *)
(***************************************************************************)
EXTENDS Naturals, Sequences, FiniteSets

CONSTANTS
  Changes,     \* change ids; a feature has the id of its change
  Specs,       \* living specifications
  Touches,     \* the specifications a change has deltas for
  Procs,       \* invocations of the command line
  None,
  MaxEdits,    \* bound on edits by hand
  MaxReviews,  \* bound on acceptances of slices
  MaxEvents,   \* FEATURE_EVENTS_MAX_RECORDS
  MaxImports,  \* bound on usage records
  MaxStarts,   \* bound on invocations started
  MaxCrashes   \* bound on crashes

ASSUME TouchesAssumption == Touches \in [Changes -> SUBSET Specs]
ASSUME BoundsAssumption  == {MaxEdits, MaxReviews, MaxEvents, MaxImports, MaxStarts, MaxCrashes} \subseteq Nat

VARIABLES
  specs,    \* content of every living specification
  code,     \* content of the rest of the project
  config,   \* the configuration files, the integration command among them
  change,   \* descriptors, draft and bases of every change; None if not written
  slice,    \* the acceptance of each change's slice
  events,   \* the feature acceptance ledger
  usage,    \* number of records in the usage ledger
  torn,     \* the ledgers that end in a partial line
  archives, \* changes/archive
  cut,      \* the changes whose merge an error or a crash cut off, until a later call completes it
  locks,    \* who made each lock directory
  proc,     \* what every invocation is doing
  spent     \* edits, reviews, starts and crashes so far

project == <<specs, code, config, change>>
ledgers == <<events, usage, torn>>
vars == <<specs, code, config, change, slice, events, usage, torn, archives, cut, locks, proc, spent>>

Marks    == Changes \cup (1..MaxEdits)
Contents == SUBSET Marks
Prepared == [version : 1..MaxEdits, base : UNION {[S -> Contents] : S \in SUBSET Specs}]
Slices   == [stamp : 1..MaxReviews, prepared : Prepared]
Sources  == [code : 0..MaxEdits, specs : [Specs -> Contents],
             change : [Changes -> Prepared \cup {None}], archived : SUBSET Changes]
Events   == [change : Changes, slice : Slices, candidate : Sources, config : 0..MaxEdits,
             report : 0..MaxImports]
Archives == [event : 1..MaxEvents, prepared : Prepared]
LockNames == {"controller", "archive", "usage"}
Steps == {"idle", "crashed", "snapshot", "identify", "run", "verify", "compare", "reinspect",
          "recheck", "final", "confirm", "append", "report", "stage", "reread", "resnap",
          "publish", "check", "write", "import"}
Invocations == [at : Steps, change : Changes \cup {None}, slice : Slices \cup {None},
                command : 0..MaxEdits, config : 0..MaxEdits, candidate : Sources \cup {None},
                report : 0..MaxImports, event : 0..MaxEvents, plan : Prepared \cup {None}, staged : Prepared \cup {None},
                pending : SUBSET Specs]

(* None is no value, and no change has the name of an edit.                *)
ASSUME NoneAssumption  == None \notin Procs \cup Changes \cup Prepared \cup Archives
ASSUME MarksAssumption == Changes \cap (1..MaxEdits) = {}

(* The shape of every record.                                              *)
TypeOK ==
  /\ specs \in [Specs -> Contents]
  /\ {code, config} \subseteq 0..MaxEdits
  /\ change \in [Changes -> Prepared \cup {None}]
  /\ slice \in [Changes -> Slices \cup {None}]
  /\ events \in Seq(Events)
  /\ usage \in 0..MaxImports
  /\ torn \subseteq {"events", "usage"}
  /\ archives \in [Changes -> Archives \cup {None}]
  /\ cut \subseteq Changes
  /\ locks \in [LockNames -> Procs \cup {None}]
  /\ proc \in [Procs -> Invocations]
  /\ spent \in [edits : 0..MaxEdits, reviews : 0..MaxReviews, starts : 0..MaxStarts,
                crashes : 0..MaxCrashes]

-----------------------------------------------------------------------------
(* What the checks read                                                    *)

(* The copied tree: everything but .git and .tinysdd, the archive included.*)
Source == [code |-> code, specs |-> specs, change |-> change,
           archived |-> {c \in Changes : archives[c] # None}]

(* validateChange: the deltas start from the specifications as they are.   *)
Valid(c) == change[c] # None /\ \A s \in Touches[c] : specs[s] = change[c].base[s]

(* inspectFeature: the slice binds the preparation, specifications included.*)
SliceAccepted(c) == slice[c] # None /\ slice[c].prepared = change[c] /\ Valid(c)

(* The event that latestFeatureEvent finds, 0 if there is none.            *)
LatestEvent(c) ==
  LET own == {i \in 1..Len(events) : events[i].change = c}
  IN  IF own = {} THEN 0 ELSE CHOOSE i \in own : \A j \in own : j <= i

Free(l)     == locks[l] = None
Take(p, l)  == locks' = [locks EXCEPT ![l] = p]
GiveUp(p)   == locks' = [l \in LockNames |-> IF locks[l] = p THEN None ELSE locks[l]]

Idle == [at |-> "idle", change |-> None, slice |-> None, command |-> 0, config |-> 0,
         candidate |-> None, report |-> 0, event |-> 0, plan |-> None, staged |-> None, pending |-> {}]

At(p, step) == proc[p].at = step
Go(p, step) == proc' = [proc EXCEPT ![p].at = step]

(* The invocation ends, its locks are removed; an error ends it like that. *)
Leave(p) == proc' = [proc EXCEPT ![p] = Idle] /\ GiveUp(p)

Spend(what) == spent' = [spent EXCEPT ![what] = @ + 1]

(* Either what was checked holds and the next step follows, or the error.  *)
Proceed(p, ok, step) == IF ok THEN Go(p, step) /\ UNCHANGED locks ELSE Leave(p)

-----------------------------------------------------------------------------
(* acceptFeature                                                           *)

Start(p) == At(p, "idle") /\ spent.starts < MaxStarts /\ Spend("starts")

(* Under the controller lock the slices are inspected and the command      *)
(* resolved; every refusal leaves no trace.                                *)
AcceptFeature(p, c) ==
  /\ Start(p)
  /\ Free("controller") /\ Take(p, "controller")
  /\ SliceAccepted(c)
  /\ proc' = [proc EXCEPT ![p] = [Idle EXCEPT !.at = "snapshot", !.change = c,
                                             !.slice = slice[c], !.command = config]]
  /\ UNCHANGED <<project, slice, ledgers, archives, cut>>

(* retainSnapshot copies the project, then reads the configuration files.  *)
RetainSource(p) ==
  /\ At(p, "snapshot")
  /\ proc' = [proc EXCEPT ![p].at = "identify", ![p].candidate = Source]
  /\ UNCHANGED <<project, slice, ledgers, archives, cut, locks, spent>>

RetainConfig(p) ==
  /\ At(p, "identify")
  /\ proc' = [proc EXCEPT ![p].at = "run", ![p].config = config]
  /\ UNCHANGED <<project, slice, ledgers, archives, cut, locks, spent>>

(* The check passes, fails or runs out of time.                            *)
RunCheck(p) ==
  /\ At(p, "run")
  /\ \E passed \in BOOLEAN : Proceed(p, passed, "verify")
  /\ UNCHANGED <<project, slice, ledgers, archives, cut, spent>>

VerifyConfig(p) ==
  /\ At(p, "verify")
  /\ Proceed(p, config = proc[p].config, "compare")
  /\ UNCHANGED <<project, slice, ledgers, archives, cut, spent>>

VerifySource(p) ==
  /\ At(p, "compare")
  /\ Proceed(p, Source = proc[p].candidate, "reinspect")
  /\ UNCHANGED <<project, slice, ledgers, archives, cut, spent>>

\* Mutant: only the recorded acceptance is compared, not what it binds.
SameAcceptance(p) == slice[proc[p].change] = proc[p].slice

(* The slice is accepted as it was; command and configuration are those of *)
(* the proof.                                                              *)
StillAccepted(p) == SliceAccepted(proc[p].change) /\ slice[proc[p].change] = proc[p].slice
ProofCurrent(p)  == config = proc[p].command /\ config = proc[p].config

Reinspect(p) ==
  /\ At(p, "reinspect")
  /\ Proceed(p, StillAccepted(p) /\ ProofCurrent(p), "recheck")
  /\ UNCHANGED <<project, slice, ledgers, archives, cut, spent>>

Recheck(p) ==
  /\ At(p, "recheck")
  /\ Proceed(p, Source = proc[p].candidate, "final")
  /\ UNCHANGED <<project, slice, ledgers, archives, cut, spent>>

\* Mutant: the usage ledger is read without its lock.
ReadUsage(p) == UNCHANGED locks

LockUsage(p) == Take(p, "usage")

(* The usage ledger is locked and read; a usage import under way refuses the rest.  *)
FinalInspect(p) ==
  /\ At(p, "final")
  /\ IF Free("usage") /\ "usage" \notin torn /\ StillAccepted(p) /\ ProofCurrent(p)
     THEN LockUsage(p) /\ proc' = [proc EXCEPT ![p].at = "confirm", ![p].report = usage]
     ELSE Leave(p)
  /\ UNCHANGED <<project, slice, ledgers, archives, cut, spent>>

FinalRecheck(p) ==
  /\ At(p, "confirm")
  /\ Proceed(p, Source = proc[p].candidate, "append")
  /\ UNCHANGED <<project, slice, ledgers, archives, cut, spent>>

AppendEvent(p) ==
  /\ At(p, "append")
  /\ events' = IF "events" \in torn \/ Len(events) >= MaxEvents THEN events
               ELSE Append(events, [change |-> proc[p].change, slice |-> proc[p].slice,
                                    candidate |-> proc[p].candidate, config |-> proc[p].config,
                                    report |-> proc[p].report])
  /\ Leave(p)
  /\ UNCHANGED <<project, slice, usage, torn, archives, cut, spent>>

-----------------------------------------------------------------------------
(* archiveChange                                                           *)

(* A first call validates the change and plans the merge; a repeat reads   *)
(* the archive and compares the inputs it was made from.                   *)
ArchiveChange(p, c) ==
  /\ Start(p)
  /\ Free("archive") /\ Take(p, "archive")
  /\ \/ /\ archives[c] = None
        /\ Valid(c)
        /\ proc' = [proc EXCEPT ![p] = [Idle EXCEPT !.at = "report", !.change = c, !.plan = change[c]]]
     \/ /\ archives[c] # None
        /\ archives[c].prepared = change[c]
        /\ proc' = [proc EXCEPT ![p] = [Idle EXCEPT !.at = "check", !.change = c, !.plan = change[c]]]
  /\ UNCHANGED <<project, slice, ledgers, archives, cut>>

(* What withFeatureReport inspects of event e, and the scope of the plan.  *)
Eligible(p, e) ==
  LET c == proc[p].change
  IN  /\ "events" \notin torn /\ e # 0
      /\ SliceAccepted(c) /\ slice[c] = events[e].slice
      /\ slice[c].prepared = proc[p].plan
      /\ config = events[e].config

(* The first report holds the controller lock and gives it up again.  What *)
(* it read is read once more below; only the event is remembered.          *)
FirstReport(p) ==
  /\ At(p, "report")
  /\ LET e == LatestEvent(proc[p].change)
     IN  IF Free("controller") /\ Eligible(p, e) /\ events[e].candidate = Source
         THEN proc' = [proc EXCEPT ![p].at = "stage", ![p].event = e] /\ UNCHANGED locks
         ELSE Leave(p)
  /\ UNCHANGED <<project, slice, ledgers, archives, cut, spent>>

StageArchive(p) ==
  /\ At(p, "stage")
  /\ proc' = [proc EXCEPT ![p].at = "reread", ![p].staged = change[proc[p].change]]
  /\ UNCHANGED <<project, slice, ledgers, archives, cut, locks, spent>>

\* Mutant: the second report accepts any fresh acceptance.
AnyEvent(p) == LatestEvent(proc[p].change) # 0

(* The event of the first report is still the latest one.                  *)
SameEvent(p) == LatestEvent(proc[p].change) = proc[p].event

SecondReport(p) ==
  /\ At(p, "reread")
  /\ IF Free("controller") /\ SameEvent(p) /\ Eligible(p, LatestEvent(proc[p].change))
     THEN Take(p, "controller") /\ Go(p, "resnap")
     ELSE Leave(p)
  /\ UNCHANGED <<project, slice, ledgers, archives, cut, spent>>

SecondSource(p) ==
  /\ At(p, "resnap")
  /\ Proceed(p, Source = events[LatestEvent(proc[p].change)].candidate, "publish")
  /\ UNCHANGED <<project, slice, ledgers, archives, cut, spent>>

(* validateArchivedDerivation derives the merge again from what was staged.*)
Derives(p) == proc[p].staged = proc[p].plan

PublishArchive(p) ==
  /\ At(p, "publish")
  /\ IF Derives(p)
     THEN /\ archives' = [archives EXCEPT ![proc[p].change] =
                            [event |-> proc[p].event, prepared |-> proc[p].staged]]
          /\ Go(p, "check") /\ UNCHANGED locks
     ELSE Leave(p) /\ UNCHANGED archives
  /\ UNCHANGED <<project, slice, ledgers, cut, spent>>

(* mergeSpecText: the base with the change's requirements.                 *)
Merged(c, s)  == archives[c].prepared.base[s] \cup {c}
Conflicts(c, s) == specs[s] \notin {archives[c].prepared.base[s], Merged(c, s)}

(* applyArchivedSpecs looks at every specification before it writes one.   *)
CheckSpecs(p) ==
  /\ At(p, "check")
  /\ LET c == proc[p].change
         open == {s \in Touches[c] : specs[s] # Merged(c, s)}
     IN  \/ /\ \E s \in Touches[c] : Conflicts(c, s)
            /\ Leave(p) /\ UNCHANGED cut
         \/ /\ open = {}
            /\ Leave(p) /\ cut' = cut \ {c}
         \/ /\ open # {} /\ \A s \in Touches[c] : ~Conflicts(c, s)
            /\ proc' = [proc EXCEPT ![p].at = "write", ![p].pending = open]
            /\ UNCHANGED <<locks, cut>>
  /\ UNCHANGED <<project, slice, ledgers, archives, spent>>

\* Mutant: the loop over the specifications ends after the first write.
WriteFirstSpec(p) ==
  /\ At(p, "write")
  /\ \E s \in proc[p].pending : specs' = [specs EXCEPT ![s] = Merged(proc[p].change, s)]
  /\ Leave(p) /\ cut' = cut \ {proc[p].change}
  /\ UNCHANGED <<code, config, change, slice, ledgers, archives, spent>>

WriteSpec(p) ==
  /\ At(p, "write")
  /\ \E s \in proc[p].pending :
       /\ specs' = [specs EXCEPT ![s] = Merged(proc[p].change, s)]
       /\ \/ proc[p].pending = {s} /\ Leave(p) /\ cut' = cut \ {proc[p].change}
          \/ /\ proc[p].pending # {s} /\ proc' = [proc EXCEPT ![p].pending = @ \ {s}]
             /\ UNCHANGED <<locks, cut>>
  /\ UNCHANGED <<code, config, change, slice, ledgers, archives, spent>>

-----------------------------------------------------------------------------
(* importUsageRecords: records of other tools are appended to usage.jsonl. *)

UsageFits == usage < MaxImports

ImportUsage(p) ==
  /\ Start(p)
  /\ Free("usage") /\ Take(p, "usage")
  /\ "usage" \notin torn
  /\ UsageFits
  /\ Go(p, "import")
  /\ UNCHANGED <<project, slice, ledgers, archives, cut>>

AppendUsage(p) ==
  /\ At(p, "import")
  /\ usage' = usage + 1
  /\ Leave(p)
  /\ UNCHANGED <<project, slice, events, torn, archives, cut, spent>>

-----------------------------------------------------------------------------
(* The operator, other programs, crashes                                   *)

Edit == spent.edits < MaxEdits /\ Spend("edits")

(* The descriptors and the draft are (re)written for the current bases.    *)
Prepare(c) ==
  /\ Edit
  /\ change' = [change EXCEPT ![c] = [version |-> spent.edits + 1, base |-> [s \in Touches[c] |-> specs[s]]]]
  /\ UNCHANGED <<specs, code, config, slice, ledgers, archives, cut, locks, proc>>

EditSpec(s) ==
  /\ Edit
  /\ specs' = [specs EXCEPT ![s] = @ \cup {spent.edits + 1}]
  /\ UNCHANGED <<code, config, change, slice, ledgers, archives, cut, locks, proc>>

EditCode ==
  /\ Edit
  /\ code' = spent.edits + 1
  /\ UNCHANGED <<specs, config, change, slice, ledgers, archives, cut, locks, proc>>

EditConfig ==
  /\ Edit
  /\ config' = spent.edits + 1
  /\ UNCHANGED <<specs, code, change, slice, ledgers, archives, cut, locks, proc>>

(* The slice is registered, approved, applied and accepted (TaskLifecycle).*)
AcceptSlice(c) ==
  /\ Free("controller")
  /\ Valid(c)
  /\ spent.reviews < MaxReviews /\ Spend("reviews")
  /\ slice' = [slice EXCEPT ![c] = [stamp |-> spent.reviews + 1, prepared |-> change[c]]]
  /\ UNCHANGED <<project, ledgers, archives, cut, locks, proc>>

PartialLine(p) == IF At(p, "append") THEN {"events"} ELSE IF At(p, "import") THEN {"usage"} ELSE {}
Unmerged(p)    == IF At(p, "check") \/ At(p, "write") THEN {proc[p].change} ELSE {}

(* What a step cut off leaves: in the append perhaps part of the line, from*)
(* the rename of an archive on specifications that are not written.        *)
CutOff(p) ==
  /\ ~At(p, "idle") /\ ~At(p, "crashed")
  /\ torn' \in {torn, torn \cup PartialLine(p)}
  /\ cut' = cut \cup Unmerged(p)
  /\ UNCHANGED <<project, slice, events, usage, archives>>

(* A read, a digest or a write fails, and the error ends the invocation.   *)
Fail(p) == CutOff(p) /\ Leave(p) /\ UNCHANGED spent

(* A crash leaves the locks besides.                                       *)
Crash(p) ==
  /\ CutOff(p)
  /\ spent.crashes < MaxCrashes /\ Spend("crashes")
  /\ proc' = [proc EXCEPT ![p] = [Idle EXCEPT !.at = "crashed"]]
  /\ UNCHANGED locks

(* A lock of a dead process is never taken over: the operator removes it.  *)
RemoveLocks(p) ==
  /\ At(p, "crashed")
  /\ Leave(p)
  /\ UNCHANGED <<project, slice, ledgers, archives, cut, spent>>

-----------------------------------------------------------------------------
Init ==
  /\ specs = [s \in Specs |-> {}]
  /\ code = 0 /\ config = 0
  /\ change = [c \in Changes |-> None]
  /\ slice = [c \in Changes |-> None]
  /\ events = <<>> /\ usage = 0 /\ torn = {}
  /\ archives = [c \in Changes |-> None] /\ cut = {}
  /\ locks = [l \in LockNames |-> None]
  /\ proc = [p \in Procs |-> Idle]
  /\ spent = [edits |-> 0, reviews |-> 0, starts |-> 0, crashes |-> 0]

Continue(p) ==
  \/ RetainSource(p) \/ RetainConfig(p) \/ RunCheck(p) \/ VerifyConfig(p) \/ VerifySource(p)
  \/ Reinspect(p) \/ Recheck(p) \/ FinalInspect(p) \/ FinalRecheck(p) \/ AppendEvent(p)
  \/ FirstReport(p) \/ StageArchive(p) \/ SecondReport(p) \/ SecondSource(p)
  \/ PublishArchive(p) \/ CheckSpecs(p) \/ WriteSpec(p) \/ AppendUsage(p)

Next ==
  \/ \E c \in Changes : Prepare(c) \/ AcceptSlice(c)
  \/ \E s \in Specs : EditSpec(s)
  \/ EditCode \/ EditConfig
  \/ \E p \in Procs : Continue(p) \/ Fail(p) \/ Crash(p) \/ RemoveLocks(p) \/ ImportUsage(p)
  \/ \E p \in Procs, c \in Changes : AcceptFeature(p, c) \/ ArchiveChange(p, c)

Spec == Init /\ [][Next]_vars

-----------------------------------------------------------------------------
(* The bytes an acceptance's integration check ran on are those its slice  *)
(* was approved with: acceptFeature reads the slices and the project at    *)
(* different moments and compares both three times                         *)
(* (controller.mjs 2159-2219).                                             *)
AcceptedTogether ==
  \A i \in 1..Len(events) :
    LET e == events[i]
    IN  /\ e.candidate.change[e.change] = e.slice.prepared
        /\ \A s \in Touches[e.change] : e.candidate.specs[s] = e.slice.prepared.base[s]

(* An acceptance reports every usage record of the ledger it was appended  *)
(* with: the usage lock is held from the report to the append              *)
(* (controller.mjs 2199-2231).                                             *)
ReportComplete == [][\A i \in DOMAIN events' : i \notin DOMAIN events => events'[i].report = usage']_vars

(* An archive is published for the latest acceptance of its feature, of    *)
(* the slice as it is accepted now: no acceptance and no review slips in   *)
(* between the report that names the acceptance and the rename             *)
(* (living-spec.mjs 1104-1117).                                            *)
PublishedUnderAcceptance ==
  [][\A c \in Changes : archives'[c] # archives[c] =>
       /\ archives'[c].event = LatestEvent(c)
       /\ events[LatestEvent(c)].slice = slice[c]
       /\ archives'[c].prepared = slice[c].prepared]_vars

(* A published archive on which no invocation works is merged completely,  *)
(* unless somebody edited a specification, or the merge was cut off by an  *)
(* error or a crash and no call since has run to its end: what the call of *)
(* a repeat completes is whole again (applyArchivedSpecs).                 *)
PublishedMerged ==
  \A c \in Changes \ cut :
    /\ archives[c] # None
    /\ \A p \in Procs : proc[p].change # c
    /\ \A s \in Touches[c] : specs[s] \subseteq Changes
    => \A s \in Touches[c] : c \in specs[s]
=============================================================================
