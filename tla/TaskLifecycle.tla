--------------------------- MODULE TaskLifecycle ---------------------------
(***************************************************************************)
(* The TinySDD controller's task life cycle (src/src/controller.mjs): the  *)
(* record of tasks it keeps in .tinysdd/runs/controller.json, the project  *)
(* files its approvals and acceptances bind by digest, and the worker runs *)
(* whose candidates it applies.                                            *)
(*                                                                         *)
(* Every operation here is one run of the controller lock's critical       *)
(* section, so it is one step; ControllerStore models the lock, the writes *)
(* inside the section and their rollback.  A digest of a file is the file's*)
(* content; a digest of a record that holds a timestamp is a fresh stamp.  *)
(***************************************************************************)
EXTENDS Naturals, Sequences, FiniteSets

CONSTANTS
  Tasks,          \* task ids
  Files,          \* project-relative paths
  Contents,       \* what a file may hold
  Absent,         \* the content of a path with no file
  Shapes,         \* the shapes an operator may declare for each task
  EvidenceFiles,  \* files an operator cites as review evidence
  ExtraPaths,     \* sets of further candidate paths a review may name
  Editable,       \* files whose content changes: bounds edits and candidates
  InitialProject, \* the project before TinySDD is first used
  None,           \* no approval, no review, no applied run
  MaxClock,       \* bound on approvals and acceptances together
  MaxRuns,        \* bound on worker runs
  MaxLineage      \* MAX_APPLY_LINEAGE: the deepest lineage the code follows

(* A shape names the prerequisites, the files the task may plan to change, *)
(* its brief, the other files its approval binds whole (checks, context    *)
(* manifest, preparation), the protected files, and the excerpts it cites. *)
ShapeType == [deps : SUBSET Tasks, allow : SUBSET Files, brief : Files,
              inputs : SUBSET Files, protect : SUBSET Files, cites : SUBSET Files]

ASSUME ShapesAssumption    == Shapes \in [Tasks -> SUBSET ShapeType]
ASSUME FilesAssumption     == /\ EvidenceFiles \subseteq Files
                              /\ Editable \subseteq Files
                              /\ ExtraPaths \subseteq SUBSET Files
ASSUME ProjectAssumption   == InitialProject \in [Files -> Contents]
ASSUME BoundsAssumption    == MaxClock \in Nat /\ MaxRuns \in Nat /\ MaxLineage \in Nat

VARIABLES
  project,    \* the content of every project file
  standing,   \* "unregistered", "open", or how the task was retired
  shape,      \* the declared shape of each registered task
  approval,   \* the operator's current approval
  review,     \* the last review
  applied,    \* the run whose candidate the project holds
  successors, \* closure.supersededBy
  runs,       \* worker runs, in dispatch order; a run id is its index
  clock       \* the last stamp given to an approval or an acceptance

vars == <<project, standing, shape, approval, review, applied, successors, runs, clock>>

Closed   == {"closed", "superseded"}
Verdicts == {"accepted", "revision", "blocked"}
Outcomes == {"resolving", "running", "completed", "timeout", "failed"}

Texts     == UNION {[S -> Contents] : S \in SUBSET Files}
Approvals == [stamp : Nat, shape : ShapeType, brief : Contents, bound : Texts,
              cites : Texts, acceptances : [Tasks -> Nat]]
Reviews   == [verdict : Verdicts, stamp : Nat, approval : Nat, brief : Contents,
              evidence : Files, evidenceText : Contents, paths : SUBSET Files,
              candidate : Texts, extension : Texts \cup {None},
              appliedFrom : Nat \cup {None}]
Applieds  == [run : Nat, start : Nat, written : SUBSET Files, actual : SUBSET Files]
Runs      == [task : Tasks, packet : Approvals, expects : SUBSET (Files \X Contents),
              lineage : Seq(Nat), outcome : Outcomes, before : Texts, after : Texts]

ASSUME NoneAssumption == None \notin Reviews

(* Every record the controller keeps has the fields validateState checks.  *)
TypeOK ==
  /\ project \in [Files -> Contents]
  /\ standing \in [Tasks -> {"unregistered", "open"} \cup Closed]
  /\ shape \in [Tasks -> ShapeType \cup {None}]
  /\ \A t \in Tasks : standing[t] # "unregistered" => shape[t] \in ShapeType
  /\ approval \in [Tasks -> Approvals \cup {None}]
  /\ review \in [Tasks -> Reviews \cup {None}]
  /\ applied \in [Tasks -> Applieds \cup {None}]
  /\ successors \in [Tasks -> SUBSET Tasks]
  /\ runs \in Seq(Runs)
  /\ clock \in Nat

-----------------------------------------------------------------------------
(* Digests and inspection                                                  *)

Text(S) == [f \in S |-> project[f]]
Bound(s) == s.inputs \cup s.protect

(* An apply moves the files it wrote; while it is recorded they are read   *)
(* from the starting copy of the run the project matched.                  *)
ContextText(S, start, pinned) ==
  [f \in S |-> IF f \in pinned THEN runs[start].before[f] ELSE project[f]]

ApprovedContext(t) ==
  IF applied[t] = None THEN Text(shape[t].cites)
  ELSE ContextText(shape[t].cites, applied[t].start, applied[t].written)

(* The brief's path is not part of the bound shape, only its text is.      *)
BindsShape(a, s) == [a.shape EXCEPT !.brief = s.brief] = s

BlockedAfterApproval(t) ==
  /\ review[t] # None
  /\ review[t].verdict = "blocked"
  /\ review[t].approval = approval[t].stamp

(* What an approval binds of the task itself, its prerequisites apart.     *)
BindsOwnInputs(t) ==
  /\ approval[t] # None
  /\ project[shape[t].brief] = approval[t].brief
  /\ ApprovedContext(t) = approval[t].cites
  /\ Text(Bound(shape[t])) = approval[t].bound
  /\ BindsShape(approval[t], shape[t])
  /\ ~BlockedAfterApproval(t)

(* The approval is fresh if exactly the tasks in A are accepted.           *)
FreshGiven(t, A) ==
  /\ BindsOwnInputs(t)
  /\ \A d \in shape[t].deps : d \in A /\ approval[t].acceptances[d] = review[d].stamp

\* Mutant: the applied paths are left out of the candidate.
CandidatePathsDeclared(t) ==
  shape[t].allow \cup (IF review[t] = None THEN {} ELSE review[t].paths)

CandidatePaths(t) ==
  shape[t].allow
    \cup (IF applied[t] = None THEN {} ELSE applied[t].actual)
    \cup (IF review[t] = None THEN {} ELSE review[t].paths)

(* The candidate files hold what was accepted, or what the last apply of a *)
(* dependent left in them.                                                 *)
CandidateMatches(t) == Text(CandidatePaths(t)) \in {review[t].candidate, review[t].extension}

\* Mutant: the review counts under whatever approval is fresh.
AcceptedUnderAnyApproval(t, A) ==
  /\ standing[t] = "open"
  /\ review[t] # None
  /\ review[t].verdict = "accepted"
  /\ FreshGiven(t, A)
  /\ review[t].brief = project[shape[t].brief]
  /\ review[t].evidenceText = project[review[t].evidence]
  /\ CandidateMatches(t)

AcceptedGiven(t, A) ==
  /\ standing[t] = "open"
  /\ review[t] # None
  /\ review[t].verdict = "accepted"
  /\ FreshGiven(t, A)
  /\ review[t].approval = approval[t].stamp
  /\ review[t].brief = project[shape[t].brief]
  /\ review[t].evidenceText = project[review[t].evidence]
  /\ CandidateMatches(t)

(* The tasks whose acceptance is current.  inspectTask recurses over the   *)
(* prerequisites; on an acyclic graph the recursion has one solution.      *)
Accepted == UNION {A \in SUBSET Tasks : \A t \in A : AcceptedGiven(t, A)}

ApprovalFresh(t) == FreshGiven(t, Accepted)
BlockedBy(t)     == shape[t].deps \ Accepted
HasVerdict(t, v) == review[t] # None /\ review[t].verdict = v

Status(t) ==
  IF standing[t] # "open" THEN standing[t]
  ELSE IF BlockedBy(t) # {} THEN "blocked"
  ELSE IF HasVerdict(t, "accepted") THEN (IF t \in Accepted THEN "accepted" ELSE "stale")
  ELSE IF HasVerdict(t, "blocked") /\ ~ApprovalFresh(t) THEN "blocked"
  ELSE IF approval[t] = None THEN "pending_approval"
  ELSE IF ~ApprovalFresh(t) THEN "stale_approval"
  ELSE "ready"

-----------------------------------------------------------------------------
(* The dependency graph                                                    *)

Dependencies == [t \in Tasks |-> IF standing[t] = "unregistered" THEN {} ELSE shape[t].deps]

(* The nodes one or more edges of g away from t.                           *)
Reach(g, t) ==
  {x \in Tasks : \A S \in SUBSET Tasks :
     g[t] \subseteq S /\ (\A y \in S : g[y] \subseteq S) => x \in S}

Prerequisites(t) == Reach(Dependencies, t)

\* Mutant: the graph the new dependencies make is not sorted.
DependenciesRegistered(t, D) == t \notin D /\ \A d \in D : standing[d] = "open"

DependenciesExist(t, D) ==
  /\ t \notin D
  /\ \A d \in D : standing[d] = "open"
  /\ LET g == [Dependencies EXCEPT ![t] = D]
     IN  \A x \in {t} \cup Reach(g, t) : x \notin Reach(g, x)

(* validateTaskInputs and the disjointness of protected and allowed files. *)
InputsValid(s) ==
  /\ \A f \in {s.brief} \cup s.cites \cup Bound(s) : project[f] # Absent
  /\ s.allow \cap s.protect = {}

-----------------------------------------------------------------------------
(* Registering, revising, approving and retiring tasks                     *)

Init ==
  /\ project = InitialProject
  /\ standing = [t \in Tasks |-> "unregistered"]
  /\ shape = [t \in Tasks |-> None]
  /\ approval = [t \in Tasks |-> None]
  /\ review = [t \in Tasks |-> None]
  /\ applied = [t \in Tasks |-> None]
  /\ successors = [t \in Tasks |-> {}]
  /\ runs = <<>>
  /\ clock = 0

AddTask(t, s) ==
  /\ standing[t] = "unregistered"
  /\ InputsValid(s)
  /\ DependenciesExist(t, s.deps)
  /\ standing' = [standing EXCEPT ![t] = "open"]
  /\ shape' = [shape EXCEPT ![t] = s]
  /\ UNCHANGED <<project, approval, review, applied, successors, runs, clock>>

UpdateTask(t, s) ==
  /\ standing[t] = "open"
  /\ ~HasVerdict(t, "accepted")
  /\ InputsValid(s)
  /\ DependenciesExist(t, s.deps)
  /\ s # shape[t]
  /\ shape' = [shape EXCEPT ![t] = s]
  /\ applied' = [applied EXCEPT ![t] = None]
  /\ UNCHANGED <<project, standing, approval, review, successors, runs, clock>>

(* Every approval is a new one: its digest covers the time it was given.   *)
ApproveTask(t) ==
  /\ clock < MaxClock
  /\ standing[t] = "open"
  /\ BlockedBy(t) = {}
  /\ InputsValid(shape[t])
  /\ clock' = clock + 1
  /\ approval' = [approval EXCEPT ![t] =
       [stamp |-> clock + 1, shape |-> shape[t], brief |-> project[shape[t].brief],
        bound |-> Text(Bound(shape[t])), cites |-> ApprovedContext(t),
        acceptances |-> [x \in Tasks |-> IF x \in shape[t].deps THEN review[x].stamp ELSE 0]]]
  /\ UNCHANGED <<project, standing, shape, review, applied, successors, runs>>

\* Mutant: an accepted task may be retired.
RetirableUnlessNeeded(t) ==
  /\ standing[t] = "open"
  /\ \A u \in Tasks : standing[u] = "open" => t \notin shape[u].deps

Retirable(t) ==
  /\ standing[t] = "open"
  /\ t \notin Accepted
  /\ \A u \in Tasks : standing[u] = "open" => t \notin shape[u].deps

CloseTask(t) ==
  /\ Retirable(t)
  /\ standing' = [standing EXCEPT ![t] = "closed"]
  /\ UNCHANGED <<project, shape, approval, review, applied, successors, runs, clock>>

SuccessorsOpen(S) == \A u \in S : standing[u] = "open"

SupersedeTask(t, S) ==
  /\ S # {} /\ t \notin S
  /\ SuccessorsOpen(S)
  /\ Retirable(t)
  /\ standing' = [standing EXCEPT ![t] = "superseded"]
  /\ successors' = [successors EXCEPT ![t] = S]
  /\ UNCHANGED <<project, shape, approval, review, applied, runs, clock>>

-----------------------------------------------------------------------------
(* Worker runs                                                             *)

Changed(r)  == {f \in DOMAIN runs[r].before : runs[r].before[f] # runs[r].after[f]}
LineageOf(r) == {runs[r].lineage[i] : i \in DOMAIN runs[r].lineage}
Recorded(r) == UNION {Changed(x) : x \in LineageOf(r)}
OutOfScope(s) == {s.brief} \cup Bound(s)

(* A run may start over the candidate of an earlier one of the same task   *)
(* that ended completed or timed out with changes still in scope.          *)
RevisionBase(t, b) ==
  /\ b \in DOMAIN runs
  /\ runs[b].task = t
  /\ Len(runs[b].lineage) <= MaxLineage
  /\ \A x \in LineageOf(b) :
       /\ runs[x].outcome \in {"completed", "timeout"}
       /\ Changed(x) # {}
       /\ Changed(x) \cap OutOfScope(shape[t]) = {}

(* What the second reading must find: the cited context, the checks and    *)
(* the preparation as they were approved, and the evidence of the revision *)
(* as it was reviewed.                                                     *)
Expected(t) ==
  {<<f, approval[t].cites[f]>> : f \in shape[t].cites}
    \cup {<<f, approval[t].bound[f]>> : f \in shape[t].inputs}
    \cup (IF HasVerdict(t, "revision") THEN {<<review[t].evidence, review[t].evidenceText>>} ELSE {})

(* resolveTaskPacket inspects the task without the lock; the packet copies *)
(* the approval that was found and the shape the task has now.             *)
DispatchWorker(t, b) ==
  /\ Len(runs) < MaxRuns
  /\ Status(t) = "ready"
  /\ applied[t] = None
  /\ b = None \/ RevisionBase(t, b)
  /\ runs' = Append(runs,
       [task |-> t, packet |-> [approval[t] EXCEPT !.shape = shape[t]], expects |-> Expected(t),
        outcome |-> "resolving",
        lineage |-> (IF b = None THEN <<>> ELSE runs[b].lineage) \o <<Len(runs) + 1>>,
        before |-> [f \in {} |-> Absent], after |-> [f \in {} |-> Absent]])
  /\ UNCHANGED <<project, standing, shape, approval, review, applied, successors, clock>>

(* Then it reads the files again.  Only the brief is not compared with     *)
(* what was approved: the worker gets the text it has now.                 *)
ReadPacket(r) ==
  /\ runs[r].outcome = "resolving"
  /\ \A e \in runs[r].expects : project[e[1]] = e[2]
  /\ LET text == project[runs[r].packet.shape.brief]
     IN  /\ text # Absent
         /\ runs' = [runs EXCEPT ![r].outcome = "running", ![r].packet.brief = text, ![r].expects = {}]
  /\ UNCHANGED <<project, standing, shape, approval, review, applied, successors, clock>>

Base(r) == LET n == Len(runs[r].lineage)
           IN  IF n = 1 THEN None ELSE runs[r].lineage[n - 1]

(* The disposable copy: the project as the worker finds it, under the      *)
(* candidates of the lineage it revises.                                   *)
Workspace(r) ==
  [f \in Files |-> IF Base(r) # None /\ f \in Recorded(Base(r))
                   THEN runs[Base(r)].after[f] ELSE project[f]]

(* The copy is taken some time after the packet and only recompiles the    *)
(* cited context against it.  Nobody reads a run before its result is      *)
(* written, so the copy and the result are one step.                       *)
FinishRun(r, after, outcome) ==
  /\ runs[r].outcome = "running"
  /\ Text(runs[r].packet.shape.cites) = runs[r].packet.cites
  /\ LET before  == Workspace(r)
         changes == {f \in Files : before[f] # after[f]}
     IN  /\ changes \subseteq Editable
         /\ changes \cap OutOfScope(runs[r].packet.shape) = {}
         /\ \A f \in changes : after[f] # Absent
         /\ runs' = [runs EXCEPT ![r].outcome = outcome, ![r].before = before, ![r].after = after]
  /\ UNCHANGED <<project, standing, shape, approval, review, applied, successors, clock>>

(* The packet was refused, the worker failed, changed a file out of scope, *)
(* or left no result.                                                      *)
FailRun(r) ==
  /\ runs[r].outcome \in {"resolving", "running"}
  /\ runs' = [runs EXCEPT ![r].outcome = "failed"]
  /\ UNCHANGED <<project, standing, shape, approval, review, applied, successors, clock>>

-----------------------------------------------------------------------------
(* Applying a candidate                                                    *)

(* What applying run r would do to the files in S if the project still     *)
(* holds what run s started from.                                          *)
Planned(r, s, S)   == {f \in S : runs[s].before[f] # runs[r].after[f]}
Conflicts(r, s, S) == {f \in Planned(r, s, S) : project[f] \notin {runs[s].before[f], runs[r].after[f]}}
Writes(r, s, S)    == {f \in Planned(r, s, S) : project[f] = runs[s].before[f]}

(* The earliest run of the lineage whose start the project matches.        *)
StartRun(r, s, S) ==
  \E i \in DOMAIN runs[r].lineage :
    /\ s = runs[r].lineage[i]
    /\ Conflicts(r, s, S) = {}
    /\ \A j \in 1..(i - 1) : Conflicts(r, runs[r].lineage[j], S) # {}

(* Accepted tasks whose candidate files the writes W touch.                *)
Touched(t, W) == {x \in Accepted \ {t} : CandidatePaths(x) \cap W # {}}

\* Mutant: only the direct prerequisites keep their acceptance.
ExtendedDirect(t, W) == Touched(t, W) \cap shape[t].deps

(* The prerequisites whose acceptance survives the writes W.               *)
Extended(t, W) == Touched(t, W) \cap Prerequisites(t)

(* The cited lines as inspectTask will read them once W is written.        *)
ContextStays(t, s, W) == ContextText(shape[t].cites, s, W) = approval[t].cites

\* Mutant: the run and the task need some approval, not the same one.
PacketApproved(t, r) == runs[r].packet.stamp > 0 /\ approval[t].stamp > 0

(* assertFinalRunApproval: the run worked under the approval that stands.  *)
PacketCurrent(t, r) == runs[r].packet.stamp = approval[t].stamp

ApplyTask(t, r, exclude) ==
  /\ Status(t) = "ready"
  /\ runs[r].task = t
  /\ runs[r].outcome = "completed"
  /\ Len(runs[r].lineage) <= MaxLineage
  /\ PacketCurrent(t, r)
  /\ Recorded(r) \cap shape[t].protect = {}
  /\ exclude \subseteq Recorded(r) \ shape[t].allow
  /\ \E s \in LineageOf(r) :
       LET files   == Recorded(r) \ exclude
           written == Writes(r, s, files)
           after   == [f \in Files |-> IF f \in written THEN runs[r].after[f] ELSE project[f]]
       IN  /\ StartRun(r, s, files)
           /\ written \cap ({shape[t].brief} \cup shape[t].inputs) = {}
           /\ \A f \in Planned(r, s, files) : runs[r].after[f] # Absent
           /\ ContextStays(t, s, written)
           /\ project' = after
           /\ applied' = [applied EXCEPT ![t] =
                [run |-> r, start |-> s, written |-> written,
                 actual |-> shape[t].allow \cup Planned(r, s, files)]]
           /\ review' = [x \in Tasks |->
                IF x \in Extended(t, written)
                THEN [review[x] EXCEPT !.extension = [f \in CandidatePaths(x) |-> after[f]]]
                ELSE review[x]]
  /\ UNCHANGED <<standing, shape, approval, successors, runs, clock>>

-----------------------------------------------------------------------------
(* Reviewing                                                               *)

Reviewable(t, e) ==
  /\ standing[t] = "open"
  /\ BlockedBy(t) = {}
  /\ ApprovalFresh(t)
  /\ project[e] # Absent

(* The run whose candidate the last review sent back.                      *)
PreviousRun(t) == IF review[t] = None THEN None ELSE review[t].appliedFrom
AppliedRun(t)  == IF applied[t] = None THEN None ELSE applied[t].run

ReviewRecord(t, verdict, e, extra, stamp, appliedFrom) ==
  LET paths == CandidatePaths(t) \cup extra
  IN  [verdict |-> verdict, stamp |-> stamp, approval |-> approval[t].stamp,
       brief |-> project[shape[t].brief], evidence |-> e, evidenceText |-> project[e],
       paths |-> paths, candidate |-> Text(paths), extension |-> None,
       appliedFrom |-> appliedFrom]

AcceptTask(t, e, extra) ==
  /\ clock < MaxClock
  /\ Reviewable(t, e)
  /\ ~(HasVerdict(t, "revision") /\ applied[t] = None /\ PreviousRun(t) # None)
  /\ clock' = clock + 1
  /\ review' = [review EXCEPT ![t] =
                  ReviewRecord(t, "accepted", e, extra, clock + 1, AppliedRun(t))]
  /\ UNCHANGED <<project, standing, shape, approval, applied, successors, runs>>

(* The next attempt builds on the applied project, so its record is spent. *)
RequestRevision(t, e, extra) ==
  /\ Reviewable(t, e)
  /\ review' = [review EXCEPT ![t] =
                  ReviewRecord(t, "revision", e, extra, 0,
                               IF applied[t] = None THEN PreviousRun(t) ELSE AppliedRun(t))]
  /\ applied' = [applied EXCEPT ![t] = None]
  /\ UNCHANGED <<project, standing, shape, approval, successors, runs, clock>>

BlockTask(t, e, extra) ==
  /\ Reviewable(t, e)
  /\ review' = [review EXCEPT ![t] = ReviewRecord(t, "blocked", e, extra, 0, None)]
  /\ UNCHANGED <<project, standing, shape, approval, applied, successors, runs, clock>>

(* Anybody may edit the project outside TinySDD.                           *)
EditFile(f, c) ==
  /\ c # project[f]
  /\ project' = [project EXCEPT ![f] = c]
  /\ UNCHANGED <<standing, shape, approval, review, applied, successors, runs, clock>>

Next ==
  \/ \E t \in Tasks : \E s \in Shapes[t] : AddTask(t, s)
  \/ \E t \in Tasks : \E s \in Shapes[t] : UpdateTask(t, s)
  \/ \E t \in Tasks : ApproveTask(t)
  \/ \E t \in Tasks : CloseTask(t)
  \/ \E t \in Tasks, S \in SUBSET Tasks : SupersedeTask(t, S)
  \/ \E t \in Tasks, b \in DOMAIN runs \cup {None} : DispatchWorker(t, b)
  \/ \E r \in DOMAIN runs, after \in [Files -> Contents],
        outcome \in {"completed", "timeout"} : FinishRun(r, after, outcome)
  \/ \E r \in DOMAIN runs : ReadPacket(r) \/ FailRun(r)
  \/ \E t \in Tasks, r \in DOMAIN runs, exclude \in SUBSET Files : ApplyTask(t, r, exclude)
  \/ \E t \in Tasks, e \in EvidenceFiles, x \in ExtraPaths : AcceptTask(t, e, x)
  \/ \E t \in Tasks, e \in EvidenceFiles, x \in ExtraPaths : RequestRevision(t, e, x)
  \/ \E t \in Tasks, e \in EvidenceFiles, x \in ExtraPaths : BlockTask(t, e, x)
  \/ \E f \in Editable, c \in Contents : EditFile(f, c)

Spec == Init /\ [][Next]_vars
-----------------------------------------------------------------------------
(* Properties                                                              *)

(* assertDependenciesExist and retireTask together: an open task never     *)
(* waits for a retired one, which could never be accepted again.           *)
DependenciesOpen ==
  \A t \in Tasks : standing[t] = "open" =>
    \A u \in shape[t].deps : standing[u] = "open"

(* Every non-empty set of nodes has one with no edge into the set.         *)
Acyclic(graph) == \A S \in SUBSET Tasks : S # {} => \E x \in S : graph[x] \cap S = {}

(* No sequence of task additions and updates closes a dependency cycle, on *)
(* which inspectTask would raise STATE_MALFORMED for ever.                 *)
DependenciesAcyclic == Acyclic(Dependencies)

(* Following supersededBy from a retired task always ends: tasks cannot    *)
(* supersede each other.                                                   *)
SupersessionAcyclic == Acyclic(successors)

(* The graphs the tasks form stay usable through every order of additions, *)
(* updates and retirements.                                                *)
GraphsSound == DependenciesOpen /\ DependenciesAcyclic /\ SupersessionAcyclic

(* validateState refuses an accepted review that omits an applied path:    *)
(* no legal sequence of operations leads into that refusal.                *)
AcceptedCoversApplied ==
  \A t \in Tasks :
    HasVerdict(t, "accepted") /\ applied[t] # None => applied[t].actual \subseteq review[t].paths

(* Adding, updating, retiring, dispatching and finishing runs never cost a *)
(* task its acceptance: only project content, approvals and reviews do.    *)
AcceptanceSurvives ==
  [][project' = project /\ approval' = approval /\ review' = review
       => Accepted \subseteq Accepted']_vars

(* An acceptance never comes back by itself: while the project stands still*)
(* a task becomes accepted only by its own review.                         *)
AcceptanceNeedsReview ==
  [][project' = project => \A t \in Accepted' \ Accepted : review'[t] # review[t]]_vars

AppliedStep(t) == applied'[t] # applied[t] /\ applied'[t] # None

(* A run may outlive its approval: the task is updated, its prerequisites  *)
(* accepted anew, its inputs edited while the worker runs.  What is applied*)
(* was produced under the inputs, shape and acceptances that hold.         *)
AppliedUnderCurrentInputs ==
  [][\A t \in Tasks : AppliedStep(t) =>
       LET packet == runs[applied'[t].run].packet
       IN  /\ BindsShape(packet, shape[t])
           /\ packet.bound = Text(Bound(shape[t]))'
           /\ \A u \in shape[t].deps : packet.acceptances[u] = review'[u].stamp]_vars

(* What the prompt calls the approved task packet (worker.mjs:930) is the  *)
(* brief of the approval the run was applied under.                        *)
WorkedUnderApprovedBrief ==
  \A t \in Tasks : approval[t] # None /\ applied[t] # None =>
    LET packet == runs[applied[t].run].packet
    IN  packet.stamp = approval[t].stamp => packet.brief = approval[t].brief

(* An apply leaves fresh every binding of the approval it was made under,  *)
(* though it rewrites files that approval read (APPLY_WOULD_STALE).        *)
ApplyKeepsOwnBinding == [][\A t \in Tasks : AppliedStep(t) => BindsOwnInputs(t)']_vars

Overwritten == {x \in Files : project'[x] # project[x]}

(* What an accepted task reads from the project besides its candidate.     *)
ReadByAcceptance(t) ==
  OutOfScope(shape[t]) \cup {review[t].evidence}
    \cup (shape[t].cites \ (IF applied[t] = None THEN {} ELSE applied[t].written))

(* An apply costs an acceptance only where it rewrote something the task or*)
(* one of its prerequisites was accepted with, and the candidate files of  *)
(* the applying task's own prerequisites do not count.                     *)
ApplyCostsOnlyTouched ==
  [][\A t \in Tasks : AppliedStep(t) =>
       \A x \in Accepted \ Accepted' : \E y \in {x} \cup Prerequisites(x) :
         \/ ReadByAcceptance(y) \cap Overwritten # {}
         \/ y \notin Prerequisites(t) /\ CandidatePaths(y) \cap Overwritten # {}]_vars

=============================================================================
