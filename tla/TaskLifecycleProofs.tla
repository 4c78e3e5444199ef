------------------------ MODULE TaskLifecycleProofs ------------------------
(* What holds of the task life cycle for every set of tasks, files and     *)
(* shapes, whatever the bounds.                                            *)
EXTENDS TaskLifecycle, SequenceTheorems, TLAPS

-----------------------------------------------------------------------------
(* The dependency graph                                                    *)

LEMMA ReachSuccessors ==
  ASSUME NEW graph \in [Tasks -> SUBSET Tasks], NEW t \in Tasks
  PROVE  graph[t] \subseteq Reach(graph, t)
  BY DEF Reach

LEMMA ReachClosed ==
  ASSUME NEW graph \in [Tasks -> SUBSET Tasks], NEW t \in Tasks, NEW y \in Reach(graph, t)
  PROVE  graph[y] \subseteq Reach(graph, t)
  BY DEF Reach

LEMMA ReachMinimal ==
  ASSUME NEW graph, NEW t, NEW S \in SUBSET Tasks,
         graph[t] \subseteq S, \A y \in S : graph[y] \subseteq S
  PROVE  Reach(graph, t) \subseteq S
  BY DEF Reach

(* The check assertDependenciesExist makes on the sorted graph keeps the   *)
(* whole graph acyclic, though it looks only at what the task reaches: a   *)
(* new cycle would run through the task.                                   *)
LEMMA NewDependenciesAcyclic ==
  ASSUME NEW graph \in [Tasks -> SUBSET Tasks], Acyclic(graph),
         NEW t \in Tasks, NEW D \in SUBSET Tasks,
         NEW after, after = [graph EXCEPT ![t] = D],
         t \notin Reach(after, t)
  PROVE  Acyclic(after)
  <1>1. after \in [Tasks -> SUBSET Tasks] /\ \A x \in Tasks \ {t} : after[x] = graph[x]
    OBVIOUS
  <1>2. SUFFICES ASSUME NEW S \in SUBSET Tasks, S # {}, \A x \in S : after[x] \cap S # {}
                 PROVE  FALSE
    BY DEF Acyclic
  <1>3. CASE t \notin S
    <2>1. \A x \in S : graph[x] \cap S # {}
      BY <1>1, <1>2, <1>3
    <2>2. QED
      BY <1>2, <2>1 DEF Acyclic
  <1>4. CASE t \in S
    <2> DEFINE below == S \cap Reach(after, t)
    <2>1. below \in SUBSET Tasks /\ t \notin below
      OBVIOUS
    <2>2. below # {}
      <3>1. after[t] \subseteq Reach(after, t)
        BY <1>1, ReachSuccessors
      <3>2. after[t] \cap S # {}
        BY <1>2, <1>4
      <3>3. QED
        BY <3>1, <3>2
    <2>3. \A x \in below : graph[x] \cap below # {}
      <3>1. TAKE x \in below
      <3>2. after[x] \cap S # {} /\ after[x] \subseteq Reach(after, t)
        <4>1. x \in S /\ x \in Reach(after, t)
          OBVIOUS
        <4>2. after[x] \subseteq Reach(after, t)
          BY <1>1, <4>1, ReachClosed
        <4>3. QED
          BY <1>2, <4>1, <4>2
      <3>3. QED
        BY <1>1, <2>1, <3>2
    <2>4. QED
      BY <2>1, <2>2, <2>3 DEF Acyclic
  <1>5. QED
    BY <1>3, <1>4

-----------------------------------------------------------------------------
(* Types                                                                   *)

Ended == {"completed", "timeout"}

(* A lineage holds earlier runs that ended with a workspace, then the run. *)
RunSound(r) ==
  /\ runs[r].outcome \in Ended =>
       runs[r].before \in [Files -> Contents] /\ runs[r].after \in [Files -> Contents]
  /\ Len(runs[r].lineage) > 0
  /\ \A i \in 1..(Len(runs[r].lineage) - 1) :
       /\ runs[r].lineage[i] \in DOMAIN runs
       /\ runs[runs[r].lineage[i]].outcome \in Ended
  /\ runs[r].lineage[Len(runs[r].lineage)] = r

RunsSound == \A r \in DOMAIN runs : RunSound(r)

(* The pinned files of an applied task are read from a run that ended.     *)
AppliedSound ==
  \A t \in Tasks : applied[t] # None =>
    applied[t].start \in DOMAIN runs /\ runs[applied[t].start].outcome \in Ended

TypeInvariant == TypeOK /\ RunsSound /\ AppliedSound

LEMMA TextType ==
  ASSUME TypeOK, NEW S \in SUBSET Files
  PROVE  Text(S) \in [S -> Contents] /\ Text(S) \in Texts
  BY DEF TypeOK, Text, Texts

LEMMA ApprovedContextType ==
  ASSUME TypeInvariant, NEW t \in Tasks, standing[t] = "open"
  PROVE  ApprovedContext(t) \in Texts
  <1>1. shape[t] \in ShapeType /\ shape[t].cites \in SUBSET Files
    BY DEF TypeInvariant, TypeOK, ShapeType
  <1>2. CASE applied[t] = None
    BY <1>1, <1>2, TextType DEF TypeInvariant, ApprovedContext
  <1>3. CASE applied[t] # None
    <2>1. runs[applied[t].start].before \in [Files -> Contents]
      BY <1>3 DEF TypeInvariant, RunsSound, RunSound, AppliedSound
    <2>2. ContextText(shape[t].cites, applied[t].start, applied[t].written)
            \in [shape[t].cites -> Contents]
      BY <1>1, <2>1 DEF ContextText, TypeInvariant, TypeOK
    <2>3. QED
      BY <1>1, <1>3, <2>2 DEF ApprovedContext, Texts
  <1>4. QED
    BY <1>2, <1>3

LEMMA AcceptedIsReviewed ==
  ASSUME TypeOK, NEW t \in Accepted
  PROVE  /\ t \in Tasks
         /\ standing[t] = "open"
         /\ review[t] \in Reviews
         /\ review[t].verdict = "accepted"
  BY DEF TypeOK, Accepted, AcceptedGiven

LEMMA CandidatePathsType ==
  ASSUME TypeOK, NEW t \in Tasks, standing[t] = "open"
  PROVE  CandidatePaths(t) \in SUBSET Files
  <1>1. shape[t].allow \in SUBSET Files
    BY DEF TypeOK, ShapeType
  <1>2. applied[t] # None => applied[t].actual \in SUBSET Files
    BY DEF TypeOK, Applieds
  <1>3. review[t] # None => review[t].paths \in SUBSET Files
    BY DEF TypeOK, Reviews
  <1>4. QED
    BY <1>1, <1>2, <1>3 DEF CandidatePaths

LEMMA InitTyped == Init => TypeInvariant
  <1>1. SUFFICES ASSUME Init PROVE TypeInvariant
    OBVIOUS
  <1>2. runs \in Seq(Runs) /\ DOMAIN runs = {}
    BY <1>1, EmptySeq DEF Init
  <1>3. TypeOK
    BY <1>1, <1>2, ProjectAssumption DEF Init, TypeOK
  <1>4. RunsSound /\ AppliedSound
    BY <1>1, <1>2 DEF Init, RunsSound, AppliedSound
  <1>5. QED
    BY <1>3, <1>4 DEF TypeInvariant

(* Nothing but a new dispatch, a result or an apply bears on the runs.     *)
LEMMA RunsUntouched ==
  ASSUME TypeInvariant, runs' = runs,
         \A t \in Tasks : applied'[t] # None => applied'[t] = applied[t]
  PROVE  RunsSound' /\ AppliedSound'
  BY DEF TypeInvariant, RunsSound, RunSound, AppliedSound

LEMMA RegisterTyped ==
  ASSUME TypeInvariant, NEW t \in Tasks, NEW s \in Shapes[t],
         AddTask(t, s) \/ UpdateTask(t, s)
  PROVE  TypeInvariant'
  <1>1. s \in ShapeType
    BY ShapesAssumption
  <1>2. TypeOK'
    <2>1. CASE AddTask(t, s)
      BY <1>1, <2>1 DEF AddTask, TypeInvariant, TypeOK
    <2>2. CASE UpdateTask(t, s)
      BY <1>1, <2>2 DEF UpdateTask, TypeInvariant, TypeOK
    <2>3. QED
      BY <2>1, <2>2
  <1>3. \A u \in Tasks : applied'[u] # None => applied'[u] = applied[u]
    BY DEF AddTask, UpdateTask, TypeInvariant, TypeOK
  <1>4. QED
    BY <1>2, <1>3, RunsUntouched DEF AddTask, UpdateTask, TypeInvariant

LEMMA ApproveTyped ==
  ASSUME TypeInvariant, NEW t \in Tasks, ApproveTask(t)
  PROVE  TypeInvariant'
  <1>1. shape[t] \in ShapeType /\ standing[t] = "open"
    BY DEF ApproveTask, TypeInvariant, TypeOK
  <1>2. project[shape[t].brief] \in Contents /\ Text(Bound(shape[t])) \in Texts
    <2>1. Bound(shape[t]) \in SUBSET Files /\ shape[t].brief \in Files
      BY <1>1 DEF Bound, ShapeType
    <2>2. QED
      BY <2>1, TextType DEF TypeInvariant, TypeOK
  <1>3. ApprovedContext(t) \in Texts
    BY <1>1, ApprovedContextType
  <1>4. [x \in Tasks |-> IF x \in shape[t].deps THEN review[x].stamp ELSE 0] \in [Tasks -> Nat]
    <2>1. \A x \in shape[t].deps : x \in Accepted
      BY DEF ApproveTask, BlockedBy
    <2>2. \A x \in shape[t].deps : review[x].stamp \in Nat
      BY <2>1, AcceptedIsReviewed DEF Reviews, TypeInvariant
    <2>3. QED
      BY <2>2
  <1>5. clock + 1 \in Nat
    BY DEF TypeInvariant, TypeOK
  <1>6. approval'[t] \in Approvals
    BY <1>1, <1>2, <1>3, <1>4, <1>5 DEF ApproveTask, TypeInvariant, TypeOK, Approvals
  <1>7. TypeOK'
    BY <1>5, <1>6 DEF ApproveTask, TypeInvariant, TypeOK
  <1>8. QED
    BY <1>7, RunsUntouched DEF ApproveTask, TypeInvariant

LEMMA RetireTyped ==
  ASSUME TypeInvariant, NEW t \in Tasks, NEW S \in SUBSET Tasks,
         CloseTask(t) \/ SupersedeTask(t, S)
  PROVE  TypeInvariant'
  <1>1. TypeOK'
    <2>1. CASE CloseTask(t)
      BY <2>1 DEF CloseTask, Retirable, TypeInvariant, TypeOK, Closed
    <2>2. CASE SupersedeTask(t, S)
      BY <2>2 DEF SupersedeTask, Retirable, TypeInvariant, TypeOK, Closed
    <2>3. QED
      BY <2>1, <2>2
  <1>2. QED
    BY <1>1, RunsUntouched DEF CloseTask, SupersedeTask, TypeInvariant

LEMMA ReadyTask ==
  ASSUME TypeOK, NEW t \in Tasks, Status(t) = "ready"
  PROVE  /\ standing[t] = "open"
         /\ BlockedBy(t) = {}
         /\ ~HasVerdict(t, "accepted")
         /\ approval[t] # None
         /\ ApprovalFresh(t)
  <1>1. standing[t] # "ready"
    BY DEF TypeOK, Closed
  <1>2. standing[t] = "open"
    BY <1>1 DEF Status
  <1>3. BlockedBy(t) = {}
    BY <1>2 DEF Status
  <1>4. ~HasVerdict(t, "accepted")
    BY <1>2, <1>3 DEF Status
  <1>5. approval[t] # None /\ ApprovalFresh(t)
    BY <1>2, <1>3, <1>4 DEF Status
  <1>6. QED
    BY <1>2, <1>3, <1>4, <1>5

(* What the packet must find again is what the fresh approval binds.       *)
LEMMA ExpectedTyped ==
  ASSUME TypeInvariant, NEW t \in Tasks, NEW b \in DOMAIN runs \cup {None}, DispatchWorker(t, b)
  PROVE  /\ approval[t] \in Approvals /\ shape[t] \in ShapeType
         /\ Expected(t) \subseteq Files \X Contents
  <1>1. TypeOK /\ Status(t) = "ready" /\ applied[t] = None
    BY DEF DispatchWorker, TypeInvariant
  <1>2. standing[t] = "open" /\ approval[t] # None /\ ApprovalFresh(t)
    BY <1>1, ReadyTask
  <1>3. approval[t] \in Approvals /\ shape[t] \in ShapeType
    BY <1>1, <1>2 DEF TypeOK
  <1>4. approval[t].cites = Text(shape[t].cites) /\ approval[t].bound = Text(Bound(shape[t]))
    BY <1>1, <1>2 DEF ApprovalFresh, FreshGiven, BindsOwnInputs, ApprovedContext
  <1>5. \A f \in shape[t].cites : f \in Files /\ approval[t].cites[f] \in Contents
    BY <1>1, <1>3, <1>4 DEF Text, ShapeType, TypeOK
  <1>6. \A f \in shape[t].inputs : f \in Files /\ approval[t].bound[f] \in Contents
    BY <1>1, <1>3, <1>4 DEF Text, Bound, ShapeType, TypeOK
  <1>7. HasVerdict(t, "revision") => review[t].evidence \in Files /\ review[t].evidenceText \in Contents
    BY <1>1 DEF HasVerdict, TypeOK, Reviews
  <1>8. QED
    BY <1>3, <1>5, <1>6, <1>7 DEF Expected

(* The lineage of a new run: that of its base, whose runs all ended, and it.*)
LEMMA DispatchTyped ==
  ASSUME TypeInvariant, NEW t \in Tasks, NEW b \in DOMAIN runs \cup {None},
         DispatchWorker(t, b)
  PROVE  TypeInvariant'
  <1> DEFINE n    == Len(runs)
             base == IF b = None THEN <<>> ELSE runs[b].lineage
             run  == [task |-> t, packet |-> [approval[t] EXCEPT !.shape = shape[t]],
                      expects |-> Expected(t), outcome |-> "resolving",
                      lineage |-> base \o <<n + 1>>,
                      before |-> [f \in {} |-> Absent], after |-> [f \in {} |-> Absent]]
  <1>1. runs \in Seq(Runs) /\ n \in Nat /\ DOMAIN runs = 1..n
    BY LenProperties DEF TypeInvariant, TypeOK
  <1>2. /\ base \in Seq(Nat)
        /\ \A i \in 1..Len(base) : base[i] \in DOMAIN runs /\ runs[base[i]].outcome \in Ended
    <2>1. CASE b = None
      BY <2>1, EmptySeq
    <2>2. CASE b # None
      <3>1. b \in DOMAIN runs /\ RevisionBase(t, b)
        BY <2>2 DEF DispatchWorker
      <3>2. base \in Seq(Nat)
        <4>1. runs[b] \in Runs
          BY <1>1, <3>1, ElementOfSeq
        <4>2. QED
          BY <2>2, <4>1 DEF Runs
      <3>3. DOMAIN base = 1..Len(base)
        BY <3>2, LenProperties
      <3>4. ASSUME NEW i \in 1..Len(base)
            PROVE  base[i] \in DOMAIN runs /\ runs[base[i]].outcome \in Ended
        <4>1. base[i] \in LineageOf(b)
          BY <2>2, <3>3 DEF LineageOf
        <4>2. runs[base[i]].outcome \in Ended
          BY <3>1, <4>1 DEF RevisionBase, Ended
        <4>3. runs[b].lineage[Len(runs[b].lineage)] = b /\ Len(runs[b].lineage) > 0
          BY <3>1 DEF TypeInvariant, RunsSound, RunSound
        <4>4. base[i] \in DOMAIN runs
          <5>1. CASE i = Len(base)
            BY <2>2, <3>1, <4>3, <5>1
          <5>2. CASE i # Len(base)
            <6>1. i \in 1..(Len(runs[b].lineage) - 1)
              BY <2>2, <3>2, <5>2, LenProperties
            <6>2. QED
              BY <2>2, <3>1, <6>1 DEF TypeInvariant, RunsSound, RunSound
          <5>3. QED
            BY <5>1, <5>2
        <4>5. QED
          BY <4>2, <4>4
      <3>5. QED
        BY <3>2, <3>4
    <2>3. QED
      BY <2>1, <2>2
  <1>3. /\ base \o <<n + 1>> \in Seq(Nat)
        /\ Len(base \o <<n + 1>>) = Len(base) + 1
        /\ Len(base) \in Nat
        /\ \A i \in 1..Len(base) : (base \o <<n + 1>>)[i] = base[i]
        /\ (base \o <<n + 1>>)[Len(base) + 1] = n + 1
    <2> DEFINE last == <<n + 1>>
    <2>1. last \in Seq(Nat) /\ Len(last) = 1 /\ last[1] = n + 1
      BY <1>1
    <2>2. Len(base) \in Nat
      BY <1>2, LenProperties
    <2> HIDE DEF last, base, n
    <2>3. /\ base \o last \in Seq(Nat)
          /\ Len(base \o last) = Len(base) + Len(last)
          /\ \A i \in 1..(Len(base) + Len(last)) :
               (base \o last)[i] = IF i <= Len(base) THEN base[i] ELSE last[i - Len(base)]
      BY <1>2, <2>1, ConcatProperties
    <2>4. /\ base \o last \in Seq(Nat)
          /\ Len(base \o last) = Len(base) + 1
          /\ Len(base) \in Nat
          /\ \A i \in 1..Len(base) : (base \o last)[i] = base[i]
          /\ (base \o last)[Len(base) + 1] = n + 1
      BY <2>1, <2>2, <2>3
    <2>5. QED
      BY <2>4 DEF last
  <1>4. run \in Runs
    <2>1. /\ approval[t] \in Approvals /\ shape[t] \in ShapeType
          /\ Expected(t) \subseteq Files \X Contents
      BY ExpectedTyped
    <2>2. [approval[t] EXCEPT !.shape = shape[t]] \in Approvals
      BY <2>1 DEF Approvals
    <2>3. [f \in {} |-> Absent] \in Texts
      BY DEF Texts
    <2>4. QED
      BY <1>3, <2>1, <2>2, <2>3 DEF Runs, Outcomes
  <1>5. runs' = Append(runs, run)
    BY DEF DispatchWorker
  <1> HIDE DEF run, base
  <1>6. /\ runs' \in Seq(Runs)
        /\ DOMAIN runs' = 1..(n + 1)
        /\ \A i \in 1..n : runs'[i] = runs[i]
        /\ runs'[n + 1] = run
    BY <1>1, <1>4, <1>5, AppendProperties, LenProperties
  <1>7. TypeOK'
    BY <1>6 DEF DispatchWorker, TypeInvariant, TypeOK
  <1>8. AppliedSound'
    BY <1>1, <1>6 DEF DispatchWorker, TypeInvariant, AppliedSound
  <1>9. RunsSound'
    <2>1. ASSUME NEW r \in 1..n PROVE RunSound(r)'
      <3>1. runs'[r] = runs[r] /\ RunSound(r)
        BY <1>1, <1>6 DEF TypeInvariant, RunsSound
      <3>2. \A i \in 1..(Len(runs[r].lineage) - 1) :
              runs'[runs[r].lineage[i]] = runs[runs[r].lineage[i]] /\ runs[r].lineage[i] \in DOMAIN runs'
        BY <1>1, <1>6, <3>1 DEF RunSound
      <3>3. QED
        BY <3>1, <3>2 DEF RunSound
    <2>2. ASSUME NEW r, r = n + 1 PROVE RunSound(r)'
      <3>1. /\ runs'[r].outcome = "resolving"
            /\ runs'[r].lineage = base \o <<n + 1>>
        BY <1>6, <2>2 DEF run
      <3>2. \A i \in 1..Len(base) : runs'[base[i]] = runs[base[i]] /\ base[i] \in DOMAIN runs'
        BY <1>1, <1>2, <1>6
      <3>3. Len(runs'[r].lineage) - 1 = Len(base)
        BY <1>3, <3>1
      <3>4. /\ Len(runs'[r].lineage) > 0
            /\ runs'[r].lineage[Len(runs'[r].lineage)] = r
        BY <1>3, <2>2, <3>1, <3>3
      <3>5. \A i \in 1..(Len(runs'[r].lineage) - 1) : runs'[r].lineage[i] = base[i]
        BY <1>3, <3>1, <3>3
      <3>6. QED
        BY <1>2, <3>1, <3>2, <3>3, <3>4, <3>5 DEF RunSound, Ended
    <2>3. \A r \in DOMAIN runs' : r \in 1..n \/ r = n + 1
      BY <1>1, <1>6
    <2>4. QED
      BY <2>1, <2>2, <2>3 DEF RunsSound
  <1>10. QED
    BY <1>7, <1>8, <1>9 DEF TypeInvariant

(* A result replaces the record of one running run, which no lineage and no*)
(* applied task refers to.                                                 *)
LEMMA ResultKeepsOthers ==
  ASSUME TypeInvariant, NEW r \in DOMAIN runs, runs[r].outcome \in {"resolving", "running"},
         NEW record \in Runs, record.lineage = runs[r].lineage,
         record.outcome \in Ended =>
           record.before \in [Files -> Contents] /\ record.after \in [Files -> Contents],
         runs' = [runs EXCEPT ![r] = record],
         UNCHANGED <<project, standing, shape, approval, review, applied, successors, clock>>
  PROVE  TypeInvariant'
  <1>1. runs \in Seq(Runs) /\ r \in 1..Len(runs)
    BY LenProperties DEF TypeInvariant, TypeOK
  <1>2. runs' \in Seq(Runs) /\ DOMAIN runs' = DOMAIN runs
    BY <1>1, ExceptSeq
  <1>3. TypeOK'
    BY <1>2 DEF TypeInvariant, TypeOK
  <1>4. \A x \in DOMAIN runs : runs[x].outcome \in Ended => x # r /\ runs'[x] = runs[x]
    BY DEF Ended
  <1>5. AppliedSound'
    BY <1>2, <1>4 DEF TypeInvariant, AppliedSound
  <1>6. ASSUME NEW x \in DOMAIN runs PROVE RunSound(x)'
    <2>1. RunSound(x) /\ runs'[x].lineage = runs[x].lineage
      BY <1>1 DEF TypeInvariant, RunsSound
    <2>2. runs'[x].outcome \in Ended =>
            runs'[x].before \in [Files -> Contents] /\ runs'[x].after \in [Files -> Contents]
      BY <1>1, <2>1 DEF RunSound
    <2>3. QED
      BY <1>2, <1>4, <2>1, <2>2 DEF RunSound
  <1>7. QED
    BY <1>2, <1>3, <1>5, <1>6 DEF TypeInvariant, RunsSound

LEMMA FailTyped ==
  ASSUME TypeInvariant, NEW r \in DOMAIN runs, FailRun(r)
  PROVE  TypeInvariant'
  <1> DEFINE record == [runs[r] EXCEPT !.outcome = "failed"]
  <1>1. runs[r] \in Runs
    BY ElementOfSeq, LenProperties DEF TypeInvariant, TypeOK
  <1>2. /\ record \in Runs
        /\ record.lineage = runs[r].lineage
        /\ record.outcome = "failed"
    BY <1>1 DEF Runs, Outcomes
  <1>3. runs' = [runs EXCEPT ![r] = record] /\ runs[r].outcome \in {"resolving", "running"}
    BY DEF FailRun
  <1> HIDE DEF record
  <1>4. QED
    BY <1>2, <1>3, ResultKeepsOthers DEF FailRun, Ended

LEMMA PacketTyped ==
  ASSUME TypeInvariant, NEW r \in DOMAIN runs, ReadPacket(r)
  PROVE  TypeInvariant'
  <1> DEFINE text   == project[runs[r].packet.shape.brief]
             packet == [runs[r].packet EXCEPT !.brief = text]
             record == [runs[r] EXCEPT !.outcome = "running", !.packet = packet, !.expects = {}]
  <1>1. runs[r] \in Runs
    BY ElementOfSeq, LenProperties DEF TypeInvariant, TypeOK
  <1>2. packet \in Approvals
    <2>1. runs[r].packet \in Approvals
      BY <1>1 DEF Runs
    <2>2. text \in Contents
      BY <2>1 DEF Approvals, ShapeType, TypeInvariant, TypeOK
    <2>3. QED
      BY <2>1, <2>2 DEF Approvals
  <1> HIDE DEF text, packet
  <1>3. /\ record \in Runs
        /\ record.lineage = runs[r].lineage
        /\ record.outcome = "running"
    BY <1>1, <1>2 DEF Runs, Outcomes
  <1>4. runs' = [runs EXCEPT ![r] = record] /\ runs[r].outcome = "resolving"
    BY <1>1 DEF ReadPacket, Runs, text, packet
  <1> HIDE DEF record
  <1>5. QED
    BY <1>3, <1>4, ResultKeepsOthers DEF ReadPacket, Ended

LEMMA WorkspaceType ==
  ASSUME TypeInvariant, NEW r \in DOMAIN runs
  PROVE  Workspace(r) \in [Files -> Contents]
  <1>1. runs[r].lineage \in Seq(Nat) /\ Len(runs[r].lineage) \in Nat
    <2>1. runs[r] \in Runs
      BY ElementOfSeq, LenProperties DEF TypeInvariant, TypeOK
    <2>2. QED
      BY <2>1, LenProperties DEF Runs
  <1>2. Base(r) # None => Base(r) \in DOMAIN runs /\ runs[Base(r)].outcome \in Ended
    <2>1. SUFFICES ASSUME Base(r) # None
                   PROVE  Base(r) \in DOMAIN runs /\ runs[Base(r)].outcome \in Ended
      OBVIOUS
    <2>2. Len(runs[r].lineage) # 1 /\ Base(r) = runs[r].lineage[Len(runs[r].lineage) - 1]
      BY <2>1 DEF Base
    <2>3. RunSound(r)
      BY DEF TypeInvariant, RunsSound
    <2>4. Len(runs[r].lineage) - 1 \in 1..(Len(runs[r].lineage) - 1)
      <3> DEFINE m == Len(runs[r].lineage)
      <3>1. m \in Nat /\ m > 0 /\ m # 1
        BY <1>1, <2>2, <2>3 DEF RunSound
      <3> HIDE DEF m
      <3>2. m - 1 \in 1..(m - 1)
        BY <3>1
      <3>3. QED
        BY <3>2 DEF m
    <2>5. QED
      BY <2>2, <2>3, <2>4 DEF RunSound
  <1>3. Base(r) # None => runs[Base(r)].after \in [Files -> Contents]
    BY <1>2 DEF TypeInvariant, RunsSound, RunSound
  <1>4. QED
    BY <1>3 DEF Workspace, TypeInvariant, TypeOK

LEMMA FinishTyped ==
  ASSUME TypeInvariant, NEW r \in DOMAIN runs, NEW after \in [Files -> Contents],
         NEW outcome \in {"completed", "timeout"}, FinishRun(r, after, outcome)
  PROVE  TypeInvariant'
  <1> DEFINE before == Workspace(r)
             record == [runs[r] EXCEPT !.outcome = outcome, !.before = before, !.after = after]
  <1>1. runs[r] \in Runs
    BY ElementOfSeq, LenProperties DEF TypeInvariant, TypeOK
  <1>2. before \in [Files -> Contents]
    BY WorkspaceType
  <1>3. before \in Texts /\ after \in Texts
    BY <1>2 DEF Texts
  <1>4. runs' = [runs EXCEPT ![r] = record] /\ runs[r].outcome = "running"
    BY DEF FinishRun
  <1> HIDE DEF before
  <1>5. /\ record \in Runs
        /\ record.lineage = runs[r].lineage
        /\ record.before = before
        /\ record.after = after
    BY <1>1, <1>3 DEF Runs, Outcomes
  <1> HIDE DEF record
  <1>6. QED
    BY <1>2, <1>4, <1>5, ResultKeepsOthers DEF FinishRun

LEMMA ApplyTyped ==
  ASSUME TypeInvariant, NEW t \in Tasks, NEW r \in DOMAIN runs, NEW exclude \in SUBSET Files,
         ApplyTask(t, r, exclude)
  PROVE  TypeInvariant'
  <1> DEFINE files       == Recorded(r) \ exclude
             written(s)  == Writes(r, s, files)
             after(s)    == [f \in Files |-> IF f \in written(s) THEN runs[r].after[f] ELSE project[f]]
             record(s)   == [run |-> r, start |-> s, written |-> written(s),
                             actual |-> shape[t].allow \cup Planned(r, s, files)]
             extended(s) == [x \in Tasks |->
                               IF x \in Extended(t, written(s))
                               THEN [review[x] EXCEPT !.extension =
                                       [f \in CandidatePaths(x) |-> after(s)[f]]]
                               ELSE review[x]]
  <1>1. PICK s \in LineageOf(r) :
          project' = after(s) /\ applied' = [applied EXCEPT ![t] = record(s)] /\ review' = extended(s)
    BY DEF ApplyTask
  <1>2. UNCHANGED <<standing, shape, approval, successors, runs, clock>> /\ runs[r].outcome = "completed"
    BY DEF ApplyTask
  <1>3. /\ runs[r] \in Runs
        /\ runs[r].after \in [Files -> Contents]
        /\ \A x \in LineageOf(r) : x \in DOMAIN runs /\ runs[x].outcome \in Ended
    <2>1. RunSound(r) /\ runs[r] \in Runs
      BY ElementOfSeq, LenProperties DEF TypeInvariant, TypeOK, RunsSound
    <2>2. runs[r].lineage \in Seq(Nat)
      BY <2>1 DEF Runs
    <2>3. DOMAIN runs[r].lineage = 1..Len(runs[r].lineage) /\ Len(runs[r].lineage) \in Nat
      BY <2>2, LenProperties
    <2>4. \A i \in DOMAIN runs[r].lineage :
            i = Len(runs[r].lineage) \/ i \in 1..(Len(runs[r].lineage) - 1)
      BY <2>3
    <2>5. \A x \in LineageOf(r) : x \in DOMAIN runs /\ runs[x].outcome \in Ended
      BY <1>2, <2>1, <2>4 DEF LineageOf, RunSound, Ended
    <2>6. QED
      BY <1>2, <2>1, <2>5 DEF RunSound, Ended
  <1>4. files \in SUBSET Files /\ r \in Nat /\ s \in Nat
    <2>1. \A x \in LineageOf(r) : runs[x].before \in [Files -> Contents]
      BY <1>3 DEF TypeInvariant, RunsSound, RunSound
    <2>2. \A x \in LineageOf(r) : Changed(x) \in SUBSET Files
      BY <2>1 DEF Changed
    <2>3. DOMAIN runs \in SUBSET Nat
      BY LenProperties DEF TypeInvariant, TypeOK
    <2>4. QED
      BY <1>1, <1>3, <2>2, <2>3 DEF Recorded
  <1>5. after(s) \in [Files -> Contents] /\ standing[t] = "open" /\ shape[t] \in ShapeType
    <2>1. standing[t] = "open"
      BY ReadyTask DEF ApplyTask, TypeInvariant
    <2>2. QED
      BY <1>3, <2>1 DEF TypeInvariant, TypeOK
  <1>6. record(s) \in Applieds
    BY <1>4, <1>5 DEF Applieds, ShapeType, Writes, Planned
  <1>7. \A x \in Extended(t, written(s)) : x \in Accepted
    BY DEF Extended, Touched
  <1> HIDE DEF record, after, written, files
  <1>8. ASSUME NEW x \in Tasks PROVE extended(s)[x] \in Reviews \cup {None}
    <2>1. CASE x \in Extended(t, written(s))
      <3>1. review[x] \in Reviews /\ standing[x] = "open"
        BY <1>7, <2>1, AcceptedIsReviewed DEF TypeInvariant
      <3>2. CandidatePaths(x) \in SUBSET Files
        BY <3>1, CandidatePathsType DEF TypeInvariant
      <3>3. [f \in CandidatePaths(x) |-> after(s)[f]] \in Texts
        BY <1>5, <3>2 DEF Texts
      <3>4. QED
        BY <2>1, <3>1, <3>3 DEF Reviews
    <2>2. CASE x \notin Extended(t, written(s))
      BY <2>2 DEF TypeInvariant, TypeOK
    <2>3. QED
      BY <2>1, <2>2
  <1>9. TypeOK'
    <2>1. review' \in [Tasks -> Reviews \cup {None}]
      BY <1>1, <1>8
    <2>2. applied' \in [Tasks -> Applieds \cup {None}]
      BY <1>1, <1>6 DEF TypeInvariant, TypeOK
    <2>3. QED
      BY <1>1, <1>2, <1>5, <2>1, <2>2 DEF TypeInvariant, TypeOK
  <1>10. AppliedSound'
    <2>1. record(s).start = s
      BY DEF record
    <2>2. QED
      BY <1>1, <1>2, <1>3, <2>1 DEF TypeInvariant, TypeOK, AppliedSound
  <1>11. RunsSound'
    BY <1>2 DEF TypeInvariant, RunsSound, RunSound
  <1>12. QED
    BY <1>9, <1>10, <1>11 DEF TypeInvariant

LEMMA ReviewRecordType ==
  ASSUME TypeInvariant, NEW t \in Tasks, NEW verdict \in Verdicts,
         NEW e \in EvidenceFiles, NEW extra \in ExtraPaths, NEW stamp \in Nat,
         NEW from \in Nat \cup {None}, Reviewable(t, e)
  PROVE  ReviewRecord(t, verdict, e, extra, stamp, from) \in Reviews
  <1> DEFINE paths == CandidatePaths(t) \cup extra
  <1>1. standing[t] = "open" /\ approval[t] # None
    BY DEF Reviewable, ApprovalFresh, FreshGiven, BindsOwnInputs
  <1>2. e \in Files /\ project[e] \in Contents
    BY FilesAssumption DEF TypeInvariant, TypeOK
  <1>3. paths \in SUBSET Files
    BY <1>1, CandidatePathsType, FilesAssumption DEF TypeInvariant
  <1>4. Text(paths) \in Texts
    BY <1>3, TextType DEF TypeInvariant
  <1>5. project[shape[t].brief] \in Contents
    BY <1>1 DEF TypeInvariant, TypeOK, ShapeType
  <1>6. approval[t].stamp \in Nat
    BY <1>1 DEF TypeInvariant, TypeOK, Approvals
  <1> HIDE DEF paths
  <1>7. [verdict |-> verdict, stamp |-> stamp, approval |-> approval[t].stamp,
         brief |-> project[shape[t].brief], evidence |-> e, evidenceText |-> project[e],
         paths |-> paths, candidate |-> Text(paths), extension |-> None,
         appliedFrom |-> from] \in Reviews
    BY <1>2, <1>3, <1>4, <1>5, <1>6 DEF Reviews
  <1>8. QED
    BY <1>7 DEF ReviewRecord, paths

LEMMA ReviewTyped ==
  ASSUME TypeInvariant, NEW t \in Tasks, NEW e \in EvidenceFiles, NEW extra \in ExtraPaths,
         \/ AcceptTask(t, e, extra)
         \/ RequestRevision(t, e, extra)
         \/ BlockTask(t, e, extra)
  PROVE  TypeInvariant'
  <1>1. /\ AppliedRun(t) \in Nat \cup {None}
        /\ PreviousRun(t) \in Nat \cup {None}
        /\ clock + 1 \in Nat
    BY DEF TypeInvariant, TypeOK, Applieds, Reviews, AppliedRun, PreviousRun
  <1>2. review' \in [Tasks -> Reviews \cup {None}]
    <2>1. CASE AcceptTask(t, e, extra)
      <3>1. ReviewRecord(t, "accepted", e, extra, clock + 1, AppliedRun(t)) \in Reviews
        BY <1>1, <2>1, ReviewRecordType DEF AcceptTask, Verdicts
      <3>2. QED
        BY <2>1, <3>1 DEF AcceptTask, TypeInvariant, TypeOK
    <2>2. CASE RequestRevision(t, e, extra)
      <3> DEFINE from == IF applied[t] = None THEN PreviousRun(t) ELSE AppliedRun(t)
      <3>1. from \in Nat \cup {None}
        BY <1>1
      <3>2. ReviewRecord(t, "revision", e, extra, 0, from) \in Reviews
        BY <2>2, <3>1, ReviewRecordType DEF RequestRevision, Verdicts
      <3>3. QED
        BY <2>2, <3>2 DEF RequestRevision, TypeInvariant, TypeOK
    <2>3. CASE BlockTask(t, e, extra)
      <3>1. ReviewRecord(t, "blocked", e, extra, 0, None) \in Reviews
        BY <2>3, ReviewRecordType DEF BlockTask, Verdicts
      <3>2. QED
        BY <2>3, <3>1 DEF BlockTask, TypeInvariant, TypeOK
    <2>4. QED
      BY <2>1, <2>2, <2>3
  <1>3. TypeOK'
    BY <1>1, <1>2 DEF AcceptTask, RequestRevision, BlockTask, TypeInvariant, TypeOK
  <1>4. \A u \in Tasks : applied'[u] # None => applied'[u] = applied[u]
    BY DEF AcceptTask, RequestRevision, BlockTask, TypeInvariant, TypeOK
  <1>5. QED
    BY <1>3, <1>4, RunsUntouched DEF AcceptTask, RequestRevision, BlockTask, TypeInvariant

LEMMA EditTyped ==
  ASSUME TypeInvariant, NEW f \in Editable, NEW c \in Contents, EditFile(f, c)
  PROVE  TypeInvariant'
  <1>1. TypeOK'
    BY FilesAssumption DEF EditFile, TypeInvariant, TypeOK
  <1>2. QED
    BY <1>1, RunsUntouched DEF EditFile, TypeInvariant

LEMMA TypeStep == TypeInvariant /\ [Next]_vars => TypeInvariant'
  <1>1. SUFFICES ASSUME TypeInvariant, [Next]_vars PROVE TypeInvariant'
    OBVIOUS
  <1>2. CASE UNCHANGED vars
    <2>1. TypeOK'
      BY <1>1, <1>2 DEF vars, TypeInvariant, TypeOK
    <2>2. QED
      BY <1>1, <1>2, <2>1, RunsUntouched DEF vars, TypeInvariant
  <1>3. CASE Next
    <2>1. CASE \E t \in Tasks : \E s \in Shapes[t] : AddTask(t, s) \/ UpdateTask(t, s)
      BY <1>1, <2>1, RegisterTyped
    <2>2. CASE \E t \in Tasks : ApproveTask(t)
      BY <1>1, <2>2, ApproveTyped
    <2>3. CASE \E t \in Tasks, S \in SUBSET Tasks : CloseTask(t) \/ SupersedeTask(t, S)
      BY <1>1, <2>3, RetireTyped
    <2>4. CASE \E t \in Tasks, b \in DOMAIN runs \cup {None} : DispatchWorker(t, b)
      BY <1>1, <2>4, DispatchTyped
    <2>5. CASE \E r \in DOMAIN runs, after \in [Files -> Contents],
                  outcome \in {"completed", "timeout"} : FinishRun(r, after, outcome)
      BY <1>1, <2>5, FinishTyped
    <2>6. CASE \E r \in DOMAIN runs : ReadPacket(r) \/ FailRun(r)
      BY <1>1, <2>6, PacketTyped, FailTyped
    <2>7. CASE \E t \in Tasks, r \in DOMAIN runs, exclude \in SUBSET Files : ApplyTask(t, r, exclude)
      BY <1>1, <2>7, ApplyTyped
    <2>8. CASE \E t \in Tasks, e \in EvidenceFiles, x \in ExtraPaths :
                 AcceptTask(t, e, x) \/ RequestRevision(t, e, x) \/ BlockTask(t, e, x)
      BY <1>1, <2>8, ReviewTyped
    <2>9. CASE \E f \in Editable, c \in Contents : EditFile(f, c)
      BY <1>1, <2>9, EditTyped
    <2>10. \A t \in Tasks : CloseTask(t) => \E S \in SUBSET Tasks : CloseTask(t) \/ SupersedeTask(t, S)
      OBVIOUS
    <2>11. QED
      BY <1>3, <2>1, <2>2, <2>3, <2>4, <2>5, <2>6, <2>7, <2>8, <2>9, <2>10 DEF Next
  <1>4. QED
    BY <1>1, <1>2, <1>3

(* Every record the controller keeps is one validateState accepts, whatever*)
(* operations have run.                                                    *)
THEOREM TypeCorrect == Spec => []TypeOK
  <1>1. TypeInvariant => TypeOK
    BY DEF TypeInvariant
  <1>2. QED
    BY <1>1, InitTyped, TypeStep, PTL DEF Spec

-----------------------------------------------------------------------------
(* The dependency graph is sound                                           *)

GraphInvariant == TypeInvariant /\ DependenciesOpen /\ DependenciesAcyclic

(* What a registered, updated or retired task leaves of the graph.         *)
LEMMA GraphShape ==
  ASSUME TypeOK
  PROVE  Dependencies \in [Tasks -> SUBSET Tasks]
  BY DEF TypeOK, Dependencies, ShapeType

LEMMA RegisterKeepsGraph ==
  ASSUME GraphInvariant, NEW t \in Tasks, NEW s \in Shapes[t],
         AddTask(t, s) \/ UpdateTask(t, s)
  PROVE  DependenciesOpen' /\ DependenciesAcyclic'
  <1> DEFINE g == [Dependencies EXCEPT ![t] = s.deps]
  <1>1. TypeOK /\ s \in ShapeType /\ s.deps \in SUBSET Tasks
    BY ShapesAssumption DEF GraphInvariant, TypeInvariant, ShapeType
  <1>2. DependenciesExist(t, s.deps)
    BY DEF AddTask, UpdateTask
  <1>3. standing'[t] = "open" /\ shape'[t] = s
    BY <1>1 DEF AddTask, UpdateTask, TypeOK
  <1>4. \A u \in Tasks \ {t} : standing'[u] = standing[u] /\ shape'[u] = shape[u]
    BY <1>1 DEF AddTask, UpdateTask, TypeOK
  <1>5. DependenciesOpen'
    <2>1. \A u \in s.deps : u # t /\ standing[u] = "open"
      BY <1>2 DEF DependenciesExist
    <2>2. \A u \in Tasks : standing[u] = "open" => standing'[u] = "open"
      BY <1>3, <1>4
    <2>3. ASSUME NEW x \in Tasks, standing'[x] = "open", NEW u \in shape'[x].deps
          PROVE  standing'[u] = "open"
      <3>1. CASE x = t
        BY <1>1, <1>3, <2>1, <2>2, <2>3, <3>1
      <3>2. CASE x # t
        <4>1. u \in Tasks /\ standing[u] = "open"
          BY <1>1, <1>4, <2>3, <3>2 DEF GraphInvariant, DependenciesOpen, TypeOK, ShapeType
        <4>2. QED
          BY <2>2, <4>1
      <3>3. QED
        BY <3>1, <3>2
    <2>4. QED
      BY <2>3 DEF DependenciesOpen
  <1>6. Dependencies' = g
    BY <1>3, <1>4, GraphShape, <1>1 DEF Dependencies
  <1>7. t \notin Reach(g, t)
    BY <1>2 DEF DependenciesExist
  <1>8. Acyclic(g)
    BY <1>1, <1>7, GraphShape, NewDependenciesAcyclic DEF GraphInvariant, DependenciesAcyclic
  <1>9. DependenciesAcyclic'
    BY <1>6, <1>8 DEF DependenciesAcyclic, Acyclic
  <1>10. QED
    BY <1>5, <1>9

LEMMA RetireKeepsGraph ==
  ASSUME GraphInvariant, NEW t \in Tasks, NEW S \in SUBSET Tasks,
         CloseTask(t) \/ SupersedeTask(t, S)
  PROVE  DependenciesOpen' /\ DependenciesAcyclic'
  <1>1. Retirable(t) /\ shape' = shape /\ TypeOK
    BY DEF CloseTask, SupersedeTask, GraphInvariant, TypeInvariant
  <1>2. standing'[t] \in Closed /\ \A u \in Tasks \ {t} : standing'[u] = standing[u]
    BY <1>1 DEF CloseTask, SupersedeTask, TypeOK, Closed
  <1>3. DependenciesOpen'
    <2>1. ASSUME NEW x \in Tasks, standing'[x] = "open", NEW u \in shape[x].deps
          PROVE  standing'[u] = "open"
      <3>1. x # t /\ standing[x] = "open"
        BY <1>2, <2>1 DEF Closed
      <3>2. u # t /\ u \in Tasks /\ standing[u] = "open"
        BY <1>1, <2>1, <3>1 DEF GraphInvariant, DependenciesOpen, Retirable, TypeOK, ShapeType
      <3>3. QED
        BY <1>2, <3>2
    <2>2. QED
      BY <1>1, <2>1 DEF DependenciesOpen
  <1>4. Dependencies' = Dependencies
    BY <1>1, <1>2 DEF Dependencies, Retirable, Closed
  <1>5. QED
    BY <1>3, <1>4 DEF GraphInvariant, DependenciesAcyclic, Acyclic

(* The rest of the controller leaves tasks registered as they are.         *)
LEMMA GraphStep == GraphInvariant /\ [Next]_vars => GraphInvariant'
  <1>1. SUFFICES ASSUME GraphInvariant, [Next]_vars PROVE GraphInvariant'
    OBVIOUS
  <1>2. TypeInvariant'
    BY <1>1, TypeStep DEF GraphInvariant
  <1>3. CASE UNCHANGED <<standing, shape>>
    BY <1>1, <1>2, <1>3 DEF GraphInvariant, DependenciesOpen, DependenciesAcyclic, Dependencies, Acyclic
  <1>4. CASE \E t \in Tasks : \E s \in Shapes[t] : AddTask(t, s) \/ UpdateTask(t, s)
    BY <1>1, <1>2, <1>4, RegisterKeepsGraph DEF GraphInvariant
  <1>5. CASE \E t \in Tasks, S \in SUBSET Tasks : CloseTask(t) \/ SupersedeTask(t, S)
    BY <1>1, <1>2, <1>5, RetireKeepsGraph DEF GraphInvariant
  <1>6. \A t \in Tasks : CloseTask(t) => \E S \in SUBSET Tasks : CloseTask(t) \/ SupersedeTask(t, S)
    OBVIOUS
  <1>7. CASE UNCHANGED vars
    BY <1>3, <1>7 DEF vars
  <1>8. CASE \/ \E t \in Tasks : ApproveTask(t)
             \/ \E t \in Tasks, b \in DOMAIN runs \cup {None} : DispatchWorker(t, b)
             \/ \E r \in DOMAIN runs, after \in [Files -> Contents],
                   outcome \in {"completed", "timeout"} : FinishRun(r, after, outcome)
             \/ \E r \in DOMAIN runs : ReadPacket(r) \/ FailRun(r)
             \/ \E f \in Editable, c \in Contents : EditFile(f, c)
    BY <1>3, <1>8 DEF ApproveTask, DispatchWorker, FinishRun, ReadPacket, FailRun, EditFile
  <1>9. CASE \E t \in Tasks, r \in DOMAIN runs, exclude \in SUBSET Files : ApplyTask(t, r, exclude)
    BY <1>3, <1>9 DEF ApplyTask
  <1>10. CASE \E t \in Tasks, e \in EvidenceFiles, x \in ExtraPaths :
                AcceptTask(t, e, x) \/ RequestRevision(t, e, x) \/ BlockTask(t, e, x)
    BY <1>3, <1>10 DEF AcceptTask, RequestRevision, BlockTask
  <1>11. QED
    BY <1>1, <1>4, <1>5, <1>6, <1>7, <1>8, <1>9, <1>10 DEF Next

LEMMA InitGraph == Init => GraphInvariant
  <1>1. ASSUME Init PROVE DependenciesOpen /\ DependenciesAcyclic
    BY <1>1 DEF Init, DependenciesOpen, DependenciesAcyclic, Dependencies, Acyclic
  <1>2. QED
    BY <1>1, InitTyped DEF GraphInvariant

(* No order of additions, updates and retirements leaves an open task      *)
(* waiting for a retired one.                                              *)
THEOREM OpenDependencies == Spec => []DependenciesOpen
  <1>1. GraphInvariant => DependenciesOpen
    BY DEF GraphInvariant
  <1>2. QED
    BY <1>1, InitGraph, GraphStep, PTL DEF Spec

(* Nor does any close a cycle of dependencies.                             *)
THEOREM AcyclicDependencies == Spec => []DependenciesAcyclic
  <1>1. GraphInvariant => DependenciesAcyclic
    BY DEF GraphInvariant
  <1>2. QED
    BY <1>1, InitGraph, GraphStep, PTL DEF Spec

-----------------------------------------------------------------------------
(* Supersession                                                            *)

(* Successors are named once, when a task is retired, among open tasks,    *)
(* which have none yet: the order of retirement sorts the graph.           *)
SupersessionInvariant ==
  /\ TypeInvariant
  /\ SupersessionAcyclic
  /\ \A t \in Tasks : standing[t] \notin Closed => successors[t] = {}

LEMMA SupersedeKeepsAcyclic ==
  ASSUME SupersessionInvariant, NEW t \in Tasks, NEW S \in SUBSET Tasks, SupersedeTask(t, S)
  PROVE  SupersessionAcyclic'
  <1>1. successors' = [successors EXCEPT ![t] = S] /\ successors \in [Tasks -> SUBSET Tasks]
    BY DEF SupersedeTask, SupersessionInvariant, TypeInvariant, TypeOK
  <1>2. \A u \in S : u # t /\ successors[u] = {}
    BY DEF SupersedeTask, SuccessorsOpen, SupersessionInvariant, Closed
  <1>3. ASSUME NEW X \in SUBSET Tasks, X # {}
        PROVE  \E x \in X : successors'[x] \cap X = {}
    <2>1. CASE t \in X /\ X \cap S # {}
      <3>1. PICK u \in X \cap S : TRUE
        BY <2>1
      <3>2. successors'[u] = {}
        BY <1>1, <1>2, <3>1
      <3>3. QED
        BY <3>1, <3>2
    <2>2. CASE t \in X /\ X \cap S = {}
      BY <1>1, <2>2
    <2>3. CASE t \notin X
      <3>1. PICK x \in X : successors[x] \cap X = {}
        BY <1>3 DEF SupersessionInvariant, SupersessionAcyclic, Acyclic
      <3>2. QED
        BY <1>1, <2>3, <3>1
    <2>4. QED
      BY <2>1, <2>2, <2>3
  <1>4. QED
    BY <1>3 DEF SupersessionAcyclic, Acyclic

LEMMA SupersessionStep == SupersessionInvariant /\ [Next]_vars => SupersessionInvariant'
  <1>1. SUFFICES ASSUME SupersessionInvariant, [Next]_vars PROVE SupersessionInvariant'
    OBVIOUS
  <1>2. TypeInvariant' /\ TypeOK
    BY <1>1, TypeStep DEF SupersessionInvariant, TypeInvariant
  <1>3. CASE UNCHANGED <<standing, successors>>
    BY <1>1, <1>2, <1>3 DEF SupersessionInvariant, SupersessionAcyclic, Acyclic
  <1>4. ASSUME NEW t \in Tasks, UNCHANGED successors,
               \/ standing[t] = "unregistered" /\ standing' = [standing EXCEPT ![t] = "open"]
               \/ standing' = [standing EXCEPT ![t] = "closed"]
        PROVE  SupersessionInvariant'
    <2>1. \A u \in Tasks : standing'[u] \notin Closed => standing[u] \notin Closed
      BY <1>2, <1>4 DEF TypeOK, Closed
    <2>2. QED
      BY <1>1, <1>2, <1>4, <2>1 DEF SupersessionInvariant, SupersessionAcyclic, Acyclic
  <1>5. ASSUME NEW t \in Tasks, NEW S \in SUBSET Tasks, SupersedeTask(t, S)
        PROVE  SupersessionInvariant'
    <2>1. \A u \in Tasks : standing'[u] \notin Closed => successors'[u] = {}
      BY <1>1, <1>2, <1>5 DEF SupersedeTask, SupersessionInvariant, TypeOK, Closed
    <2>2. QED
      BY <1>1, <1>2, <1>5, <2>1, SupersedeKeepsAcyclic DEF SupersessionInvariant
  <1>6. CASE \/ \E t \in Tasks : ApproveTask(t)
             \/ \E t \in Tasks, b \in DOMAIN runs \cup {None} : DispatchWorker(t, b)
             \/ \E r \in DOMAIN runs, after \in [Files -> Contents],
                   outcome \in {"completed", "timeout"} : FinishRun(r, after, outcome)
             \/ \E r \in DOMAIN runs : ReadPacket(r) \/ FailRun(r)
             \/ \E f \in Editable, c \in Contents : EditFile(f, c)
    BY <1>3, <1>6 DEF ApproveTask, DispatchWorker, FinishRun, ReadPacket, FailRun, EditFile
  <1>7. CASE \E t \in Tasks, r \in DOMAIN runs, exclude \in SUBSET Files : ApplyTask(t, r, exclude)
    BY <1>3, <1>7 DEF ApplyTask
  <1>8. CASE \E t \in Tasks, e \in EvidenceFiles, x \in ExtraPaths :
               AcceptTask(t, e, x) \/ RequestRevision(t, e, x) \/ BlockTask(t, e, x)
    BY <1>3, <1>8 DEF AcceptTask, RequestRevision, BlockTask
  <1>9. CASE \E t \in Tasks : \E s \in Shapes[t] : AddTask(t, s)
    BY <1>4, <1>9 DEF AddTask
  <1>10. CASE \E t \in Tasks : \E s \in Shapes[t] : UpdateTask(t, s)
    BY <1>3, <1>10 DEF UpdateTask
  <1>11. CASE \E t \in Tasks : CloseTask(t)
    BY <1>4, <1>11 DEF CloseTask
  <1>12. CASE UNCHANGED vars
    BY <1>3, <1>12 DEF vars
  <1>13. QED
    BY <1>1, <1>5, <1>6, <1>7, <1>8, <1>9, <1>10, <1>11, <1>12 DEF Next

(* Whoever follows supersededBy arrives at an open or a closed task.       *)
THEOREM AcyclicSupersession == Spec => []SupersessionAcyclic
  <1>1. Init => SupersessionInvariant
    <2>1. ASSUME Init PROVE SupersessionAcyclic /\ \A t \in Tasks : successors[t] = {}
      BY <2>1 DEF Init, SupersessionAcyclic, Acyclic
    <2>2. QED
      BY <2>1, InitTyped DEF SupersessionInvariant
  <1>2. SupersessionInvariant => SupersessionAcyclic
    BY DEF SupersessionInvariant
  <1>3. QED
    BY <1>1, <1>2, SupersessionStep, PTL DEF Spec

(* Together: the dependency and the supersession graph stay sound.         *)
THEOREM SoundGraphs == Spec => []GraphsSound
  BY OpenDependencies, AcyclicDependencies, AcyclicSupersession, PTL DEF GraphsSound

-----------------------------------------------------------------------------
(* Applied paths and acceptances                                           *)

LEMMA CoverStep ==
  TypeInvariant /\ AcceptedCoversApplied /\ [Next]_vars => AcceptedCoversApplied'
  <1>1. SUFFICES ASSUME TypeInvariant, AcceptedCoversApplied, [Next]_vars
                 PROVE  AcceptedCoversApplied'
    OBVIOUS
  <1>2. TypeOK
    BY <1>1 DEF TypeInvariant
  <1>3. CASE UNCHANGED <<review, applied>>
    BY <1>1, <1>3 DEF AcceptedCoversApplied, HasVerdict
  <1>4. ASSUME NEW t \in Tasks, NEW s \in Shapes[t], UpdateTask(t, s)
        PROVE  AcceptedCoversApplied'
    BY <1>1, <1>2, <1>4 DEF UpdateTask, AcceptedCoversApplied, HasVerdict, TypeOK
  <1>5. ASSUME NEW t \in Tasks, NEW r \in DOMAIN runs, NEW exclude \in SUBSET Files,
               ApplyTask(t, r, exclude)
        PROVE  AcceptedCoversApplied'
    <2>1. ~HasVerdict(t, "accepted")
      BY <1>2, <1>5, ReadyTask DEF ApplyTask
    <2>2. \A x \in Tasks \ {t} : applied'[x] = applied[x]
      BY <1>2, <1>5 DEF ApplyTask, TypeOK
    <2> DEFINE files    == Recorded(r) \ exclude
               W(s)     == Writes(r, s, files)
               after(s) == [f \in Files |-> IF f \in W(s) THEN runs[r].after[f] ELSE project[f]]
    <2>3. PICK s \in LineageOf(r) :
            review' = [x \in Tasks |->
              IF x \in Extended(t, W(s))
              THEN [review[x] EXCEPT !.extension = [f \in CandidatePaths(x) |-> after(s)[f]]]
              ELSE review[x]]
      BY <1>5 DEF ApplyTask
    <2> HIDE DEF files, W, after
    <2>4. t \notin Extended(t, W(s))
      BY DEF Extended, Touched
    <2>5. \A x \in Extended(t, W(s)) : review[x] \in Reviews
      BY <1>2, AcceptedIsReviewed DEF Extended, Touched
    <2>6. ASSUME NEW x \in Tasks, HasVerdict(x, "accepted")', applied'[x] # None
          PROVE  applied'[x].actual \subseteq review'[x].paths
      <3>1. x # t
        BY <2>1, <2>3, <2>4, <2>6 DEF HasVerdict
      <3>2. review'[x].paths = review[x].paths /\ HasVerdict(x, "accepted")
        <4>1. CASE x \in Extended(t, W(s))
          <5>1. review[x] # None /\ review[x].verdict = "accepted"
            BY <1>2, <4>1, AcceptedIsReviewed DEF Extended, Touched, Accepted, AcceptedGiven
          <5>2. review'[x].paths = review[x].paths
            BY <2>3, <2>5, <4>1 DEF Reviews
          <5>3. QED
            BY <5>1, <5>2 DEF HasVerdict
        <4>2. CASE x \notin Extended(t, W(s))
          BY <2>3, <2>6, <4>2 DEF HasVerdict
        <4>3. QED
          BY <4>1, <4>2
      <3>3. QED
        BY <1>1, <2>2, <2>6, <3>1, <3>2 DEF AcceptedCoversApplied
    <2>7. QED
      BY <2>6 DEF AcceptedCoversApplied
  <1>6. ASSUME NEW t \in Tasks, NEW e \in EvidenceFiles, NEW extra \in ExtraPaths,
               AcceptTask(t, e, extra)
        PROVE  AcceptedCoversApplied'
    <2>1. review'[t].paths = CandidatePaths(t) \cup extra
      BY <1>2, <1>6 DEF AcceptTask, ReviewRecord, TypeOK
    <2>2. applied[t] # None => applied[t].actual \subseteq CandidatePaths(t)
      BY DEF CandidatePaths
    <2>3. applied' = applied /\ \A x \in Tasks \ {t} : review'[x] = review[x]
      BY <1>2, <1>6 DEF AcceptTask, TypeOK
    <2>4. QED
      BY <1>1, <2>1, <2>2, <2>3 DEF AcceptedCoversApplied, HasVerdict
  <1>7. ASSUME NEW t \in Tasks, NEW e \in EvidenceFiles, NEW extra \in ExtraPaths,
               RequestRevision(t, e, extra) \/ BlockTask(t, e, extra)
        PROVE  AcceptedCoversApplied'
    <2>1. review'[t].verdict # "accepted"
      BY <1>2, <1>7 DEF RequestRevision, BlockTask, ReviewRecord, TypeOK
    <2>2. \A x \in Tasks \ {t} : review'[x] = review[x] /\ applied'[x] = applied[x]
      BY <1>2, <1>7 DEF RequestRevision, BlockTask, TypeOK
    <2>3. QED
      BY <1>1, <2>1, <2>2 DEF AcceptedCoversApplied, HasVerdict
  <1>8. CASE \/ \E t \in Tasks : ApproveTask(t) \/ CloseTask(t)
             \/ \E t \in Tasks : \E s \in Shapes[t] : AddTask(t, s)
             \/ \E t \in Tasks, S \in SUBSET Tasks : SupersedeTask(t, S)
             \/ \E t \in Tasks, b \in DOMAIN runs \cup {None} : DispatchWorker(t, b)
             \/ \E r \in DOMAIN runs, after \in [Files -> Contents],
                   outcome \in {"completed", "timeout"} : FinishRun(r, after, outcome)
             \/ \E r \in DOMAIN runs : ReadPacket(r) \/ FailRun(r)
             \/ \E f \in Editable, c \in Contents : EditFile(f, c)
    BY <1>3, <1>8 DEF ApproveTask, CloseTask, AddTask, SupersedeTask, DispatchWorker, FinishRun,
                      ReadPacket, FailRun, EditFile
  <1>9. CASE UNCHANGED vars
    BY <1>3, <1>9 DEF vars
  <1>10. QED
    BY <1>1, <1>4, <1>5, <1>6, <1>7, <1>8, <1>9 DEF Next

(* The state file never comes to hold an accepted review that omits a path *)
(* the recorded apply wrote, which validateState would refuse to load.     *)
THEOREM AcceptedCover == Spec => []AcceptedCoversApplied
  <1>1. Init => AcceptedCoversApplied
    BY DEF Init, AcceptedCoversApplied, HasVerdict
  <1>2. QED
    BY <1>1, InitTyped, TypeStep, CoverStep, PTL DEF Spec

(* An accepted task's prerequisites, direct and transitive, are accepted:  *)
(* the freshness inspectTask asks of each edge carries along every path.   *)
LEMMA PrerequisitesAccepted ==
  ASSUME TypeOK, NEW t \in Accepted
  PROVE  Prerequisites(t) \subseteq Accepted
  <1>1. PICK A \in SUBSET Tasks : t \in A /\ \A x \in A : AcceptedGiven(x, A)
    BY DEF Accepted
  <1>2. \A x \in A : Dependencies[x] \subseteq A
    BY <1>1 DEF AcceptedGiven, FreshGiven, Dependencies
  <1>3. Prerequisites(t) \subseteq A
    BY <1>1, <1>2, ReachMinimal DEF Prerequisites
  <1>4. A \subseteq Accepted
    BY <1>1 DEF Accepted
  <1>5. QED
    BY <1>3, <1>4

-----------------------------------------------------------------------------
(* What a step may do to an acceptance                                     *)

(* Runs that ended are never written again.                                *)
LEMMA EndedRunsKept ==
  ASSUME TypeInvariant, [Next]_vars
  PROVE  \A r \in DOMAIN runs : runs[r].outcome \in Ended => runs'[r] = runs[r]
  <1>1. runs \in Seq(Runs) /\ DOMAIN runs = 1..Len(runs) /\ Len(runs) \in Nat
    BY LenProperties DEF TypeInvariant, TypeOK
  <1>2. CASE runs' = runs
    BY <1>2
  <1>3. ASSUME NEW t \in Tasks, NEW b \in DOMAIN runs \cup {None}, DispatchWorker(t, b)
        PROVE  \A r \in DOMAIN runs : runs'[r] = runs[r]
    BY <1>1, <1>3 DEF DispatchWorker
  <1>4. ASSUME NEW r \in DOMAIN runs, NEW after, NEW outcome, FinishRun(r, after, outcome) \/ ReadPacket(r) \/ FailRun(r)
        PROVE  \A x \in DOMAIN runs : runs[x].outcome \in Ended => runs'[x] = runs[x]
    BY <1>1, <1>4 DEF FinishRun, ReadPacket, FailRun, Ended
  <1>5. CASE \/ \E t \in Tasks : ApproveTask(t) \/ CloseTask(t)
             \/ \E t \in Tasks : \E s \in Shapes[t] : AddTask(t, s) \/ UpdateTask(t, s)
             \/ \E t \in Tasks, S \in SUBSET Tasks : SupersedeTask(t, S)
             \/ \E f \in Editable, c \in Contents : EditFile(f, c)
             \/ UNCHANGED vars
    BY <1>2, <1>5 DEF ApproveTask, CloseTask, AddTask, UpdateTask, SupersedeTask, EditFile, vars
  <1>6. CASE \E t \in Tasks, r \in DOMAIN runs, exclude \in SUBSET Files : ApplyTask(t, r, exclude)
    BY <1>2, <1>6 DEF ApplyTask
  <1>7. CASE \E t \in Tasks, e \in EvidenceFiles, x \in ExtraPaths :
               AcceptTask(t, e, x) \/ RequestRevision(t, e, x) \/ BlockTask(t, e, x)
    BY <1>2, <1>7 DEF AcceptTask, RequestRevision, BlockTask
  <1>8. QED
    BY <1>3, <1>4, <1>5, <1>6, <1>7 DEF Next

(* What of a task decides, with the project and the reviews, whether it is *)
(* accepted.                                                               *)
Settled(t) ==
  /\ standing'[t] = standing[t]
  /\ shape'[t] = shape[t]
  /\ approval'[t] = approval[t]
  /\ applied'[t] = applied[t]

LEMMA SettledContext ==
  ASSUME TypeInvariant, [Next]_vars, project' = project, NEW t \in Tasks, Settled(t)
  PROVE  ApprovedContext(t)' = ApprovedContext(t)
  <1>1. CASE applied[t] = None
    BY <1>1 DEF Settled, ApprovedContext, Text
  <1>2. CASE applied[t] # None
    <2>1. runs'[applied[t].start] = runs[applied[t].start]
      BY <1>2, EndedRunsKept DEF TypeInvariant, AppliedSound
    <2>2. QED
      BY <1>2, <2>1 DEF Settled, ApprovedContext, ContextText
  <1>3. QED
    BY <1>1, <1>2

LEMMA SettledBinding ==
  ASSUME TypeInvariant, [Next]_vars, project' = project, NEW t \in Tasks, Settled(t),
         review'[t] = review[t]
  PROVE  /\ BindsOwnInputs(t)' <=> BindsOwnInputs(t)
         /\ CandidateMatches(t)' <=> CandidateMatches(t)
  <1>1. ApprovedContext(t)' = ApprovedContext(t)
    BY SettledContext
  <1>2. Text(Bound(shape[t]))' = Text(Bound(shape[t])) /\ CandidatePaths(t)' = CandidatePaths(t)
    BY DEF Settled, Text, Bound, CandidatePaths
  <1>3. Text(CandidatePaths(t))' = Text(CandidatePaths(t))
    BY <1>2 DEF Text
  <1>4. BlockedAfterApproval(t)' <=> BlockedAfterApproval(t)
    BY DEF Settled, BlockedAfterApproval
  <1>5. BindsShape(approval[t], shape[t])' <=> BindsShape(approval[t], shape[t])
    BY DEF Settled, BindsShape
  <1>6. BindsOwnInputs(t)' <=> BindsOwnInputs(t)
    BY <1>1, <1>2, <1>4, <1>5 DEF Settled, BindsOwnInputs
  <1>7. CandidateMatches(t)' <=> CandidateMatches(t)
    BY <1>3 DEF CandidateMatches
  <1>8. QED
    BY <1>6, <1>7

(* Whatever leaves the project, the approvals and the reviews alone leaves *)
(* every accepted task settled: it is not added, updated, retired, applied *)
(* or sent back.                                                           *)
LEMMA AcceptedSettled ==
  ASSUME TypeInvariant, [Next]_vars, approval' = approval, review' = review,
         NEW x \in Accepted
  PROVE  Settled(x)
  <1>1. TypeOK /\ x \in Tasks /\ standing[x] = "open" /\ HasVerdict(x, "accepted")
    BY AcceptedIsReviewed DEF TypeInvariant, Accepted, AcceptedGiven, HasVerdict
  <1>2. CASE UNCHANGED <<standing, shape, applied>>
    BY <1>2 DEF Settled
  <1>3. ASSUME NEW t \in Tasks, NEW s \in Shapes[t], AddTask(t, s) \/ UpdateTask(t, s)
        PROVE  Settled(x)
    BY <1>1, <1>3 DEF AddTask, UpdateTask, Settled, TypeOK
  <1>4. ASSUME NEW t \in Tasks, NEW S, CloseTask(t) \/ SupersedeTask(t, S)
        PROVE  Settled(x)
    BY <1>1, <1>4 DEF CloseTask, SupersedeTask, Retirable, Settled, TypeOK
  <1>5. ASSUME NEW t \in Tasks, NEW r \in DOMAIN runs, NEW exclude \in SUBSET Files,
               ApplyTask(t, r, exclude)
        PROVE  Settled(x)
    <2>1. x # t
      BY <1>1, <1>5, ReadyTask DEF ApplyTask
    <2>2. TypeOK
      BY <1>1
    <2>3. UNCHANGED <<standing, shape, approval>>
      BY <1>5 DEF ApplyTask
    <2>4. \A y \in Tasks \ {t} : applied'[y] = applied[y]
      BY <1>5, <2>2 DEF ApplyTask, TypeOK
    <2>5. QED
      BY <1>1, <2>1, <2>3, <2>4 DEF Settled
  <1>6. ASSUME NEW t \in Tasks, NEW e, NEW extra, RequestRevision(t, e, extra)
        PROVE  Settled(x)
    <2>1. review'[t].verdict = "revision"
      BY <1>1, <1>6 DEF RequestRevision, ReviewRecord, TypeOK
    <2>2. x # t
      BY <1>1, <2>1 DEF HasVerdict
    <2>3. QED
      BY <1>1, <1>6, <2>2 DEF RequestRevision, Settled, TypeOK
  <1>7. CASE \/ \E t \in Tasks : ApproveTask(t)
             \/ \E t \in Tasks, b \in DOMAIN runs \cup {None} : DispatchWorker(t, b)
             \/ \E r \in DOMAIN runs, after \in [Files -> Contents],
                   outcome \in {"completed", "timeout"} : FinishRun(r, after, outcome)
             \/ \E r \in DOMAIN runs : ReadPacket(r) \/ FailRun(r)
             \/ \E t \in Tasks, e \in EvidenceFiles, y \in ExtraPaths :
                   AcceptTask(t, e, y) \/ BlockTask(t, e, y)
             \/ \E f \in Editable, c \in Contents : EditFile(f, c)
             \/ UNCHANGED vars
    BY <1>2, <1>7 DEF ApproveTask, DispatchWorker, FinishRun, ReadPacket, FailRun, AcceptTask, BlockTask,
                      EditFile, vars
  <1>8. QED
    BY <1>3, <1>4, <1>5, <1>6, <1>7 DEF Next

LEMMA AcceptanceSurvivesStep ==
  ASSUME TypeInvariant, [Next]_vars,
         project' = project, approval' = approval, review' = review
  PROVE  Accepted \subseteq Accepted'
  <1>1. SUFFICES ASSUME NEW t \in Accepted PROVE t \in Accepted'
    OBVIOUS
  <1>2. PICK A \in SUBSET Tasks : t \in A /\ \A x \in A : AcceptedGiven(x, A)
    BY DEF Accepted
  <1>3. ASSUME NEW x \in A PROVE AcceptedGiven(x, A)'
    <2>1. x \in Tasks /\ x \in Accepted
      BY <1>2 DEF Accepted
    <2>2. Settled(x)
      BY <2>1, AcceptedSettled
    <2>3. (BindsOwnInputs(x)' <=> BindsOwnInputs(x)) /\ (CandidateMatches(x)' <=> CandidateMatches(x))
      BY <2>1, <2>2, SettledBinding
    <2>4. AcceptedGiven(x, A)
      BY <1>2
    <2>5. FreshGiven(x, A)'
      BY <2>2, <2>3, <2>4 DEF AcceptedGiven, FreshGiven, Settled
    <2>6. QED
      BY <2>2, <2>3, <2>4, <2>5 DEF AcceptedGiven, Settled
  <1>4. QED
    BY <1>2, <1>3 DEF Accepted

(* Operations that give no approval and no review and write no file never  *)
(* take an acceptance away.                                                *)
THEOREM AcceptancesSurvive == Spec => AcceptanceSurvives
  <1>1. TypeInvariant /\ [Next]_vars =>
          [project' = project /\ approval' = approval /\ review' = review
             => Accepted \subseteq Accepted']_vars
    BY AcceptanceSurvivesStep
  <1>2. QED
    BY <1>1, InitTyped, TypeStep, PTL DEF Spec, AcceptanceSurvives

(* Stamps are given once and in order; a task nobody registered has none.  *)
StampsPast ==
  \A t \in Tasks :
    /\ approval[t] # None =>
         approval[t].stamp <= clock /\ \A u \in Tasks : approval[t].acceptances[u] <= clock
    /\ review[t] # None => review[t].stamp <= clock /\ review[t].approval <= clock
    /\ standing[t] = "unregistered" => review[t] = None

StampInvariant == TypeInvariant /\ StampsPast

LEMMA StampStep == StampInvariant /\ [Next]_vars => StampInvariant'
  <1>1. SUFFICES ASSUME StampInvariant, [Next]_vars PROVE StampInvariant'
    OBVIOUS
  <1>2. TypeInvariant' /\ TypeOK /\ StampsPast
    BY <1>1, TypeStep DEF StampInvariant, TypeInvariant
  <1>3. CASE UNCHANGED <<standing, approval, review, clock>>
    BY <1>2, <1>3 DEF StampInvariant, StampsPast
  <1>4. ASSUME NEW t \in Tasks, UNCHANGED <<approval, review, clock>>,
               \A u \in Tasks : standing'[u] = "unregistered" => standing[u] = "unregistered"
        PROVE  StampInvariant'
    BY <1>2, <1>4 DEF StampInvariant, StampsPast
  <1>5. ASSUME NEW t \in Tasks, ApproveTask(t)
        PROVE  StampInvariant'
    <2>1. clock \in Nat /\ clock' = clock + 1 /\ UNCHANGED <<standing, review>>
      BY <1>2, <1>5 DEF ApproveTask, TypeOK
    <2>2. \A u \in Tasks \ {t} : approval'[u] = approval[u]
      BY <1>2, <1>5 DEF ApproveTask, TypeOK
    <2>3. /\ approval'[t].stamp = clock + 1
          /\ approval'[t].acceptances = [u \in Tasks |-> IF u \in shape[t].deps THEN review[u].stamp ELSE 0]
      BY <1>2, <1>5 DEF ApproveTask, TypeOK
    <2>4. \A u \in shape[t].deps : u \in Accepted
      BY <1>5 DEF ApproveTask, BlockedBy
    <2>5. \A u \in shape[t].deps : review[u] # None
      BY <2>4 DEF Accepted, AcceptedGiven
    <2>6. \A u \in Tasks : approval'[t].acceptances[u] <= clock
      BY <1>2, <2>1, <2>3, <2>5 DEF StampsPast
    <2>7. \A u \in Tasks : review[u] # None => review[u].stamp \in Nat /\ review[u].approval \in Nat
      BY <1>2 DEF TypeOK, Reviews
    <2>8. \A u \in Tasks : approval[u] # None =>
             approval[u].stamp \in Nat /\ \A y \in Tasks : approval[u].acceptances[y] \in Nat
      BY <1>2 DEF TypeOK, Approvals
    <2>9. \A y \in Tasks : approval'[t].acceptances[y] \in Nat
      BY <2>3, <2>5, <2>7
    <2>10. StampsPast'
      BY <1>2, <2>1, <2>2, <2>3, <2>6, <2>7, <2>8, <2>9 DEF StampsPast
    <2>11. QED
      BY <1>2, <2>10 DEF StampInvariant
  <1>6. ASSUME NEW t \in Tasks, NEW r \in DOMAIN runs, NEW exclude \in SUBSET Files,
               ApplyTask(t, r, exclude)
        PROVE  StampInvariant'
    <2> DEFINE files    == Recorded(r) \ exclude
               W(s)     == Writes(r, s, files)
               after(s) == [f \in Files |-> IF f \in W(s) THEN runs[r].after[f] ELSE project[f]]
    <2>1. PICK s \in LineageOf(r) :
            review' = [x \in Tasks |->
              IF x \in Extended(t, W(s))
              THEN [review[x] EXCEPT !.extension = [f \in CandidatePaths(x) |-> after(s)[f]]]
              ELSE review[x]]
      BY <1>6 DEF ApplyTask
    <2> HIDE DEF files, W, after
    <2>2. \A x \in Extended(t, W(s)) : review[x] \in Reviews /\ review[x] # None /\ standing[x] = "open"
      BY <1>2, AcceptedIsReviewed DEF Extended, Touched, Accepted, AcceptedGiven
    <2>3. \A x \in Extended(t, W(s)) :
             review'[x].stamp = review[x].stamp /\ review'[x].approval = review[x].approval
      BY <2>1, <2>2 DEF Reviews, Extended, Touched, Accepted
    <2>4. \A x \in Tasks : x \notin Extended(t, W(s)) => review'[x] = review[x]
      BY <2>1
    <2>5. UNCHANGED <<standing, approval, clock>>
      BY <1>6 DEF ApplyTask
    <2>6. StampsPast'
      BY <1>2, <2>2, <2>3, <2>4, <2>5 DEF StampsPast
    <2>7. QED
      BY <1>2, <2>6 DEF StampInvariant
  <1>7. ASSUME NEW t \in Tasks, NEW e \in EvidenceFiles, NEW extra \in ExtraPaths,
               AcceptTask(t, e, extra) \/ RequestRevision(t, e, extra) \/ BlockTask(t, e, extra)
        PROVE  StampInvariant'
    <2>1. Reviewable(t, e) /\ UNCHANGED <<standing, approval>>
      BY <1>7 DEF AcceptTask, RequestRevision, BlockTask
    <2>2. standing[t] = "open" /\ approval[t] # None
      BY <2>1 DEF Reviewable, ApprovalFresh, FreshGiven, BindsOwnInputs
    <2>3. clock \in Nat /\ clock' \in {clock, clock + 1}
      BY <1>2, <1>7 DEF AcceptTask, RequestRevision, BlockTask, TypeOK
    <2>4. \A u \in Tasks \ {t} : review'[u] = review[u]
      BY <1>2, <1>7 DEF AcceptTask, RequestRevision, BlockTask, TypeOK
    <2>5. review'[t].stamp \in {0, clock'} /\ review'[t].approval = approval[t].stamp
      BY <1>2, <1>7 DEF AcceptTask, RequestRevision, BlockTask, ReviewRecord, TypeOK
    <2>6. \A u \in Tasks : review[u] # None => review[u].stamp \in Nat /\ review[u].approval \in Nat
      BY <1>2 DEF TypeOK, Reviews
    <2>7. \A u \in Tasks : approval[u] # None =>
             approval[u].stamp \in Nat /\ \A y \in Tasks : approval[u].acceptances[y] \in Nat
      BY <1>2 DEF TypeOK, Approvals
    <2>8. StampsPast'
      BY <1>2, <2>1, <2>2, <2>3, <2>4, <2>5, <2>6, <2>7 DEF StampsPast
    <2>9. QED
      BY <1>2, <2>8 DEF StampInvariant
  <1>8. CASE \/ \E t \in Tasks : \E s \in Shapes[t] : AddTask(t, s) \/ UpdateTask(t, s)
             \/ \E t \in Tasks, S \in SUBSET Tasks : CloseTask(t) \/ SupersedeTask(t, S)
    <2>1. \A u \in Tasks : standing'[u] = "unregistered" => standing[u] = "unregistered"
      BY <1>2, <1>8 DEF AddTask, UpdateTask, CloseTask, SupersedeTask, TypeOK
    <2>2. UNCHANGED <<approval, review, clock>>
      BY <1>8 DEF AddTask, UpdateTask, CloseTask, SupersedeTask
    <2>3. QED
      BY <1>4, <1>8, <2>1, <2>2
  <1>9. CASE \/ \E t \in Tasks, b \in DOMAIN runs \cup {None} : DispatchWorker(t, b)
             \/ \E r \in DOMAIN runs, after \in [Files -> Contents],
                   outcome \in {"completed", "timeout"} : FinishRun(r, after, outcome)
             \/ \E r \in DOMAIN runs : ReadPacket(r) \/ FailRun(r)
             \/ \E f \in Editable, c \in Contents : EditFile(f, c)
             \/ UNCHANGED vars
    BY <1>3, <1>9 DEF DispatchWorker, FinishRun, ReadPacket, FailRun, EditFile, vars
  <1>10. \A t \in Tasks : CloseTask(t) => \E S \in SUBSET Tasks : CloseTask(t) \/ SupersedeTask(t, S)
    OBVIOUS
  <1>11. QED
    BY <1>1, <1>5, <1>6, <1>7, <1>8, <1>9, <1>10 DEF Next

(* A task accepted after a step that left the project and the task's own   *)
(* review alone was settled by it: a new approval, a revision or a new     *)
(* shape would each have cost the acceptance.                              *)
LEMMA ReacceptedSettled ==
  ASSUME StampInvariant, [Next]_vars, project' = project,
         NEW A \in SUBSET Tasks, NEW x \in A, AcceptedGiven(x, A)', review'[x] = review[x]
  PROVE  Settled(x)
  <1>1. /\ TypeOK /\ x \in Tasks
        /\ standing'[x] = "open" /\ HasVerdict(x, "accepted") /\ review[x] # None
        /\ review[x].verdict = "accepted"
        /\ review[x].approval = approval'[x].stamp
    BY DEF StampInvariant, TypeInvariant, AcceptedGiven, HasVerdict
  <1>2. CASE UNCHANGED <<standing, shape, approval, applied>>
    BY <1>2 DEF Settled
  <1>3. ASSUME NEW t \in Tasks, NEW s \in Shapes[t], AddTask(t, s) \/ UpdateTask(t, s)
        PROVE  Settled(x)
    <2>1. x # t
      BY <1>1, <1>3 DEF AddTask, UpdateTask, StampInvariant, StampsPast
    <2>2. QED
      BY <1>1, <1>3, <2>1 DEF AddTask, UpdateTask, Settled, TypeOK
  <1>4. ASSUME NEW t \in Tasks, NEW S, CloseTask(t) \/ SupersedeTask(t, S)
        PROVE  Settled(x)
    BY <1>1, <1>4 DEF CloseTask, SupersedeTask, Settled, TypeOK
  <1>5. ASSUME NEW t \in Tasks, ApproveTask(t)
        PROVE  Settled(x)
    <2>1. x # t
      <3>1. SUFFICES ASSUME x = t PROVE FALSE
        OBVIOUS
      <3>2. approval'[x].stamp = clock + 1 /\ clock \in Nat
        BY <1>1, <1>5, <3>1 DEF ApproveTask, TypeOK
      <3>3. review[x].approval <= clock
        BY <1>1 DEF StampInvariant, StampsPast
      <3>4. QED
        BY <1>1, <3>2, <3>3
    <2>2. QED
      BY <1>1, <1>5, <2>1 DEF ApproveTask, Settled, TypeOK
  <1>6. ASSUME NEW t \in Tasks, NEW r \in DOMAIN runs, NEW exclude \in SUBSET Files,
               ApplyTask(t, r, exclude)
        PROVE  Settled(x)
    <2>1. TypeOK
      BY <1>1
    <2>2. x # t
      BY <1>1, <1>6, ReadyTask DEF ApplyTask
    <2>3. UNCHANGED <<standing, shape, approval>>
      BY <1>6 DEF ApplyTask
    <2>4. \A y \in Tasks \ {t} : applied'[y] = applied[y]
      BY <1>6, <2>1 DEF ApplyTask, TypeOK
    <2>5. QED
      BY <1>1, <2>2, <2>3, <2>4 DEF Settled
  <1>7. ASSUME NEW t \in Tasks, NEW e, NEW extra, RequestRevision(t, e, extra)
        PROVE  Settled(x)
    <2>1. review'[t].verdict = "revision"
      BY <1>1, <1>7 DEF RequestRevision, ReviewRecord, TypeOK
    <2>2. x # t
      BY <1>1, <2>1
    <2>3. QED
      BY <1>1, <1>7, <2>2 DEF RequestRevision, Settled, TypeOK
  <1>8. CASE \/ \E t \in Tasks, b \in DOMAIN runs \cup {None} : DispatchWorker(t, b)
             \/ \E r \in DOMAIN runs, after \in [Files -> Contents],
                   outcome \in {"completed", "timeout"} : FinishRun(r, after, outcome)
             \/ \E r \in DOMAIN runs : ReadPacket(r) \/ FailRun(r)
             \/ \E t \in Tasks, e \in EvidenceFiles, y \in ExtraPaths :
                   AcceptTask(t, e, y) \/ BlockTask(t, e, y)
             \/ \E f \in Editable, c \in Contents : EditFile(f, c)
             \/ UNCHANGED vars
    BY <1>2, <1>8 DEF DispatchWorker, FinishRun, ReadPacket, FailRun, AcceptTask, BlockTask, EditFile, vars
  <1>9. QED
    BY <1>3, <1>4, <1>5, <1>6, <1>7, <1>8 DEF Next

(* The acceptance a fresh approval names is older than the step, so the    *)
(* step did not review that prerequisite; and an apply that extended its   *)
(* candidate would have written to the project.                            *)
LEMMA NamedAcceptanceKept ==
  ASSUME StampInvariant, [Next]_vars, project' = project,
         NEW d \in Tasks, HasVerdict(d, "accepted")', review'[d].stamp <= clock
  PROVE  review'[d] = review[d]
  <1>1. TypeOK
    BY DEF StampInvariant, TypeInvariant
  <1>2. ASSUME NEW t \in Tasks, NEW e, NEW extra, AcceptTask(t, e, extra)
        PROVE  review'[d] = review[d]
    <2>1. review'[t].stamp = clock + 1 /\ clock \in Nat
      BY <1>1, <1>2 DEF AcceptTask, ReviewRecord, TypeOK
    <2>2. d # t
      BY <2>1
    <2>3. QED
      BY <1>1, <1>2, <2>2 DEF AcceptTask, TypeOK
  <1>3. ASSUME NEW t \in Tasks, NEW e, NEW extra, RequestRevision(t, e, extra) \/ BlockTask(t, e, extra)
        PROVE  review'[d] = review[d]
    <2>1. review'[t].verdict # "accepted"
      BY <1>1, <1>3 DEF RequestRevision, BlockTask, ReviewRecord, TypeOK
    <2>2. d # t
      BY <2>1 DEF HasVerdict
    <2>3. QED
      BY <1>1, <1>3, <2>2 DEF RequestRevision, BlockTask, TypeOK
  <1>4. ASSUME NEW t \in Tasks, NEW r \in DOMAIN runs, NEW exclude \in SUBSET Files,
               ApplyTask(t, r, exclude)
        PROVE  review'[d] = review[d]
    <2> DEFINE files    == Recorded(r) \ exclude
               W(s)     == Writes(r, s, files)
               after(s) == [f \in Files |-> IF f \in W(s) THEN runs[r].after[f] ELSE project[f]]
    <2>1. PICK s \in LineageOf(r) :
            /\ project' = after(s)
            /\ review' = [x \in Tasks |->
                 IF x \in Extended(t, W(s))
                 THEN [review[x] EXCEPT !.extension = [f \in CandidatePaths(x) |-> after(s)[f]]]
                 ELSE review[x]]
      BY <1>4 DEF ApplyTask
    <2>2. ASSUME NEW f \in Files, f \in W(s) PROVE FALSE
      <3>1. project'[f] = runs[r].after[f]
        BY <2>1, <2>2
      <3>2. project[f] = runs[s].before[f] /\ runs[s].before[f] # runs[r].after[f]
        BY <2>2 DEF Writes, Planned
      <3>3. QED
        BY <3>1, <3>2
    <2> HIDE DEF files, W, after
    <2>3. \A x \in Touched(t, W(s)) : CandidatePaths(x) \in SUBSET Files
      BY <1>1, AcceptedIsReviewed, CandidatePathsType DEF Touched
    <2>4. Extended(t, W(s)) = {}
      BY <2>2, <2>3 DEF Extended, Touched
    <2>5. QED
      BY <2>1, <2>4
  <1>5. CASE \/ \E t \in Tasks : ApproveTask(t) \/ CloseTask(t)
             \/ \E t \in Tasks : \E s \in Shapes[t] : AddTask(t, s) \/ UpdateTask(t, s)
             \/ \E t \in Tasks, S \in SUBSET Tasks : SupersedeTask(t, S)
             \/ \E t \in Tasks, b \in DOMAIN runs \cup {None} : DispatchWorker(t, b)
             \/ \E r \in DOMAIN runs, after \in [Files -> Contents],
                   outcome \in {"completed", "timeout"} : FinishRun(r, after, outcome)
             \/ \E r \in DOMAIN runs : ReadPacket(r) \/ FailRun(r)
             \/ \E f \in Editable, c \in Contents : EditFile(f, c)
             \/ UNCHANGED vars
    BY <1>5 DEF ApproveTask, CloseTask, AddTask, UpdateTask, SupersedeTask, DispatchWorker,
                FinishRun, ReadPacket, FailRun, EditFile, vars
  <1>6. QED
    BY <1>2, <1>3, <1>4, <1>5 DEF Next

LEMMA AcceptanceNeedsReviewStep ==
  ASSUME StampInvariant, [Next]_vars, project' = project, NEW t \in Accepted' \ Accepted
  PROVE  review'[t] # review[t]
  <1>1. PICK A \in SUBSET Tasks : t \in A /\ \A x \in A : AcceptedGiven(x, A)'
    BY DEF Accepted
  <1> DEFINE B == {x \in A : review'[x] = review[x]}
  <1>2. ASSUME NEW x \in B PROVE AcceptedGiven(x, B)
    <2>1. x \in Tasks /\ AcceptedGiven(x, A)' /\ review'[x] = review[x] /\ Settled(x)
      BY <1>1, ReacceptedSettled
    <2>2. (BindsOwnInputs(x)' <=> BindsOwnInputs(x)) /\ (CandidateMatches(x)' <=> CandidateMatches(x))
      BY <2>1, SettledBinding DEF StampInvariant
    <2>3. ASSUME NEW d \in shape[x].deps PROVE d \in B /\ approval[x].acceptances[d] = review[d].stamp
      <3>1. d \in A /\ approval[x].acceptances[d] = review'[d].stamp /\ approval[x] # None
        BY <2>1, <2>3 DEF AcceptedGiven, FreshGiven, BindsOwnInputs, Settled
      <3>2. HasVerdict(d, "accepted")' /\ d \in Tasks
        BY <1>1, <3>1 DEF AcceptedGiven, HasVerdict
      <3>3. review'[d].stamp <= clock
        BY <2>1, <3>1, <3>2 DEF StampInvariant, StampsPast
      <3>4. review'[d] = review[d]
        BY <3>2, <3>3, NamedAcceptanceKept
      <3>5. QED
        BY <3>1, <3>4
    <2>4. FreshGiven(x, B)
      BY <2>1, <2>2, <2>3 DEF AcceptedGiven, FreshGiven
    <2>5. QED
      BY <2>1, <2>2, <2>4 DEF AcceptedGiven, Settled
  <1>3. t \notin B
    BY <1>2 DEF Accepted
  <1>4. QED
    BY <1>1, <1>3

(* No acceptance lapses and returns: with the project as it is, only its   *)
(* own review makes a task accepted.                                       *)
THEOREM AcceptancesReviewed == Spec => AcceptanceNeedsReview
  <1>1. Init => StampInvariant
    BY InitTyped DEF Init, StampInvariant, StampsPast
  <1>2. StampInvariant /\ [Next]_vars =>
          [project' = project => \A t \in Accepted' \ Accepted : review'[t] # review[t]]_vars
    BY AcceptanceNeedsReviewStep
  <1>3. QED
    BY <1>1, <1>2, StampStep, PTL DEF Spec, AcceptanceNeedsReview

-----------------------------------------------------------------------------
(* Applying                                                                *)

(* The guards of an apply cover everything its approval binds: the brief   *)
(* and the inputs are not rewritten, the protected files are not changed,  *)
(* and the cited lines are compared as they will be read.                  *)
LEMMA ApplyKeepsBinding ==
  ASSUME TypeInvariant, NEW t \in Tasks, NEW r \in DOMAIN runs, NEW exclude \in SUBSET Files,
         ApplyTask(t, r, exclude), applied'[t] # None
  PROVE  BindsOwnInputs(t)'
  <1> DEFINE files    == Recorded(r) \ exclude
             W(s)     == Writes(r, s, files)
             after(s) == [f \in Files |-> IF f \in W(s) THEN runs[r].after[f] ELSE project[f]]
  <1>1. PICK s \in LineageOf(r) :
          /\ W(s) \cap ({shape[t].brief} \cup shape[t].inputs) = {}
          /\ ContextStays(t, s, W(s))
          /\ project' = after(s)
          /\ applied' = [applied EXCEPT ![t] =
               [run |-> r, start |-> s, written |-> W(s),
                actual |-> shape[t].allow \cup Planned(r, s, files)]]
          /\ review' = [x \in Tasks |->
               IF x \in Extended(t, W(s))
               THEN [review[x] EXCEPT !.extension = [f \in CandidatePaths(x) |-> after(s)[f]]]
               ELSE review[x]]
    BY DEF ApplyTask
  <1>2. UNCHANGED <<standing, shape, approval, runs>> /\ TypeOK
    BY DEF ApplyTask, TypeInvariant
  <1>3. standing[t] = "open" /\ approval[t] # None /\ BindsOwnInputs(t)
    BY <1>2, ReadyTask DEF ApplyTask, ApprovalFresh, FreshGiven
  <1>4. shape[t] \in ShapeType
    BY <1>2, <1>3 DEF TypeOK
  <1>5. W(s) \cap shape[t].protect = {}
    BY DEF ApplyTask, Writes, Planned
  <1> HIDE DEF files
  <1>6. \A f \in Files : f \notin W(s) => project'[f] = project[f]
    BY <1>1
  <1> HIDE DEF W, after
  <1>7. project'[shape[t].brief] = project[shape[t].brief]
    BY <1>1, <1>4, <1>6 DEF ShapeType
  <1>8. Text(Bound(shape[t]))' = Text(Bound(shape[t]))
    <2>1. \A f \in Bound(shape[t]) : f \in Files /\ f \notin W(s)
      BY <1>1, <1>4, <1>5 DEF Bound, ShapeType
    <2>2. \A f \in Bound(shape[t]) : project'[f] = project[f]
      BY <1>6, <2>1
    <2>3. QED
      BY <1>2, <2>2 DEF Text, Bound
  <1>9. ApprovedContext(t)' = approval[t].cites
    <2>1. PICK w : w = W(s)
      OBVIOUS
    <2>2. applied'[t].start = s /\ applied'[t].written = w
      BY <1>1, <1>2, <2>1 DEF TypeOK
    <2>3. \A f \in shape[t].cites : f \in w \/ project'[f] = project[f]
      BY <1>4, <1>6, <2>1 DEF ShapeType
    <2>4. ApprovedContext(t)' =
            [f \in shape[t].cites |-> IF f \in w THEN runs[s].before[f] ELSE project'[f]]
      BY <1>2, <2>2 DEF ApprovedContext, ContextText
    <2>5. ContextText(shape[t].cites, s, w) = approval[t].cites
      BY <1>1, <2>1 DEF ContextStays
    <2>6. QED
      BY <2>3, <2>4, <2>5 DEF ContextText
  <1>10. ~BlockedAfterApproval(t)'
    <2>1. review'[t] = review[t]
      BY <1>1 DEF Extended, Touched
    <2>2. QED
      BY <1>2, <1>3, <2>1 DEF BindsOwnInputs, BlockedAfterApproval
  <1>11. QED
    BY <1>2, <1>3, <1>7, <1>8, <1>9, <1>10 DEF BindsOwnInputs, BindsShape

(* Only an apply records an apply.                                         *)
LEMMA AppliedByApply ==
  ASSUME TypeInvariant, [Next]_vars, NEW t \in Tasks, AppliedStep(t)
  PROVE  \E r \in DOMAIN runs, exclude \in SUBSET Files : ApplyTask(t, r, exclude)
  <1>1. applied \in [Tasks -> Applieds \cup {None}] /\ applied'[t] # applied[t] /\ applied'[t] # None
    BY DEF TypeInvariant, TypeOK, AppliedStep
  <1>2. ASSUME NEW u \in Tasks, NEW s, UpdateTask(u, s)
        PROVE  FALSE
    BY <1>1, <1>2 DEF UpdateTask
  <1>3. ASSUME NEW u \in Tasks, NEW e, NEW extra, RequestRevision(u, e, extra)
        PROVE  FALSE
    BY <1>1, <1>3 DEF RequestRevision
  <1>4. ASSUME NEW u \in Tasks, NEW r \in DOMAIN runs, NEW exclude \in SUBSET Files,
               ApplyTask(u, r, exclude)
        PROVE  u = t
    BY <1>1, <1>4 DEF ApplyTask
  <1>5. CASE \/ \E u \in Tasks : ApproveTask(u) \/ CloseTask(u)
             \/ \E u \in Tasks : \E s \in Shapes[u] : AddTask(u, s)
             \/ \E u \in Tasks, S \in SUBSET Tasks : SupersedeTask(u, S)
             \/ \E u \in Tasks, b \in DOMAIN runs \cup {None} : DispatchWorker(u, b)
             \/ \E r \in DOMAIN runs, after \in [Files -> Contents],
                   outcome \in {"completed", "timeout"} : FinishRun(r, after, outcome)
             \/ \E r \in DOMAIN runs : ReadPacket(r) \/ FailRun(r)
             \/ \E u \in Tasks, e \in EvidenceFiles, y \in ExtraPaths :
                   AcceptTask(u, e, y) \/ BlockTask(u, e, y)
             \/ \E f \in Editable, c \in Contents : EditFile(f, c)
             \/ UNCHANGED vars
    BY <1>1, <1>5 DEF ApproveTask, CloseTask, AddTask, SupersedeTask, DispatchWorker, FinishRun,
                      ReadPacket, FailRun, AcceptTask, BlockTask, EditFile, vars
  <1>6. QED
    BY <1>2, <1>3, <1>4, <1>5 DEF Next

(* So an apply is the only step that has to keep the approval's binding.   *)
LEMMA ApplyStep ==
  ASSUME TypeInvariant, [Next]_vars, NEW t \in Tasks, AppliedStep(t)
  PROVE  BindsOwnInputs(t)'
  <1>1. PICK r \in DOMAIN runs, exclude \in SUBSET Files : ApplyTask(t, r, exclude)
    BY AppliedByApply
  <1>2. applied'[t] # None
    BY DEF AppliedStep
  <1>3. QED
    BY <1>1, <1>2, ApplyKeepsBinding

(* The promise APPLY_WOULD_STALE makes about the task's own inputs.  It    *)
(* does not extend to its prerequisites: their acceptance may go stale.    *)
THEOREM ApplyKeepsApproval == Spec => ApplyKeepsOwnBinding
  <1>1. TypeInvariant /\ [Next]_vars =>
          [\A t \in Tasks : AppliedStep(t) => BindsOwnInputs(t)']_vars
    BY ApplyStep
  <1>2. QED
    BY <1>1, InitTyped, TypeStep, PTL DEF Spec, ApplyKeepsOwnBinding

(* What an apply does to what others read: it writes some files, and in    *)
(* the reviews it only extends the candidates of prerequisites.            *)
LEMMA ApplyFacts ==
  ASSUME TypeInvariant, NEW t \in Tasks, NEW r \in DOMAIN runs, NEW exclude \in SUBSET Files,
         ApplyTask(t, r, exclude)
  PROVE  /\ UNCHANGED <<standing, shape, approval, runs>>
         /\ applied'[t].run = r /\ \A x \in Tasks \ {t} : applied'[x] = applied[x]
         /\ \E W :
              /\ \A f \in Files \ W : project'[f] = project[f]
              /\ \A x \in Tasks :
                   \/ x \notin Extended(t, W) /\ review'[x] = review[x]
                   \/ /\ x \in Accepted /\ review'[x] # None
                      /\ review'[x] = [review[x] EXCEPT !.extension = Text(CandidatePaths(x))']
  <1> DEFINE files    == Recorded(r) \ exclude
             W(s)     == Writes(r, s, files)
             after(s) == [f \in Files |-> IF f \in W(s) THEN runs[r].after[f] ELSE project[f]]
  <1>1. PICK s \in LineageOf(r) :
          /\ project' = after(s)
          /\ applied' = [applied EXCEPT ![t] =
               [run |-> r, start |-> s, written |-> W(s),
                actual |-> shape[t].allow \cup Planned(r, s, files)]]
          /\ review' = [x \in Tasks |->
               IF x \in Extended(t, W(s))
               THEN [review[x] EXCEPT !.extension = [f \in CandidatePaths(x) |-> after(s)[f]]]
               ELSE review[x]]
    BY DEF ApplyTask
  <1>2. UNCHANGED <<standing, shape, approval, runs>> /\ TypeOK
    BY DEF ApplyTask, TypeInvariant
  <1>3. applied'[t].run = r /\ \A x \in Tasks \ {t} : applied'[x] = applied[x]
    BY <1>1, <1>2 DEF TypeOK
  <1>4. \A f \in Files \ W(s) : project'[f] = project[f]
    BY <1>1
  <1> HIDE DEF W, files, after
  <1>5. ASSUME NEW x \in Extended(t, W(s))
        PROVE  /\ x \in Accepted /\ review'[x] # None
               /\ review'[x] = [review[x] EXCEPT !.extension = Text(CandidatePaths(x))']
    <2>1. x \in Accepted /\ x \in Tasks /\ x # t /\ standing[x] = "open" /\ review[x] \in Reviews
      BY <1>2, AcceptedIsReviewed DEF Extended, Touched
    <2> DEFINE paths == CandidatePaths(x)
               new   == [f \in paths |-> project'[f]]
    <2>2. review'[x] = [review[x] EXCEPT !.extension = new]
      BY <1>1, <2>1
    <2>3. review'[x].paths = review[x].paths /\ review'[x] # None /\ review[x] # None
      <3>1. TypeInvariant' /\ paths \in SUBSET Files
        BY <1>2, <2>1, ApplyTyped, CandidatePathsType
      <3> HIDE DEF paths
      <3>2. new \in Texts
        BY <3>1 DEF TypeInvariant, TypeOK, Texts
      <3> HIDE DEF new
      <3>3. review'[x].paths = review[x].paths /\ review'[x] \in Reviews
        BY <2>1, <2>2, <3>2 DEF Reviews
      <3>4. QED
        BY <2>1, <3>3, NoneAssumption
    <2>4. CandidatePaths(x)' = CandidatePaths(x)
      BY <1>2, <1>3, <2>1, <2>3 DEF CandidatePaths
    <2>5. new = Text(CandidatePaths(x))'
      BY <1>1, <2>4 DEF Text
    <2>6. QED
      BY <2>1, <2>2, <2>3, <2>5
  <1>6. \A x \in Tasks : x \notin Extended(t, W(s)) => review'[x] = review[x]
    BY <1>1
  <1>7. QED
    BY <1>2, <1>3, <1>4, <1>5, <1>6

(* An accepted task none of whose readings the apply wrote stays accepted  *)
(* among the same tasks: the apply extended its candidate, or did not      *)
(* touch it.                                                               *)
LEMMA UntouchedStays ==
  ASSUME TypeInvariant, NEW t \in Tasks, NEW r \in DOMAIN runs, NEW exclude \in SUBSET Files,
         ApplyTask(t, r, exclude), NEW A \in SUBSET Accepted, NEW y \in A, AcceptedGiven(y, A),
         ReadByAcceptance(y) \cap Overwritten = {},
         y \in Prerequisites(t) \/ CandidatePaths(y) \cap Overwritten = {}
  PROVE  AcceptedGiven(y, A)'
  <1>1. /\ TypeOK /\ y \in Tasks /\ y \in Accepted /\ y # t /\ standing[y] = "open"
        /\ shape[y] \in ShapeType /\ review[y] \in Reviews /\ CandidatePaths(y) \in SUBSET Files
    <2>1. TypeOK /\ y \in Accepted
      BY DEF TypeInvariant
    <2>2. y \in Tasks /\ standing[y] = "open" /\ review[y] \in Reviews /\ review[y].verdict = "accepted"
      BY <2>1, AcceptedIsReviewed
    <2>3. ~HasVerdict(t, "accepted")
      BY <2>1, ReadyTask DEF ApplyTask
    <2>4. y # t
      BY <2>1, <2>2, <2>3 DEF HasVerdict, Accepted, AcceptedGiven
    <2>5. shape[y] \in ShapeType /\ CandidatePaths(y) \in SUBSET Files
      BY <2>1, <2>2, CandidatePathsType DEF TypeOK
    <2>6. QED
      BY <2>1, <2>2, <2>4, <2>5
  <1>2. /\ UNCHANGED <<standing, shape, approval, runs>> /\ applied'[y] = applied[y]
    BY <1>1, ApplyFacts
  <1>3. PICK W :
          /\ \A f \in Files \ W : project'[f] = project[f]
          /\ \A x \in Tasks :
               \/ x \notin Extended(t, W) /\ review'[x] = review[x]
               \/ /\ x \in Accepted /\ review'[x] # None
                  /\ review'[x] = [review[x] EXCEPT !.extension = Text(CandidatePaths(x))']
    BY ApplyFacts
  <1>4. ASSUME NEW x \in Accepted
        PROVE  /\ review[x] # None /\ review'[x] # None
               /\ review'[x].verdict = review[x].verdict /\ review'[x].stamp = review[x].stamp
               /\ review'[x].approval = review[x].approval /\ review'[x].brief = review[x].brief
               /\ review'[x].evidence = review[x].evidence /\ review'[x].paths = review[x].paths
               /\ review'[x].evidenceText = review[x].evidenceText
               /\ review'[x].candidate = review[x].candidate
               /\ \/ x \notin Extended(t, W) /\ review'[x].extension = review[x].extension
                  \/ review'[x].extension = Text(CandidatePaths(x))'
    <2> DEFINE new == Text(CandidatePaths(x))'
    <2>1. x \in Tasks /\ review[x] \in Reviews /\ review[x] # None
      BY <1>1, AcceptedIsReviewed, NoneAssumption
    <2> HIDE DEF new
    <2>2. CASE x \notin Extended(t, W) /\ review'[x] = review[x]
      BY <2>1, <2>2
    <2>3. CASE review'[x] # None /\ review'[x] = [review[x] EXCEPT !.extension = new]
      <3>1. /\ review'[x].verdict = review[x].verdict /\ review'[x].stamp = review[x].stamp
            /\ review'[x].approval = review[x].approval /\ review'[x].brief = review[x].brief
            /\ review'[x].evidence = review[x].evidence /\ review'[x].paths = review[x].paths
            /\ review'[x].evidenceText = review[x].evidenceText
            /\ review'[x].candidate = review[x].candidate /\ review'[x].extension = new
        BY <2>1, <2>3 DEF Reviews
      <3>2. QED
        BY <2>1, <2>3, <3>1 DEF new
    <2>4. QED
      BY <1>3, <2>1, <2>2, <2>3 DEF new
  <1>5. \A f \in ReadByAcceptance(y) : f \in Files => project'[f] = project[f]
    BY DEF Overwritten
  <1>6. /\ project'[shape[y].brief] = project[shape[y].brief]
        /\ project'[review[y].evidence] = project[review[y].evidence]
        /\ \A f \in Bound(shape[y]) : project'[f] = project[f]
        /\ \A f \in shape[y].cites :
             project'[f] = project[f] \/ (applied[y] # None /\ f \in applied[y].written)
    BY <1>1, <1>5 DEF ReadByAcceptance, OutOfScope, Bound, ShapeType, Reviews
  <1>7. Text(Bound(shape[y]))' = Text(Bound(shape[y]))
    BY <1>2, <1>6 DEF Text, Bound
  <1>8. ApprovedContext(y)' = ApprovedContext(y)
    <2>1. CASE applied[y] = None
      BY <1>2, <1>6, <2>1 DEF ApprovedContext, Text
    <2>2. CASE applied[y] # None
      BY <1>2, <1>6, <2>2 DEF ApprovedContext, ContextText
    <2>3. QED
      BY <2>1, <2>2
  <1>9. ~BlockedAfterApproval(y)' /\ BindsShape(approval[y], shape[y])' = BindsShape(approval[y], shape[y])
    <2>1. review[y].verdict = "accepted"
      BY DEF AcceptedGiven
    <2>2. QED
      BY <1>1, <1>2, <1>4, <2>1 DEF BlockedAfterApproval, BindsShape
  <1>10. FreshGiven(y, A)'
    <2>1. BindsOwnInputs(y)'
      BY <1>2, <1>6, <1>7, <1>8, <1>9 DEF AcceptedGiven, FreshGiven, BindsOwnInputs
    <2>2. \A d \in shape[y].deps : d \in A /\ approval[y].acceptances[d] = review'[d].stamp
      BY <1>4 DEF AcceptedGiven, FreshGiven
    <2>3. QED
      BY <1>2, <2>1, <2>2 DEF FreshGiven
  <1>11. CandidateMatches(y)'
    <2>1. CandidatePaths(y)' = CandidatePaths(y)
      BY <1>1, <1>2, <1>4 DEF CandidatePaths
    <2>2. CASE review'[y].extension = Text(CandidatePaths(y))'
      BY <2>2 DEF CandidateMatches
    <2>3. CASE y \notin Extended(t, W) /\ review'[y].extension = review[y].extension
      <3>1. \A f \in CandidatePaths(y) : project'[f] = project[f]
        <4>1. CASE CandidatePaths(y) \cap Overwritten = {}
          BY <1>1, <4>1 DEF Overwritten
        <4>2. CASE y \in Prerequisites(t)
          <5>1. CandidatePaths(y) \cap W = {}
            BY <1>1, <2>3, <4>2 DEF Extended, Touched
          <5>2. QED
            BY <1>1, <1>3, <5>1
        <4>3. QED
          BY <4>1, <4>2
      <3>2. Text(CandidatePaths(y))' = Text(CandidatePaths(y))
        BY <2>1, <3>1 DEF Text
      <3>3. QED
        BY <1>1, <1>4, <2>3, <3>2 DEF AcceptedGiven, CandidateMatches
    <2>4. QED
      BY <1>1, <1>4, <2>2, <2>3
  <1>12. QED
    BY <1>1, <1>2, <1>4, <1>6, <1>10, <1>11 DEF AcceptedGiven

(* The tasks whose readings were left alone support each other's           *)
(* acceptance as before.                                                   *)
LEMMA ApplyCosts ==
  ASSUME TypeInvariant, [Next]_vars, NEW t \in Tasks, AppliedStep(t), NEW x \in Accepted \ Accepted'
  PROVE  \E y \in {x} \cup Prerequisites(x) :
           \/ ReadByAcceptance(y) \cap Overwritten # {}
           \/ y \notin Prerequisites(t) /\ CandidatePaths(y) \cap Overwritten # {}
  <1>0. PICK S : S = {x} \cup Prerequisites(x)
    OBVIOUS
  <1>1. SUFFICES ASSUME \A y \in S :
                          /\ ReadByAcceptance(y) \cap Overwritten = {}
                          /\ y \in Prerequisites(t) \/ CandidatePaths(y) \cap Overwritten = {}
                 PROVE  x \in Accepted'
    BY <1>0
  <1>2. PICK r \in DOMAIN runs, exclude \in SUBSET Files : ApplyTask(t, r, exclude)
    BY AppliedByApply
  <1>3. TypeOK /\ x \in Tasks /\ S \subseteq Accepted
    BY <1>0, PrerequisitesAccepted, AcceptedIsReviewed DEF TypeInvariant
  <1>4. Dependencies \in [Tasks -> SUBSET Tasks]
    BY <1>3 DEF TypeOK, Dependencies, ShapeType
  <1>5. ASSUME NEW y \in S PROVE AcceptedGiven(y, S)
    <2>1. PICK A \in SUBSET Tasks : y \in A /\ AcceptedGiven(y, A)
      BY <1>3 DEF Accepted
    <2>2. y \in Tasks /\ Dependencies[y] = shape[y].deps
      BY <1>3, <2>1 DEF AcceptedGiven, Dependencies
    <2>3. Dependencies[y] \subseteq Prerequisites(x)
      BY <1>0, <1>3, <1>4, ReachSuccessors, ReachClosed DEF Prerequisites
    <2>4. QED
      BY <1>0, <2>1, <2>2, <2>3 DEF AcceptedGiven, FreshGiven
  <1>6. ASSUME NEW y \in S PROVE AcceptedGiven(y, S)'
    BY <1>1, <1>2, <1>3, <1>5, UntouchedStays
  <1>7. x \in S /\ S \in SUBSET Tasks
    BY <1>0, <1>3, AcceptedIsReviewed
  <1>8. QED
    BY <1>6, <1>7 DEF Accepted

(* An apply takes an acceptance away only where it rewrote what that task  *)
(* or a prerequisite of it was accepted with; the candidate files of the   *)
(* applying task's own prerequisites are extended instead, however far     *)
(* away they are (controller.mjs 1606-1619, 1640-1650).                    *)
THEOREM AppliesCostTouched == Spec => ApplyCostsOnlyTouched
  <1>1. TypeInvariant /\ [Next]_vars =>
          [\A t \in Tasks : AppliedStep(t) =>
             \A x \in Accepted \ Accepted' : \E y \in {x} \cup Prerequisites(x) :
               \/ ReadByAcceptance(y) \cap Overwritten # {}
               \/ y \notin Prerequisites(t) /\ CandidatePaths(y) \cap Overwritten # {}]_vars
    BY ApplyCosts
  <1>2. QED
    BY <1>1, InitTyped, TypeStep, PTL DEF Spec, ApplyCostsOnlyTouched

(* What a packet keeps of an approval: all but the brief, which is read    *)
(* anew from the path the task has by then.                                *)
Carries(packet, a) ==
  /\ packet.stamp = a.stamp /\ BindsShape(packet, a.shape)
  /\ packet.bound = a.bound /\ packet.cites = a.cites /\ packet.acceptances = a.acceptances

SameBinding(packet, old) ==
  /\ packet.stamp = old.stamp /\ packet.shape = old.shape
  /\ packet.bound = old.bound /\ packet.cites = old.cites /\ packet.acceptances = old.acceptances

(* A run keeps the approval it was dispatched under, and a stamp is never  *)
(* given again: the same stamp means the same approval.                    *)
PacketsSound ==
  \A r \in DOMAIN runs :
    /\ runs[r].packet.stamp <= clock
    /\ LET t == runs[r].task
       IN  approval[t] # None /\ runs[r].packet.stamp = approval[t].stamp
             => Carries(runs[r].packet, approval[t])

PacketInvariant == StampInvariant /\ PacketsSound

(* A new approval has a stamp beyond every packet's.                       *)
LEMMA PacketStep == PacketInvariant /\ [Next]_vars => PacketInvariant'
  <1>1. SUFFICES ASSUME PacketInvariant, [Next]_vars PROVE PacketsSound'
    BY StampStep DEF PacketInvariant
  <1>2. TypeOK /\ StampsPast /\ PacketsSound /\ clock \in Nat /\ runs \in Seq(Runs)
    BY <1>1 DEF PacketInvariant, StampInvariant, TypeInvariant, TypeOK
  <1>3. DOMAIN runs = 1..Len(runs) /\ Len(runs) \in Nat /\ \A r \in DOMAIN runs : runs[r] \in Runs
    BY <1>2, LenProperties, ElementOfSeq
  <1>4. \A r \in DOMAIN runs : runs[r].task \in Tasks /\ runs[r].packet.stamp \in Nat
    BY <1>3 DEF Runs, Approvals
  <1>5. ASSUME approval' = approval, clock' \in {clock, clock + 1}, DOMAIN runs' = DOMAIN runs,
               \A r \in DOMAIN runs : runs'[r].task = runs[r].task /\ SameBinding(runs'[r].packet, runs[r].packet)
        PROVE  PacketsSound'
    BY <1>2, <1>4, <1>5 DEF PacketsSound, Carries, BindsShape, SameBinding
  <1>6. ASSUME NEW t \in Tasks, ApproveTask(t) PROVE PacketsSound'
    <2>1. clock' = clock + 1 /\ runs' = runs /\ approval'[t].stamp = clock + 1
          /\ \A u \in Tasks \ {t} : approval'[u] = approval[u]
      BY <1>2, <1>6 DEF ApproveTask, TypeOK
    <2>2. QED
      BY <1>2, <1>4, <2>1 DEF PacketsSound
  <1>7. ASSUME NEW t \in Tasks, NEW b \in DOMAIN runs \cup {None}, DispatchWorker(t, b)
        PROVE  PacketsSound'
    <2> DEFINE n == Len(runs) + 1
    <2>1. /\ UNCHANGED <<approval, clock>> /\ DOMAIN runs' = 1..n
          /\ \A r \in 1..Len(runs) : runs'[r] = runs[r]
          /\ runs'[n].task = t /\ runs'[n].packet = [approval[t] EXCEPT !.shape = shape[t]]
      BY <1>3, <1>7 DEF DispatchWorker
    <2>2. approval[t] \in Approvals /\ shape[t] \in ShapeType /\ BindsShape(approval[t], shape[t])
      <3>1. approval[t] \in Approvals /\ shape[t] \in ShapeType
        BY <1>1, <1>7, ExpectedTyped DEF PacketInvariant, StampInvariant
      <3>2. ApprovalFresh(t)
        BY <1>2, <1>7, ReadyTask DEF DispatchWorker
      <3>3. QED
        BY <3>1, <3>2 DEF ApprovalFresh, FreshGiven, BindsOwnInputs
    <2>3. Carries(runs'[n].packet, approval[t]) /\ approval[t].stamp <= clock /\ runs'[n].packet.stamp = approval[t].stamp
      <3>1. approval[t].stamp <= clock
        BY <1>2, <1>7, ReadyTask DEF StampsPast, DispatchWorker
      <3>2. BindsShape(runs'[n].packet, approval[t].shape)
        BY <2>1, <2>2 DEF BindsShape, ShapeType, Approvals
      <3>3. QED
        BY <2>1, <2>2, <3>1, <3>2 DEF Carries, Approvals
    <2>4. \A r \in 1..n : r = n \/ r \in DOMAIN runs
      BY <1>3
    <2> HIDE DEF n
    <2>5. QED
      BY <1>2, <1>3, <2>1, <2>3, <2>4 DEF PacketsSound
  <1>8. ASSUME NEW r \in DOMAIN runs, NEW after, NEW outcome, FinishRun(r, after, outcome) \/ ReadPacket(r) \/ FailRun(r)
        PROVE  PacketsSound'
    <2>1. UNCHANGED <<approval, clock>> /\ DOMAIN runs' = DOMAIN runs
      BY <1>8 DEF FinishRun, ReadPacket, FailRun
    <2>2. \A x \in DOMAIN runs : runs'[x].task = runs[x].task /\ SameBinding(runs'[x].packet, runs[x].packet)
      <3>1. CASE FailRun(r)
        <4>1. \A x \in DOMAIN runs : runs'[x].task = runs[x].task /\ runs'[x].packet = runs[x].packet
          BY <1>3, <3>1 DEF FailRun, Runs
        <4>2. QED
          BY <4>1 DEF SameBinding
      <3>0. CASE ReadPacket(r)
        <4> DEFINE packet == [runs[r].packet EXCEPT !.brief = project[runs[r].packet.shape.brief]]
        <4>1. runs[r].packet \in Approvals
          BY <1>3 DEF Runs
        <4>2. \A x \in DOMAIN runs \ {r} : runs'[x] = runs[x]
          BY <3>0 DEF ReadPacket
        <4>3. runs'[r].task = runs[r].task /\ runs'[r].packet = packet
          BY <1>3, <3>0 DEF ReadPacket, Runs
        <4>4. SameBinding(packet, runs[r].packet)
          BY <4>1 DEF Approvals, SameBinding
        <4> HIDE DEF packet
        <4>5. QED
          BY <4>2, <4>3, <4>4 DEF SameBinding
      <3>2. CASE FinishRun(r, after, outcome)
        <4>1. runs' = [runs EXCEPT ![r].outcome = outcome, ![r].before = Workspace(r), ![r].after = after]
          BY <3>2 DEF FinishRun
        <4>2. \A x \in DOMAIN runs \ {r} : runs'[x] = runs[x]
          BY <4>1
        <4>3. runs'[r].task = runs[r].task /\ runs'[r].packet = runs[r].packet
          BY <1>3, <4>1 DEF Runs
        <4>4. QED
          BY <4>2, <4>3 DEF SameBinding
      <3>3. QED
        BY <1>8, <3>0, <3>1, <3>2
    <2>3. QED
      BY <1>5, <2>1, <2>2
  <1>9. CASE \/ \E t \in Tasks : CloseTask(t)
             \/ \E t \in Tasks : \E s \in Shapes[t] : AddTask(t, s) \/ UpdateTask(t, s)
             \/ \E t \in Tasks, S \in SUBSET Tasks : SupersedeTask(t, S)
             \/ \E t \in Tasks, e \in EvidenceFiles, x \in ExtraPaths :
                   AcceptTask(t, e, x) \/ RequestRevision(t, e, x) \/ BlockTask(t, e, x)
             \/ \E f \in Editable, c \in Contents : EditFile(f, c)
             \/ UNCHANGED vars
    <2>1. approval' = approval /\ clock' \in {clock, clock + 1} /\ runs' = runs
      BY <1>9 DEF CloseTask, AddTask, UpdateTask, SupersedeTask, AcceptTask, RequestRevision, BlockTask,
                  EditFile, vars
    <2>2. QED
      BY <1>5, <2>1 DEF SameBinding
  <1>10. CASE \E t \in Tasks, r \in DOMAIN runs, exclude \in SUBSET Files : ApplyTask(t, r, exclude)
    <2>1. approval' = approval /\ clock' = clock /\ runs' = runs
      BY <1>10 DEF ApplyTask
    <2>2. QED
      BY <1>5, <2>1 DEF SameBinding
  <1>11. QED
    BY <1>1, <1>6, <1>7, <1>8, <1>9, <1>10 DEF Next

(* The packet of the run applied is the approval that is ready.            *)
LEMMA ApplyUnderCurrent ==
  ASSUME PacketInvariant, [Next]_vars, NEW t \in Tasks, AppliedStep(t)
  PROVE  LET packet == runs[applied'[t].run].packet
         IN  /\ BindsShape(packet, shape[t])
             /\ packet.bound = Text(Bound(shape[t]))'
             /\ \A u \in shape[t].deps : packet.acceptances[u] = review'[u].stamp
  <1>1. TypeInvariant /\ TypeOK /\ PacketsSound
    BY DEF PacketInvariant, StampInvariant, TypeInvariant
  <1>2. PICK r \in DOMAIN runs, exclude \in SUBSET Files : ApplyTask(t, r, exclude)
    BY <1>1, AppliedByApply
  <1>3. UNCHANGED <<standing, shape, approval, runs>> /\ applied'[t].run = r
    BY <1>1, <1>2, ApplyFacts
  <1>4. approval[t] # None /\ ApprovalFresh(t)
    BY <1>1, <1>2, ReadyTask DEF ApplyTask
  <1>5. Carries(runs[r].packet, approval[t])
    BY <1>1, <1>2, <1>4 DEF ApplyTask, PacketCurrent, PacketsSound
  <1>6. BindsOwnInputs(t)'
    BY <1>1, ApplyStep
  <1>7. \A u \in shape[t].deps : approval[t].acceptances[u] = review'[u].stamp
    <2> SUFFICES ASSUME NEW u \in shape[t].deps PROVE approval[t].acceptances[u] = review'[u].stamp
      OBVIOUS
    <2>1. u \in Accepted /\ approval[t].acceptances[u] = review[u].stamp
      BY <1>4 DEF ApprovalFresh, FreshGiven
    <2>2. u \in Tasks /\ review[u] \in Reviews
      BY <1>1, <2>1, AcceptedIsReviewed
    <2> DEFINE new == Text(CandidatePaths(u))'
    <2>3. review'[u] = review[u] \/ review'[u] = [review[u] EXCEPT !.extension = new]
      BY <1>1, <1>2, <2>2, ApplyFacts
    <2> HIDE DEF new
    <2>4. review'[u].stamp = review[u].stamp
      BY <2>2, <2>3 DEF Reviews
    <2>5. QED
      BY <2>1, <2>4
  <1>8. BindsShape(runs[r].packet, shape[t])
    <2>1. BindsShape(approval[t], shape[t])
      BY <1>3, <1>6 DEF BindsOwnInputs, BindsShape
    <2>2. approval[t].shape \in ShapeType /\ runs[r].packet.shape \in ShapeType
      <3>1. runs[r] \in Runs
        BY <1>1, ElementOfSeq, LenProperties DEF TypeOK
      <3>2. QED
        BY <1>1, <1>4, <3>1 DEF TypeOK, Runs, Approvals
    <2>3. BindsShape(runs[r].packet, approval[t].shape)
      BY <1>5 DEF Carries
    <2>4. QED
      BY <2>1, <2>2, <2>3 DEF BindsShape, ShapeType
  <1>9. QED
    BY <1>3, <1>5, <1>6, <1>7, <1>8 DEF BindsOwnInputs, Carries

(* What is applied was produced under the inputs, the shape and the        *)
(* acceptances that hold when it is applied, although the run may outlive  *)
(* its approval: the stamp of the packet is looked at, and it says         *)
(* everything but the brief (controller.mjs 1191-1206, 1510).              *)
THEOREM AppliedCurrent == Spec => AppliedUnderCurrentInputs
  <1>1. Init => PacketInvariant
    BY InitTyped DEF Init, PacketInvariant, StampInvariant, StampsPast, PacketsSound
  <1>2. PacketInvariant /\ [Next]_vars =>
          [\A t \in Tasks : AppliedStep(t) =>
             LET packet == runs[applied'[t].run].packet
             IN  /\ BindsShape(packet, shape[t])
                 /\ packet.bound = Text(Bound(shape[t]))'
                 /\ \A u \in shape[t].deps : packet.acceptances[u] = review'[u].stamp]_vars
    BY ApplyUnderCurrent
  <1>3. QED
    BY <1>1, <1>2, PacketStep, PTL DEF Spec, AppliedUnderCurrentInputs
=============================================================================
