----------------------------- MODULE MCTaskRow -----------------------------
(* Two beginnings.  A row of three tasks, where the last grows the file of *)
(* the first, from the state in which the first two have been approved and *)
(* accepted: each may be given other prerequisites, and all may be retired.*)
(* And a single task, from its registration on, whose two runs create the  *)
(* file h, the second as a revision of the first or not.                   *)
EXTENDS MCTaskLifecycle

RowShape  == [t \in Tasks |-> CASE t = p -> Shape({}, {f}, {})
                                [] t = d -> Shape({p}, {h}, {})
                                [] t = z -> Shape({d}, {f}, {f})]
RowShapes == [t \in Tasks |-> {RowShape[t]} \cup
  {[RowShape[t] EXCEPT !.deps = CASE t = p -> {z} [] t = d -> {} [] t = z -> {p}]}]

(* The file a run creates is an extra path of the task, an allowed one, or *)
(* a protected one.                                                        *)
CreationShapes == {Shape({}, {f}, {}), Shape({}, {h}, {}),
                   [Shape({}, {f}, {}) EXCEPT !.protect = {h}]}
AllShapes == [t \in Tasks |-> RowShapes[t] \cup CreationShapes]
ExtraFiles == {{}, {h}}

Stamps(deps) == [t \in Tasks |-> IF t \in deps THEN (IF t = p THEN 2 ELSE 4) ELSE 0]
ApprovalAt(t, stamp) ==
  [stamp |-> stamp, shape |-> RowShape[t], brief |-> project[spec], bound |-> Text({}),
   cites |-> Text(RowShape[t].cites), acceptances |-> Stamps(RowShape[t].deps)]
AcceptedAt(t, stamp, approved) ==
  [verdict |-> "accepted", stamp |-> stamp, approval |-> approved, brief |-> project[spec],
   evidence |-> notes, evidenceText |-> project[notes], paths |-> RowShape[t].allow,
   candidate |-> Text(RowShape[t].allow), extension |-> None, appliedFrom |-> None]

RowInit ==
  /\ project = InitialProject
  /\ standing = [t \in Tasks |-> "open"]
  /\ shape = RowShape
  /\ approval = [t \in Tasks |-> CASE t = p -> ApprovalAt(p, 1)
                                  [] t = d -> ApprovalAt(d, 3)
                                  [] t = z -> None]
  /\ review = [t \in Tasks |-> CASE t = p -> AcceptedAt(p, 2, 1)
                                [] t = d -> AcceptedAt(d, 4, 3)
                                [] t = z -> None]
  /\ applied = [t \in Tasks |-> None]
  /\ successors = [t \in Tasks |-> {}]
  /\ runs = <<>>
  /\ clock = 4

CreationInit ==
  /\ project = [x \in Files |-> IF x = h THEN Absent ELSE "v0"]
  /\ standing = [t \in Tasks |-> "unregistered"]
  /\ shape = [t \in Tasks |-> None]
  /\ approval = [t \in Tasks |-> None]
  /\ review = [t \in Tasks |-> None]
  /\ applied = [t \in Tasks |-> None]
  /\ successors = [t \in Tasks |-> {}]
  /\ runs = <<>>
  /\ clock = 0

Row == standing[z] # "unregistered"

(* A worker only works on the last task of the row; the others are accepted*)
(* or go stale.                                                            *)
RowNext ==
  \/ \E t \in Tasks : \E s \in RowShapes[t] : UpdateTask(t, s)
  \/ \E t \in Tasks : CloseTask(t)
  \/ \E t \in Tasks, S \in SUBSET Tasks : SupersedeTask(t, S)
  \/ \E t \in Tasks : ApproveTask(t)
  \/ \E t \in Tasks, e \in EvidenceFiles : AcceptTask(t, e, {})
  \/ \E t \in Tasks, e \in EvidenceFiles : RequestRevision(t, e, {})
  \/ Len(runs) < 1 /\ DispatchWorker(z, None)
  \/ \E r \in DOMAIN runs : ReadPacket(r)
  \/ \E r \in DOMAIN runs, v \in {"v0", "v1"} :
        FinishRun(r, [x \in Files |-> IF x = f THEN v ELSE "v0"], "completed")
  \/ \E r \in DOMAIN runs : ApplyTask(z, r, {})
  \/ \E v \in {"v0", "v1"} : EditFile(f, v)

CreationNext ==
  /\ \/ \E s \in CreationShapes : AddTask(p, s) \/ UpdateTask(p, s)
     \/ ApproveTask(p)
     \/ CloseTask(p)
     \/ \E b \in DOMAIN runs \cup {None} : DispatchWorker(p, b)
     \/ \E r \in DOMAIN runs, v \in {Absent, "v0"}, outcome \in {"completed", "timeout"} :
           FinishRun(r, [x \in Files |-> IF x = h THEN v ELSE "v0"], outcome)
     \/ \E r \in DOMAIN runs : ReadPacket(r) \/ FailRun(r)
     \/ \E r \in DOMAIN runs, exclude \in SUBSET Files : ApplyTask(p, r, exclude)
     \/ \E e \in EvidenceFiles, extra \in ExtraPaths :
           AcceptTask(p, e, extra) \/ RequestRevision(p, e, extra) \/ BlockTask(p, e, extra)
     \/ \E v \in {Absent, "v0"} : EditFile(h, v)
  /\ clock' <= 2

TaskSpec ==
  /\ RowInit \/ CreationInit
  /\ [][IF Row THEN RowNext ELSE CreationNext]_vars

(* The single task, whose brief is edited too.                             *)
BriefSpec ==
  /\ CreationInit
  /\ [][CreationNext \/ (\E v \in {"v0", "v1"} : EditFile(spec, v))]_vars
=============================================================================
