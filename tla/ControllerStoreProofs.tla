----------------------- MODULE ControllerStoreProofs -----------------------
(* What holds of the controller's store for every set of invocations,      *)
(* files and runs: mutual exclusion, no lost operation, rollback, and the  *)
(* refinement of the atomic store; and of the gate that is asked before the*)
(* lock of a review is taken (SemanticGate).                               *)
EXTENDS ControllerStore, SemanticGate, TLAPS

-----------------------------------------------------------------------------
(* The inductive invariant                                                 *)

(* The lock directory is there while its maker is in the locked part, and  *)
(* afterwards only if it died or could not remove it.                      *)
HolderInvariant ==
  \A p \in Procs : /\ pc[p] \in Locked => lock = p
                   /\ lock = p => pc[p] \in Locked \cup {"left", "crashed"}

(* The record a transaction holds is the one on disk until it saves it.    *)
RecordInvariant ==
  \A p \in Procs :
    /\ pc[p] \in {"planning", "writing", "saving"} => memory[p] = saved
    /\ report[p] = "done" <=> p \in saved
    /\ pc[p] \notin {"releasing", "removing", "left", "ended", "crashed"} => report[p] = "none"
    /\ pc[p] \in {"releasing", "removing", "left", "ended"} => report[p] # "none"

(* Nobody but the holder and an editor writes the files of its plan.       *)
PlanInvariant ==
  \A p \in Procs :
    /\ pc[p] \in {"idle", "owning", "reading", "planning", "asking", "probing"}
         => touched[p] = {} /\ left[p] = {}
    /\ pc[p] = "saving" => left[p] = {}
    /\ pc[p] = "writing" =>
         \A f \in left[p] : /\ previous[p][f] = Before[Run[p]][f]
                            /\ project[f] \in {Before[Run[p]][f], Edited}
    /\ pc[p] \in {"writing", "saving"} =>
         \A f \in Changes(p) \ left[p] : project[f] \in {After[Run[p]][f], Edited}
    /\ lock = p =>
         \A f \in touched[p] : /\ previous[p][f] = Before[Run[p]][f]
                               /\ project[f] \in {Before[Run[p]][f], After[Run[p]][f], Edited}

(* The contents that outlive the transaction under way.                    *)
Durable(q) == q \in saved \/ pc[q] = "crashed" \/ report[q] = "torn"

settled ==
  [f \in Files |-> {Initial[f], Edited}
     \cup {After[Run[q]][f] : q \in {x \in Procs : f \in Changes(x) /\ Durable(x)}}]

UnderWay(p, f) == pc[p] \in {"writing", "saving", "undoing"} /\ f \in touched[p]

(* Each file's content is settled or the work of the transaction under way,*)
(* whose rollback would bring back a settled content.                      *)
SourceInvariant ==
  /\ \A f \in Files :
       \/ project[f] \in settled[f]
       \/ \E p \in Procs : /\ f \in Changes(p) /\ project[f] = After[Run[p]][f]
                           /\ UnderWay(p, f)
  /\ \A p \in Procs :
       /\ pc[p] \in {"writing", "saving", "undoing"}
            => \A f \in left[p] \cup touched[p] : previous[p][f] \in settled[f]
       /\ pc[p] = "writing" => \A f \in left[p] : project[f] \in settled[f]

-----------------------------------------------------------------------------
(* Facts about the constants                                               *)

LEMMA ChangeFacts ==
  ASSUME NEW p \in Procs
  PROVE  /\ Changes(p) \subseteq Files
         /\ \A f \in Changes(p) :
              /\ After[Run[p]][f] \in Contents
              /\ Before[Run[p]][f] # After[Run[p]][f]
              /\ Edited \notin {Before[Run[p]][f], After[Run[p]][f]}
  BY RunAssumption, ChangeAssumption, EditAssumption DEF Changes, Contents

LEMMA InitialFacts == Initial \in [Files -> Contents] /\ Edited \in Contents
  BY InitialAssumption DEF Contents

-----------------------------------------------------------------------------
(* Each part is kept by every step                                         *)

(* The types.                                                              *)
LEMMA TypeStep ==
  ASSUME TypeOK, [Next]_vars
  PROVE  TypeOK'
<1>1. ASSUME NEW p \in Procs, MakeLock(p) PROVE TypeOK'
  BY <1>1 DEF MakeLock, Go, TypeOK, transaction, Locked, Running
<1>2. ASSUME NEW p \in Procs, FindLock(p) PROVE TypeOK'
  BY <1>2 DEF FindLock, Go, TypeOK, transaction, Running
<1>3. ASSUME NEW p \in Procs, WriteOwner(p) PROVE TypeOK'
  BY <1>3 DEF WriteOwner, Go, TypeOK, transaction, Locked, Running
<1>4. ASSUME NEW p \in Procs, AskOwner(p) PROVE TypeOK'
  BY <1>4 DEF AskOwner, Go, TypeOK, transaction, Running, Reports
<1>5. ASSUME NEW p \in Procs, ProbeOwner(p) PROVE TypeOK'
  BY <1>5 DEF ProbeOwner, Go, Alive, TypeOK, transaction, Reports
<1>6. ASSUME NEW p \in Procs, ReadState(p) PROVE TypeOK'
  BY <1>6 DEF ReadState, Go, TypeOK, Locked, Running
<1>7. ASSUME NEW p \in Procs, PlanApply(p) PROVE TypeOK'
  BY <1>7, ChangeFacts DEF PlanApply, Go, TypeOK, Locked, Running
<1>8. ASSUME NEW p \in Procs, Refuse(p) PROVE TypeOK'
  BY <1>8 DEF Refuse, Go, TypeOK, transaction, Locked, Running, Reports
<1>9. ASSUME NEW p \in Procs, WriteFile(p) PROVE TypeOK'
  BY <1>9, ChangeFacts DEF WriteFile, TypeOK
<1>10. ASSUME NEW p \in Procs, FailWrite(p) PROVE TypeOK'
  BY <1>10 DEF FailWrite, Go, TypeOK, Locked, Running
<1>11. ASSUME NEW p \in Procs, EndWrites(p) PROVE TypeOK'
  BY <1>11 DEF EndWrites, Go, TypeOK, transaction, Locked, Running
<1>12. ASSUME NEW p \in Procs, SaveState(p) PROVE TypeOK'
  BY <1>12 DEF SaveState, Go, TypeOK, transaction, Locked, Running, Reports
<1>13. ASSUME NEW p \in Procs, FailSave(p) PROVE TypeOK'
  BY <1>13 DEF FailSave, Go, TypeOK, transaction, Locked, Running
<1>14. ASSUME NEW p \in Procs, RestoreFile(p) PROVE TypeOK'
  BY <1>14 DEF RestoreFile, TypeOK
<1>15. ASSUME NEW p \in Procs, FailRestore(p) PROVE TypeOK'
  BY <1>15 DEF FailRestore, TypeOK
<1>16. ASSUME NEW p \in Procs, EndRollback(p) PROVE TypeOK'
  BY <1>16 DEF EndRollback, Go, TypeOK, transaction, Locked, Running, Reports
<1>17. ASSUME NEW p \in Procs, RemoveOwner(p) PROVE TypeOK'
  BY <1>17 DEF RemoveOwner, Go, TypeOK, transaction, Locked, Running
<1>18. ASSUME NEW p \in Procs, RemoveLock(p) PROVE TypeOK'
  BY <1>18 DEF RemoveLock, Go, TypeOK, transaction
<1>19. ASSUME NEW p \in Procs, LeaveLock(p) PROVE TypeOK'
  BY <1>19 DEF LeaveLock, Go, TypeOK, transaction
<1>20. ASSUME NEW p \in Procs, Crash(p) PROVE TypeOK'
  BY <1>20 DEF Crash, TypeOK, transaction
<1>21. ASSUME ClearLock PROVE TypeOK'
  BY <1>21 DEF ClearLock, Alive, TypeOK, transaction
<1>22. ASSUME EditFile PROVE TypeOK'
  BY <1>22, InitialFacts DEF EditFile, TypeOK, transaction
<1>23. ASSUME UNCHANGED vars PROVE TypeOK'
  BY <1>23 DEF vars, TypeOK, transaction
<1>24. QED
  BY <1>1, <1>2, <1>3, <1>4, <1>5, <1>6, <1>7, <1>8, <1>9, <1>10, <1>11,
     <1>12, <1>13, <1>14, <1>15, <1>16, <1>17, <1>18, <1>19, <1>20, <1>21,
     <1>22, <1>23 DEF Next, Step

(* Only the holder and the operator change the lock.                       *)
LEMMA HolderStep ==
  ASSUME TypeOK, HolderInvariant, [Next]_vars
  PROVE  HolderInvariant'
<1>1. ASSUME NEW p \in Procs, MakeLock(p) PROVE HolderInvariant'
  BY <1>1, RunAssumption DEF MakeLock, Go, TypeOK, HolderInvariant, transaction, Locked
<1>2. ASSUME NEW p \in Procs, FindLock(p) PROVE HolderInvariant'
  BY <1>2 DEF FindLock, Go, TypeOK, HolderInvariant, transaction, Locked
<1>3. ASSUME NEW p \in Procs, WriteOwner(p) PROVE HolderInvariant'
  BY <1>3 DEF WriteOwner, Go, TypeOK, HolderInvariant, transaction, Locked
<1>4. ASSUME NEW p \in Procs, AskOwner(p) PROVE HolderInvariant'
  <2>1. lock' = lock /\ \E to \in {"ended", "probing"} : Go(p, "asking", to)
    BY <1>4 DEF AskOwner
  <2>2. QED
    BY <2>1 DEF Go, TypeOK, HolderInvariant, Locked, Running
<1>5. ASSUME NEW p \in Procs, ProbeOwner(p) PROVE HolderInvariant'
  BY <1>5 DEF ProbeOwner, Go, Alive, TypeOK, HolderInvariant, transaction, Locked
<1>6. ASSUME NEW p \in Procs, ReadState(p) PROVE HolderInvariant'
  BY <1>6 DEF ReadState, Go, TypeOK, HolderInvariant, Locked
<1>7. ASSUME NEW p \in Procs, PlanApply(p) PROVE HolderInvariant'
  BY <1>7 DEF PlanApply, Go, TypeOK, HolderInvariant, Locked
<1>8. ASSUME NEW p \in Procs, Refuse(p) PROVE HolderInvariant'
  BY <1>8 DEF Refuse, Go, TypeOK, HolderInvariant, transaction, Locked
<1>9. ASSUME NEW p \in Procs, WriteFile(p) PROVE HolderInvariant'
  BY <1>9 DEF WriteFile, TypeOK, HolderInvariant
<1>10. ASSUME NEW p \in Procs, FailWrite(p) PROVE HolderInvariant'
  BY <1>10 DEF FailWrite, Go, TypeOK, HolderInvariant, Locked
<1>11. ASSUME NEW p \in Procs, EndWrites(p) PROVE HolderInvariant'
  BY <1>11 DEF EndWrites, Go, TypeOK, HolderInvariant, transaction, Locked
<1>12. ASSUME NEW p \in Procs, SaveState(p) PROVE HolderInvariant'
  BY <1>12 DEF SaveState, Go, TypeOK, HolderInvariant, transaction, Locked
<1>13. ASSUME NEW p \in Procs, FailSave(p) PROVE HolderInvariant'
  BY <1>13 DEF FailSave, Go, TypeOK, HolderInvariant, transaction, Locked
<1>14. ASSUME NEW p \in Procs, RestoreFile(p) PROVE HolderInvariant'
  BY <1>14 DEF RestoreFile, TypeOK, HolderInvariant
<1>15. ASSUME NEW p \in Procs, FailRestore(p) PROVE HolderInvariant'
  BY <1>15 DEF FailRestore, TypeOK, HolderInvariant
<1>16. ASSUME NEW p \in Procs, EndRollback(p) PROVE HolderInvariant'
  BY <1>16 DEF EndRollback, Go, TypeOK, HolderInvariant, transaction, Locked
<1>17. ASSUME NEW p \in Procs, RemoveOwner(p) PROVE HolderInvariant'
  BY <1>17 DEF RemoveOwner, Go, TypeOK, HolderInvariant, transaction, Locked
<1>18. ASSUME NEW p \in Procs, RemoveLock(p) PROVE HolderInvariant'
  BY <1>18, RunAssumption
  DEF RemoveLock, Go, TypeOK, HolderInvariant, transaction, Locked
<1>19. ASSUME NEW p \in Procs, LeaveLock(p) PROVE HolderInvariant'
  BY <1>19 DEF LeaveLock, Go, TypeOK, HolderInvariant, transaction, Running
<1>20. ASSUME NEW p \in Procs, Crash(p) PROVE HolderInvariant'
  BY <1>20 DEF Crash, TypeOK, HolderInvariant, transaction, Locked
<1>21. ASSUME ClearLock PROVE HolderInvariant'
  BY <1>21, RunAssumption
  DEF ClearLock, Alive, TypeOK, HolderInvariant, transaction, Running
<1>22. ASSUME EditFile PROVE HolderInvariant'
  BY <1>22 DEF EditFile, TypeOK, HolderInvariant, transaction
<1>23. ASSUME UNCHANGED vars PROVE HolderInvariant'
  BY <1>23 DEF vars, TypeOK, HolderInvariant, transaction
<1>24. QED
  BY <1>1, <1>2, <1>3, <1>4, <1>5, <1>6, <1>7, <1>8, <1>9, <1>10, <1>11,
     <1>12, <1>13, <1>14, <1>15, <1>16, <1>17, <1>18, <1>19, <1>20, <1>21,
     <1>22, <1>23 DEF Next, Step

(* The record is saved by the holder, from the copy it read.               *)
LEMMA RecordStep ==
  ASSUME TypeOK, HolderInvariant, RecordInvariant, [Next]_vars
  PROVE  RecordInvariant'
<1>1. ASSUME NEW p \in Procs, MakeLock(p) PROVE RecordInvariant'
  BY <1>1 DEF MakeLock, Go, TypeOK, RecordInvariant, transaction
<1>2. ASSUME NEW p \in Procs, FindLock(p) PROVE RecordInvariant'
  BY <1>2 DEF FindLock, Go, TypeOK, RecordInvariant, transaction
<1>3. ASSUME NEW p \in Procs, WriteOwner(p) PROVE RecordInvariant'
  BY <1>3 DEF WriteOwner, Go, TypeOK, RecordInvariant, transaction
<1>4. ASSUME NEW p \in Procs, AskOwner(p) PROVE RecordInvariant'
  <2>1. pc[p] = "asking" /\ saved' = saved /\ memory' = memory
    BY <1>4 DEF AskOwner, Go, transaction
  <2>2. \/ Go(p, "asking", "ended") /\ report' = [report EXCEPT ![p] = "ambiguous"]
        \/ Go(p, "asking", "probing") /\ report' = report
    BY <1>4 DEF AskOwner
  <2>3. report[p] = "none" /\ p \notin saved
    BY <2>1 DEF RecordInvariant
  <2>4. ASSUME NEW q \in Procs, q # p PROVE pc'[q] = pc[q] /\ report'[q] = report[q]
    BY <2>2, <2>4 DEF Go, TypeOK
  <2>5. \/ pc'[p] = "ended" /\ report'[p] = "ambiguous"
        \/ pc'[p] = "probing" /\ report'[p] = "none"
    BY <2>2, <2>3 DEF Go, TypeOK
  <2>6. QED
    BY <2>1, <2>3, <2>4, <2>5 DEF RecordInvariant
<1>5. ASSUME NEW p \in Procs, ProbeOwner(p) PROVE RecordInvariant'
  BY <1>5
  DEF ProbeOwner, Go, Alive, TypeOK, RecordInvariant, transaction
<1>6. ASSUME NEW p \in Procs, ReadState(p) PROVE RecordInvariant'
  BY <1>6 DEF ReadState, Go, TypeOK, RecordInvariant
<1>7. ASSUME NEW p \in Procs, PlanApply(p) PROVE RecordInvariant'
  BY <1>7 DEF PlanApply, Go, TypeOK, RecordInvariant
<1>8. ASSUME NEW p \in Procs, Refuse(p) PROVE RecordInvariant'
  BY <1>8 DEF Refuse, Go, TypeOK, RecordInvariant, transaction
<1>9. ASSUME NEW p \in Procs, WriteFile(p) PROVE RecordInvariant'
  BY <1>9 DEF WriteFile, TypeOK, RecordInvariant
<1>10. ASSUME NEW p \in Procs, FailWrite(p) PROVE RecordInvariant'
  BY <1>10 DEF FailWrite, Go, TypeOK, RecordInvariant
<1>11. ASSUME NEW p \in Procs, EndWrites(p) PROVE RecordInvariant'
  BY <1>11 DEF EndWrites, Go, TypeOK, RecordInvariant, transaction
<1>12. ASSUME NEW p \in Procs, SaveState(p) PROVE RecordInvariant'
  BY <1>12
  DEF SaveState, Go, TypeOK, HolderInvariant, RecordInvariant, transaction, Running
<1>13. ASSUME NEW p \in Procs, FailSave(p) PROVE RecordInvariant'
  BY <1>13 DEF FailSave, Go, TypeOK, RecordInvariant, transaction
<1>14. ASSUME NEW p \in Procs, RestoreFile(p) PROVE RecordInvariant'
  BY <1>14 DEF RestoreFile, TypeOK, RecordInvariant
<1>15. ASSUME NEW p \in Procs, FailRestore(p) PROVE RecordInvariant'
  BY <1>15 DEF FailRestore, TypeOK, RecordInvariant
<1>16. ASSUME NEW p \in Procs, EndRollback(p) PROVE RecordInvariant'
  BY <1>16 DEF EndRollback, Go, TypeOK, RecordInvariant, transaction
<1>17. ASSUME NEW p \in Procs, RemoveOwner(p) PROVE RecordInvariant'
  BY <1>17 DEF RemoveOwner, Go, TypeOK, RecordInvariant, transaction
<1>18. ASSUME NEW p \in Procs, RemoveLock(p) PROVE RecordInvariant'
  BY <1>18 DEF RemoveLock, Go, TypeOK, RecordInvariant, transaction
<1>19. ASSUME NEW p \in Procs, LeaveLock(p) PROVE RecordInvariant'
  BY <1>19 DEF LeaveLock, Go, TypeOK, RecordInvariant, transaction
<1>20. ASSUME NEW p \in Procs, Crash(p) PROVE RecordInvariant'
  BY <1>20 DEF Crash, TypeOK, RecordInvariant, transaction
<1>21. ASSUME ClearLock PROVE RecordInvariant'
  BY <1>21 DEF ClearLock, Alive, TypeOK, RecordInvariant, transaction
<1>22. ASSUME EditFile PROVE RecordInvariant'
  BY <1>22 DEF EditFile, TypeOK, RecordInvariant, transaction
<1>23. ASSUME UNCHANGED vars PROVE RecordInvariant'
  BY <1>23 DEF vars, TypeOK, RecordInvariant, transaction
<1>24. QED
  BY <1>1, <1>2, <1>3, <1>4, <1>5, <1>6, <1>7, <1>8, <1>9, <1>10, <1>11,
     <1>12, <1>13, <1>14, <1>15, <1>16, <1>17, <1>18, <1>19, <1>20, <1>21,
     <1>22, <1>23 DEF Next, Step

(* The plan and the files agree.                                           *)
LEMMA PlanStep ==
  ASSUME TypeOK, HolderInvariant, RecordInvariant, PlanInvariant, [Next]_vars
  PROVE  PlanInvariant'
<1>1. ASSUME NEW p \in Procs, MakeLock(p) PROVE PlanInvariant'
  BY <1>1 DEF MakeLock, Go, TypeOK, HolderInvariant, PlanInvariant, transaction
<1>2. ASSUME NEW p \in Procs, FindLock(p) PROVE PlanInvariant'
  BY <1>2 DEF FindLock, Go, TypeOK, HolderInvariant, PlanInvariant, transaction
<1>3. ASSUME NEW p \in Procs, WriteOwner(p) PROVE PlanInvariant'
  BY <1>3 DEF WriteOwner, Go, TypeOK, HolderInvariant, PlanInvariant, transaction
<1>4. ASSUME NEW p \in Procs, AskOwner(p) PROVE PlanInvariant'
  BY <1>4 DEF AskOwner, Go, TypeOK, HolderInvariant, PlanInvariant, transaction
<1>5. ASSUME NEW p \in Procs, ProbeOwner(p) PROVE PlanInvariant'
  BY <1>5 DEF ProbeOwner, Go, Alive, TypeOK, HolderInvariant, PlanInvariant, transaction
<1>6. ASSUME NEW p \in Procs, ReadState(p) PROVE PlanInvariant'
  BY <1>6 DEF ReadState, Go, TypeOK, HolderInvariant, PlanInvariant, Changes
<1>7. ASSUME NEW p \in Procs, PlanApply(p) PROVE PlanInvariant'
  BY <1>7 DEF PlanApply, Go, TypeOK, HolderInvariant, PlanInvariant, Applicable
<1>8. ASSUME NEW p \in Procs, Refuse(p) PROVE PlanInvariant'
  BY <1>8 DEF Refuse, Go, TypeOK, HolderInvariant, PlanInvariant, transaction
<1>9. ASSUME NEW p \in Procs, WriteFile(p) PROVE PlanInvariant'
  BY <1>9 DEF WriteFile, TypeOK, HolderInvariant, PlanInvariant, Locked
<1>10. ASSUME NEW p \in Procs, FailWrite(p) PROVE PlanInvariant'
  BY <1>10 DEF FailWrite, Go, TypeOK, HolderInvariant, PlanInvariant
<1>11. ASSUME NEW p \in Procs, EndWrites(p) PROVE PlanInvariant'
  BY <1>11 DEF EndWrites, Go, TypeOK, HolderInvariant, PlanInvariant, transaction
<1>12. ASSUME NEW p \in Procs, SaveState(p) PROVE PlanInvariant'
  BY <1>12 DEF SaveState, Go, TypeOK, HolderInvariant, PlanInvariant, transaction
<1>13. ASSUME NEW p \in Procs, FailSave(p) PROVE PlanInvariant'
  BY <1>13 DEF FailSave, Go, TypeOK, HolderInvariant, PlanInvariant, transaction
<1>14. ASSUME NEW p \in Procs, RestoreFile(p) PROVE PlanInvariant'
  BY <1>14 DEF RestoreFile, TypeOK, HolderInvariant, PlanInvariant, Locked
<1>15. ASSUME NEW p \in Procs, FailRestore(p) PROVE PlanInvariant'
  BY <1>15 DEF FailRestore, TypeOK, HolderInvariant, PlanInvariant
<1>16. ASSUME NEW p \in Procs, EndRollback(p) PROVE PlanInvariant'
  BY <1>16 DEF EndRollback, Go, TypeOK, HolderInvariant, PlanInvariant, transaction
<1>17. ASSUME NEW p \in Procs, RemoveOwner(p) PROVE PlanInvariant'
  BY <1>17 DEF RemoveOwner, Go, TypeOK, HolderInvariant, PlanInvariant, transaction
<1>18. ASSUME NEW p \in Procs, RemoveLock(p) PROVE PlanInvariant'
  BY <1>18, RunAssumption
  DEF RemoveLock, Go, TypeOK, HolderInvariant, PlanInvariant, transaction
<1>19. ASSUME NEW p \in Procs, LeaveLock(p) PROVE PlanInvariant'
  BY <1>19 DEF LeaveLock, Go, TypeOK, HolderInvariant, PlanInvariant, transaction
<1>20. ASSUME NEW p \in Procs, Crash(p) PROVE PlanInvariant'
  BY <1>20 DEF Crash, TypeOK, HolderInvariant, PlanInvariant, transaction
<1>21. ASSUME ClearLock PROVE PlanInvariant'
  BY <1>21, RunAssumption
  DEF ClearLock, Alive, TypeOK, HolderInvariant, PlanInvariant, transaction
<1>22. ASSUME EditFile PROVE PlanInvariant'
  BY <1>22 DEF EditFile, TypeOK, HolderInvariant, PlanInvariant, transaction
<1>23. ASSUME UNCHANGED vars PROVE PlanInvariant'
  BY <1>23 DEF vars, TypeOK, HolderInvariant, PlanInvariant, transaction
<1>24. QED
  BY <1>1, <1>2, <1>3, <1>4, <1>5, <1>6, <1>7, <1>8, <1>9, <1>10, <1>11,
     <1>12, <1>13, <1>14, <1>15, <1>16, <1>17, <1>18, <1>19, <1>20, <1>21,
     <1>22, <1>23 DEF Next, Step

(* What is settled stays so.                                               *)
LEMMA DurableStep ==
  ASSUME TypeOK, HolderInvariant, RecordInvariant, [Next]_vars
  PROVE  \A q \in Procs : Durable(q) => Durable(q)'
<1>1. ASSUME NEW p \in Procs, MakeLock(p) PROVE \A q \in Procs : Durable(q) => Durable(q)'
  BY <1>1 DEF MakeLock, Go, TypeOK, HolderInvariant, Durable, transaction
<1>2. ASSUME NEW p \in Procs, FindLock(p) PROVE \A q \in Procs : Durable(q) => Durable(q)'
  BY <1>2 DEF FindLock, Go, TypeOK, HolderInvariant, Durable, transaction
<1>3. ASSUME NEW p \in Procs, WriteOwner(p) PROVE \A q \in Procs : Durable(q) => Durable(q)'
  BY <1>3 DEF WriteOwner, Go, TypeOK, HolderInvariant, Durable, transaction
<1>4. ASSUME NEW p \in Procs, AskOwner(p) PROVE \A q \in Procs : Durable(q) => Durable(q)'
  BY <1>4
  DEF AskOwner, Go, TypeOK, HolderInvariant, RecordInvariant, Durable, transaction
<1>5. ASSUME NEW p \in Procs, ProbeOwner(p) PROVE \A q \in Procs : Durable(q) => Durable(q)'
  BY <1>5
  DEF ProbeOwner, Go, Alive, TypeOK, HolderInvariant, RecordInvariant, Durable,
      transaction
<1>6. ASSUME NEW p \in Procs, ReadState(p) PROVE \A q \in Procs : Durable(q) => Durable(q)'
  BY <1>6 DEF ReadState, Go, TypeOK, HolderInvariant, Durable
<1>7. ASSUME NEW p \in Procs, PlanApply(p) PROVE \A q \in Procs : Durable(q) => Durable(q)'
  BY <1>7 DEF PlanApply, Go, TypeOK, HolderInvariant, Durable
<1>8. ASSUME NEW p \in Procs, Refuse(p) PROVE \A q \in Procs : Durable(q) => Durable(q)'
  BY <1>8 DEF Refuse, Go, TypeOK, HolderInvariant, RecordInvariant, Durable, transaction
<1>9. ASSUME NEW p \in Procs, WriteFile(p) PROVE \A q \in Procs : Durable(q) => Durable(q)'
  BY <1>9 DEF WriteFile, TypeOK, HolderInvariant, Durable
<1>10. ASSUME NEW p \in Procs, FailWrite(p) PROVE \A q \in Procs : Durable(q) => Durable(q)'
  BY <1>10 DEF FailWrite, Go, TypeOK, HolderInvariant, Durable
<1>11. ASSUME NEW p \in Procs, EndWrites(p) PROVE \A q \in Procs : Durable(q) => Durable(q)'
  BY <1>11 DEF EndWrites, Go, TypeOK, HolderInvariant, Durable, transaction
<1>12. ASSUME NEW p \in Procs, SaveState(p) PROVE \A q \in Procs : Durable(q) => Durable(q)'
  BY <1>12
  DEF SaveState, Go, TypeOK, HolderInvariant, RecordInvariant, Durable, transaction
<1>13. ASSUME NEW p \in Procs, FailSave(p) PROVE \A q \in Procs : Durable(q) => Durable(q)'
  BY <1>13 DEF FailSave, Go, TypeOK, HolderInvariant, Durable, transaction
<1>14. ASSUME NEW p \in Procs, RestoreFile(p) PROVE \A q \in Procs : Durable(q) => Durable(q)'
  BY <1>14 DEF RestoreFile, TypeOK, HolderInvariant, Durable
<1>15. ASSUME NEW p \in Procs, FailRestore(p) PROVE \A q \in Procs : Durable(q) => Durable(q)'
  BY <1>15 DEF FailRestore, TypeOK, HolderInvariant, Durable
<1>16. ASSUME NEW p \in Procs, EndRollback(p) PROVE \A q \in Procs : Durable(q) => Durable(q)'
  BY <1>16
  DEF EndRollback, Go, TypeOK, HolderInvariant, RecordInvariant, Durable,
      transaction
<1>17. ASSUME NEW p \in Procs, RemoveOwner(p) PROVE \A q \in Procs : Durable(q) => Durable(q)'
  BY <1>17 DEF RemoveOwner, Go, TypeOK, HolderInvariant, Durable, transaction
<1>18. ASSUME NEW p \in Procs, RemoveLock(p) PROVE \A q \in Procs : Durable(q) => Durable(q)'
  BY <1>18 DEF RemoveLock, Go, TypeOK, HolderInvariant, Durable, transaction
<1>19. ASSUME NEW p \in Procs, LeaveLock(p) PROVE \A q \in Procs : Durable(q) => Durable(q)'
  BY <1>19 DEF LeaveLock, Go, TypeOK, HolderInvariant, Durable, transaction
<1>20. ASSUME NEW p \in Procs, Crash(p) PROVE \A q \in Procs : Durable(q) => Durable(q)'
  BY <1>20 DEF Crash, TypeOK, HolderInvariant, Durable, transaction
<1>21. ASSUME ClearLock PROVE \A q \in Procs : Durable(q) => Durable(q)'
  BY <1>21 DEF ClearLock, Alive, TypeOK, HolderInvariant, Durable, transaction
<1>22. ASSUME EditFile PROVE \A q \in Procs : Durable(q) => Durable(q)'
  BY <1>22 DEF EditFile, TypeOK, HolderInvariant, Durable, transaction
<1>23. ASSUME UNCHANGED vars PROVE \A q \in Procs : Durable(q) => Durable(q)'
  BY <1>23 DEF vars, TypeOK, HolderInvariant, Durable, transaction
<1>24. QED
  BY <1>1, <1>2, <1>3, <1>4, <1>5, <1>6, <1>7, <1>8, <1>9, <1>10, <1>11,
     <1>12, <1>13, <1>14, <1>15, <1>16, <1>17, <1>18, <1>19, <1>20, <1>21,
     <1>22, <1>23 DEF Next, Step

LEMMA SettledGrows ==
  ASSUME TypeOK, HolderInvariant, RecordInvariant, [Next]_vars
  PROVE  \A f \in Files : settled[f] \subseteq settled'[f] /\ Edited \in settled'[f]
  BY DurableStep DEF settled, Durable

LEMMA DurableSettles ==
  ASSUME NEW p \in Procs, NEW f \in Changes(p), Durable(p)'
  PROVE  After[Run[p]][f] \in settled'[f]
  BY ChangeFacts DEF settled, Durable

Busy(p) == pc[p] \in {"writing", "saving", "undoing"}

(* A step that writes no file keeps the sources if what it takes off the   *)
(* transaction is settled.                                                 *)
LEMMA SourceFrame ==
  ASSUME TypeOK, SourceInvariant,
         \A f \in Files : settled[f] \subseteq settled'[f],
         project' = project, previous' = previous,
         \A p \in Procs : Busy(p)' =>
           \/ Busy(p) /\ left'[p] \cup touched'[p] \subseteq left[p] \cup touched[p]
           \/ left'[p] \cup touched'[p] = {},
         \A p \in Procs : pc'[p] = "writing" => pc[p] = "writing" /\ left'[p] \subseteq left[p],
         \A p \in Procs : \A f \in Changes(p) :
           UnderWay(p, f) => UnderWay(p, f)' \/ After[Run[p]][f] \in settled'[f]
  PROVE  SourceInvariant'
  <1>1. ASSUME NEW f \in Files
        PROVE  \/ project'[f] \in settled'[f]
               \/ \E p \in Procs : /\ f \in Changes(p) /\ project'[f] = After[Run[p]][f]
                                   /\ UnderWay(p, f)'
    <2>1. CASE project[f] \in settled[f]
      BY <2>1
    <2>2. CASE \E p \in Procs : /\ f \in Changes(p) /\ project[f] = After[Run[p]][f]
                                /\ UnderWay(p, f)
      BY <2>2
    <2>3. QED
      BY <2>1, <2>2 DEF SourceInvariant
  <1>2. ASSUME NEW p \in Procs, Busy(p)', NEW f \in left'[p] \cup touched'[p]
        PROVE  previous'[p][f] \in settled'[f]
    <2>1. Busy(p) /\ f \in left[p] \cup touched[p]
      BY <1>2
    <2>2. f \in Files /\ previous[p][f] \in settled[f]
      BY <2>1 DEF SourceInvariant, Busy, TypeOK
    <2>3. QED
      BY <2>2
  <1>3. ASSUME NEW p \in Procs, pc'[p] = "writing", NEW f \in left'[p]
        PROVE  project'[f] \in settled'[f]
    <2>1. f \in Files /\ project[f] \in settled[f]
      BY <1>3 DEF SourceInvariant, TypeOK
    <2>2. QED
      BY <2>1
  <1>4. QED
    BY <1>1, <1>2, <1>3 DEF SourceInvariant, Busy

(* Every content has a source.                                             *)
LEMMA SourceStep ==
  ASSUME TypeOK, HolderInvariant, RecordInvariant, PlanInvariant, SourceInvariant, [Next]_vars
  PROVE  SourceInvariant'
<1>0. \A f \in Files : settled[f] \subseteq settled'[f]
  BY SettledGrows
<1>1. ASSUME NEW p \in Procs, MakeLock(p) PROVE SourceInvariant'
  BY <1>1, <1>0, SourceFrame
  DEF MakeLock, Go, Busy, UnderWay, TypeOK, HolderInvariant, PlanInvariant,
      transaction
<1>2. ASSUME NEW p \in Procs, FindLock(p) PROVE SourceInvariant'
  BY <1>2, <1>0, SourceFrame
  DEF FindLock, Go, Busy, UnderWay, TypeOK, HolderInvariant, PlanInvariant,
      transaction
<1>3. ASSUME NEW p \in Procs, WriteOwner(p) PROVE SourceInvariant'
  BY <1>3, <1>0, SourceFrame
  DEF WriteOwner, Go, Busy, UnderWay, TypeOK, HolderInvariant, PlanInvariant,
      transaction
<1>4. ASSUME NEW p \in Procs, AskOwner(p) PROVE SourceInvariant'
  BY <1>4, <1>0, SourceFrame
  DEF AskOwner, Go, Busy, UnderWay, TypeOK, HolderInvariant, PlanInvariant,
      transaction
<1>5. ASSUME NEW p \in Procs, ProbeOwner(p) PROVE SourceInvariant'
  BY <1>5, <1>0, SourceFrame
  DEF ProbeOwner, Go, Alive, Busy, UnderWay, TypeOK, HolderInvariant, PlanInvariant,
      transaction
<1>6. ASSUME NEW p \in Procs, ReadState(p) PROVE SourceInvariant'
  BY <1>6, <1>0, SourceFrame
  DEF ReadState, Go, Busy, UnderWay, TypeOK, HolderInvariant, PlanInvariant
<1>7. ASSUME NEW p \in Procs, PlanApply(p) PROVE SourceInvariant'
  <2>1. \A q \in Procs : ~Busy(q)
    BY <1>7 DEF PlanApply, Go, HolderInvariant, Busy, Locked
  <2>2. \A f \in Files : project[f] \in settled[f]
    BY <2>1 DEF SourceInvariant, UnderWay, Busy
  <2>3. /\ project' = project
        /\ previous'[p] = project
        /\ left'[p] \subseteq Files /\ touched'[p] \subseteq Files
        /\ \A q \in Procs \ {p} : ~Busy(q)'
    BY <1>7, <2>1, ChangeFacts DEF PlanApply, Go, TypeOK, Busy
  <2>4. \A f \in Files : project'[f] \in settled'[f]
    BY <1>0, <2>2, <2>3
  <2>5. QED
    BY <2>3, <2>4 DEF SourceInvariant, Busy
<1>8. ASSUME NEW p \in Procs, Refuse(p) PROVE SourceInvariant'
  BY <1>8, <1>0, SourceFrame
  DEF Refuse, Go, Busy, UnderWay, TypeOK, HolderInvariant, PlanInvariant,
      transaction
<1>9. ASSUME NEW p \in Procs, WriteFile(p) PROVE SourceInvariant'
  <2>1. PICK f \in left[p] : /\ project' = [project EXCEPT ![f] = After[Run[p]][f]]
                             /\ touched' = [touched EXCEPT ![p] = @ \cup {f}]
                             /\ left' = [left EXCEPT ![p] = @ \ {f}]
    BY <1>9 DEF WriteFile
  <2>2. /\ f \in Changes(p) /\ f \in Files
        /\ project'[f] = After[Run[p]][f] /\ UnderWay(p, f)'
        /\ \A g \in Files \ {f} : project'[g] = project[g]
    BY <1>9, <2>1, ChangeFacts DEF WriteFile, TypeOK, UnderWay
  <2>3. \A q \in Procs, g \in Files : UnderWay(q, g) => UnderWay(q, g)'
    BY <1>9, <2>1 DEF WriteFile, TypeOK, UnderWay
  <2>4. ASSUME NEW g \in Files
        PROVE  \/ project'[g] \in settled'[g]
               \/ \E q \in Procs : /\ g \in Changes(q) /\ project'[g] = After[Run[q]][g]
                                   /\ UnderWay(q, g)'
    <3>1. CASE g = f
      BY <2>2, <3>1
    <3>2. CASE g # f
      BY <1>0, <2>2, <2>3, <3>2 DEF SourceInvariant
    <3>3. QED
      BY <3>1, <3>2
  <2>5. \A q \in Procs : /\ Busy(q)' <=> Busy(q)
                         /\ left'[q] \cup touched'[q] = left[q] \cup touched[q]
                         /\ left[q] \cup touched[q] \subseteq Files
    BY <1>9, <2>1 DEF WriteFile, TypeOK, Busy
  <2>6. \A q \in Procs : Busy(q)' =>
          \A g \in left'[q] \cup touched'[q] : previous'[q][g] \in settled'[g]
    BY <1>9, <1>0, <2>5 DEF WriteFile, SourceInvariant, Busy
  <2>7. \A q \in Procs : pc'[q] = "writing" => \A g \in left'[q] : project'[g] \in settled'[g]
    <3>1. \A q \in Procs : pc[q] = "writing" => q = p
      BY <1>9 DEF WriteFile, HolderInvariant, Locked
    <3>2. \A g \in left'[p] : g # f /\ g \in left[p] /\ g \in Files
      BY <2>1 DEF TypeOK
    <3>3. QED
      BY <1>9, <1>0, <2>2, <3>1, <3>2 DEF WriteFile, SourceInvariant
  <2>8. QED
    BY <2>4, <2>6, <2>7 DEF SourceInvariant, Busy
<1>10. ASSUME NEW p \in Procs, FailWrite(p) PROVE SourceInvariant'
  BY <1>10, <1>0, SourceFrame
  DEF FailWrite, Go, Busy, UnderWay, TypeOK, HolderInvariant, PlanInvariant
<1>11. ASSUME NEW p \in Procs, EndWrites(p) PROVE SourceInvariant'
  BY <1>11, <1>0, SourceFrame
  DEF EndWrites, Go, Busy, UnderWay, TypeOK, HolderInvariant, PlanInvariant,
      transaction
<1>12. ASSUME NEW p \in Procs, SaveState(p) PROVE SourceInvariant'
  BY <1>12, <1>0, SourceFrame, DurableSettles
  DEF SaveState, Go, Busy, UnderWay, TypeOK, HolderInvariant, PlanInvariant,
      transaction, Durable
<1>13. ASSUME NEW p \in Procs, FailSave(p) PROVE SourceInvariant'
  BY <1>13, <1>0, SourceFrame
  DEF FailSave, Go, Busy, UnderWay, TypeOK, HolderInvariant, PlanInvariant,
      transaction
<1>14. ASSUME NEW p \in Procs, RestoreFile(p) PROVE SourceInvariant'
  <2>1. PICK f \in touched[p] \ stuck[p] :
              /\ project' = [project EXCEPT ![f] = previous[p][f]]
              /\ touched' = [touched EXCEPT ![p] = @ \ {f}]
    BY <1>14 DEF RestoreFile
  <2>2. /\ f \in Files /\ project'[f] = previous[p][f] /\ previous[p][f] \in settled[f]
        /\ \A g \in Files \ {f} : project'[g] = project[g]
    BY <1>14, <2>1 DEF RestoreFile, TypeOK, SourceInvariant
  <2>3. \A q \in Procs, g \in Files \ {f} : UnderWay(q, g) => UnderWay(q, g)'
    BY <1>14, <2>1 DEF RestoreFile, TypeOK, UnderWay
  <2>4. ASSUME NEW g \in Files
        PROVE  \/ project'[g] \in settled'[g]
               \/ \E q \in Procs : /\ g \in Changes(q) /\ project'[g] = After[Run[q]][g]
                                   /\ UnderWay(q, g)'
    <3>1. CASE g = f
      BY <1>0, <2>2, <3>1
    <3>2. CASE g # f
      BY <1>0, <2>2, <2>3, <3>2 DEF SourceInvariant
    <3>3. QED
      BY <3>1, <3>2
  <2>5. \A q \in Procs : /\ Busy(q)' <=> Busy(q)
                         /\ left'[q] \cup touched'[q] \subseteq left[q] \cup touched[q]
                         /\ left[q] \cup touched[q] \subseteq Files
    BY <1>14, <2>1 DEF RestoreFile, TypeOK, Busy
  <2>6. \A q \in Procs : Busy(q)' =>
          \A g \in left'[q] \cup touched'[q] : previous'[q][g] \in settled'[g]
    BY <1>14, <1>0, <2>5 DEF RestoreFile, SourceInvariant, Busy
  <2>7. \A q \in Procs : pc'[q] # "writing"
    BY <1>14 DEF RestoreFile, HolderInvariant, Locked
  <2>8. QED
    BY <2>4, <2>6, <2>7 DEF SourceInvariant, Busy
<1>15. ASSUME NEW p \in Procs, FailRestore(p) PROVE SourceInvariant'
  BY <1>15, <1>0, SourceFrame
  DEF FailRestore, Busy, UnderWay, TypeOK, HolderInvariant, PlanInvariant
<1>16. ASSUME NEW p \in Procs, EndRollback(p) PROVE SourceInvariant'
  <2>1. ASSUME NEW f \in Changes(p), UnderWay(p, f)
        PROVE  After[Run[p]][f] \in settled'[f]
    <3>1. report'[p] = "torn"
      BY <1>16, <2>1 DEF EndRollback, UnderWay, TypeOK
    <3>2. QED
      BY <3>1, DurableSettles DEF Durable
  <2>2. /\ project' = project /\ previous' = previous
        /\ \A q \in Procs : Busy(q)' =>
             Busy(q) /\ left'[q] \cup touched'[q] \subseteq left[q] \cup touched[q]
        /\ \A q \in Procs : pc'[q] = "writing" => pc[q] = "writing" /\ left'[q] \subseteq left[q]
        /\ \A q \in Procs \ {p} : \A f \in Changes(q) : UnderWay(q, f) => UnderWay(q, f)'
    BY <1>16 DEF EndRollback, Go, TypeOK, Busy, UnderWay, transaction
  <2>3. QED
    BY <1>0, <2>1, <2>2, SourceFrame
<1>17. ASSUME NEW p \in Procs, RemoveOwner(p) PROVE SourceInvariant'
  BY <1>17, <1>0, SourceFrame
  DEF RemoveOwner, Go, Busy, UnderWay, TypeOK, HolderInvariant, PlanInvariant,
      transaction
<1>18. ASSUME NEW p \in Procs, RemoveLock(p) PROVE SourceInvariant'
  BY <1>18, <1>0, SourceFrame
  DEF RemoveLock, Go, Busy, UnderWay, TypeOK, HolderInvariant, PlanInvariant,
      transaction
<1>19. ASSUME NEW p \in Procs, LeaveLock(p) PROVE SourceInvariant'
  BY <1>19, <1>0, SourceFrame
  DEF LeaveLock, Go, Busy, UnderWay, TypeOK, HolderInvariant, PlanInvariant,
      transaction
<1>20. ASSUME NEW p \in Procs, Crash(p) PROVE SourceInvariant'
  BY <1>20, <1>0, SourceFrame, DurableSettles
  DEF Crash, Busy, UnderWay, TypeOK, HolderInvariant, PlanInvariant, transaction,
      Durable
<1>21. ASSUME ClearLock PROVE SourceInvariant'
  BY <1>21, <1>0, SourceFrame
  DEF ClearLock, Alive, Busy, UnderWay, TypeOK, HolderInvariant, PlanInvariant,
      transaction
<1>22. ASSUME EditFile PROVE SourceInvariant'
  <2>1. PICK f \in Files : project' = [project EXCEPT ![f] = Edited]
    BY <1>22 DEF EditFile
  <2>2. /\ project'[f] \in settled'[f]
        /\ \A g \in Files \ {f} : project'[g] = project[g]
    BY <2>1, SettledGrows DEF TypeOK
  <2>3. /\ \A q \in Procs, g \in Files : UnderWay(q, g) <=> UnderWay(q, g)'
        /\ \A q \in Procs : left[q] \cup touched[q] \subseteq Files
    BY <1>22 DEF EditFile, UnderWay, TypeOK, transaction
  <2>4. ASSUME NEW g \in Files
        PROVE  \/ project'[g] \in settled'[g]
               \/ \E q \in Procs : /\ g \in Changes(q) /\ project'[g] = After[Run[q]][g]
                                   /\ UnderWay(q, g)'
    <3>1. CASE g = f
      BY <2>2, <3>1
    <3>2. CASE g # f
      BY <1>0, <2>2, <2>3, <3>2 DEF SourceInvariant
    <3>3. QED
      BY <3>1, <3>2
  <2>5. ASSUME NEW q \in Procs
        PROVE  /\ Busy(q)' => \A g \in left'[q] \cup touched'[q] : previous'[q][g] \in settled'[g]
               /\ pc'[q] = "writing" => \A g \in left'[q] : project'[g] \in settled'[g]
    BY <1>22, <1>0, <2>2, <2>3 DEF EditFile, SourceInvariant, Busy, transaction
  <2>6. QED
    BY <2>4, <2>5 DEF SourceInvariant, Busy
<1>23. ASSUME UNCHANGED vars PROVE SourceInvariant'
  BY <1>23, <1>0, SourceFrame
  DEF vars, Busy, UnderWay, TypeOK, HolderInvariant, PlanInvariant, transaction
<1>24. QED
  BY <1>1, <1>2, <1>3, <1>4, <1>5, <1>6, <1>7, <1>8, <1>9, <1>10, <1>11,
     <1>12, <1>13, <1>14, <1>15, <1>16, <1>17, <1>18, <1>19, <1>20, <1>21,
     <1>22, <1>23 DEF Next, Step

-----------------------------------------------------------------------------
(* The invariant, and the safety properties it gives                       *)

StoreInvariant ==
  TypeOK /\ HolderInvariant /\ RecordInvariant /\ PlanInvariant /\ SourceInvariant

LEMMA InvariantInit == Init => StoreInvariant
  <1>1. SUFFICES ASSUME Init PROVE StoreInvariant
    OBVIOUS
  <1>2. TypeOK
    BY <1>1, InitialFacts DEF Init, TypeOK, Running, Locked, Reports
  <1>3. HolderInvariant
    BY <1>1, RunAssumption DEF Init, HolderInvariant, Locked
  <1>4. RecordInvariant
    BY <1>1 DEF Init, RecordInvariant
  <1>5. PlanInvariant
    BY <1>1, RunAssumption DEF Init, PlanInvariant
  <1>6. SourceInvariant
    BY <1>1 DEF Init, SourceInvariant, settled
  <1>7. QED
    BY <1>2, <1>3, <1>4, <1>5, <1>6 DEF StoreInvariant

LEMMA InvariantStep == StoreInvariant /\ [Next]_vars => StoreInvariant'
  BY TypeStep, HolderStep, RecordStep, PlanStep, SourceStep DEF StoreInvariant

(* The invariant holds of every state of the store.                        *)
THEOREM StoreKeepsInvariant == Spec => []StoreInvariant
  <1>1. QED
    BY InvariantInit, InvariantStep, PTL DEF Spec

(* Every variable of the store keeps its type.                             *)
THEOREM StoreTyped == Spec => []TypeOK
  <1>1. StoreInvariant => TypeOK
    BY DEF StoreInvariant
  <1>2. QED
    BY <1>1, StoreKeepsInvariant, PTL

(* Mutual exclusion, whoever dies, is cleared or finds the lock stale.     *)
THEOREM OneHolderAlways == Spec => []OneHolder
  <1>1. StoreInvariant => OneHolder
    BY DEF StoreInvariant, HolderInvariant, OneHolder
  <1>2. QED
    BY <1>1, StoreKeepsInvariant, PTL

(* An invocation that ended, refused, failed, undone or done, does not hold *)
(* the lock: the next one finds it free.                                   *)
THEOREM LockAlwaysReleased == Spec => []LockReleased
  <1>1. StoreInvariant => LockReleased
    BY DEF StoreInvariant, HolderInvariant, LockReleased, Locked
  <1>2. QED
    BY <1>1, StoreKeepsInvariant, PTL

(* No operation that reported success is lost from the record.             *)
THEOREM NoOperationLost == Spec => []ReportedStaysSaved
  <1>1. StoreInvariant => ReportedStaysSaved
    BY DEF StoreInvariant, RecordInvariant, ReportedStaysSaved
  <1>2. QED
    BY <1>1, StoreKeepsInvariant, PTL

(* A candidate in the project is recorded, under way, or accounted for.    *)
THEOREM EveryCandidateAccounted == Spec => []CandidatesAccounted
  <1>1. StoreInvariant => CandidatesAccounted
    <2>1. SUFFICES ASSUME StoreInvariant, NEW f \in Files, project[f] \notin {Initial[f], Edited}
                   PROVE  \E p \in Procs : /\ f \in Changes(p)
                                           /\ project[f] = After[Run[p]][f]
                                           /\ \/ p \in saved
                                              \/ pc[p] \in Locked \cup {"crashed"}
                                              \/ report[p] = "torn"
      BY DEF CandidatesAccounted
    <2>2. CASE project[f] \in settled[f]
      BY <2>1, <2>2 DEF settled, Durable
    <2>3. CASE \E p \in Procs : f \in Changes(p) /\ project[f] = After[Run[p]][f] /\ UnderWay(p, f)
      BY <2>3 DEF UnderWay, Locked
    <2>4. QED
      BY <2>1, <2>2, <2>3 DEF StoreInvariant, SourceInvariant
  <1>2. QED
    BY <1>1, StoreKeepsInvariant, PTL

(* Apply and its rollback overwrite only edits made after the plan.        *)
THEOREM EditsBeforePlanAlwaysStay == Spec => EditsBeforePlanStay
  <1> DEFINE Kept == \A f \in Files : project[f] = Edited /\ project'[f] # Edited
                       => \E p \in Procs : pc[p] \in {"writing", "undoing"}
                                           /\ previous[p][f] # Edited
  <1>1. ASSUME StoreInvariant, [Next]_vars PROVE Kept \/ UNCHANGED vars
    <2>1. ASSUME NEW p \in Procs, WriteFile(p) PROVE Kept
      <3>1. \A f \in left[p] : previous[p][f] # Edited
        <4>1. left[p] \subseteq Changes(p)
          BY <1>1 DEF StoreInvariant, TypeOK
        <4>2. \A f \in left[p] : previous[p][f] = Before[Run[p]][f]
          BY <1>1, <2>1 DEF WriteFile, StoreInvariant, PlanInvariant
        <4>3. QED
          BY <4>1, <4>2, ChangeFacts
      <3>2. QED
        BY <1>1, <2>1, <3>1 DEF WriteFile, StoreInvariant, TypeOK
    <2>2. ASSUME NEW p \in Procs, RestoreFile(p) PROVE Kept
      <3>1. lock = p
        BY <1>1, <2>2 DEF RestoreFile, StoreInvariant, HolderInvariant, Locked
      <3>2. \A f \in touched[p] : previous[p][f] # Edited
        BY <1>1, <3>1, ChangeFacts DEF StoreInvariant, TypeOK, PlanInvariant
      <3>3. QED
        BY <1>1, <2>2, <3>2 DEF RestoreFile, StoreInvariant, TypeOK
    <2>3. ASSUME EditFile PROVE Kept
      BY <1>1, <2>3 DEF EditFile, StoreInvariant, TypeOK
    <2>4. ASSUME project' = project PROVE Kept
      BY <2>4
    <2>5. QED
      BY <1>1, <2>1, <2>2, <2>3, <2>4
      DEF Next, Step, MakeLock, FindLock, WriteOwner, AskOwner, ProbeOwner, ReadState, PlanApply,
          Refuse, FailWrite, EndWrites, SaveState, FailSave, FailRestore, EndRollback, RemoveOwner,
          RemoveLock, LeaveLock, Crash, ClearLock
  <1>2. QED
    BY <1>1, StoreKeepsInvariant, PTL DEF Spec, EditsBeforePlanStay
-----------------------------------------------------------------------------
(* Refinement: every step of the store is a step of the atomic store, or   *)
(* leaves what an onlooker sees alone                                      *)

onlooker == <<Visible, saved, Reported>>

Masked(f) == lock # None /\ report[lock] = "none" /\ f \in touched[lock]

LEMMA VisibleIs ==
  /\ \A f \in Files : Visible[f] = IF Masked(f) THEN previous[lock][f] ELSE project[f]
  /\ \A p \in Procs : Reported[p] =
       IF report[p] = "none" /\ pc[p] = "crashed" /\ lock # p THEN "abandoned"
       ELSE IF report[p] \in {"locked", "stale", "ambiguous"} THEN "refused" ELSE report[p]
  BY DEF Visible, Masked, Reported

(* The holder's rewritten files show what they held at its plan.           *)
LEMMA HolderShows ==
  ASSUME NEW p \in Procs, lock = p, report[p] = "none"
  PROVE  Visible = [f \in Files |-> IF f \in touched[p] THEN previous[p][f] ELSE project[f]]
  BY RunAssumption DEF Visible

(* Nothing is hidden while no operation under way holds the lock.          *)
LEMMA NothingHidden ==
  ASSUME TypeOK, lock = None \/ report[lock] # "none" \/ touched[lock] = {}
  PROVE  Visible = project
  BY DEF Visible, TypeOK

LEMMA RefinementInit == Init => Abstract!AInit
  <1>1. SUFFICES ASSUME Init PROVE Abstract!AInit
    OBVIOUS
  <1>2. Visible = Initial
    BY <1>1, InitialAssumption DEF Init, Visible
  <1>3. Reported = [p \in Procs |-> "none"]
    BY <1>1 DEF Init, Reported
  <1>4. QED
    BY <1>1, <1>2, <1>3 DEF Init, Abstract!AInit

(* The moment an operation that changed nothing settles on its report.     *)
LEMMA RefusalRefines ==
  ASSUME TypeOK, NEW p \in Procs, report[p] = "none", pc[p] # "crashed",
         NEW r \in {"refused", "failed", "locked", "stale", "ambiguous"},
         report' = [report EXCEPT ![p] = r],
         NEW to \in {"releasing", "ended"}, pc' = [pc EXCEPT ![p] = to],
         lock' = lock, saved' = saved, Visible' = Visible
  PROVE  Abstract!Refuse(p)
  <1>1. PICK s \in {"refused", "failed"} : s = IF r \in {"locked", "stale", "ambiguous"} THEN "refused" ELSE r
    OBVIOUS
  <1>2. Reported[p] = "none" /\ Reported' = [Reported EXCEPT ![p] = s]
    BY <1>1 DEF TypeOK, Reported
  <1>3. QED
    BY <1>2 DEF Abstract!Refuse

(* A save shows the holder's files all at once.                            *)
LEMMA SaveRefines ==
  ASSUME StoreInvariant, NEW p \in Procs, SaveState(p)
  PROVE  Abstract!Commit(p)
  <1>1. /\ pc[p] = "saving" /\ lock = p /\ report[p] = "none" /\ left[p] = {}
        /\ touched[p] \subseteq Changes(p) /\ Changes(p) \subseteq Files
        /\ saved' = saved \cup {p}
    BY ChangeFacts DEF SaveState, Go, StoreInvariant, TypeOK, HolderInvariant, RecordInvariant,
       PlanInvariant, Locked
  <1>2. /\ project' = project /\ lock' = lock /\ touched' = touched
        /\ report' = [report EXCEPT ![p] = "done"] /\ pc' = [pc EXCEPT ![p] = "releasing"]
    BY DEF SaveState, Go, transaction
  <1>3. Visible = [f \in Files |-> IF f \in touched[p] THEN previous[p][f] ELSE project[f]]
    BY <1>1, HolderShows
  <1>4. Visible' = project
    BY <1>1, <1>2 DEF Visible, StoreInvariant, TypeOK
  <1>5. Reported[p] = "none" /\ Reported' = [Reported EXCEPT ![p] = "done"]
    BY <1>1, <1>2 DEF Reported, StoreInvariant, TypeOK
  <1>6. \A f \in Changes(p) : project[f] \in {After[Run[p]][f], Edited}
    BY <1>1 DEF StoreInvariant, PlanInvariant
  <1>7. Abstract!Rewrite(p, touched[p])
    <2>1. DOMAIN Visible' = Files
      BY DEF Visible
    <2>2. \A f \in touched[p] : Visible'[f] \in {After[Run[p]][f], Edited}
      BY <1>1, <1>4, <1>6
    <2>3. \A f \in Files \ touched[p] : Visible'[f] = Visible[f]
      BY <1>3, <1>4
    <2>4. QED
      BY <1>1, <2>1, <2>2, <2>3 DEF Abstract!Rewrite, Abstract!Changes, Changes
  <1>8. QED
    BY <1>1, <1>4, <1>5, <1>6, <1>7 DEF Abstract!Commit, Abstract!Changes, Changes

(* The holder's unrestored files show when it reports them or when the     *)
(* operator clears its lock: those not as they were hold its candidate or  *)
(* an edit.                                                                *)
LEMMA UnmaskRewrites ==
  ASSUME StoreInvariant, NEW p \in Procs, lock = p, report[p] = "none", Visible' = project
  PROVE  \E S \in SUBSET Abstract!Changes(p) : Abstract!Rewrite(p, S)
  <1> DEFINE S == {f \in touched[p] : project[f] # previous[p][f]}
  <1>1. touched[p] \subseteq Changes(p) /\ Changes(p) \subseteq Files
    BY ChangeFacts DEF StoreInvariant, TypeOK
  <1>2. \A f \in S : project[f] \in {After[Run[p]][f], Edited}
    BY DEF StoreInvariant, PlanInvariant
  <1>3. Visible = [f \in Files |-> IF f \in touched[p] THEN previous[p][f] ELSE project[f]]
    BY HolderShows
  <1>4. DOMAIN Visible' = Files
    BY DEF Visible
  <1>5. \A f \in Files \ S : Visible'[f] = Visible[f]
    BY <1>3
  <1>6. Abstract!Rewrite(p, S) /\ S \in SUBSET Abstract!Changes(p)
    BY <1>1, <1>2, <1>4, <1>5 DEF Abstract!Rewrite, Abstract!Changes, Changes
  <1>7. QED
    BY <1>6

LEMMA RollbackRefines ==
  ASSUME StoreInvariant, NEW p \in Procs, EndRollback(p)
  PROVE  Abstract!Refuse(p) \/ Abstract!Tear(p)
  <1>1. /\ pc[p] = "undoing" /\ lock = p /\ report[p] = "none" /\ touched[p] = stuck[p]
        /\ project' = project /\ lock' = lock /\ touched' = touched /\ saved' = saved
        /\ pc' = [pc EXCEPT ![p] = "releasing"]
        /\ report' = [report EXCEPT ![p] = IF stuck[p] = {} THEN "failed" ELSE "torn"]
    BY DEF EndRollback, Go, transaction, StoreInvariant, TypeOK, HolderInvariant, RecordInvariant,
       Locked
  <1>2. Visible' = project
    BY <1>1 DEF Visible, StoreInvariant, TypeOK
  <1>3. CASE stuck[p] = {}
    <2>1. Visible = project
      BY <1>1, <1>3, NothingHidden DEF StoreInvariant
    <2>2. QED
      BY <1>1, <1>2, <1>3, <2>1, RefusalRefines DEF StoreInvariant
  <1>4. CASE stuck[p] # {}
    <2>1. Reported[p] = "none" /\ Reported' = [Reported EXCEPT ![p] = "torn"]
      BY <1>1, <1>4 DEF Reported, StoreInvariant, TypeOK
    <2>2. QED
      BY <1>1, <1>2, <2>1, UnmaskRewrites DEF Abstract!Tear
  <1>5. QED
    BY <1>3, <1>4

LEMMA ClearRefines ==
  ASSUME StoreInvariant, ClearLock
  PROVE  UNCHANGED onlooker \/ \E p \in Procs : Abstract!Abandon(p)
  <1>1. PICK p \in Procs : lock = p
    BY DEF ClearLock, StoreInvariant, TypeOK
  <1>2. /\ pc[p] \in {"left", "crashed"} /\ lock' = None /\ saved' = saved
        /\ project' = project /\ pc' = pc /\ report' = report
    BY <1>1 DEF ClearLock, Alive, Running, StoreInvariant, HolderInvariant, TypeOK
  <1>3. Visible' = project
    BY <1>2 DEF Visible, StoreInvariant, TypeOK
  <1>4. CASE report[p] = "none"
    <2>1. pc[p] = "crashed"
      BY <1>2, <1>4 DEF StoreInvariant, RecordInvariant
    <2>2. Reported[p] = "none" /\ Reported' = [Reported EXCEPT ![p] = "abandoned"]
      <3>1. \A q \in Procs : lock' # q /\ (q # p => lock # q)
        BY <1>1, <1>2, RunAssumption
      <3>2. \A q \in Procs \ {p} : Reported'[q] = Reported[q]
        BY <1>2, <3>1 DEF Reported
      <3>3. Reported[p] = "none" /\ Reported'[p] = "abandoned"
        BY <1>1, <1>2, <1>4, <2>1, <3>1 DEF Reported
      <3>4. QED
        BY <3>2, <3>3 DEF Reported
    <2>3. QED
      BY <1>1, <1>2, <1>3, <1>4, <2>2, UnmaskRewrites DEF Abstract!Abandon
  <1>5. CASE report[p] # "none"
    <2>1. Visible = project
      BY <1>1, <1>5, NothingHidden DEF StoreInvariant
    <2>2. Reported' = Reported
      <3>1. \A q \in Procs : lock' # q /\ (q # p => lock # q)
        BY <1>1, <1>2, RunAssumption
      <3>2. QED
        BY <1>1, <1>2, <1>5, <3>1 DEF Reported
    <2>3. QED
      BY <1>2, <1>3, <2>1, <2>2 DEF onlooker
  <1>6. QED
    BY <1>4, <1>5

LEMMA CrashRefines ==
  ASSUME StoreInvariant, NEW p \in Procs, Crash(p)
  PROVE  UNCHANGED onlooker \/ Abstract!Abandon(p)
  <1>1. /\ pc' = [pc EXCEPT ![p] = "crashed"] /\ pc[p] \in Running
        /\ UNCHANGED <<project, saved, lock, touched, previous, report>>
    BY DEF Crash, transaction
  <1>2. Visible' = Visible
    BY <1>1 DEF Visible
  <1>3. CASE lock = p \/ report[p] # "none"
    <2>1. Reported' = Reported
      BY <1>1, <1>3 DEF Reported, StoreInvariant, TypeOK
    <2>2. QED
      BY <1>1, <1>2, <2>1 DEF onlooker
  <1>4. CASE lock # p /\ report[p] = "none"
    <2>1. Reported[p] = "none" /\ Reported' = [Reported EXCEPT ![p] = "abandoned"]
      BY <1>1, <1>4 DEF Reported, Running, Locked, StoreInvariant, TypeOK
    <2>2. Abstract!Rewrite(p, {})
      BY <1>2 DEF Abstract!Rewrite, Visible
    <2>3. QED
      BY <1>1, <2>1, <2>2 DEF Abstract!Abandon
  <1>5. QED
    BY <1>3, <1>4

LEMMA EditRefines ==
  ASSUME StoreInvariant, EditFile
  PROVE  UNCHANGED onlooker \/ \E f \in Files : Abstract!Edit(f)
  <1>1. PICK f \in Files : project' = [project EXCEPT ![f] = Edited]
    BY DEF EditFile
  <1>2. UNCHANGED <<saved, lock, pc, touched, previous, report>>
    BY DEF EditFile, transaction
  <1>3. Reported' = Reported
    BY <1>2 DEF Reported
  <1>4. CASE lock # None /\ report[lock] = "none" /\ f \in touched[lock]
    <2>1. Visible' = Visible
      BY <1>1, <1>2, <1>4 DEF Visible, StoreInvariant, TypeOK
    <2>2. QED
      BY <1>2, <1>3, <2>1 DEF onlooker
  <1>5. CASE ~(lock # None /\ report[lock] = "none" /\ f \in touched[lock])
    <2>1. Visible' = [Visible EXCEPT ![f] = Edited]
      BY <1>1, <1>2, <1>5 DEF Visible, StoreInvariant, TypeOK
    <2>2. QED
      BY <1>2, <1>3, <2>1 DEF Abstract!Edit
  <1>6. QED
    BY <1>4, <1>5

LEMMA WriteRefines ==
  ASSUME StoreInvariant, NEW p \in Procs, WriteFile(p) \/ FailWrite(p)
  PROVE  UNCHANGED onlooker \/ \E f \in Files : Abstract!LoseEdit(p, f)
  <1>1. /\ pc[p] = "writing" /\ lock = p /\ report[p] = "none"
        /\ left[p] \subseteq Changes(p) /\ Changes(p) \subseteq Files
        /\ pc'[p] \in {"writing", "undoing"} /\ \A q \in Procs \ {p} : pc'[q] = pc[q]
        /\ UNCHANGED <<saved, lock, previous, report>>
    BY ChangeFacts DEF WriteFile, FailWrite, Go, StoreInvariant, TypeOK, HolderInvariant,
       RecordInvariant, Locked
  <1>2. PICK f \in left[p] : /\ touched' = [touched EXCEPT ![p] = @ \cup {f}]
                             /\ \A g \in Files \ {f} : project'[g] = project[g]
    BY <1>1 DEF WriteFile, FailWrite, StoreInvariant, TypeOK
  <1>3. previous[p][f] = Before[Run[p]][f] /\ project[f] \in {Before[Run[p]][f], Edited}
    BY <1>1, <1>2 DEF StoreInvariant, PlanInvariant
  <1>4. Reported' = Reported
    BY <1>1 DEF Reported
  <1>5. /\ Visible = [g \in Files |-> IF g \in touched[p] THEN previous[p][g] ELSE project[g]]
        /\ Visible' = [g \in Files |-> IF g \in touched[p] \cup {f} THEN previous[p][g] ELSE project[g]]
    <2>1. touched'[p] = touched[p] \cup {f} /\ \A g \in Files \ {f} : project'[g] = project[g]
      BY <1>2 DEF StoreInvariant, TypeOK
    <2>2. Visible' = [g \in Files |-> IF g \in touched'[p] THEN previous[p][g] ELSE project'[g]]
      BY <1>1, RunAssumption DEF Visible
    <2>3. QED
      BY <1>1, <2>1, <2>2, HolderShows
  <1>6. CASE Visible[f] = Before[Run[p]][f]
    <2>1. Visible' = Visible
      BY <1>3, <1>5, <1>6
    <2>2. QED
      BY <1>1, <1>4, <2>1 DEF onlooker
  <1>7. CASE Visible[f] # Before[Run[p]][f]
    <2>1. f \in Files /\ f \in Changes(p)
      BY <1>1, <1>2
    <2>2. Visible[f] = Edited /\ Visible' = [Visible EXCEPT ![f] = Before[Run[p]][f]]
      BY <1>3, <1>5, <1>7, <2>1
    <2>3. Reported[p] = "none"
      BY <1>1 DEF Reported
    <2>4. QED
      BY <1>1, <1>4, <2>1, <2>2, <2>3 DEF Abstract!LoseEdit, Abstract!Changes, Changes
  <1>8. QED
    BY <1>6, <1>7

(* Restoring a file brings back what the onlooker already sees.            *)
LEMMA RestoreRefines ==
  ASSUME StoreInvariant, NEW p \in Procs, RestoreFile(p)
  PROVE  UNCHANGED onlooker
  <1>1. /\ lock = p /\ report[p] = "none" /\ UNCHANGED <<saved, lock, pc, previous, report>>
    BY DEF RestoreFile, StoreInvariant, HolderInvariant, RecordInvariant, Locked
  <1>2. PICK f \in touched[p] : /\ project' = [project EXCEPT ![f] = previous[p][f]]
                                /\ touched' = [touched EXCEPT ![p] = @ \ {f}]
    BY DEF RestoreFile
  <1>3. Visible = [g \in Files |-> IF g \in touched[p] THEN previous[p][g] ELSE project[g]]
    BY <1>1, HolderShows
  <1>4. Visible' = [g \in Files |-> IF g \in touched'[p] THEN previous[p][g] ELSE project'[g]]
    BY <1>1, RunAssumption DEF Visible
  <1>5. touched'[p] = touched[p] \ {f} /\ f \in Files
    BY <1>2 DEF StoreInvariant, TypeOK
  <1>6. Visible' = Visible
    BY <1>2, <1>3, <1>4, <1>5 DEF StoreInvariant, TypeOK
  <1>7. Reported' = Reported
    BY <1>1 DEF Reported
  <1>8. QED
    BY <1>1, <1>6, <1>7 DEF onlooker

(* The remaining steps of an invocation are its own business.              *)
LEMMA QuietSteps ==
  ASSUME StoreInvariant, NEW p \in Procs,
         \/ MakeLock(p) \/ FindLock(p) \/ WriteOwner(p) \/ ReadState(p) \/ PlanApply(p)
         \/ EndWrites(p) \/ FailSave(p) \/ FailRestore(p)
         \/ RemoveOwner(p) \/ RemoveLock(p) \/ LeaveLock(p)
  PROVE  UNCHANGED onlooker
  <1>1. saved' = saved /\ project' = project /\ report' = report /\ touched' = touched
    BY DEF MakeLock, FindLock, WriteOwner, ReadState, PlanApply, EndWrites, FailSave, FailRestore,
       RemoveOwner, RemoveLock, LeaveLock, transaction
  <1>2. Reported' = Reported
    <2>1. ASSUME NEW q \in Procs PROVE Reported'[q] = Reported[q]
      BY <1>1, RunAssumption
      DEF MakeLock, FindLock, WriteOwner, ReadState, PlanApply, EndWrites, FailSave, FailRestore,
          RemoveOwner, RemoveLock, LeaveLock, Go, transaction, Reported, StoreInvariant, TypeOK,
          HolderInvariant, RecordInvariant, Locked
    <2>2. QED
      BY <2>1 DEF Reported
  <1>3. Visible' = Visible
    <2>1. CASE MakeLock(p)
      BY <1>1, <2>1 DEF MakeLock, Go, transaction, Visible, StoreInvariant, PlanInvariant, TypeOK
    <2>2. CASE RemoveLock(p)
      BY <1>1, <2>2 DEF RemoveLock, Go, transaction, Visible, StoreInvariant, HolderInvariant,
         RecordInvariant, TypeOK, Locked
    <2>3. CASE PlanApply(p)
      BY <1>1, <2>3 DEF PlanApply, Go, Visible, StoreInvariant, HolderInvariant, PlanInvariant,
         TypeOK, Locked
    <2>4. CASE lock' = lock /\ previous' = previous
      BY <1>1, <2>4 DEF Visible
    <2>5. QED
      BY <2>1, <2>2, <2>3, <2>4
      DEF FindLock, WriteOwner, ReadState, EndWrites, FailSave, FailRestore, RemoveOwner,
          LeaveLock, transaction
  <1>4. QED
    BY <1>1, <1>2, <1>3 DEF onlooker

LEMMA AnswerRefines ==
  ASSUME StoreInvariant, NEW p \in Procs, AskOwner(p) \/ ProbeOwner(p) \/ Refuse(p)
  PROVE  UNCHANGED onlooker \/ Abstract!Refuse(p)
  <1>1. /\ UNCHANGED <<project, saved, lock, touched, previous>>
        /\ report[p] = "none" /\ touched[p] = {} /\ pc[p] # "crashed"
    BY DEF AskOwner, ProbeOwner, Refuse, Go, transaction, StoreInvariant, RecordInvariant,
       PlanInvariant
  <1>2. CASE AskOwner(p) /\ owner # None
    <2>1. Reported' = Reported
      BY <1>1, <1>2 DEF AskOwner, Go, Reported, StoreInvariant, TypeOK
    <2>2. Visible' = Visible
      BY <1>1, <1>2 DEF AskOwner, Visible
    <2>3. QED
      BY <1>1, <2>1, <2>2 DEF onlooker
  <1>3. CASE ~(AskOwner(p) /\ owner # None)
    <2>1. PICK r \in {"refused", "locked", "stale", "ambiguous"}, to \in {"releasing", "ended"} :
            report' = [report EXCEPT ![p] = r] /\ pc' = [pc EXCEPT ![p] = to]
      BY <1>3 DEF AskOwner, ProbeOwner, Refuse, Go
    <2>2. Visible' = Visible
      BY <1>1, <2>1 DEF Visible, StoreInvariant, TypeOK
    <2>3. QED
      BY <1>1, <2>1, <2>2, RefusalRefines DEF StoreInvariant
  <1>4. QED
    BY <1>2, <1>3

LEMMA RefinementStep ==
  ASSUME StoreInvariant, [Next]_vars
  PROVE  Abstract!ANext \/ UNCHANGED onlooker
  <1>1. ASSUME NEW p \in Procs, Step(p) PROVE Abstract!ANext \/ UNCHANGED onlooker
    BY <1>1, SaveRefines, RollbackRefines, WriteRefines, RestoreRefines, QuietSteps, AnswerRefines
    DEF Step, Abstract!ANext
  <1>2. ASSUME NEW p \in Procs, MakeLock(p) \/ FindLock(p) PROVE UNCHANGED onlooker
    BY <1>2, QuietSteps
  <1>3. ASSUME NEW p \in Procs, Crash(p) PROVE Abstract!ANext \/ UNCHANGED onlooker
    BY <1>3, CrashRefines DEF Abstract!ANext
  <1>4. ASSUME ClearLock PROVE Abstract!ANext \/ UNCHANGED onlooker
    BY <1>4, ClearRefines DEF Abstract!ANext
  <1>5. ASSUME EditFile PROVE Abstract!ANext \/ UNCHANGED onlooker
    BY <1>5, EditRefines DEF Abstract!ANext
  <1>6. ASSUME UNCHANGED vars PROVE UNCHANGED onlooker
    BY <1>6 DEF vars, onlooker, Visible, Reported
  <1>7. QED
    BY <1>1, <1>2, <1>3, <1>4, <1>5, <1>6 DEF Next

(* The store implements the atomic store: an operation happens at its save *)
(* or, but for the accounted exceptions, changes nothing.                  *)
THEOREM StoreIsAtomic == Spec => AllOrNothing
  <1>1. Init => Abstract!AInit
    BY RefinementInit
  <1>2. StoreInvariant /\ [Next]_vars => [Abstract!ANext]_onlooker
    BY RefinementStep DEF onlooker
  <1>3. QED
    BY <1>1, <1>2, StoreKeepsInvariant, PTL DEF Spec, AllOrNothing, Abstract!ASpec, onlooker

-----------------------------------------------------------------------------
(* The gate in front of the lock                                           *)

Answers == {<<>>} \cup UNION {[Criteria[b] -> Nouls] : b \in Briefs}

ReviewCalls ==
  [pc : {"idle", "resolving", "reading", "asking", "judged", "locking", "reviewed", "refused", "rejected"},
   verdict : Verdicts \cup {Absent}, evidence : Evidences \cup {Absent},
   brief : Briefs \cup {Absent}, mode : Modes, tries : {0, 1}, answers : Answers]

(* A call that was gated under `enforce`, where it goes for the lock.      *)
Gated(c) == c.verdict = "accepted" /\ c.mode = "enforce" /\ c.pc \in {"locking", "reviewed"}

(* Who asks has something to ask; who was gated was let through for what it*)
(* had read.                                                               *)
CallSound(c, made) ==
  /\ c.pc \in {"resolving", "reading"} => c.brief = Absent
  /\ c.pc \in {"asking", "judged"} => c.brief \in Briefs /\ Criteria[c.brief] # {}
  /\ c.pc = "judged" => c.answers \in [Criteria[c.brief] -> Nouls]
  /\ c.pc \in {"resolving", "reading", "asking"} => c.answers = <<>>
  /\ c.pc \in {"asking", "judged"} => c.evidence \in Checked
  /\ Gated(c) /\ c.brief # Absent => LetThrough(c, made)

(* As long as nobody edits, that is what they hold.                        *)
CallCurrent(c) ==
  /\ c.pc # "idle" => c.evidence = evidence
  /\ c.brief \in {Absent, brief}
  /\ c.pc \in {"reading", "asking", "judged"} => approved # Absent
  /\ Gated(c) /\ c.brief = Absent => approved = Absent

ReviewSound ==
  review # Absent =>
    /\ review.by \in Reviewers
    /\ call[review.by].pc = "reviewed" /\ call[review.by].verdict = review.verdict
    /\ edits = 0 => review.brief = brief /\ review.evidence = evidence /\ approved = brief

GateInvariant ==
  /\ call \in [Reviewers -> ReviewCalls]
  /\ brief \in Briefs /\ evidence \in Evidences /\ mode \in Modes
  /\ edits \in Nat
  /\ \A r \in Reviewers : CallSound(call[r], decisions)
  /\ edits = 0 => \A r \in Reviewers : CallCurrent(call[r])
  /\ ReviewSound

(* A step of one call that has not reviewed yet.                           *)
LEMMA CallStep ==
  ASSUME GateInvariant, NEW r \in Reviewers, NEW c \in ReviewCalls,
         call' = [call EXCEPT ![r] = c], UNCHANGED <<brief, evidence, approved, mode, review, edits>>,
         decisions \subseteq decisions', call[r].pc # "reviewed",
         CallSound(c, decisions'), edits = 0 => CallCurrent(c)
  PROVE  GateInvariant'
<1>1. /\ call' \in [Reviewers -> ReviewCalls] /\ call'[r] = c
      /\ \A q \in Reviewers \ {r} : call'[q] = call[q]
  BY DEF GateInvariant
<1>2. \A q \in Reviewers : CallSound(call'[q], decisions')
  <2>1. \A d : LetThrough(d, decisions) => LetThrough(d, decisions')
    BY DEF LetThrough
  <2> QED BY <1>1, <2>1 DEF GateInvariant, CallSound
<1>3. edits' = 0 => \A q \in Reviewers : CallCurrent(call[q])'
  BY <1>1 DEF GateInvariant, CallCurrent
<1>4. ReviewSound'
  BY <1>1 DEF GateInvariant, ReviewSound
<1> QED BY <1>1, <1>2, <1>3, <1>4 DEF GateInvariant

(* Unless something was edited since the first review began, an acceptance *)
(* under `enforce` binds the very brief and evidence that its own gate had *)
(* read, and no criterion of that brief was answered below the threshold:  *)
(* each was asked and recorded, or the record says why none was, however   *)
(* many reviews run at once (controller.mjs 1812-1990).                    *)
THEOREM UneditedAcceptanceJudged ==
  ASSUME Absent \notin Briefs
  PROVE  GateSpec => [](edits = 0 => EnforcedAcceptanceJudged)
<1>1. GateInit => GateInvariant
  <2> SUFFICES ASSUME GateInit PROVE GateInvariant
    OBVIOUS
  <2>1. Idle \in ReviewCalls
    BY DEF Idle, ReviewCalls, Modes, Answers
  <2>2. call = [r \in Reviewers |-> Idle] /\ call \in [Reviewers -> ReviewCalls]
    BY <2>1 DEF GateInit
  <2>3. \A r \in Reviewers : CallSound(call[r], decisions) /\ CallCurrent(call[r])
    BY <2>2 DEF CallSound, CallCurrent, Gated, Idle
  <2> QED BY <2>2, <2>3 DEF GateInit, GateInvariant, ReviewSound
<1>2. GateInvariant /\ [GateNext]_gateVars => GateInvariant'
  <2> SUFFICES ASSUME GateInvariant, [GateNext]_gateVars PROVE GateInvariant'
    OBVIOUS
  <2>1. ASSUME NEW r \in Reviewers, NEW verdict \in Verdicts, Begin(r, verdict)
        PROVE  GateInvariant'
    <3>1. PICK c : c = [Idle EXCEPT
             !.verdict = verdict, !.evidence = evidence,
             !.pc = IF verdict = "accepted" THEN "resolving" ELSE "locking"]
      OBVIOUS
    <3>2. /\ c.verdict = verdict /\ c.evidence = evidence /\ c.brief = Absent
          /\ c.mode = "off" /\ c.tries = 0 /\ c.answers = <<>>
          /\ c.pc \in {"resolving", "locking"} /\ c \in ReviewCalls
      BY <3>1 DEF Idle, ReviewCalls, GateInvariant, Modes, Answers
    <3>3. CallSound(c, decisions') /\ CallCurrent(c)
      BY <3>2 DEF CallSound, CallCurrent, Gated
    <3>4. call' = [call EXCEPT ![r] = c] /\ call[r].pc # "reviewed"
      BY <2>1, <3>1 DEF Begin
    <3> QED BY <2>1, <3>2, <3>3, <3>4, CallStep DEF Begin, inputs
  <2>2. ASSUME NEW r \in Reviewers, Resolve(r)
        PROVE  GateInvariant'
    <3>1. PICK c : c = [call[r] EXCEPT !.mode = mode,
             !.pc = IF mode \in {"off", "unreadable"} \/ approved = Absent
                    THEN "locking" ELSE "reading"]
      OBVIOUS
    <3>2. /\ c.verdict = call[r].verdict /\ c.evidence = call[r].evidence /\ c.brief = call[r].brief
          /\ c.mode = mode /\ c.answers = call[r].answers /\ c \in ReviewCalls
          /\ c.pc = IF mode \in {"off", "unreadable"} \/ approved = Absent THEN "locking" ELSE "reading"
      BY <3>1 DEF ReviewCalls, GateInvariant
    <3>3. call[r].pc = "resolving" /\ call' = [call EXCEPT ![r] = c]
      BY <2>2, <3>1 DEF Resolve, GateInvariant, ReviewCalls
    <3>4. CallSound(c, decisions') /\ (edits = 0 => CallCurrent(c))
      BY <3>2, <3>3 DEF CallSound, CallCurrent, Gated, GateInvariant
    <3> QED BY <2>2, <3>2, <3>3, <3>4, CallStep DEF Resolve, inputs
  <2>3. ASSUME NEW r \in Reviewers, ReadBrief(r)
        PROVE  GateInvariant'
    <3>1. PICK c : c = [call[r] EXCEPT !.brief = brief,
             !.pc = IF Criteria[brief] = {} \/ call[r].evidence \notin Checked
                    THEN "locking" ELSE "asking"]
      OBVIOUS
    <3>2. /\ c.verdict = call[r].verdict /\ c.evidence = call[r].evidence /\ c.brief = brief
          /\ c.mode = call[r].mode /\ c.answers = call[r].answers /\ c \in ReviewCalls
          /\ c.pc = IF Criteria[brief] = {} \/ call[r].evidence \notin Checked THEN "locking" ELSE "asking"
      BY <3>1 DEF ReviewCalls, GateInvariant
    <3>3. call[r].pc = "reading" /\ call' = [call EXCEPT ![r] = c]
      BY <2>3, <3>1 DEF ReadBrief, GateInvariant, ReviewCalls
    <3>4. c.pc = "locking" => LetThrough(c, decisions')
      <4> SUFFICES ASSUME c.pc = "locking" PROVE LetThrough(c, decisions')
        OBVIOUS
      <4> DEFINE d == Decision([call[r] EXCEPT !.brief = brief], Absent, "confirm")
      <4>1. d \in decisions'
        BY <2>3, <3>2 DEF ReadBrief
      <4>2. d = Decision(c, Absent, "confirm")
        BY <3>2 DEF Decision, GateInvariant, ReviewCalls
      <4>3. Criteria[c.brief] = {} \/ c.evidence \notin Checked
        BY <3>2
      <4> QED BY <4>1, <4>2, <4>3 DEF LetThrough
    <3>5. CallSound(c, decisions') /\ (edits = 0 => CallCurrent(c))
      BY <3>2, <3>3, <3>4 DEF CallSound, CallCurrent, Gated, GateInvariant
    <3>6. decisions \subseteq decisions'
      BY <2>3 DEF ReadBrief
    <3> QED BY <2>3, <3>2, <3>3, <3>5, <3>6, CallStep DEF ReadBrief, inputs
  <2>4. ASSUME NEW r \in Reviewers, call[r].pc = "asking",
               NEW answers \in [Criteria[call[r].brief] -> Nouls], Answered(r, answers)
        PROVE  GateInvariant'
    <3>1. PICK c : c = [call[r] EXCEPT !.pc = "judged", !.answers = answers]
      OBVIOUS
    <3>2. answers \in Answers
      BY <2>4 DEF GateInvariant, CallSound, Answers
    <3>3. /\ c.verdict = call[r].verdict /\ c.evidence = call[r].evidence /\ c.brief = call[r].brief
          /\ c.mode = call[r].mode /\ c.answers = answers /\ c.pc = "judged" /\ c \in ReviewCalls
      <4>1. call[r] \in ReviewCalls
        BY DEF GateInvariant
      <4> QED BY ONLY <3>1, <3>2, <4>1 DEF ReviewCalls
    <3>4. call' = [call EXCEPT ![r] = c]
      BY <2>4, <3>1 DEF Answered, GateInvariant, ReviewCalls
    <3>5. CallSound(c, decisions') /\ (edits = 0 => CallCurrent(c))
      <4>1. CallSound(call[r], decisions) /\ (edits = 0 => CallCurrent(call[r]))
        BY DEF GateInvariant
      <4>2. c.answers \in [Criteria[c.brief] -> Nouls]
        BY <2>4, <3>3, Zenon
      <4>3. c.brief \in Briefs /\ Criteria[c.brief] # {} /\ c.evidence \in Checked /\ ~Gated(c)
        BY <2>4, <3>3, <4>1 DEF CallSound, Gated
      <4>4. edits = 0 => CallCurrent(c)
        BY <2>4, <3>3, <4>1 DEF CallCurrent, Gated
      <4> QED BY <3>3, <4>2, <4>3, <4>4 DEF CallSound
    <3> QED BY <2>4, <3>3, <3>4, <3>5, CallStep DEF Answered, inputs
  <2>5. ASSUME NEW r \in Reviewers, call[r].pc = "asking", NEW again \in BOOLEAN, Unanswered(r, again)
        PROVE  GateInvariant'
    <3>1. PICK c : c = IF again THEN [call[r] EXCEPT !.tries = 1] ELSE [call[r] EXCEPT !.pc = "locking"]
      OBVIOUS
    <3>2. /\ c.verdict = call[r].verdict /\ c.evidence = call[r].evidence /\ c.brief = call[r].brief
          /\ c.mode = call[r].mode /\ c.answers = call[r].answers /\ c \in ReviewCalls
          /\ c.pc = IF again THEN "asking" ELSE "locking"
      BY <2>5, <3>1 DEF ReviewCalls, GateInvariant
    <3>3. call' = [call EXCEPT ![r] = c]
      BY <2>5, <3>1 DEF Unanswered, Goes, GateInvariant, ReviewCalls
    <3>4. ~again => LetThrough(c, decisions')
      <4> SUFFICES ASSUME ~again PROVE LetThrough(c, decisions')
        OBVIOUS
      <4> DEFINE d == Decision(call[r], Absent, "unavailable")
      <4>1. d \in decisions'
        BY <2>5 DEF Unanswered
      <4>2. d = Decision(c, Absent, "unavailable")
        BY <3>2 DEF Decision
      <4>3. Criteria[c.brief] # {} /\ c.evidence \in Checked /\ c.answers = <<>>
        BY <2>5, <3>2 DEF GateInvariant, CallSound
      <4> QED BY <4>1, <4>2, <4>3 DEF LetThrough
    <3>5. CallSound(c, decisions') /\ (edits = 0 => CallCurrent(c))
      BY <2>5, <3>2, <3>4 DEF CallSound, CallCurrent, Gated, GateInvariant
    <3>6. decisions \subseteq decisions'
      BY <2>5 DEF Unanswered
    <3> QED BY <2>5, <3>2, <3>3, <3>5, <3>6, CallStep DEF Unanswered, inputs
  <2>6. ASSUME NEW r \in Reviewers, Decide(r)
        PROVE  GateInvariant'
    <3> DEFINE rejected == call[r].mode = "enforce" /\ Action(call[r].answers) = "block"
               answered == call[r].answers
    <3>1. PICK c : c = [call[r] EXCEPT !.pc = IF rejected THEN "rejected" ELSE "locking"]
      OBVIOUS
    <3>2. /\ c.verdict = call[r].verdict /\ c.evidence = call[r].evidence /\ c.brief = call[r].brief
          /\ c.mode = call[r].mode /\ c.answers = call[r].answers /\ c \in ReviewCalls
          /\ c.pc = IF rejected THEN "rejected" ELSE "locking"
      BY <3>1 DEF ReviewCalls, GateInvariant
    <3>3. call[r].pc = "judged" /\ call' = [call EXCEPT ![r] = c]
      BY <2>6, <3>1 DEF Decide, Goes, GateInvariant, ReviewCalls
    <3>4. /\ call[r].brief \in Briefs /\ Criteria[call[r].brief] # {}
          /\ DOMAIN answered = Criteria[call[r].brief]
      BY <3>3 DEF GateInvariant, CallSound
    <3>5. Gated(c) => LetThrough(c, decisions')
      <4> SUFFICES ASSUME Gated(c) PROVE LetThrough(c, decisions')
        OBVIOUS
      <4>1. ~rejected /\ call[r].mode = "enforce"
        BY <3>2 DEF Gated
      <4>2. ASSUME NEW q \in DOMAIN answered
            PROVE  Band(answered[q]) # "block" /\ Decision(c, q, Band(answered[q])) \in decisions'
        <5>1. Decision(c, q, Band(answered[q])) = Decision(call[r], q, Band(answered[q]))
          BY <3>2 DEF Decision
        <5>2. Decision(call[r], q, Band(answered[q])) \in decisions'
          BY <2>6 DEF Decide
        <5>3. Band(answered[q]) # "block"
          BY <4>1 DEF Action
        <5> QED BY <5>1, <5>2, <5>3
      <4>3. /\ Criteria[c.brief] # {} /\ c.evidence \in Checked
            /\ c.answers \in [Criteria[c.brief] -> Nouls] /\ c.answers = answered
        BY <3>2, <3>3 DEF GateInvariant, CallSound
      <4> QED BY <3>4, <4>2, <4>3 DEF LetThrough
    <3> HIDE DEF rejected
    <3>6. CallSound(c, decisions') /\ (edits = 0 => CallCurrent(c))
      BY <3>2, <3>3, <3>4, <3>5 DEF CallSound, CallCurrent, Gated, GateInvariant
    <3>7. decisions \subseteq decisions'
      BY <2>6 DEF Decide
    <3> QED BY <2>6, <3>2, <3>3, <3>6, <3>7, CallStep DEF Decide, inputs
  <2>7. ASSUME NEW r \in Reviewers, Review(r)
        PROVE  GateInvariant'
    <3>1. PICK c : c = [call[r] EXCEPT !.pc = IF approved = brief THEN "reviewed" ELSE "refused"]
      OBVIOUS
    <3>2. /\ c.verdict = call[r].verdict /\ c.evidence = call[r].evidence /\ c.brief = call[r].brief
          /\ c.mode = call[r].mode /\ c.answers = call[r].answers /\ c \in ReviewCalls
          /\ c.pc = IF approved = brief THEN "reviewed" ELSE "refused"
      BY <3>1 DEF ReviewCalls, GateInvariant
    <3>3. call[r].pc = "locking" /\ call' = [call EXCEPT ![r] = c]
      BY <2>7, <3>1 DEF Review, Goes, GateInvariant, ReviewCalls
    <3>4. CallSound(c, decisions) /\ (edits = 0 => CallCurrent(c))
      <4>1. LetThrough(call[r], decisions) => LetThrough(c, decisions)
        BY <3>2 DEF LetThrough, Decision
      <4> QED BY <3>2, <3>3, <4>1 DEF CallSound, CallCurrent, Gated, GateInvariant
    <3>5. CASE approved # brief
      <4>1. review' = review /\ decisions' = decisions
        BY <2>7, <3>5 DEF Review
      <4> QED BY <2>7, <3>2, <3>3, <3>4, <4>1, CallStep DEF Review, inputs
    <3>6. CASE approved = brief
      <4>1. /\ review' = [by |-> r, verdict |-> call[r].verdict, brief |-> brief, evidence |-> evidence]
            /\ decisions' = decisions /\ edits' = edits
            /\ brief' = brief /\ evidence' = evidence /\ approved' = approved /\ mode' = mode
        BY <2>7, <3>6 DEF Review, inputs
      <4>2. /\ call' \in [Reviewers -> ReviewCalls] /\ call'[r] = c
            /\ \A q \in Reviewers \ {r} : call'[q] = call[q]
        BY <3>2, <3>3 DEF GateInvariant
      <4>3. /\ \A q \in Reviewers : CallSound(call'[q], decisions')
            /\ edits' = 0 => \A q \in Reviewers : CallCurrent(call[q])'
        BY <3>4, <4>1, <4>2 DEF GateInvariant, CallCurrent
      <4>4. ReviewSound'
        BY <3>2, <3>6, <4>1, <4>2 DEF ReviewSound
      <4> QED BY <4>1, <4>2, <4>3, <4>4 DEF GateInvariant
    <3> QED BY <3>5, <3>6
  <2>8. CASE Edit
    <3>1. edits' = edits + 1 /\ UNCHANGED <<decisions, review, call>>
      BY <2>8 DEF Edit
    <3>2. brief' \in Briefs /\ evidence' \in Evidences /\ mode' \in Modes
      BY <2>8 DEF Edit, GateInvariant
    <3>3. edits' \in Nat /\ edits' # 0
      BY <3>1 DEF GateInvariant
    <3> QED BY <3>1, <3>2, <3>3 DEF GateInvariant, ReviewSound
  <2>9. CASE UNCHANGED gateVars
    BY <2>9 DEF gateVars, GateInvariant, CallCurrent, ReviewSound
  <2> QED BY <2>1, <2>2, <2>3, <2>4, <2>5, <2>6, <2>7, <2>8, <2>9 DEF GateNext, Judged
<1>3. ASSUME Absent \notin Briefs, GateInvariant
      PROVE  edits = 0 => EnforcedAcceptanceJudged
  <2> SUFFICES ASSUME edits = 0, review # Absent, review.verdict = "accepted", call[review.by].mode = "enforce"
               PROVE  /\ call[review.by].brief = review.brief
                      /\ call[review.by].evidence = review.evidence
                      /\ LetThrough(call[review.by], decisions)
    BY DEF EnforcedAcceptanceJudged
  <2> DEFINE c == call[review.by]
  <2>1. /\ c.pc = "reviewed" /\ c.verdict = "accepted"
        /\ review.brief = brief /\ review.evidence = evidence /\ approved = brief
        /\ CallSound(c, decisions) /\ CallCurrent(c) /\ c.mode = "enforce"
    BY <1>3 DEF GateInvariant, ReviewSound
  <2>2. Gated(c) /\ c.brief # Absent
    BY <1>3, <2>1 DEF Gated, CallCurrent, GateInvariant
  <2> QED BY <2>1, <2>2 DEF CallSound, CallCurrent
<1> QED BY <1>1, <1>2, <1>3, PTL DEF GateSpec

=============================================================================
