----------------------- MODULE FeatureDeliveryProofs -----------------------
(* What holds of the delivery of features for every set of changes and     *)
(* invocations: an acceptance was checked together with the project its    *)
(* slice was approved with, an archive is published under the latest       *)
(* acceptance, and a published archive is merged.                          *)
EXTENDS FeatureDelivery, FiniteSetTheorems, WellFoundedInduction, TLAPS

-----------------------------------------------------------------------------
(* The inductive invariant                                                 *)

Accepting  == {"snapshot", "identify", "run", "verify", "compare", "reinspect", "recheck", "final",
               "confirm", "append"}
Planning   == {"report", "stage", "reread", "resnap", "publish"}
Publishing == {"resnap", "publish"}
Archiving  == Planning \cup {"check", "write"}
Metering   == {"confirm", "append", "import"}

(* Who accepts or publishes made the controller lock, who archives the     *)
(* archive lock, who reports usage or adds to it the usage lock.           *)
Locked(inv, p, held) ==
  /\ inv.at \in Accepting \cup Publishing => held["controller"] = p
  /\ inv.at \in Archiving => held["archive"] = p
  /\ inv.at \in Metering => held["usage"] = p
LockInvariant == \A p \in Procs : Locked(proc[p], p, locks)

(* What an invocation carries at each step.  A preparation has a base for  *)
(* every specification its change touches.                                 *)
Carries(inv) ==
  /\ inv.at \in Accepting \cup Archiving => inv.change \in Changes
  /\ inv.at \in Accepting => inv.slice \in Slices
  /\ inv.at \in Accepting \ {"snapshot"} => inv.candidate \in Sources
  /\ inv.at \in Archiving => inv.plan \in Prepared /\ DOMAIN inv.plan.base = Touches[inv.change]
  /\ inv.at \in Planning \ {"report"} => inv.event # 0
CarriedInvariant ==
  /\ \A p \in Procs : Carries(proc[p])
  /\ \A c \in Changes :
       /\ change[c] # None => DOMAIN change[c].base = Touches[c] /\ change[c].version <= spent.edits
       /\ archives[c] # None => DOMAIN archives[c].prepared.base = Touches[c]
  /\ Len(events) <= MaxEvents

(* A specification has a change's requirements only if the change is       *)
(* archived, and no archived change started from its own.  So a merge      *)
(* always adds a change, and loses none: what it may lose are edits made   *)
(* since the specifications were looked at.                                *)
Archived(inv, now, arch) ==
  LET c == inv.change
  IN  /\ inv.at \in Planning =>
           /\ arch[c] = None
           /\ \A s \in Touches[c] : /\ c \notin inv.plan.base[s]
                                    /\ (now[s] = inv.plan.base[s] \/ ~(now[s] \subseteq Changes))
      /\ inv.at \in {"check", "write"} => arch[c] # None
      /\ inv.at = "write" =>
           /\ inv.pending \subseteq Touches[c]
           /\ \A s \in inv.pending : arch[c].prepared.base[s] \cap Changes = now[s] \cap Changes
ArchiveInvariant ==
  /\ \A s \in Specs, c \in Changes : c \in specs[s] => archives[c] # None
  /\ \A c \in Changes : archives[c] # None => \A s \in Touches[c] : c \notin archives[c].prepared.base[s]
  /\ \A p \in Procs : Archived(proc[p], specs, archives)

(* Contents and preparations never come back: a specification gains a      *)
(* change, or keeps its changes and loses nothing; a preparation is newer. *)
Before(old, new) == \/ old = new
                    \/ old \cap Changes \subseteq new \cap Changes /\ old \cap Changes # new \cap Changes
                    \/ old \cap Changes = new \cap Changes /\ old \subseteq new
Older(old, new) == old = new \/ old = None \/ (new # None /\ old.version < new.version)

(* Between two comparisons of the project with the candidate the slice was *)
(* accepted with the project as it was: the candidate is what it was       *)
(* approved with.                                                          *)
Accepts(inv, now, chg) ==
  LET c == inv.change
      prepared == inv.slice.prepared
  IN  /\ inv.at \in Accepting \ {"snapshot"} =>
           /\ \A s \in Specs : Before(inv.candidate.specs[s], now[s])
           /\ Older(inv.candidate.change[c], chg[c])
      /\ inv.at \in {"recheck", "final", "confirm", "append"} =>
           /\ \A s \in Touches[c] : Before(inv.candidate.specs[s], prepared.base[s]) /\ Before(prepared.base[s], now[s])
           /\ Older(inv.candidate.change[c], prepared) /\ Older(prepared, chg[c])
      /\ inv.at \in {"final", "confirm", "append"} =>
           /\ inv.candidate.change[c] = prepared
           /\ \A s \in Touches[c] : inv.candidate.specs[s] = prepared.base[s]
AcceptInvariant == AcceptedTogether /\ \A p \in Procs : Accepts(proc[p], specs, change)

(* What the usage lock and the controller lock keep for their holder: the  *)
(* usage that was reported, and the acceptance that was found.             *)
Latest(c, evts) ==
  LET own == {i \in 1..Len(evts) : evts[i].change = c}
  IN  IF own = {} THEN 0 ELSE CHOOSE i \in own : \A j \in own : j <= i
Held(inv, used, evts, accepted) ==
  /\ inv.at = "import" => used < MaxImports
  /\ inv.at \in {"confirm", "append"} => inv.report = used
  /\ inv.at \in Publishing =>
       /\ inv.event = Latest(inv.change, evts)
       /\ evts[inv.event].slice = accepted[inv.change]
       /\ accepted[inv.change].prepared = inv.plan
HeldInvariant == \A p \in Procs : Held(proc[p], usage, events, slice)

(* An edit of a specification that no merge under way overwrites.          *)
Edited(s) ==
  /\ ~(specs[s] \subseteq Changes)
  /\ \A p \in Procs : proc[p].at = "write" /\ s \in proc[p].pending =>
       ~(archives[proc[p].change].prepared.base[s] \subseteq Changes)
(* Where a published change stands that was not cut off: edited, merged,   *)
(* about to be looked at or being merged.  Whoever writes, in a repeat too,*)
(* has left nothing out.                                                   *)
Standing(c) ==
  \/ \E s \in Touches[c] : Edited(s)
  \/ \A s \in Touches[c] : c \in specs[s]
  \/ \E p \in Procs : /\ proc[p].change = c /\ proc[p].at = "check"
                      /\ \A s \in Touches[c] : specs[s] = archives[c].prepared.base[s]
  \/ \E p \in Procs : /\ proc[p].change = c /\ proc[p].at = "write"
                      /\ \A s \in Touches[c] : c \in specs[s] \/ s \in proc[p].pending
Writes(inv, now) == \A s \in Touches[inv.change] : inv.change \in now[s] \/ s \in inv.pending
MergeInvariant ==
  /\ \A c \in Changes \ cut : archives[c] # None => Standing(c)
  /\ \A p \in Procs : proc[p].at = "write" => Writes(proc[p], specs)

DeliveryInvariant ==
  /\ TypeOK
  /\ LockInvariant
  /\ CarriedInvariant
  /\ ArchiveInvariant
  /\ AcceptInvariant
  /\ HeldInvariant
  /\ MergeInvariant

-----------------------------------------------------------------------------
(* Invocations                                                             *)

Others(p) == \A q \in Procs \ {p} : proc'[q] = proc[q]

(* An invocation goes on with what it was started for.                     *)
Rest(new, inv) == new.change = inv.change /\ new.slice = inv.slice /\ new.plan = inv.plan
Kept(new, inv) == /\ Rest(new, inv) /\ new.candidate = inv.candidate /\ new.report = inv.report
                  /\ new.event = inv.event /\ new.staged = inv.staged /\ new.pending = inv.pending

Goes(p, step) == /\ Others(p) /\ proc'[p].at = step /\ Kept(proc'[p], proc[p])
                 /\ proc' \in [Procs -> Invocations]
Ends(p)       == Others(p) /\ proc'[p] = Idle /\ GiveUp(p) /\ proc' \in [Procs -> Invocations]

LEMMA IdleFacts == /\ Idle \in Invocations /\ Idle.at = "idle" /\ Idle.change = None
                   /\ Idle.pending = {}
  BY BoundsAssumption DEF Idle, Invocations, Steps

LEMMA GoFacts ==
  ASSUME TypeOK, NEW p \in Procs, NEW step \in Steps, Go(p, step)
  PROVE  Goes(p, step)
<1>1. proc[p] \in Invocations /\ proc'[p] = [proc[p] EXCEPT !.at = step] /\ Others(p)
  BY DEF TypeOK, Go, Others
<1>2. proc'[p].at = step /\ Kept(proc'[p], proc[p]) /\ proc'[p] \in Invocations
  BY <1>1 DEF Invocations, Kept, Rest
<1>3. QED
  BY <1>1, <1>2 DEF TypeOK, Go, Goes

LEMMA LeaveFacts ==
  ASSUME TypeOK, NEW p \in Procs, Leave(p)
  PROVE  Ends(p)
  BY IdleFacts DEF TypeOK, Leave, Ends, Others

LEMMA ProceedFacts ==
  ASSUME TypeOK, NEW p \in Procs, NEW ok \in BOOLEAN, NEW step \in Steps, Proceed(p, ok, step)
  PROVE  (ok /\ Goes(p, step) /\ UNCHANGED locks) \/ Ends(p)
  BY GoFacts, LeaveFacts DEF Proceed

LEMMA StepNames ==
  /\ Accepting \cup Archiving \cup Metering \cup {"idle", "crashed"} \subseteq Steps
  /\ Publishing \subseteq Planning
  BY DEF Accepting, Archiving, Planning, Publishing, Metering, Steps

(* What the other updates leave, and their types.                          *)
LEMMA UpdateFacts ==
  ASSUME NEW inv \in Invocations, NEW at \in Steps
  PROVE  /\ \A x \in Sources : LET new == [inv EXCEPT !.at = at, !.candidate = x]
                               IN  new \in Invocations /\ new.at = at /\ new.candidate = x /\ Rest(new, inv)
         /\ \A x \in 0..MaxEdits : LET new == [inv EXCEPT !.at = at, !.config = x]
                                   IN  new \in Invocations /\ new.at = at /\ Kept(new, inv)
         /\ \A x \in 0..MaxImports : LET new == [inv EXCEPT !.at = at, !.report = x]
                                     IN  /\ new \in Invocations /\ new.at = at /\ new.report = x
                                         /\ new.candidate = inv.candidate /\ Rest(new, inv)
         /\ \A x \in 0..MaxEvents : LET new == [inv EXCEPT !.at = at, !.event = x]
                                    IN  new \in Invocations /\ new.at = at /\ new.event = x /\ Rest(new, inv)
         /\ \A x \in Prepared \cup {None} :
              LET new == [inv EXCEPT !.at = at, !.staged = x]
              IN  /\ new \in Invocations /\ new.at = at /\ new.staged = x /\ new.event = inv.event
                  /\ Rest(new, inv)
         /\ \A x \in SUBSET Specs : LET new == [inv EXCEPT !.at = at, !.pending = x]
                                    IN  new \in Invocations /\ new.at = at /\ new.pending = x /\ Rest(new, inv)
         /\ \A x \in SUBSET Specs : LET new == [inv EXCEPT !.pending = x]
                                    IN  new \in Invocations /\ new.at = inv.at /\ new.pending = x /\ Rest(new, inv)
<1>1. ASSUME NEW x \in Sources
      PROVE  LET new == [inv EXCEPT !.at = at, !.candidate = x]
             IN  new \in Invocations /\ new.at = at /\ new.candidate = x /\ Rest(new, inv)
  BY DEF Invocations, Rest
<1>2. ASSUME NEW x \in 0..MaxEdits
      PROVE  LET new == [inv EXCEPT !.at = at, !.config = x]
             IN  new \in Invocations /\ new.at = at /\ Kept(new, inv)
  BY DEF Invocations, Kept, Rest
<1>3. ASSUME NEW x \in 0..MaxImports
      PROVE  LET new == [inv EXCEPT !.at = at, !.report = x]
             IN  /\ new \in Invocations /\ new.at = at /\ new.report = x
                 /\ new.candidate = inv.candidate /\ Rest(new, inv)
  BY DEF Invocations, Rest
<1>4. ASSUME NEW x \in 0..MaxEvents
      PROVE  LET new == [inv EXCEPT !.at = at, !.event = x]
             IN  new \in Invocations /\ new.at = at /\ new.event = x /\ Rest(new, inv)
  BY DEF Invocations, Rest
<1>5. ASSUME NEW x \in Prepared \cup {None}
      PROVE  LET new == [inv EXCEPT !.at = at, !.staged = x]
             IN  /\ new \in Invocations /\ new.at = at /\ new.staged = x /\ new.event = inv.event
                 /\ Rest(new, inv)
  BY DEF Invocations, Rest
<1>6. ASSUME NEW x \in SUBSET Specs
      PROVE  LET new == [inv EXCEPT !.at = at, !.pending = x]
             IN  new \in Invocations /\ new.at = at /\ new.pending = x /\ Rest(new, inv)
  BY DEF Invocations, Rest
<1>7. ASSUME NEW x \in SUBSET Specs
      PROVE  LET new == [inv EXCEPT !.pending = x]
             IN  new \in Invocations /\ new.at = inv.at /\ new.pending = x /\ Rest(new, inv)
  BY DEF Invocations, Rest
<1>8. QED
  BY <1>1, <1>2, <1>3, <1>4, <1>5, <1>6, <1>7

(* A set of places has a last one: its end segments are finite sets, which *)
(* inclusion orders well.                                                  *)
LEMMA LastExists ==
  ASSUME NEW n \in Nat, NEW S, S \subseteq 1..n, S # {}
  PROVE  \E m \in S : \A k \in S : k <= m
<1> DEFINE Above(x) == {k \in 1..n : k > x}
           T == {Above(x) : x \in S}
           R == StrictSubsetOrdering(1..n)
<1>1. IsWellFoundedOn(R, FiniteSubsetsOf(1..n))
  BY FS_StrictSubsetOrderingWellFounded
<1>2. T \subseteq FiniteSubsetsOf(1..n)
  <2>1. IsFiniteSet(1..n)
    BY FS_Interval
  <2>2. FiniteSubsetsOf(1..n) = SUBSET (1..n)
    BY <2>1, FS_FiniteSubsetsOfFinite
  <2>3. QED
    BY <2>2
<1>3. T # {}
  OBVIOUS
<1>4. PICK U \in T : \A V \in T : ~(<<V, U>> \in R)
  BY <1>1, <1>2, <1>3, WFMin
<1>5. PICK m \in S : U = Above(m)
  BY <1>4
<1>6. ASSUME NEW k \in S PROVE k <= m
  <2>1. SUFFICES ASSUME k > m PROVE FALSE
    OBVIOUS
  <2>2. Above(k) \subseteq Above(m) /\ m \notin Above(m) /\ k \in Above(m) /\ k \notin Above(k)
    BY <2>1
  <2>3. <<Above(k), Above(m)>> \in R
    BY <2>2 DEF StrictSubsetOrdering
  <2>4. QED
    BY <1>4, <1>5, <2>3
<1>7. QED
  BY <1>6

(* The latest event of a change is one of its events.                      *)
LEMMA LatestFacts ==
  ASSUME events \in Seq(Events), NEW c \in Changes
  PROVE  LatestEvent(c) \in 0..Len(events)
<1> DEFINE own == {i \in 1..Len(events) : events[i].change = c}
<1>1. LatestEvent(c) = IF own = {} THEN 0 ELSE CHOOSE i \in own : \A j \in own : j <= i
  BY DEF LatestEvent
<1>2. Len(events) \in Nat /\ own \subseteq 1..Len(events)
  OBVIOUS
<1> HIDE DEF own
<1>3. own # {} => \E i \in own : \A j \in own : j <= i
  BY <1>2, LastExists
<1> DEFINE last == CHOOSE i \in own : \A j \in own : j <= i
<1>4. own # {} => last \in own
  BY <1>3
<1>5. LatestEvent(c) = IF own = {} THEN 0 ELSE last
  BY <1>1
<1> HIDE DEF last
<1>6. CASE own = {}
  BY <1>2, <1>5, <1>6
<1>7. CASE own # {}
  <2>1. last \in 1..Len(events) /\ LatestEvent(c) = last
    BY <1>2, <1>4, <1>5, <1>7
  <2>2. 1..Len(events) \subseteq 0..Len(events)
    BY <1>2
  <2>3. QED
    BY <2>1, <2>2
<1>8. QED
  BY <1>6, <1>7

-----------------------------------------------------------------------------
(* What each step does                                                     *)

LEMMA SourceType ==
  ASSUME TypeOK
  PROVE  Source \in Sources
  BY DEF TypeOK, Source, Sources

LEMMA AcceptFeatureEffect ==
  ASSUME TypeOK, NEW p \in Procs, NEW c \in Changes, AcceptFeature(p, c)
  PROVE  /\ UNCHANGED <<project, slice, ledgers, archives, cut>> /\ Spend("starts")
         /\ Free("controller") /\ Take(p, "controller") /\ SliceAccepted(c) /\ spent.starts < MaxStarts
         /\ Others(p) /\ proc' \in [Procs -> Invocations]
         /\ proc'[p].at = "snapshot" /\ proc'[p].change = c /\ proc'[p].slice = slice[c]
<1> DEFINE new == [Idle EXCEPT !.at = "snapshot", !.change = c, !.slice = slice[c], !.command = config]
<1>1. new \in Invocations /\ new.at = "snapshot" /\ new.change = c /\ new.slice = slice[c]
  <2>1. slice[c] \in Slices \cup {None} /\ config \in 0..MaxEdits
    BY DEF TypeOK
  <2>2. QED
    BY <2>1, IdleFacts DEF Idle, Invocations, Steps
<1>2. proc' = [proc EXCEPT ![p] = new]
  BY DEF AcceptFeature
<1> HIDE DEF new
<1>3. proc'[p] = new /\ Others(p) /\ proc' \in [Procs -> Invocations]
  BY <1>1, <1>2 DEF TypeOK, Others
<1>4. QED
  BY <1>1, <1>3 DEF AcceptFeature, Start

LEMMA RetainSourceEffect ==
  ASSUME TypeOK, NEW p \in Procs, RetainSource(p)
  PROVE  /\ At(p, "snapshot") /\ UNCHANGED <<project, slice, ledgers, archives, cut, locks, spent>>
         /\ Others(p) /\ proc' \in [Procs -> Invocations]
         /\ proc'[p].at = "identify" /\ proc'[p].candidate = Source /\ Rest(proc'[p], proc[p])
<1> DEFINE new == [proc[p] EXCEPT !.at = "identify", !.candidate = Source]
<1>1. new \in Invocations /\ new.at = "identify" /\ new.candidate = Source /\ Rest(new, proc[p])
  <2>1. proc[p] \in Invocations /\ "identify" \in Steps
    BY DEF TypeOK, Steps
  <2>2. Source \in Sources
    BY SourceType
  <2>3. QED
    BY <2>1, <2>2, UpdateFacts
<1>2. proc' = [proc EXCEPT ![p] = new]
  BY DEF RetainSource
<1> HIDE DEF new
<1>3. proc'[p] = new /\ Others(p) /\ proc' \in [Procs -> Invocations]
  BY <1>1, <1>2 DEF TypeOK, Others
<1>4. QED
  BY <1>1, <1>3 DEF RetainSource

LEMMA RetainConfigEffect ==
  ASSUME TypeOK, NEW p \in Procs, RetainConfig(p)
  PROVE  /\ At(p, "identify") /\ UNCHANGED <<project, slice, ledgers, archives, cut, locks, spent>>
         /\ Goes(p, "run")
<1> DEFINE new == [proc[p] EXCEPT !.at = "run", !.config = config]
<1>1. new \in Invocations /\ new.at = "run" /\ Kept(new, proc[p])
  <2>1. proc[p] \in Invocations /\ "run" \in Steps
    BY DEF TypeOK, Steps
  <2>2. config \in 0..MaxEdits
    BY DEF TypeOK
  <2>3. QED
    BY <2>1, <2>2, UpdateFacts
<1>2. proc' = [proc EXCEPT ![p] = new]
  BY DEF RetainConfig
<1> HIDE DEF new
<1>3. proc'[p] = new /\ Others(p) /\ proc' \in [Procs -> Invocations]
  BY <1>1, <1>2 DEF TypeOK, Others
<1>4. QED
  BY <1>1, <1>3 DEF RetainConfig, Goes

(* The comparisons of an acceptance: it goes on or ends.                   *)
LEMMA CheckEffect ==
  ASSUME TypeOK, NEW p \in Procs,
         RunCheck(p) \/ VerifyConfig(p) \/ VerifySource(p) \/ Reinspect(p) \/ Recheck(p) \/ FinalRecheck(p) \/ SecondSource(p)
  PROVE  /\ UNCHANGED <<project, slice, ledgers, archives, cut, spent>>
         /\ \/ Ends(p)
            \/ /\ UNCHANGED locks
               /\ \/ At(p, "run") /\ Goes(p, "verify")
                  \/ At(p, "verify") /\ Goes(p, "compare")
                  \/ At(p, "compare") /\ Goes(p, "reinspect") /\ Source = proc[p].candidate
                  \/ At(p, "reinspect") /\ Goes(p, "recheck") /\ StillAccepted(p)
                  \/ At(p, "recheck") /\ Goes(p, "final") /\ Source = proc[p].candidate
                  \/ At(p, "confirm") /\ Goes(p, "append")
                  \/ At(p, "resnap") /\ Goes(p, "publish")
<1> USE DEF Steps
<1>1. CASE RunCheck(p)
  BY <1>1, ProceedFacts DEF RunCheck
<1>2. CASE VerifyConfig(p)
  BY <1>2, ProceedFacts DEF VerifyConfig
<1>3. CASE VerifySource(p)
  BY <1>3, ProceedFacts DEF VerifySource
<1>4. CASE Reinspect(p)
  <2>1. (StillAccepted(p) /\ ProofCurrent(p)) \in BOOLEAN
    BY DEF StillAccepted, ProofCurrent
  <2>2. QED
    BY <1>4, <2>1, ProceedFacts DEF Reinspect
<1>5. CASE Recheck(p)
  BY <1>5, ProceedFacts DEF Recheck
<1>6. CASE FinalRecheck(p)
  BY <1>6, ProceedFacts DEF FinalRecheck
<1>7. CASE SecondSource(p)
  BY <1>7, ProceedFacts DEF SecondSource
<1>8. QED
  BY <1>1, <1>2, <1>3, <1>4, <1>5, <1>6, <1>7

LEMMA FinalInspectEffect ==
  ASSUME TypeOK, NEW p \in Procs, FinalInspect(p)
  PROVE  /\ At(p, "final") /\ UNCHANGED <<project, slice, ledgers, archives, cut, spent>>
         /\ \/ Ends(p)
            \/ /\ Free("usage") /\ Take(p, "usage")
               /\ Others(p) /\ proc' \in [Procs -> Invocations] /\ proc'[p].at = "confirm"
               /\ proc'[p].report = usage /\ proc'[p].candidate = proc[p].candidate /\ Rest(proc'[p], proc[p])
<1>0. At(p, "final") /\ UNCHANGED <<project, slice, ledgers, archives, cut, spent>>
  BY DEF FinalInspect
<1> DEFINE new == [proc[p] EXCEPT !.at = "confirm", !.report = usage]
<1>1. /\ new \in Invocations /\ new.at = "confirm" /\ new.report = usage
      /\ new.candidate = proc[p].candidate /\ Rest(new, proc[p])
  <2>1. proc[p] \in Invocations /\ "confirm" \in Steps
    BY DEF TypeOK, Steps
  <2>2. usage \in 0..MaxImports
    BY DEF TypeOK
  <2>3. QED
    BY <2>1, <2>2, UpdateFacts
<1>2. Leave(p) \/ (Free("usage") /\ Take(p, "usage") /\ proc' = [proc EXCEPT ![p] = new])
  BY DEF FinalInspect, LockUsage
<1> HIDE DEF new
<1>3. CASE Leave(p)
  BY <1>0, <1>3, LeaveFacts
<1>4. CASE Free("usage") /\ Take(p, "usage") /\ proc' = [proc EXCEPT ![p] = new]
  <2>1. proc'[p] = new /\ Others(p) /\ proc' \in [Procs -> Invocations]
    BY <1>1, <1>4 DEF TypeOK, Others
  <2>2. QED
    BY <1>0, <1>1, <1>4, <2>1
<1>5. QED
  BY <1>2, <1>3, <1>4

LEMMA AppendEventEffect ==
  ASSUME TypeOK, NEW p \in Procs, AppendEvent(p)
  PROVE  /\ At(p, "append") /\ UNCHANGED <<project, slice, usage, torn, archives, cut, spent>> /\ Ends(p)
         /\ \/ UNCHANGED events
            \/ /\ Len(events) < MaxEvents
               /\ events' = Append(events, [change |-> proc[p].change, slice |-> proc[p].slice,
                                            candidate |-> proc[p].candidate, config |-> proc[p].config,
                                            report |-> proc[p].report])
<1>1. Len(events) \in Nat /\ (~(Len(events) >= MaxEvents) => Len(events) < MaxEvents)
  BY BoundsAssumption DEF TypeOK
<1>2. QED
  BY <1>1, LeaveFacts DEF AppendEvent

LEMMA ArchiveChangeEffect ==
  ASSUME TypeOK, NEW p \in Procs, NEW c \in Changes, ArchiveChange(p, c)
  PROVE  /\ UNCHANGED <<project, slice, ledgers, archives, cut>> /\ Spend("starts") /\ spent.starts < MaxStarts
         /\ Free("archive") /\ Take(p, "archive") /\ Others(p) /\ proc' \in [Procs -> Invocations]
         /\ proc'[p].change = c /\ proc'[p].plan = change[c]
         /\ \/ archives[c] = None /\ Valid(c) /\ proc'[p].at = "report"
            \/ archives[c] # None /\ archives[c].prepared = change[c] /\ proc'[p].at = "check"
<1> DEFINE new(at) == [Idle EXCEPT !.at = at, !.change = c, !.plan = change[c]]
<1>1. \A at \in {"report", "check"} :
        new(at) \in Invocations /\ new(at).at = at /\ new(at).change = c /\ new(at).plan = change[c]
  <2>1. change[c] \in Prepared \cup {None}
    BY DEF TypeOK
  <2>2. QED
    BY <2>1, IdleFacts DEF Idle, Invocations, Steps
<1>2. \/ archives[c] = None /\ Valid(c) /\ proc' = [proc EXCEPT ![p] = new("report")]
      \/ archives[c] # None /\ archives[c].prepared = change[c] /\ proc' = [proc EXCEPT ![p] = new("check")]
  BY DEF ArchiveChange
<1>3. /\ UNCHANGED <<project, slice, ledgers, archives, cut>> /\ Spend("starts") /\ spent.starts < MaxStarts
      /\ Free("archive") /\ Take(p, "archive")
  BY DEF ArchiveChange, Start
<1> HIDE DEF new
<1>4. ASSUME NEW at \in {"report", "check"}, proc' = [proc EXCEPT ![p] = new(at)]
      PROVE  /\ Others(p) /\ proc' \in [Procs -> Invocations] /\ proc'[p].at = at
             /\ proc'[p].change = c /\ proc'[p].plan = change[c]
  BY <1>1, <1>4 DEF TypeOK, Others
<1>5. QED
  BY <1>2, <1>3, <1>4

LEMMA FirstReportEffect ==
  ASSUME TypeOK, CarriedInvariant, NEW p \in Procs, FirstReport(p)
  PROVE  /\ At(p, "report") /\ UNCHANGED <<project, slice, ledgers, archives, cut, spent>>
         /\ \/ Ends(p)
            \/ /\ UNCHANGED locks /\ Others(p) /\ proc' \in [Procs -> Invocations] /\ proc'[p].at = "stage"
               /\ proc'[p].event # 0 /\ Rest(proc'[p], proc[p])
<1>0. At(p, "report") /\ UNCHANGED <<project, slice, ledgers, archives, cut, spent>>
  BY DEF FirstReport
<1> DEFINE e == LatestEvent(proc[p].change)
           new == [proc[p] EXCEPT !.at = "stage", !.event = e]
<1>1. e \in 0..MaxEvents
  <2>1. proc[p].change \in Changes /\ Len(events) <= MaxEvents /\ Len(events) \in Nat
    BY <1>0 DEF At, CarriedInvariant, Carries, Archiving, Planning, TypeOK
  <2>2. QED
    BY <2>1, LatestFacts, BoundsAssumption DEF TypeOK
<1>2. Leave(p) \/ (e # 0 /\ UNCHANGED locks /\ proc' = [proc EXCEPT ![p] = new])
  BY DEF FirstReport, Eligible
<1> HIDE DEF e
<1>3. new \in Invocations /\ new.at = "stage" /\ new.event = e /\ Rest(new, proc[p])
  <2>1. proc[p] \in Invocations /\ "stage" \in Steps
    BY DEF TypeOK, Steps
  <2>3. QED
    BY <1>1, <2>1, UpdateFacts
<1> HIDE DEF new
<1>4. CASE Leave(p)
  BY <1>0, <1>4, LeaveFacts
<1>5. CASE e # 0 /\ UNCHANGED locks /\ proc' = [proc EXCEPT ![p] = new]
  <2>1. proc'[p] = new /\ Others(p) /\ proc' \in [Procs -> Invocations]
    BY <1>3, <1>5 DEF TypeOK, Others
  <2>2. QED
    BY <1>0, <1>3, <1>5, <2>1
<1>6. QED
  BY <1>2, <1>4, <1>5

LEMMA StageArchiveEffect ==
  ASSUME TypeOK, CarriedInvariant, NEW p \in Procs, StageArchive(p)
  PROVE  /\ At(p, "stage") /\ UNCHANGED <<project, slice, ledgers, archives, cut, locks, spent>>
         /\ Others(p) /\ proc' \in [Procs -> Invocations] /\ proc'[p].at = "reread"
         /\ proc'[p].event = proc[p].event /\ Rest(proc'[p], proc[p])
<1>0. At(p, "stage") /\ UNCHANGED <<project, slice, ledgers, archives, cut, locks, spent>>
  BY DEF StageArchive
<1> DEFINE x == change[proc[p].change]
           new == [proc[p] EXCEPT !.at = "reread", !.staged = x]
<1>1. x \in Prepared \cup {None}
  BY <1>0 DEF At, CarriedInvariant, Carries, Archiving, Planning, TypeOK
<1>2. proc' = [proc EXCEPT ![p] = new]
  BY DEF StageArchive
<1> HIDE DEF x
<1>3. new \in Invocations /\ new.at = "reread" /\ new.event = proc[p].event /\ Rest(new, proc[p])
  <2>1. proc[p] \in Invocations /\ "reread" \in Steps
    BY DEF TypeOK, Steps
  <2>2. \A y \in Prepared \cup {None} :
          LET upd == [proc[p] EXCEPT !.at = "reread", !.staged = y]
          IN  /\ upd \in Invocations /\ upd.at = "reread" /\ upd.staged = y /\ upd.event = proc[p].event
              /\ Rest(upd, proc[p])
    BY <2>1, UpdateFacts
  <2>3. QED
    BY <1>1, <2>2
<1> HIDE DEF new
<1>4. proc'[p] = new /\ Others(p) /\ proc' \in [Procs -> Invocations]
  BY <1>2, <1>3 DEF TypeOK, Others
<1>5. QED
  BY <1>0, <1>3, <1>4

LEMMA SecondReportEffect ==
  ASSUME TypeOK, NEW p \in Procs, SecondReport(p)
  PROVE  /\ At(p, "reread") /\ UNCHANGED <<project, slice, ledgers, archives, cut, spent>>
         /\ \/ Ends(p)
            \/ /\ Free("controller") /\ Take(p, "controller") /\ Goes(p, "resnap")
               /\ SameEvent(p) /\ Eligible(p, LatestEvent(proc[p].change))
  BY GoFacts, LeaveFacts DEF SecondReport, Steps

LEMMA PublishArchiveEffect ==
  ASSUME TypeOK, NEW p \in Procs, PublishArchive(p)
  PROVE  /\ At(p, "publish") /\ UNCHANGED <<project, slice, ledgers, cut, spent>>
         /\ \/ Ends(p) /\ UNCHANGED archives
            \/ /\ Goes(p, "check") /\ UNCHANGED locks
               /\ archives' = [archives EXCEPT ![proc[p].change] = [event |-> proc[p].event, prepared |-> proc[p].plan]]
  BY GoFacts, LeaveFacts DEF PublishArchive, Derives, Steps

LEMMA CheckSpecsEffect ==
  ASSUME TypeOK, CarriedInvariant, NEW p \in Procs, CheckSpecs(p)
  PROVE  LET c == proc[p].change
             open == {s \in Touches[c] : specs[s] # Merged(c, s)}
         IN  /\ At(p, "check") /\ UNCHANGED <<project, slice, ledgers, archives, spent>>
             /\ \/ Ends(p) /\ (\E s \in Touches[c] : Conflicts(c, s)) /\ UNCHANGED cut
                \/ Ends(p) /\ open = {} /\ cut' = cut \ {c}
                \/ /\ UNCHANGED <<locks, cut>> /\ \A s \in Touches[c] : ~Conflicts(c, s)
                   /\ Others(p) /\ proc' \in [Procs -> Invocations] /\ proc'[p].at = "write"
                   /\ proc'[p].pending = open /\ Rest(proc'[p], proc[p])
<1> DEFINE c == proc[p].change
           open == {s \in Touches[c] : specs[s] # Merged(c, s)}
           new == [proc[p] EXCEPT !.at = "write", !.pending = open]
<1>0. At(p, "check") /\ UNCHANGED <<project, slice, ledgers, archives, spent>>
  BY DEF CheckSpecs
<1>1. open \in SUBSET Specs
  BY <1>0, TouchesAssumption DEF At, CarriedInvariant, Carries, Archiving
<1>2. \/ Leave(p) /\ (\E s \in Touches[c] : Conflicts(c, s)) /\ UNCHANGED cut
      \/ Leave(p) /\ open = {} /\ cut' = cut \ {c}
      \/ /\ UNCHANGED <<locks, cut>> /\ \A s \in Touches[c] : ~Conflicts(c, s)
         /\ proc' = [proc EXCEPT ![p] = new]
  BY DEF CheckSpecs
<1> HIDE DEF open
<1>3. new \in Invocations /\ new.at = "write" /\ new.pending = open /\ Rest(new, proc[p])
  <2>1. proc[p] \in Invocations /\ "write" \in Steps
    BY DEF TypeOK, Steps
  <2>3. QED
    BY <1>1, <2>1, UpdateFacts
<1> HIDE DEF new
<1>4. CASE Leave(p)
  <2>1. Ends(p)
    BY <1>4, LeaveFacts
  <2>2. \/ (\E s \in Touches[c] : Conflicts(c, s)) /\ UNCHANGED cut
        \/ open = {} /\ cut' = cut \ {c}
        \/ /\ UNCHANGED <<locks, cut>> /\ \A s \in Touches[c] : ~Conflicts(c, s)
           /\ proc' = [proc EXCEPT ![p] = new]
    BY <1>2
  <2>3. ~(proc' = [proc EXCEPT ![p] = new])
    BY <1>3, <2>1, IdleFacts DEF Ends, TypeOK
  <2>4. QED
    BY <1>0, <2>1, <2>2, <2>3 DEF open
<1>5. CASE /\ UNCHANGED <<locks, cut>> /\ \A s \in Touches[c] : ~Conflicts(c, s)
           /\ proc' = [proc EXCEPT ![p] = new]
  <2>1. proc'[p] = new /\ Others(p) /\ proc' \in [Procs -> Invocations]
    BY <1>3, <1>5 DEF TypeOK, Others
  <2>2. QED
    BY <1>0, <1>3, <1>5, <2>1 DEF open
<1>6. QED
  BY <1>2, <1>4, <1>5

LEMMA WriteSpecEffect ==
  ASSUME TypeOK, NEW p \in Procs, WriteSpec(p)
  PROVE  /\ At(p, "write") /\ UNCHANGED <<code, config, change, slice, ledgers, archives, spent>>
         /\ \E s \in proc[p].pending :
              /\ specs' = [specs EXCEPT ![s] = Merged(proc[p].change, s)]
              /\ \/ Ends(p) /\ proc[p].pending = {s} /\ cut' = cut \ {proc[p].change}
                 \/ /\ UNCHANGED <<locks, cut>>
                    /\ Others(p) /\ proc' \in [Procs -> Invocations] /\ proc'[p].at = "write"
                    /\ proc'[p].pending = proc[p].pending \ {s} /\ Rest(proc'[p], proc[p])
<1>0. At(p, "write") /\ UNCHANGED <<code, config, change, slice, ledgers, archives, spent>>
  BY DEF WriteSpec
<1>1. PICK s \in proc[p].pending :
        /\ specs' = [specs EXCEPT ![s] = Merged(proc[p].change, s)]
        /\ \/ proc[p].pending = {s} /\ Leave(p) /\ cut' = cut \ {proc[p].change}
           \/ proc' = [proc EXCEPT ![p].pending = @ \ {s}] /\ UNCHANGED <<locks, cut>>
  BY DEF WriteSpec
<1> DEFINE rest == proc[p].pending \ {s}
           new == [proc[p] EXCEPT !.pending = rest]
<1>2. rest \in SUBSET Specs /\ proc[p] \in Invocations
  BY DEF TypeOK, Invocations
<1> HIDE DEF rest
<1>3. new \in Invocations /\ new.at = proc[p].at /\ new.pending = rest /\ Rest(new, proc[p])
  <2>1. proc[p].at \in Steps
    BY <1>2 DEF Invocations
  <2>2. QED
    BY <1>2, <2>1, UpdateFacts
<1>4. CASE proc[p].pending = {s} /\ Leave(p) /\ cut' = cut \ {proc[p].change}
  BY <1>0, <1>1, <1>4, LeaveFacts
<1>5. CASE proc' = [proc EXCEPT ![p].pending = @ \ {s}] /\ UNCHANGED <<locks, cut>>
  <2>1. proc' = [proc EXCEPT ![p] = new]
    BY <1>5 DEF rest
  <2> HIDE DEF new
  <2>2. proc'[p] = new /\ Others(p) /\ proc' \in [Procs -> Invocations]
    BY <1>3, <2>1 DEF TypeOK, Others
  <2>3. QED
    BY <1>0, <1>1, <1>3, <1>5, <2>2 DEF rest, At
<1>6. QED
  BY <1>1, <1>4, <1>5

LEMMA ImportUsageEffect ==
  ASSUME TypeOK, NEW p \in Procs, ImportUsage(p)
  PROVE  /\ UNCHANGED <<project, slice, ledgers, archives, cut>> /\ Spend("starts") /\ spent.starts < MaxStarts
         /\ Free("usage") /\ Take(p, "usage") /\ UsageFits /\ Goes(p, "import")
  BY GoFacts DEF ImportUsage, Start, Steps

LEMMA AppendUsageEffect ==
  ASSUME TypeOK, NEW p \in Procs, AppendUsage(p)
  PROVE  /\ At(p, "import") /\ UNCHANGED <<project, slice, events, torn, archives, cut, spent>>
         /\ usage' = usage + 1 /\ Ends(p)
  BY LeaveFacts DEF AppendUsage

LEMMA CrashEffect ==
  ASSUME TypeOK, NEW p \in Procs, Crash(p)
  PROVE  /\ UNCHANGED <<project, slice, events, usage, archives, locks>> /\ Spend("crashes")
         /\ spent.crashes < MaxCrashes /\ torn' \subseteq {"events", "usage"}
         /\ cut' = cut \cup Unmerged(p)
         /\ Others(p) /\ proc' \in [Procs -> Invocations] /\ proc'[p].at = "crashed" /\ proc'[p].change = None
<1> DEFINE new == [Idle EXCEPT !.at = "crashed"]
<1>1. new \in Invocations /\ new.at = "crashed" /\ new.change = None
  BY IdleFacts DEF Idle, Invocations, Steps
<1>2. proc' = [proc EXCEPT ![p] = new]
  BY DEF Crash
<1> HIDE DEF new
<1>3. proc'[p] = new /\ Others(p) /\ proc' \in [Procs -> Invocations]
  BY <1>1, <1>2 DEF TypeOK, Others
<1>4. QED
  BY <1>1, <1>3 DEF Crash, CutOff, TypeOK, PartialLine

(* The operator's removal of locks and an error both end an invocation.    *)
LEMMA EndingEffect ==
  ASSUME TypeOK, NEW p \in Procs, RemoveLocks(p) \/ Fail(p)
  PROVE  UNCHANGED <<project, slice, events, usage, archives, spent>> /\ Ends(p)
  BY LeaveFacts DEF RemoveLocks, Fail, CutOff, ledgers

-----------------------------------------------------------------------------
(* Types                                                                   *)

LEMMA SpendFacts ==
  ASSUME TypeOK, NEW what \in {"edits", "reviews", "starts", "crashes"}, Spend(what),
         what = "edits" => spent.edits < MaxEdits,
         what = "reviews" => spent.reviews < MaxReviews,
         what = "starts" => spent.starts < MaxStarts,
         what = "crashes" => spent.crashes < MaxCrashes
  PROVE  /\ spent' \in [edits : 0..MaxEdits, reviews : 0..MaxReviews, starts : 0..MaxStarts,
                         crashes : 0..MaxCrashes]
         /\ spent'.edits = IF what = "edits" THEN spent.edits + 1 ELSE spent.edits
         /\ spent'.crashes = IF what = "crashes" THEN spent.crashes + 1 ELSE spent.crashes
         /\ spent'.edits \in Nat /\ spent.edits \in Nat
<1>1. CASE what = "edits"
  <2>1. spent' = [spent EXCEPT !.edits = spent.edits + 1]
    BY <1>1 DEF Spend
  <2>2. spent.edits + 1 \in 0..MaxEdits /\ spent.edits \in Nat
    BY <1>1, BoundsAssumption DEF TypeOK
  <2>3. spent' \in [edits : 0..MaxEdits, reviews : 0..MaxReviews, starts : 0..MaxStarts,
                    crashes : 0..MaxCrashes]
    BY <2>1, <2>2 DEF TypeOK
  <2>4. /\ spent'.edits = IF what = "edits" THEN spent.edits + 1 ELSE spent.edits
        /\ spent'.crashes = IF what = "crashes" THEN spent.crashes + 1 ELSE spent.crashes
    BY <1>1, <2>1 DEF TypeOK
  <2>5. QED
    BY <2>2, <2>3, <2>4
<1>2. CASE what = "reviews"
  <2>1. spent' = [spent EXCEPT !.reviews = spent.reviews + 1]
    BY <1>2 DEF Spend
  <2>2. spent.reviews + 1 \in 0..MaxReviews /\ spent.edits \in Nat
    BY <1>2, BoundsAssumption DEF TypeOK
  <2>3. spent' \in [edits : 0..MaxEdits, reviews : 0..MaxReviews, starts : 0..MaxStarts,
                    crashes : 0..MaxCrashes]
    BY <2>1, <2>2 DEF TypeOK
  <2>4. /\ spent'.edits = IF what = "edits" THEN spent.edits + 1 ELSE spent.edits
        /\ spent'.crashes = IF what = "crashes" THEN spent.crashes + 1 ELSE spent.crashes
    BY <1>2, <2>1 DEF TypeOK
  <2>5. QED
    BY <2>2, <2>3, <2>4
<1>3. CASE what = "starts"
  <2>1. spent' = [spent EXCEPT !.starts = spent.starts + 1]
    BY <1>3 DEF Spend
  <2>2. spent.starts + 1 \in 0..MaxStarts /\ spent.edits \in Nat
    BY <1>3, BoundsAssumption DEF TypeOK
  <2>3. spent' \in [edits : 0..MaxEdits, reviews : 0..MaxReviews, starts : 0..MaxStarts,
                    crashes : 0..MaxCrashes]
    BY <2>1, <2>2 DEF TypeOK
  <2>4. /\ spent'.edits = IF what = "edits" THEN spent.edits + 1 ELSE spent.edits
        /\ spent'.crashes = IF what = "crashes" THEN spent.crashes + 1 ELSE spent.crashes
    BY <1>3, <2>1 DEF TypeOK
  <2>5. QED
    BY <2>2, <2>3, <2>4
<1>4. CASE what = "crashes"
  <2>1. spent' = [spent EXCEPT !.crashes = spent.crashes + 1]
    BY <1>4 DEF Spend
  <2>2. spent.crashes + 1 \in 0..MaxCrashes /\ spent.edits \in Nat
    BY <1>4, BoundsAssumption DEF TypeOK
  <2>3. spent' \in [edits : 0..MaxEdits, reviews : 0..MaxReviews, starts : 0..MaxStarts,
                    crashes : 0..MaxCrashes]
    BY <2>1, <2>2 DEF TypeOK
  <2>4. /\ spent'.edits = IF what = "edits" THEN spent.edits + 1 ELSE spent.edits
        /\ spent'.crashes = IF what = "crashes" THEN spent.crashes + 1 ELSE spent.crashes
    BY <1>4, <2>1 DEF TypeOK
  <2>5. QED
    BY <2>2, <2>3, <2>4
<1>5. QED
  BY <1>1, <1>2, <1>3, <1>4

(* A lock changes hands only by its taker and its holder.                  *)
LEMMA TakeFacts ==
  ASSUME TypeOK, NEW p \in Procs, NEW l \in LockNames, Take(p, l)
  PROVE  /\ locks' \in [LockNames -> Procs \cup {None}]
         /\ locks'[l] = p /\ \A k \in LockNames \ {l} : locks'[k] = locks[k]
  BY DEF TypeOK, Take

LEMMA GiveUpFacts ==
  ASSUME TypeOK, NEW p \in Procs, GiveUp(p)
  PROVE  /\ locks' \in [LockNames -> Procs \cup {None}]
         /\ \A l \in LockNames, q \in Procs \ {p} : locks[l] = q => locks'[l] = q
  BY DEF TypeOK, GiveUp

(* A step of an invocation that writes no file keeps the types.            *)
LEMMA TypeKept ==
  ASSUME TypeOK, NEW p \in Procs, UNCHANGED <<project, slice, ledgers, archives, cut>>,
         proc' \in [Procs -> Invocations],
         UNCHANGED locks \/ GiveUp(p) \/ (\E l \in LockNames : Take(p, l)),
         UNCHANGED spent \/ (spent.starts < MaxStarts /\ Spend("starts"))
  PROVE  TypeOK'
<1>1. locks' \in [LockNames -> Procs \cup {None}]
  BY TakeFacts, GiveUpFacts DEF TypeOK
<1>2. spent' \in [edits : 0..MaxEdits, reviews : 0..MaxReviews, starts : 0..MaxStarts,
                  crashes : 0..MaxCrashes]
  BY SpendFacts DEF TypeOK
<1>3. UNCHANGED <<specs, code, config, change, slice, events, usage, torn, archives, cut>>
  BY DEF project, ledgers
<1>4. QED
  BY <1>1, <1>2, <1>3 DEF TypeOK

(* What the writers of the ledgers, the archive and the specifications     *)
(* write has its type.                                                     *)
LEMMA EventType ==
  ASSUME TypeOK, CarriedInvariant, NEW p \in Procs, proc[p].at = "append"
  PROVE  [change |-> proc[p].change, slice |-> proc[p].slice, candidate |-> proc[p].candidate,
          config |-> proc[p].config, report |-> proc[p].report] \in Events
<1>1. Carries(proc[p]) /\ proc[p] \in Invocations
  BY DEF CarriedInvariant, TypeOK
<1>2. /\ proc[p].change \in Changes /\ proc[p].slice \in Slices /\ proc[p].candidate \in Sources
      /\ proc[p].config \in 0..MaxEdits /\ proc[p].report \in 0..MaxImports
  BY <1>1 DEF Carries, Accepting, Invocations
<1>3. QED
  BY <1>2 DEF Events

LEMMA MergedType ==
  ASSUME TypeOK, CarriedInvariant, NEW c \in Changes, archives[c] # None, NEW s \in Touches[c]
  PROVE  s \in Specs /\ archives[c].prepared.base[s] \in Contents /\ Merged(c, s) \in Contents
<1>1. s \in Specs /\ archives[c] \in Archives /\ DOMAIN archives[c].prepared.base = Touches[c]
  BY TouchesAssumption DEF TypeOK, CarriedInvariant
<1>2. PICK S \in SUBSET Specs : archives[c].prepared.base \in [S -> Contents]
  BY <1>1 DEF Archives, Prepared
<1>3. archives[c].prepared.base[s] \in Contents
  BY <1>1, <1>2
<1>4. QED
  BY <1>1, <1>3 DEF Merged, Contents, Marks

LEMMA PreparedType ==
  ASSUME TypeOK, NEW c \in Changes, spent.edits + 1 \in 1..MaxEdits
  PROVE  [version |-> spent.edits + 1, base |-> [s \in Touches[c] |-> specs[s]]] \in Prepared
<1>1. Touches[c] \in SUBSET Specs
  BY TouchesAssumption
<1>2. [s \in Touches[c] |-> specs[s]] \in [Touches[c] -> Contents]
  BY <1>1 DEF TypeOK
<1>3. [s \in Touches[c] |-> specs[s]] \in UNION {[S -> Contents] : S \in SUBSET Specs}
  BY <1>1, <1>2
<1>4. QED
  BY <1>3 DEF Prepared

(* Types are kept.                                                         *)
LEMMA TypeStep ==
  ASSUME TypeOK, CarriedInvariant, ArchiveInvariant, HeldInvariant, [Next]_vars
  PROVE  TypeOK'
<1>1. ASSUME NEW p \in Procs, NEW c \in Changes, AcceptFeature(p, c) PROVE TypeOK'
  BY <1>1, AcceptFeatureEffect, TypeKept DEF LockNames
<1>2. ASSUME NEW p \in Procs, RetainSource(p) PROVE TypeOK'
  BY <1>2, RetainSourceEffect, TypeKept DEF LockNames, Ends, Goes
<1>3. ASSUME NEW p \in Procs, RetainConfig(p) PROVE TypeOK'
  BY <1>3, RetainConfigEffect, TypeKept DEF LockNames, Ends, Goes
<1>4. ASSUME NEW p \in Procs, 
              RunCheck(p) \/ VerifyConfig(p) \/ VerifySource(p) \/ Reinspect(p) \/ Recheck(p) \/ FinalRecheck(p) \/ SecondSource(p)
      PROVE  TypeOK'
  BY <1>4, CheckEffect, TypeKept DEF LockNames, Ends, Goes
<1>5. ASSUME NEW p \in Procs, FinalInspect(p) PROVE TypeOK'
  BY <1>5, FinalInspectEffect, TypeKept DEF LockNames, Ends, Goes
<1>6. ASSUME NEW p \in Procs, AppendEvent(p) PROVE TypeOK'
  <2>1. events' \in Seq(Events)
    <3>1. CASE UNCHANGED events
      BY <3>1 DEF TypeOK
    <3>2. CASE ~UNCHANGED events
      <4> DEFINE e == [change |-> proc[p].change, slice |-> proc[p].slice, candidate |-> proc[p].candidate,
                       config |-> proc[p].config, report |-> proc[p].report]
      <4>1. e \in Events
        BY <1>6, AppendEventEffect, EventType DEF At
      <4>2. events' = Append(events, e)
        BY <1>6, <3>2, AppendEventEffect
      <4> HIDE DEF e
      <4>3. QED
        BY <4>1, <4>2 DEF TypeOK
    <3>3. QED
      BY <3>1, <3>2
  <2>2. QED
    BY <1>6, <2>1, AppendEventEffect, GiveUpFacts DEF TypeOK, Ends, project, ledgers
<1>7. ASSUME NEW p \in Procs, NEW c \in Changes, ArchiveChange(p, c) PROVE TypeOK'
  BY <1>7, ArchiveChangeEffect, TypeKept DEF LockNames
<1>8. ASSUME NEW p \in Procs, FirstReport(p) PROVE TypeOK'
  BY <1>8, FirstReportEffect, TypeKept DEF LockNames, Ends, Goes
<1>9. ASSUME NEW p \in Procs, StageArchive(p) PROVE TypeOK'
  BY <1>9, StageArchiveEffect, TypeKept DEF LockNames, Ends, Goes
<1>10. ASSUME NEW p \in Procs, SecondReport(p) PROVE TypeOK'
  BY <1>10, SecondReportEffect, TypeKept DEF LockNames, Ends, Goes
<1>11. ASSUME NEW p \in Procs, PublishArchive(p) PROVE TypeOK'
  <2>1. Carries(proc[p]) /\ proc[p].at = "publish" /\ proc[p] \in Invocations
    BY <1>11, PublishArchiveEffect DEF CarriedInvariant, TypeOK, At
  <2>2. [event |-> proc[p].event, prepared |-> proc[p].plan] \in Archives
    <3>1. proc[p].event \in 1..MaxEvents /\ proc[p].plan \in Prepared
      BY <2>1, BoundsAssumption DEF Carries, Archiving, Planning, Invocations
    <3>2. QED
      BY <3>1 DEF Archives
  <2>3. archives' \in [Changes -> Archives \cup {None}]
    BY <1>11, <2>2, PublishArchiveEffect DEF TypeOK
  <2>4. QED
    BY <1>11, <2>3, PublishArchiveEffect, GiveUpFacts DEF TypeOK, Ends, project, ledgers, Goes
<1>12. ASSUME NEW p \in Procs, CheckSpecs(p) PROVE TypeOK'
  <2>1. cut' \subseteq Changes
    BY <1>12, CheckSpecsEffect DEF TypeOK
  <2>2. proc' \in [Procs -> Invocations] /\ (UNCHANGED locks \/ GiveUp(p))
    BY <1>12, CheckSpecsEffect DEF Ends
  <2>3. locks' \in [LockNames -> Procs \cup {None}]
    BY <2>2, GiveUpFacts DEF TypeOK
  <2>4. QED
    BY <1>12, <2>1, <2>2, <2>3, CheckSpecsEffect DEF TypeOK, project, ledgers
<1>13. ASSUME NEW p \in Procs, WriteSpec(p) PROVE TypeOK'
  <2>1. proc[p].at = "write" /\ proc[p].change \in Changes /\ archives[proc[p].change] # None
        /\ proc[p].pending \subseteq Touches[proc[p].change]
    BY <1>13, WriteSpecEffect DEF At, CarriedInvariant, Carries, Archiving, ArchiveInvariant, Archived
  <2>2. \A s \in proc[p].pending : s \in Specs /\ Merged(proc[p].change, s) \in Contents
    BY <2>1, MergedType
  <2>3. PICK s \in proc[p].pending :
          /\ specs' = [specs EXCEPT ![s] = Merged(proc[p].change, s)]
          /\ proc' \in [Procs -> Invocations] /\ (UNCHANGED locks \/ GiveUp(p)) /\ cut' \subseteq cut
    BY <1>13, WriteSpecEffect DEF Ends
  <2>4. specs' \in [Specs -> Contents] /\ locks' \in [LockNames -> Procs \cup {None}]
    BY <2>2, <2>3, GiveUpFacts DEF TypeOK
  <2>5. UNCHANGED <<code, config, change, slice, ledgers, archives, spent>>
    BY <1>13, WriteSpecEffect
  <2>6. QED
    BY <2>3, <2>4, <2>5 DEF TypeOK, ledgers
<1>14. ASSUME NEW p \in Procs, ImportUsage(p) PROVE TypeOK'
  BY <1>14, ImportUsageEffect, TypeKept DEF LockNames, Goes
<1>15. ASSUME NEW p \in Procs, AppendUsage(p) PROVE TypeOK'
  <2>1. usage' \in 0..MaxImports
    <3>1. usage < MaxImports /\ usage \in Nat
      BY <1>15, AppendUsageEffect DEF HeldInvariant, Held, At, TypeOK
    <3>2. QED
      BY <1>15, <3>1, AppendUsageEffect, BoundsAssumption
  <2>2. QED
    BY <1>15, <2>1, AppendUsageEffect, GiveUpFacts DEF TypeOK, Ends, project, ledgers
<1>16. ASSUME NEW p \in Procs, Crash(p) PROVE TypeOK'
  <2>1. cut' \subseteq Changes
    BY <1>16, CrashEffect DEF TypeOK, Unmerged, At, CarriedInvariant, Carries, Archiving
  <2>2. QED
    BY <1>16, <2>1, CrashEffect, SpendFacts DEF TypeOK, project
<1>17. ASSUME NEW p \in Procs, RemoveLocks(p) \/ Fail(p) PROVE TypeOK'
  <2>1. cut' \subseteq Changes
    BY <1>17 DEF TypeOK, RemoveLocks, Fail, CutOff, Unmerged, At, CarriedInvariant, Carries, Archiving
  <2>2. torn' \subseteq {"events", "usage"}
    BY <1>17 DEF TypeOK, RemoveLocks, Fail, CutOff, PartialLine, ledgers
  <2>3. QED
    BY <1>17, <2>1, <2>2, EndingEffect, GiveUpFacts DEF TypeOK, Ends, project
<1>18. ASSUME NEW c \in Changes, Prepare(c) PROVE TypeOK'
  <2>1. /\ change' = [change EXCEPT ![c] = [version |-> spent.edits + 1, base |-> [s \in Touches[c] |-> specs[s]]]]
        /\ spent.edits < MaxEdits /\ Spend("edits")
    BY <1>18 DEF Prepare, Edit
  <2>2. [version |-> spent.edits + 1, base |-> [s \in Touches[c] |-> specs[s]]] \in Prepared
    <3>1. spent.edits + 1 \in 1..MaxEdits
      BY <2>1, BoundsAssumption DEF TypeOK
    <3>2. QED
      BY <3>1, PreparedType
  <2>3. change' \in [Changes -> Prepared \cup {None}]
    BY <2>1, <2>2 DEF TypeOK
  <2>4. QED
    BY <1>18, <2>1, <2>3, SpendFacts DEF Prepare, TypeOK, ledgers
<1>19. ASSUME NEW c \in Changes, AcceptSlice(c) PROVE TypeOK'
  <2>1. change[c] \in Prepared /\ spent.reviews + 1 \in 1..MaxReviews
    BY <1>19, BoundsAssumption DEF AcceptSlice, Valid, TypeOK
  <2>2. [stamp |-> spent.reviews + 1, prepared |-> change[c]] \in Slices
    BY <2>1 DEF Slices
  <2>3. slice' \in [Changes -> Slices \cup {None}]
    BY <1>19, <2>2 DEF AcceptSlice, TypeOK
  <2>4. QED
    BY <1>19, <2>3, SpendFacts DEF AcceptSlice, TypeOK, project, ledgers
<1>20. ASSUME NEW s \in Specs, EditSpec(s) PROVE TypeOK'
  <2>1. spent.edits + 1 \in 1..MaxEdits
    BY <1>20, BoundsAssumption DEF EditSpec, Edit, TypeOK
  <2>2. specs' \in [Specs -> Contents]
    BY <1>20, <2>1 DEF EditSpec, TypeOK, Contents, Marks
  <2>3. QED
    BY <1>20, <2>2, SpendFacts DEF EditSpec, Edit, TypeOK, ledgers
<1>21. ASSUME EditCode \/ EditConfig PROVE TypeOK'
  <2>1. spent.edits + 1 \in 0..MaxEdits
    BY <1>21, BoundsAssumption DEF EditCode, EditConfig, Edit, TypeOK
  <2>2. QED
    BY <1>21, <2>1, SpendFacts DEF EditCode, EditConfig, Edit, TypeOK, ledgers
<1>22. ASSUME UNCHANGED vars PROVE TypeOK'
  BY <1>22 DEF vars, TypeOK
<1>23. QED
  BY <1>1, <1>2, <1>3, <1>4, <1>5, <1>6, <1>7, <1>8, <1>9, <1>10, <1>11, <1>12, <1>13,
     <1>14, <1>15, <1>16, <1>17, <1>18, <1>19, <1>20, <1>21, <1>22 DEF Next, Continue

-----------------------------------------------------------------------------
(* The locks                                                               *)

LEMMA LockedByOthers ==
  ASSUME LockInvariant, NEW p \in Procs, Others(p), Locked(proc'[p], p, locks'),
         \A l \in LockNames, q \in Procs \ {p} : locks[l] = q => locks'[l] = q
  PROVE  LockInvariant'
  BY DEF LockInvariant, Others, Locked, LockNames

LEMMA LockStep ==
  ASSUME TypeOK, CarriedInvariant, LockInvariant, [Next]_vars
  PROVE  LockInvariant'
<1> USE DEF Accepting, Publishing, Planning, Archiving, Metering, At
<1>0. \A q \in Procs : q # None /\ Locked(proc[q], q, locks)
  BY NoneAssumption DEF LockInvariant
<1>1. ASSUME NEW p \in Procs, NEW c \in Changes, AcceptFeature(p, c)
      PROVE  LockInvariant'
  <2>1. Locked(proc'[p], p, locks') /\ Others(p)
    BY <1>0, <1>1, AcceptFeatureEffect, TakeFacts, IdleFacts DEF LockNames, Ends, Goes, Free, Locked
  <2>2. \A l \in LockNames, q \in Procs \ {p} : locks[l] = q => locks'[l] = q
    BY <1>0, <1>1, AcceptFeatureEffect, TakeFacts, GiveUpFacts DEF LockNames, Ends, Free
  <2>3. QED
    BY <2>1, <2>2, LockedByOthers
<1>2. ASSUME NEW p \in Procs, RetainSource(p) PROVE LockInvariant'
  <2>1. Locked(proc'[p], p, locks') /\ Others(p)
    BY <1>0, <1>2, RetainSourceEffect, TakeFacts, IdleFacts DEF LockNames, Ends, Goes, Free, Locked
  <2>2. \A l \in LockNames, q \in Procs \ {p} : locks[l] = q => locks'[l] = q
    BY <1>0, <1>2, RetainSourceEffect, TakeFacts, GiveUpFacts DEF LockNames, Ends, Free
  <2>3. QED
    BY <2>1, <2>2, LockedByOthers
<1>3. ASSUME NEW p \in Procs, RetainConfig(p) PROVE LockInvariant'
  <2>1. Locked(proc'[p], p, locks') /\ Others(p)
    BY <1>0, <1>3, RetainConfigEffect, TakeFacts, IdleFacts DEF LockNames, Ends, Goes, Free, Locked
  <2>2. \A l \in LockNames, q \in Procs \ {p} : locks[l] = q => locks'[l] = q
    BY <1>0, <1>3, RetainConfigEffect, TakeFacts, GiveUpFacts DEF LockNames, Ends, Free
  <2>3. QED
    BY <2>1, <2>2, LockedByOthers
<1>4. ASSUME NEW p \in Procs, 
              RunCheck(p) \/ VerifyConfig(p) \/ VerifySource(p) \/ Reinspect(p) \/ Recheck(p) \/ FinalRecheck(p) \/ SecondSource(p)
      PROVE  LockInvariant'
  <2>1. Locked(proc'[p], p, locks') /\ Others(p)
    BY <1>0, <1>4, CheckEffect, TakeFacts, IdleFacts DEF LockNames, Ends, Goes, Free, Locked
  <2>2. \A l \in LockNames, q \in Procs \ {p} : locks[l] = q => locks'[l] = q
    BY <1>0, <1>4, CheckEffect, TakeFacts, GiveUpFacts DEF LockNames, Ends, Free
  <2>3. QED
    BY <2>1, <2>2, LockedByOthers
<1>5. ASSUME NEW p \in Procs, FinalInspect(p) PROVE LockInvariant'
  <2>1. Locked(proc'[p], p, locks') /\ Others(p)
    BY <1>0, <1>5, FinalInspectEffect, TakeFacts, IdleFacts DEF LockNames, Ends, Goes, Free, Locked
  <2>2. \A l \in LockNames, q \in Procs \ {p} : locks[l] = q => locks'[l] = q
    BY <1>0, <1>5, FinalInspectEffect, TakeFacts, GiveUpFacts DEF LockNames, Ends, Free
  <2>3. QED
    BY <2>1, <2>2, LockedByOthers
<1>6. ASSUME NEW p \in Procs, AppendEvent(p) PROVE LockInvariant'
  <2>1. Locked(proc'[p], p, locks') /\ Others(p)
    BY <1>0, <1>6, AppendEventEffect, TakeFacts, IdleFacts DEF LockNames, Ends, Goes, Free, Locked
  <2>2. \A l \in LockNames, q \in Procs \ {p} : locks[l] = q => locks'[l] = q
    BY <1>0, <1>6, AppendEventEffect, TakeFacts, GiveUpFacts DEF LockNames, Ends, Free
  <2>3. QED
    BY <2>1, <2>2, LockedByOthers
<1>7. ASSUME NEW p \in Procs, NEW c \in Changes, ArchiveChange(p, c)
      PROVE  LockInvariant'
  <2>1. Locked(proc'[p], p, locks') /\ Others(p)
    BY <1>0, <1>7, ArchiveChangeEffect, TakeFacts, IdleFacts DEF LockNames, Ends, Goes, Free, Locked
  <2>2. \A l \in LockNames, q \in Procs \ {p} : locks[l] = q => locks'[l] = q
    BY <1>0, <1>7, ArchiveChangeEffect, TakeFacts, GiveUpFacts DEF LockNames, Ends, Free
  <2>3. QED
    BY <2>1, <2>2, LockedByOthers
<1>8. ASSUME NEW p \in Procs, FirstReport(p) PROVE LockInvariant'
  <2>1. Locked(proc'[p], p, locks') /\ Others(p)
    BY <1>0, <1>8, FirstReportEffect, TakeFacts, IdleFacts DEF LockNames, Ends, Goes, Free, Locked
  <2>2. \A l \in LockNames, q \in Procs \ {p} : locks[l] = q => locks'[l] = q
    BY <1>0, <1>8, FirstReportEffect, TakeFacts, GiveUpFacts DEF LockNames, Ends, Free
  <2>3. QED
    BY <2>1, <2>2, LockedByOthers
<1>9. ASSUME NEW p \in Procs, StageArchive(p) PROVE LockInvariant'
  <2>1. Locked(proc'[p], p, locks') /\ Others(p)
    BY <1>0, <1>9, StageArchiveEffect, TakeFacts, IdleFacts DEF LockNames, Ends, Goes, Free, Locked
  <2>2. \A l \in LockNames, q \in Procs \ {p} : locks[l] = q => locks'[l] = q
    BY <1>0, <1>9, StageArchiveEffect, TakeFacts, GiveUpFacts DEF LockNames, Ends, Free
  <2>3. QED
    BY <2>1, <2>2, LockedByOthers
<1>10. ASSUME NEW p \in Procs, SecondReport(p) PROVE LockInvariant'
  <2>1. Locked(proc'[p], p, locks') /\ Others(p)
    BY <1>0, <1>10, SecondReportEffect, TakeFacts, IdleFacts DEF LockNames, Ends, Goes, Free, Locked
  <2>2. \A l \in LockNames, q \in Procs \ {p} : locks[l] = q => locks'[l] = q
    BY <1>0, <1>10, SecondReportEffect, TakeFacts, GiveUpFacts DEF LockNames, Ends, Free
  <2>3. QED
    BY <2>1, <2>2, LockedByOthers
<1>11. ASSUME NEW p \in Procs, PublishArchive(p) PROVE LockInvariant'
  <2>1. Locked(proc'[p], p, locks') /\ Others(p)
    BY <1>0, <1>11, PublishArchiveEffect, TakeFacts, IdleFacts DEF LockNames, Ends, Goes, Free, Locked
  <2>2. \A l \in LockNames, q \in Procs \ {p} : locks[l] = q => locks'[l] = q
    BY <1>0, <1>11, PublishArchiveEffect, TakeFacts, GiveUpFacts DEF LockNames, Ends, Free
  <2>3. QED
    BY <2>1, <2>2, LockedByOthers
<1>12. ASSUME NEW p \in Procs, CheckSpecs(p) PROVE LockInvariant'
  <2>1. Locked(proc'[p], p, locks') /\ Others(p)
    BY <1>0, <1>12, CheckSpecsEffect, TakeFacts, IdleFacts DEF LockNames, Ends, Goes, Free, Locked
  <2>2. \A l \in LockNames, q \in Procs \ {p} : locks[l] = q => locks'[l] = q
    BY <1>0, <1>12, CheckSpecsEffect, TakeFacts, GiveUpFacts DEF LockNames, Ends, Free
  <2>3. QED
    BY <2>1, <2>2, LockedByOthers
<1>13. ASSUME NEW p \in Procs, WriteSpec(p) PROVE LockInvariant'
  <2>1. Locked(proc'[p], p, locks') /\ Others(p)
    BY <1>0, <1>13, WriteSpecEffect, TakeFacts, IdleFacts DEF LockNames, Ends, Goes, Free, Locked
  <2>2. \A l \in LockNames, q \in Procs \ {p} : locks[l] = q => locks'[l] = q
    BY <1>0, <1>13, WriteSpecEffect, TakeFacts, GiveUpFacts DEF LockNames, Ends, Free
  <2>3. QED
    BY <2>1, <2>2, LockedByOthers
<1>14. ASSUME NEW p \in Procs, ImportUsage(p) PROVE LockInvariant'
  <2>1. Locked(proc'[p], p, locks') /\ Others(p)
    BY <1>0, <1>14, ImportUsageEffect, TakeFacts, IdleFacts DEF LockNames, Ends, Goes, Free, Locked
  <2>2. \A l \in LockNames, q \in Procs \ {p} : locks[l] = q => locks'[l] = q
    BY <1>0, <1>14, ImportUsageEffect, TakeFacts, GiveUpFacts DEF LockNames, Ends, Free
  <2>3. QED
    BY <2>1, <2>2, LockedByOthers
<1>15. ASSUME NEW p \in Procs, AppendUsage(p) PROVE LockInvariant'
  <2>1. Locked(proc'[p], p, locks') /\ Others(p)
    BY <1>0, <1>15, AppendUsageEffect, TakeFacts, IdleFacts DEF LockNames, Ends, Goes, Free, Locked
  <2>2. \A l \in LockNames, q \in Procs \ {p} : locks[l] = q => locks'[l] = q
    BY <1>0, <1>15, AppendUsageEffect, TakeFacts, GiveUpFacts DEF LockNames, Ends, Free
  <2>3. QED
    BY <2>1, <2>2, LockedByOthers
<1>16. ASSUME NEW p \in Procs, Crash(p) PROVE LockInvariant'
  <2>1. Locked(proc'[p], p, locks') /\ Others(p)
    BY <1>0, <1>16, CrashEffect, TakeFacts, IdleFacts DEF LockNames, Ends, Goes, Free, Locked
  <2>2. \A l \in LockNames, q \in Procs \ {p} : locks[l] = q => locks'[l] = q
    BY <1>0, <1>16, CrashEffect, TakeFacts, GiveUpFacts DEF LockNames, Ends, Free
  <2>3. QED
    BY <2>1, <2>2, LockedByOthers
<1>17. ASSUME NEW p \in Procs, RemoveLocks(p) \/ Fail(p) PROVE LockInvariant'
  <2>1. Locked(proc'[p], p, locks') /\ Others(p)
    BY <1>0, <1>17, EndingEffect, TakeFacts, IdleFacts DEF LockNames, Ends, Goes, Free, Locked
  <2>2. \A l \in LockNames, q \in Procs \ {p} : locks[l] = q => locks'[l] = q
    BY <1>0, <1>17, EndingEffect, TakeFacts, GiveUpFacts DEF LockNames, Ends, Free
  <2>3. QED
    BY <2>1, <2>2, LockedByOthers
<1>18. ASSUME NEW c \in Changes, Prepare(c) PROVE LockInvariant'
  BY <1>18 DEF Prepare, Edit, LockInvariant
<1>19. ASSUME NEW c \in Changes, AcceptSlice(c) PROVE LockInvariant'
  BY <1>19 DEF AcceptSlice, Edit, LockInvariant
<1>20. ASSUME NEW s \in Specs, EditSpec(s) PROVE LockInvariant'
  BY <1>20 DEF EditSpec, Edit, LockInvariant
<1>21. ASSUME EditCode \/ EditConfig PROVE LockInvariant'
  BY <1>21 DEF EditCode, EditConfig, Edit, LockInvariant
<1>22. ASSUME UNCHANGED vars PROVE LockInvariant'
  BY <1>22 DEF vars, LockInvariant
<1>23. QED
  BY <1>1, <1>2, <1>3, <1>4, <1>5, <1>6, <1>7, <1>8, <1>9, <1>10, <1>11, <1>12, <1>13,
     <1>14, <1>15, <1>16, <1>17, <1>18, <1>19, <1>20, <1>21, <1>22 DEF Next, Continue

-----------------------------------------------------------------------------
(* What an invocation carries                                              *)

LEMMA CarriedByOthers ==
  ASSUME CarriedInvariant, NEW p \in Procs, Others(p), Carries(proc'[p]), UNCHANGED <<change, archives, events>>,
         spent'.edits = spent.edits
  PROVE  CarriedInvariant'
<1>1. \A q \in Procs : Carries(proc'[q])
  BY DEF CarriedInvariant, Others
<1>2. QED
  BY <1>1 DEF CarriedInvariant, Carries

(* Nothing but an edit counts as one.                                      *)
LEMMA EditsKept ==
  ASSUME TypeOK, UNCHANGED spent \/ (spent.starts < MaxStarts /\ Spend("starts"))
                 \/ (spent.crashes < MaxCrashes /\ Spend("crashes"))
  PROVE  spent'.edits = spent.edits
  BY SpendFacts

LEMMA CarriedStep ==
  ASSUME TypeOK, CarriedInvariant, [Next]_vars
  PROVE  CarriedInvariant'
<1> USE DEF Accepting, Planning, Archiving, At
<1>0. \A q \in Procs : Carries(proc[q])
  BY DEF CarriedInvariant
<1>1. ASSUME NEW p \in Procs, NEW c \in Changes, AcceptFeature(p, c)
      PROVE  CarriedInvariant'
  <2>1. Carries(proc'[p]) /\ Others(p)
    <3>1. slice[c] \in Slices
      BY <1>1, AcceptFeatureEffect DEF SliceAccepted, TypeOK
    <3>2. QED
      BY <3>1, <1>1, AcceptFeatureEffect DEF Carries
  <2>2. UNCHANGED <<change, archives, events>> /\ spent'.edits = spent.edits
    BY <1>1, AcceptFeatureEffect, EditsKept DEF project, ledgers
  <2>3. QED
    BY <2>1, <2>2, CarriedByOthers
<1>2. ASSUME NEW p \in Procs, RetainSource(p) PROVE CarriedInvariant'
  <2>1. Carries(proc'[p]) /\ Others(p)
    BY <1>0, <1>2, RetainSourceEffect, SourceType, IdleFacts DEF Carries, Rest, Kept, Ends, Goes
  <2>2. UNCHANGED <<change, archives, events>> /\ spent'.edits = spent.edits
    BY <1>2, RetainSourceEffect, EditsKept DEF project, ledgers
  <2>3. QED
    BY <2>1, <2>2, CarriedByOthers
<1>3. ASSUME NEW p \in Procs, RetainConfig(p) PROVE CarriedInvariant'
  <2>1. Carries(proc'[p]) /\ Others(p)
    BY <1>0, <1>3, RetainConfigEffect, IdleFacts DEF Carries, Rest, Kept, Ends, Goes
  <2>2. UNCHANGED <<change, archives, events>> /\ spent'.edits = spent.edits
    BY <1>3, RetainConfigEffect, EditsKept DEF project, ledgers
  <2>3. QED
    BY <2>1, <2>2, CarriedByOthers
<1>4. ASSUME NEW p \in Procs, 
              RunCheck(p) \/ VerifyConfig(p) \/ VerifySource(p) \/ Reinspect(p) \/ Recheck(p) \/ FinalRecheck(p) \/ SecondSource(p)
      PROVE  CarriedInvariant'
  <2>1. Carries(proc'[p]) /\ Others(p)
    BY <1>0, <1>4, CheckEffect, IdleFacts DEF Carries, Rest, Kept, Ends, Goes
  <2>2. UNCHANGED <<change, archives, events>> /\ spent'.edits = spent.edits
    BY <1>4, CheckEffect, EditsKept DEF project, ledgers
  <2>3. QED
    BY <2>1, <2>2, CarriedByOthers
<1>5. ASSUME NEW p \in Procs, FinalInspect(p) PROVE CarriedInvariant'
  <2>1. Carries(proc'[p]) /\ Others(p)
    BY <1>0, <1>5, FinalInspectEffect, IdleFacts DEF Carries, Rest, Kept, Ends, Goes
  <2>2. UNCHANGED <<change, archives, events>> /\ spent'.edits = spent.edits
    BY <1>5, FinalInspectEffect, EditsKept DEF project, ledgers
  <2>3. QED
    BY <2>1, <2>2, CarriedByOthers
<1>6. ASSUME NEW p \in Procs, AppendEvent(p) PROVE CarriedInvariant'
  <2>1. Carries(proc'[p]) /\ Others(p)
    BY <1>6, AppendEventEffect, IdleFacts DEF Carries, Ends
  <2>2. \A q \in Procs : Carries(proc'[q])
    BY <1>0, <2>1 DEF Others
  <2>3. Len(events') <= MaxEvents
    <3>1. CASE UNCHANGED events
      BY <3>1 DEF CarriedInvariant
    <3>2. CASE ~UNCHANGED events
      <4>1. PICK e : events' = Append(events, e) /\ Len(events) < MaxEvents
        BY <1>6, <3>2, AppendEventEffect
      <4>2. QED
        BY <4>1, BoundsAssumption DEF TypeOK
    <3>3. QED
      BY <3>1, <3>2
  <2>4. UNCHANGED <<change, archives, spent>>
    BY <1>6, AppendEventEffect DEF project
  <2>5. QED
    BY <2>2, <2>3, <2>4 DEF CarriedInvariant, Carries
<1>7. ASSUME NEW p \in Procs, NEW c \in Changes, ArchiveChange(p, c)
      PROVE  CarriedInvariant'
  <2>1. Carries(proc'[p]) /\ Others(p)
    <3>1. change[c] \in Prepared /\ DOMAIN change[c].base = Touches[c]
      <4>1. change[c] # None
        <5>1. archives[c] # None => archives[c].prepared \in Prepared
          BY DEF TypeOK, Archives
        <5>2. QED
          BY <5>1, <1>7, ArchiveChangeEffect, NoneAssumption DEF Valid
      <4>2. QED
        BY <4>1 DEF CarriedInvariant, TypeOK
    <3>2. QED
      BY <3>1, <1>7, ArchiveChangeEffect DEF Carries
  <2>2. UNCHANGED <<change, archives, events>> /\ spent'.edits = spent.edits
    BY <1>7, ArchiveChangeEffect, EditsKept DEF project, ledgers
  <2>3. QED
    BY <2>1, <2>2, CarriedByOthers
<1>8. ASSUME NEW p \in Procs, FirstReport(p) PROVE CarriedInvariant'
  <2>1. Carries(proc'[p]) /\ Others(p)
    BY <1>0, <1>8, FirstReportEffect, IdleFacts DEF Carries, Rest, Kept, Ends, Goes
  <2>2. UNCHANGED <<change, archives, events>> /\ spent'.edits = spent.edits
    BY <1>8, FirstReportEffect, EditsKept DEF project, ledgers
  <2>3. QED
    BY <2>1, <2>2, CarriedByOthers
<1>9. ASSUME NEW p \in Procs, StageArchive(p) PROVE CarriedInvariant'
  <2>1. Carries(proc'[p]) /\ Others(p)
    BY <1>0, <1>9, StageArchiveEffect, IdleFacts DEF Carries, Rest, Kept, Ends, Goes
  <2>2. UNCHANGED <<change, archives, events>> /\ spent'.edits = spent.edits
    BY <1>9, StageArchiveEffect, EditsKept DEF project, ledgers
  <2>3. QED
    BY <2>1, <2>2, CarriedByOthers
<1>10. ASSUME NEW p \in Procs, SecondReport(p) PROVE CarriedInvariant'
  <2>1. Carries(proc'[p]) /\ Others(p)
    BY <1>0, <1>10, SecondReportEffect, IdleFacts DEF Carries, Rest, Kept, Ends, Goes
  <2>2. UNCHANGED <<change, archives, events>> /\ spent'.edits = spent.edits
    BY <1>10, SecondReportEffect, EditsKept DEF project, ledgers
  <2>3. QED
    BY <2>1, <2>2, CarriedByOthers
<1>11. ASSUME NEW p \in Procs, PublishArchive(p) PROVE CarriedInvariant'
  <2>1. Carries(proc'[p]) /\ Others(p)
    BY <1>0, <1>11, PublishArchiveEffect, IdleFacts DEF Carries, Rest, Kept, Ends, Goes
  <2>2. \A q \in Procs : Carries(proc'[q])
    BY <1>0, <2>1 DEF Others
  <2>3. UNCHANGED <<change, events, spent>>
    BY <1>11, PublishArchiveEffect DEF project, ledgers
  <2>4. ASSUME NEW c \in Changes, archives'[c] # None PROVE DOMAIN archives'[c].prepared.base = Touches[c]
    <3>1. CASE archives'[c] = archives[c]
      BY <2>4, <3>1 DEF CarriedInvariant
    <3>2. CASE archives'[c] # archives[c]
      <4>1. /\ archives' = [archives EXCEPT ![proc[p].change] = [event |-> proc[p].event, prepared |-> proc[p].plan]]
            /\ proc[p].at = "publish"
        BY <1>11, <3>2, PublishArchiveEffect
      <4>2. c = proc[p].change /\ archives'[c].prepared = proc[p].plan
        BY <3>2, <4>1 DEF TypeOK
      <4>3. QED
        BY <4>1, <4>2, <1>0 DEF Carries
    <3>3. QED
      BY <3>1, <3>2
  <2>5. QED
    BY <2>2, <2>3, <2>4 DEF CarriedInvariant, Carries
<1>12. ASSUME NEW p \in Procs, CheckSpecs(p) PROVE CarriedInvariant'
  <2>1. Carries(proc'[p]) /\ Others(p)
    BY <1>0, <1>12, CheckSpecsEffect, IdleFacts DEF Carries, Rest, Kept, Ends, Goes
  <2>2. UNCHANGED <<change, archives, events>> /\ spent'.edits = spent.edits
    BY <1>12, CheckSpecsEffect, EditsKept DEF project, ledgers
  <2>3. QED
    BY <2>1, <2>2, CarriedByOthers
<1>13. ASSUME NEW p \in Procs, WriteSpec(p) PROVE CarriedInvariant'
  <2>1. Carries(proc'[p]) /\ Others(p)
    <3>1. PICK s \in proc[p].pending :
            Ends(p) \/ (Others(p) /\ proc'[p].at = "write" /\ Rest(proc'[p], proc[p]))
      BY <1>13, WriteSpecEffect
    <3>2. QED
      BY <1>0, <1>13, <3>1, IdleFacts DEF WriteSpec, Carries, Rest, Ends
  <2>2. UNCHANGED <<change, archives, events>> /\ spent'.edits = spent.edits
    BY <1>13, WriteSpecEffect DEF ledgers
  <2>3. QED
    BY <2>1, <2>2, CarriedByOthers
<1>14. ASSUME NEW p \in Procs, ImportUsage(p) PROVE CarriedInvariant'
  <2>1. Carries(proc'[p]) /\ Others(p)
    BY <1>0, <1>14, ImportUsageEffect, IdleFacts DEF Carries, Rest, Kept, Ends, Goes
  <2>2. UNCHANGED <<change, archives, events>> /\ spent'.edits = spent.edits
    BY <1>14, ImportUsageEffect, EditsKept DEF project, ledgers
  <2>3. QED
    BY <2>1, <2>2, CarriedByOthers
<1>15. ASSUME NEW p \in Procs, AppendUsage(p) PROVE CarriedInvariant'
  <2>1. Carries(proc'[p]) /\ Others(p)
    BY <1>0, <1>15, AppendUsageEffect, IdleFacts DEF Carries, Rest, Kept, Ends, Goes
  <2>2. UNCHANGED <<change, archives, events>> /\ spent'.edits = spent.edits
    BY <1>15, AppendUsageEffect, EditsKept DEF project, ledgers
  <2>3. QED
    BY <2>1, <2>2, CarriedByOthers
<1>16. ASSUME NEW p \in Procs, Crash(p) PROVE CarriedInvariant'
  <2>1. Carries(proc'[p]) /\ Others(p)
    BY <1>0, <1>16, CrashEffect, IdleFacts DEF Carries, Rest, Kept, Ends, Goes
  <2>2. UNCHANGED <<change, archives, events>> /\ spent'.edits = spent.edits
    BY <1>16, CrashEffect, EditsKept DEF project, ledgers
  <2>3. QED
    BY <2>1, <2>2, CarriedByOthers
<1>17. ASSUME NEW p \in Procs, RemoveLocks(p) \/ Fail(p) PROVE CarriedInvariant'
  <2>1. Carries(proc'[p]) /\ Others(p)
    BY <1>0, <1>17, EndingEffect, IdleFacts DEF Carries, Rest, Kept, Ends, Goes
  <2>2. UNCHANGED <<change, archives, events>> /\ spent'.edits = spent.edits
    BY <1>17, EndingEffect, EditsKept DEF project, ledgers
  <2>3. QED
    BY <2>1, <2>2, CarriedByOthers
<1>18. ASSUME NEW c \in Changes, Prepare(c) PROVE CarriedInvariant'
  <2>1. /\ change' = [change EXCEPT ![c] = [version |-> spent.edits + 1, base |-> [s \in Touches[c] |-> specs[s]]]]
        /\ UNCHANGED <<archives, events, proc>> /\ spent'.edits = spent.edits + 1 /\ spent.edits \in Nat
    BY <1>18, SpendFacts DEF Prepare, Edit, ledgers
  <2>2. ASSUME NEW d \in Changes, change'[d] # None
        PROVE  DOMAIN change'[d].base = Touches[d] /\ change'[d].version <= spent'.edits
    <3>1. CASE d = c
      BY <2>1, <3>1 DEF TypeOK
    <3>2. CASE d # c
      <4>1. change'[d] = change[d] /\ change[d] \in Prepared /\ change[d].version \in Nat
        BY <2>1, <2>2, <3>2, BoundsAssumption DEF TypeOK, Prepared
      <4>2. QED
        BY <2>1, <2>2, <4>1, BoundsAssumption DEF CarriedInvariant
    <3>3. QED
      BY <3>1, <3>2
  <2>3. QED
    BY <2>1, <2>2 DEF CarriedInvariant, Carries
<1>19. ASSUME NEW c \in Changes, AcceptSlice(c) PROVE CarriedInvariant'
  <2>1. /\ UNCHANGED <<change, archives, events, proc>> /\ spent.edits \in Nat
        /\ spent'.edits \in {spent.edits, spent.edits + 1}
    BY <1>19, SpendFacts DEF AcceptSlice, ledgers, project
  <2>2. ASSUME NEW d \in Changes, change'[d] # None
        PROVE  DOMAIN change'[d].base = Touches[d] /\ change'[d].version <= spent'.edits
    <3>1. change[d].version \in Nat
      BY <2>1, <2>2, BoundsAssumption DEF TypeOK, Prepared
    <3>2. QED
      BY <2>1, <2>2, <3>1, BoundsAssumption DEF CarriedInvariant
  <2>3. QED
    BY <2>1, <2>2 DEF CarriedInvariant, Carries
<1>20. ASSUME NEW s \in Specs, EditSpec(s) PROVE CarriedInvariant'
  <2>1. /\ UNCHANGED <<change, archives, events, proc>> /\ spent.edits \in Nat
        /\ spent'.edits \in {spent.edits, spent.edits + 1}
    BY <1>20, SpendFacts DEF EditSpec, Edit, ledgers, project
  <2>2. ASSUME NEW d \in Changes, change'[d] # None
        PROVE  DOMAIN change'[d].base = Touches[d] /\ change'[d].version <= spent'.edits
    <3>1. change[d].version \in Nat
      BY <2>1, <2>2, BoundsAssumption DEF TypeOK, Prepared
    <3>2. QED
      BY <2>1, <2>2, <3>1, BoundsAssumption DEF CarriedInvariant
  <2>3. QED
    BY <2>1, <2>2 DEF CarriedInvariant, Carries
<1>21. ASSUME EditCode \/ EditConfig PROVE CarriedInvariant'
  <2>1. /\ UNCHANGED <<change, archives, events, proc>> /\ spent.edits \in Nat
        /\ spent'.edits \in {spent.edits, spent.edits + 1}
    BY <1>21, SpendFacts DEF EditCode, EditConfig, Edit, ledgers, project
  <2>2. ASSUME NEW d \in Changes, change'[d] # None
        PROVE  DOMAIN change'[d].base = Touches[d] /\ change'[d].version <= spent'.edits
    <3>1. change[d].version \in Nat
      BY <2>1, <2>2, BoundsAssumption DEF TypeOK, Prepared
    <3>2. QED
      BY <2>1, <2>2, <3>1, BoundsAssumption DEF CarriedInvariant
  <2>3. QED
    BY <2>1, <2>2 DEF CarriedInvariant, Carries
<1>22. ASSUME UNCHANGED vars PROVE CarriedInvariant'
  BY <1>22 DEF vars, CarriedInvariant, Carries
<1>23. QED
  BY <1>1, <1>2, <1>3, <1>4, <1>5, <1>6, <1>7, <1>8, <1>9, <1>10, <1>11, <1>12, <1>13,
     <1>14, <1>15, <1>16, <1>17, <1>18, <1>19, <1>20, <1>21, <1>22 DEF Next, Continue

-----------------------------------------------------------------------------
(* The archive                                                             *)

(* One invocation archives at a time.                                      *)
LEMMA OnlyArchiver ==
  ASSUME LockInvariant, NEW p \in Procs, proc[p].at \in Archiving,
         NEW q \in Procs, proc[q].at \in Archiving
  PROVE  p = q
  BY DEF LockInvariant, Locked

(* A step that writes neither specification nor archive.                   *)
LEMMA ArchivedByOthers ==
  ASSUME ArchiveInvariant, NEW p \in Procs, Others(p), UNCHANGED <<specs, archives>>,
         Archived(proc'[p], specs, archives)
  PROVE  ArchiveInvariant'
<1>1. \A q \in Procs : Archived(proc'[q], specs, archives)
  BY DEF ArchiveInvariant, Others
<1>2. QED
  BY <1>1 DEF ArchiveInvariant, Archived

LEMMA ArchivedGoesOn ==
  ASSUME NEW new, NEW inv, Archived(inv, specs, archives),
         new.at \notin Archiving \/ (new.at \in Planning /\ inv.at \in Planning /\ Rest(new, inv))
  PROVE  Archived(new, specs, archives)
  BY DEF Archived, Archiving, Planning, Rest

LEMMA ArchiveStep ==
  ASSUME TypeOK, CarriedInvariant, LockInvariant, ArchiveInvariant, [Next]_vars
  PROVE  ArchiveInvariant'
<1> USE DEF At
<1>0. \A q \in Procs : Archived(proc[q], specs, archives) /\ Carries(proc[q])
  BY DEF ArchiveInvariant, CarriedInvariant
<1>1. ASSUME NEW p \in Procs, NEW c \in Changes, AcceptFeature(p, c)
      PROVE  ArchiveInvariant'
  <2>1. Archived(proc'[p], specs, archives)
    <3>1. \/ proc'[p].at \notin Archiving
          \/ proc'[p].at \in Planning /\ proc[p].at \in Planning /\ Rest(proc'[p], proc[p])
      BY <1>1, AcceptFeatureEffect, IdleFacts DEF Archiving, Planning, Ends, Goes, Kept
    <3>2. QED
      BY <1>0, <3>1, ArchivedGoesOn
  <2>2. Others(p) /\ UNCHANGED <<specs, archives>>
    BY <1>1, AcceptFeatureEffect DEF project, Ends, Goes
  <2>3. QED
    BY <2>1, <2>2, ArchivedByOthers
<1>2. ASSUME NEW p \in Procs, RetainSource(p) PROVE ArchiveInvariant'
  <2>1. Archived(proc'[p], specs, archives)
    <3>1. \/ proc'[p].at \notin Archiving
          \/ proc'[p].at \in Planning /\ proc[p].at \in Planning /\ Rest(proc'[p], proc[p])
      BY <1>2, RetainSourceEffect, IdleFacts DEF Archiving, Planning, Ends, Goes, Kept
    <3>2. QED
      BY <1>0, <3>1, ArchivedGoesOn
  <2>2. Others(p) /\ UNCHANGED <<specs, archives>>
    BY <1>2, RetainSourceEffect DEF project, Ends, Goes
  <2>3. QED
    BY <2>1, <2>2, ArchivedByOthers
<1>3. ASSUME NEW p \in Procs, RetainConfig(p) PROVE ArchiveInvariant'
  <2>1. Archived(proc'[p], specs, archives)
    <3>1. \/ proc'[p].at \notin Archiving
          \/ proc'[p].at \in Planning /\ proc[p].at \in Planning /\ Rest(proc'[p], proc[p])
      BY <1>3, RetainConfigEffect, IdleFacts DEF Archiving, Planning, Ends, Goes, Kept
    <3>2. QED
      BY <1>0, <3>1, ArchivedGoesOn
  <2>2. Others(p) /\ UNCHANGED <<specs, archives>>
    BY <1>3, RetainConfigEffect DEF project, Ends, Goes
  <2>3. QED
    BY <2>1, <2>2, ArchivedByOthers
<1>4. ASSUME NEW p \in Procs, 
              RunCheck(p) \/ VerifyConfig(p) \/ VerifySource(p) \/ Reinspect(p) \/ Recheck(p) \/ FinalRecheck(p) \/ SecondSource(p)
      PROVE  ArchiveInvariant'
  <2>1. Archived(proc'[p], specs, archives)
    <3>1. \/ proc'[p].at \notin Archiving
          \/ proc'[p].at \in Planning /\ proc[p].at \in Planning /\ Rest(proc'[p], proc[p])
      BY <1>4, CheckEffect, IdleFacts DEF Archiving, Planning, Ends, Goes, Kept
    <3>2. QED
      BY <1>0, <3>1, ArchivedGoesOn
  <2>2. Others(p) /\ UNCHANGED <<specs, archives>>
    BY <1>4, CheckEffect DEF project, Ends, Goes
  <2>3. QED
    BY <2>1, <2>2, ArchivedByOthers
<1>5. ASSUME NEW p \in Procs, FinalInspect(p) PROVE ArchiveInvariant'
  <2>1. Archived(proc'[p], specs, archives)
    <3>1. \/ proc'[p].at \notin Archiving
          \/ proc'[p].at \in Planning /\ proc[p].at \in Planning /\ Rest(proc'[p], proc[p])
      BY <1>5, FinalInspectEffect, IdleFacts DEF Archiving, Planning, Ends, Goes, Kept
    <3>2. QED
      BY <1>0, <3>1, ArchivedGoesOn
  <2>2. Others(p) /\ UNCHANGED <<specs, archives>>
    BY <1>5, FinalInspectEffect DEF project, Ends, Goes
  <2>3. QED
    BY <2>1, <2>2, ArchivedByOthers
<1>6. ASSUME NEW p \in Procs, AppendEvent(p) PROVE ArchiveInvariant'
  <2>1. Archived(proc'[p], specs, archives)
    <3>1. \/ proc'[p].at \notin Archiving
          \/ proc'[p].at \in Planning /\ proc[p].at \in Planning /\ Rest(proc'[p], proc[p])
      BY <1>6, AppendEventEffect, IdleFacts DEF Archiving, Planning, Ends, Goes, Kept
    <3>2. QED
      BY <1>0, <3>1, ArchivedGoesOn
  <2>2. Others(p) /\ UNCHANGED <<specs, archives>>
    BY <1>6, AppendEventEffect DEF project, Ends, Goes
  <2>3. QED
    BY <2>1, <2>2, ArchivedByOthers
<1>7. ASSUME NEW p \in Procs, NEW c \in Changes, ArchiveChange(p, c)
      PROVE  ArchiveInvariant'
  <2>1. Archived(proc'[p], specs, archives)
    <3>1. CASE archives[c] = None /\ Valid(c) /\ proc'[p].at = "report"
      <4>1. ASSUME NEW s \in Touches[c] PROVE specs[s] = proc'[p].plan.base[s] /\ c \notin proc'[p].plan.base[s]
        <5>1. s \in Specs /\ specs[s] = change[c].base[s]
          BY <3>1, TouchesAssumption DEF Valid
        <5>2. QED
          BY <1>7, ArchiveChangeEffect, <3>1, <5>1 DEF ArchiveInvariant
      <4>2. QED
        BY <1>7, ArchiveChangeEffect, <3>1, <4>1 DEF Archived, Planning
    <3>2. CASE archives[c] # None /\ proc'[p].at = "check"
      BY <1>7, ArchiveChangeEffect, <3>2 DEF Archived, Planning
    <3>3. QED
      BY <1>7, <3>1, <3>2, ArchiveChangeEffect
  <2>2. Others(p) /\ UNCHANGED <<specs, archives>>
    BY <1>7, ArchiveChangeEffect DEF project
  <2>3. QED
    BY <2>1, <2>2, ArchivedByOthers
<1>8. ASSUME NEW p \in Procs, FirstReport(p) PROVE ArchiveInvariant'
  <2>1. Archived(proc'[p], specs, archives)
    <3>1. \/ proc'[p].at \notin Archiving
          \/ proc'[p].at \in Planning /\ proc[p].at \in Planning /\ Rest(proc'[p], proc[p])
      BY <1>8, FirstReportEffect, IdleFacts DEF Archiving, Planning, Ends, Goes, Kept
    <3>2. QED
      BY <1>0, <3>1, ArchivedGoesOn
  <2>2. Others(p) /\ UNCHANGED <<specs, archives>>
    BY <1>8, FirstReportEffect DEF project, Ends, Goes
  <2>3. QED
    BY <2>1, <2>2, ArchivedByOthers
<1>9. ASSUME NEW p \in Procs, StageArchive(p) PROVE ArchiveInvariant'
  <2>1. Archived(proc'[p], specs, archives)
    <3>1. \/ proc'[p].at \notin Archiving
          \/ proc'[p].at \in Planning /\ proc[p].at \in Planning /\ Rest(proc'[p], proc[p])
      BY <1>9, StageArchiveEffect, IdleFacts DEF Archiving, Planning, Ends, Goes, Kept
    <3>2. QED
      BY <1>0, <3>1, ArchivedGoesOn
  <2>2. Others(p) /\ UNCHANGED <<specs, archives>>
    BY <1>9, StageArchiveEffect DEF project, Ends, Goes
  <2>3. QED
    BY <2>1, <2>2, ArchivedByOthers
<1>10. ASSUME NEW p \in Procs, SecondReport(p) PROVE ArchiveInvariant'
  <2>1. Archived(proc'[p], specs, archives)
    <3>1. \/ proc'[p].at \notin Archiving
          \/ proc'[p].at \in Planning /\ proc[p].at \in Planning /\ Rest(proc'[p], proc[p])
      BY <1>10, SecondReportEffect, IdleFacts DEF Archiving, Planning, Ends, Goes, Kept
    <3>2. QED
      BY <1>0, <3>1, ArchivedGoesOn
  <2>2. Others(p) /\ UNCHANGED <<specs, archives>>
    BY <1>10, SecondReportEffect DEF project, Ends, Goes
  <2>3. QED
    BY <2>1, <2>2, ArchivedByOthers
<1>11. ASSUME NEW p \in Procs, PublishArchive(p) PROVE ArchiveInvariant'
  <2> DEFINE c == proc[p].change
             made == [event |-> proc[p].event, prepared |-> proc[p].plan]
  <2>0. proc[p].at = "publish" /\ proc[p].at \in Planning /\ c \in Changes /\ proc[p].plan \in Prepared
    BY <1>0, <1>11, PublishArchiveEffect DEF Planning, Archiving, Carries
  <2>1. CASE Ends(p) /\ UNCHANGED archives
    <3>1. Archived(proc'[p], specs, archives)
      BY <2>1, IdleFacts DEF Archived, Ends, Planning
    <3>2. QED
      BY <1>11, <2>1, <3>1, PublishArchiveEffect, ArchivedByOthers DEF Ends, project
  <2>2. CASE Goes(p, "check") /\ archives' = [archives EXCEPT ![c] = made]
    <3>1. UNCHANGED specs
      BY <1>11, PublishArchiveEffect DEF project
    <3>2. archives'[c] = made /\ made # None /\ made.prepared = proc[p].plan
          /\ \A d \in Changes \ {c} : archives'[d] = archives[d]
      <4>1. made \in Archives
        <5>1. proc[p].event \in 1..MaxEvents
          BY <1>0, <2>0, BoundsAssumption DEF Carries, Planning, TypeOK, Invocations
        <5>2. QED
          BY <2>0, <5>1 DEF Archives
      <4>2. archives'[c] = made /\ \A d \in Changes \ {c} : archives'[d] = archives[d]
        BY <2>0, <2>2 DEF TypeOK
      <4>3. QED
        BY <4>1, <4>2, NoneAssumption
    <3>3. \A s \in Touches[c] : c \notin made.prepared.base[s]
      <4>1. \A s \in Touches[c] : c \notin proc[p].plan.base[s]
        BY <1>0, <2>0 DEF Archived
      <4> HIDE DEF made
      <4>2. QED
        BY <3>2, <4>1
    <3>4. ASSUME NEW q \in Procs PROVE Archived(proc'[q], specs', archives')
      <4>1. CASE q = p
        BY <2>2, <3>2, <4>1 DEF Goes, Kept, Rest, Archived, Planning
      <4>2. CASE q # p
        <5>1. proc[q].at \notin Archiving /\ proc'[q] = proc[q]
          BY <2>0, <2>2, <4>2, OnlyArchiver DEF Goes, Others, Archiving
        <5>2. QED
          BY <5>1 DEF Archived, Archiving
      <4>3. QED
        BY <4>1, <4>2
    <3> HIDE DEF c, made
    <3>5. \A d \in Changes : archives'[d] # None => \A s \in Touches[d] : d \notin archives'[d].prepared.base[s]
      BY <3>2, <3>3 DEF ArchiveInvariant
    <3>6. \A s \in Specs, d \in Changes : d \in specs'[s] => archives'[d] # None
      BY <3>1, <3>2 DEF ArchiveInvariant
    <3>7. QED
      BY <3>4, <3>5, <3>6 DEF ArchiveInvariant, Archived
  <2>3. QED
    BY <1>11, <2>1, <2>2, PublishArchiveEffect
<1>12. ASSUME NEW p \in Procs, CheckSpecs(p) PROVE ArchiveInvariant'
  <2> DEFINE c == proc[p].change
             open == {s \in Touches[c] : specs[s] # Merged(c, s)}
  <2>1. UNCHANGED <<specs, archives>>
    BY <1>12, CheckSpecsEffect DEF project
  <2>2. CASE Ends(p)
    <3>1. Archived(proc'[p], specs, archives)
      BY <2>2, IdleFacts DEF Archived, Ends, Planning
    <3>2. QED
      BY <2>1, <2>2, <3>1, ArchivedByOthers DEF Ends
  <2>3. CASE ~Ends(p)
    <3>1. /\ \A s \in Touches[c] : ~Conflicts(c, s)
          /\ Others(p) /\ proc'[p].at = "write" /\ proc'[p].pending = open /\ Rest(proc'[p], proc[p])
      BY <1>12, <2>3, CheckSpecsEffect
    <3>2. archives[c] # None
      BY <1>0, <1>12, CheckSpecsEffect DEF Archived
    <3>3. \A s \in open : specs[s] = archives[c].prepared.base[s]
      BY <3>1 DEF Conflicts
    <3>4. Archived(proc'[p], specs, archives)
      BY <3>1, <3>2, <3>3 DEF Archived, Rest, Planning
    <3>5. QED
      BY <2>1, <3>1, <3>4, ArchivedByOthers
  <2>4. QED
    BY <2>2, <2>3
<1>13. ASSUME NEW p \in Procs, WriteSpec(p) PROVE ArchiveInvariant'
  <2> DEFINE c == proc[p].change
  <2>1. PICK s \in proc[p].pending :
          /\ specs' = [specs EXCEPT ![s] = Merged(c, s)]
          /\ \/ Ends(p)
             \/ Others(p) /\ proc'[p].at = "write" /\ proc'[p].pending = proc[p].pending \ {s} /\ Rest(proc'[p], proc[p])
    BY <1>13, WriteSpecEffect
  <2>2. /\ proc[p].at = "write" /\ c \in Changes /\ archives[c] # None /\ s \in Touches[c] /\ s \in Specs
        /\ UNCHANGED archives /\ proc[p].pending \subseteq Touches[c] /\ proc[p].pending \subseteq Specs
        /\ \A t \in proc[p].pending : archives[c].prepared.base[t] \cap Changes = specs[t] \cap Changes
    BY <1>0, <1>13, WriteSpecEffect, TouchesAssumption DEF Archived, Carries, Archiving
  <2>3. /\ specs'[s] = archives[c].prepared.base[s] \cup {c}
        /\ \A t \in Specs \ {s} : specs'[t] = specs[t]
    BY <2>1, <2>2 DEF TypeOK, Merged
  <2>4. ASSUME NEW q \in Procs PROVE Archived(proc'[q], specs', archives')
    <3>1. CASE q # p
      <4>1. proc[q].at \notin Archiving /\ proc'[q] = proc[q]
        BY <2>1, <2>2, <3>1, OnlyArchiver DEF Ends, Others, Archiving
      <4>2. QED
        BY <4>1 DEF Archived, Archiving
    <3>2. CASE q = p /\ Ends(p)
      BY <3>2, IdleFacts DEF Archived, Ends, Planning
    <3>3. CASE q = p /\ ~Ends(p)
      BY <2>1, <2>2, <2>3, <3>3 DEF Archived, Rest, Planning
    <3>4. QED
      BY <3>1, <3>2, <3>3
  <2> HIDE DEF c
  <2>5. ASSUME NEW t \in Specs, NEW d \in Changes, d \in specs'[t] PROVE archives'[d] # None
    <3>1. t = s /\ d # c => d \in specs[t]
      BY <2>2, <2>3, <2>5
    <3>2. QED
      BY <2>2, <2>3, <2>5, <3>1 DEF ArchiveInvariant
  <2>6. \A d \in Changes : archives'[d] # None => \A t \in Touches[d] : d \notin archives'[d].prepared.base[t]
    BY <2>2 DEF ArchiveInvariant
  <2>7. QED
    BY <2>4, <2>5, <2>6 DEF ArchiveInvariant, Archived
<1>14. ASSUME NEW p \in Procs, ImportUsage(p) PROVE ArchiveInvariant'
  <2>1. Archived(proc'[p], specs, archives)
    <3>1. \/ proc'[p].at \notin Archiving
          \/ proc'[p].at \in Planning /\ proc[p].at \in Planning /\ Rest(proc'[p], proc[p])
      BY <1>14, ImportUsageEffect, IdleFacts DEF Archiving, Planning, Ends, Goes, Kept
    <3>2. QED
      BY <1>0, <3>1, ArchivedGoesOn
  <2>2. Others(p) /\ UNCHANGED <<specs, archives>>
    BY <1>14, ImportUsageEffect DEF project, Ends, Goes
  <2>3. QED
    BY <2>1, <2>2, ArchivedByOthers
<1>15. ASSUME NEW p \in Procs, AppendUsage(p) PROVE ArchiveInvariant'
  <2>1. Archived(proc'[p], specs, archives)
    <3>1. \/ proc'[p].at \notin Archiving
          \/ proc'[p].at \in Planning /\ proc[p].at \in Planning /\ Rest(proc'[p], proc[p])
      BY <1>15, AppendUsageEffect, IdleFacts DEF Archiving, Planning, Ends, Goes, Kept
    <3>2. QED
      BY <1>0, <3>1, ArchivedGoesOn
  <2>2. Others(p) /\ UNCHANGED <<specs, archives>>
    BY <1>15, AppendUsageEffect DEF project, Ends, Goes
  <2>3. QED
    BY <2>1, <2>2, ArchivedByOthers
<1>16. ASSUME NEW p \in Procs, Crash(p) PROVE ArchiveInvariant'
  <2>1. Archived(proc'[p], specs, archives)
    <3>1. \/ proc'[p].at \notin Archiving
          \/ proc'[p].at \in Planning /\ proc[p].at \in Planning /\ Rest(proc'[p], proc[p])
      BY <1>16, CrashEffect, IdleFacts DEF Archiving, Planning, Ends, Goes, Kept
    <3>2. QED
      BY <1>0, <3>1, ArchivedGoesOn
  <2>2. Others(p) /\ UNCHANGED <<specs, archives>>
    BY <1>16, CrashEffect DEF project, Ends, Goes
  <2>3. QED
    BY <2>1, <2>2, ArchivedByOthers
<1>17. ASSUME NEW p \in Procs, RemoveLocks(p) \/ Fail(p) PROVE ArchiveInvariant'
  <2>1. Archived(proc'[p], specs, archives)
    <3>1. \/ proc'[p].at \notin Archiving
          \/ proc'[p].at \in Planning /\ proc[p].at \in Planning /\ Rest(proc'[p], proc[p])
      BY <1>17, EndingEffect, IdleFacts DEF Archiving, Planning, Ends, Goes, Kept
    <3>2. QED
      BY <1>0, <3>1, ArchivedGoesOn
  <2>2. Others(p) /\ UNCHANGED <<specs, archives>>
    BY <1>17, EndingEffect DEF project, Ends, Goes
  <2>3. QED
    BY <2>1, <2>2, ArchivedByOthers
<1>18. ASSUME NEW c \in Changes, Prepare(c) PROVE ArchiveInvariant'
  <2>1. UNCHANGED <<specs, archives, proc>>
    BY <1>18 DEF Prepare
  <2>2. QED
    BY <2>1 DEF ArchiveInvariant, Archived
<1>19. ASSUME NEW c \in Changes, AcceptSlice(c) PROVE ArchiveInvariant'
  <2>1. UNCHANGED <<specs, archives, proc>>
    BY <1>19 DEF AcceptSlice, project
  <2>2. QED
    BY <2>1 DEF ArchiveInvariant, Archived
<1>20. ASSUME NEW s \in Specs, EditSpec(s) PROVE ArchiveInvariant'
  <2>1. /\ spent.edits + 1 \in 1..MaxEdits /\ UNCHANGED <<archives, proc>>
        /\ specs' = [specs EXCEPT ![s] = @ \cup {spent.edits + 1}]
    BY <1>20, BoundsAssumption DEF EditSpec, Edit, TypeOK
  <2>2. PICK mark : mark \notin Changes /\ specs' = [specs EXCEPT ![s] = @ \cup {mark}]
    BY <2>1, MarksAssumption
  <2>3. specs'[s] = specs[s] \cup {mark} /\ \A t \in Specs \ {s} : specs'[t] = specs[t]
    BY <2>2 DEF TypeOK
  <2>4. \A t \in Specs : /\ specs'[t] \cap Changes = specs[t] \cap Changes
                         /\ specs'[t] = specs[t] \/ ~(specs'[t] \subseteq Changes)
    BY <2>2, <2>3
  <2>5. ASSUME NEW q \in Procs PROVE Archived(proc'[q], specs', archives')
    <3>1. proc[q].at \in Archiving => Touches[proc[q].change] \subseteq Specs
      BY <1>0, TouchesAssumption DEF Carries
    <3>2. proc[q].at \in Planning => Archived(proc'[q], specs', archives')
      <4>1. \A t \in Specs : ~(specs[t] \subseteq Changes) => ~(specs'[t] \subseteq Changes)
        BY <2>3
      <4>2. QED
        BY <1>0, <2>1, <2>4, <3>1, <4>1 DEF Archived, Planning, Archiving
    <3>3. proc[q].at \notin Planning => Archived(proc'[q], specs', archives')
      BY <1>0, <2>1, <2>4, <3>1 DEF Archived, Archiving
    <3>4. QED
      BY <3>2, <3>3
  <2>6. \A t \in Specs, d \in Changes : d \in specs'[t] => archives'[d] # None
    BY <2>1, <2>4 DEF ArchiveInvariant
  <2>7. QED
    BY <2>1, <2>5, <2>6 DEF ArchiveInvariant, Archived
<1>21. ASSUME EditCode \/ EditConfig PROVE ArchiveInvariant'
  <2>1. UNCHANGED <<specs, archives, proc>>
    BY <1>21 DEF EditCode, EditConfig
  <2>2. QED
    BY <2>1 DEF ArchiveInvariant, Archived
<1>22. ASSUME UNCHANGED vars PROVE ArchiveInvariant'
  <2>1. UNCHANGED <<specs, archives, proc>>
    BY <1>22 DEF vars
  <2>2. QED
    BY <2>1 DEF ArchiveInvariant, Archived
<1>23. QED
  BY <1>1, <1>2, <1>3, <1>4, <1>5, <1>6, <1>7, <1>8, <1>9, <1>10, <1>11, <1>12, <1>13,
     <1>14, <1>15, <1>16, <1>17, <1>18, <1>19, <1>20, <1>21, <1>22 DEF Next, Continue

-----------------------------------------------------------------------------
(* Nothing comes back                                                      *)

LEMMA BeforeOrder ==
  ASSUME NEW a, NEW b, NEW c
  PROVE  /\ Before(a, a)
         /\ Before(a, b) /\ Before(b, c) => Before(a, c)
         /\ Before(a, b) /\ Before(b, a) => a = b
<1>1. Before(a, a)
  BY DEF Before
<1>2. Before(a, b) /\ Before(b, c) => Before(a, c)
  BY DEF Before
<1>3. Before(a, b) /\ Before(b, a) => a = b
  BY DEF Before
<1>4. QED
  BY <1>1, <1>2, <1>3

LEMMA OlderOrder ==
  ASSUME NEW a \in Prepared \cup {None}, NEW b \in Prepared \cup {None}, NEW c \in Prepared \cup {None}
  PROVE  /\ Older(a, a)
         /\ Older(a, b) /\ Older(b, c) => Older(a, c)
         /\ Older(a, b) /\ Older(b, a) => a = b
<1>1. \A x \in {a, b, c} : x # None => x.version \in Nat
  BY BoundsAssumption DEF Prepared
<1>2. QED
  BY <1>1 DEF Older

LEMMA SpecsForward ==
  ASSUME TypeOK, CarriedInvariant, ArchiveInvariant, [Next]_vars, NEW s \in Specs
  PROVE  Before(specs[s], specs'[s])
<1>1. UNCHANGED specs => Before(specs[s], specs'[s])
  BY BeforeOrder
<1>2. ASSUME NEW t \in Specs, EditSpec(t) PROVE Before(specs[s], specs'[s])
  <2>1. spent.edits + 1 \in 1..MaxEdits /\ specs' = [specs EXCEPT ![t] = @ \cup {spent.edits + 1}]
    BY <1>2, BoundsAssumption DEF EditSpec, Edit, TypeOK
  <2>2. PICK mark : mark \notin Changes /\ specs' = [specs EXCEPT ![t] = @ \cup {mark}]
    BY <2>1, MarksAssumption
  <2>3. specs'[s] = specs[s] \/ specs'[s] = specs[s] \cup {mark}
    BY <2>2 DEF TypeOK
  <2>4. QED
    BY <2>2, <2>3 DEF Before
<1>3. ASSUME NEW p \in Procs, WriteSpec(p) PROVE Before(specs[s], specs'[s])
  <2> DEFINE c == proc[p].change
  <2>1. PICK t \in proc[p].pending : specs' = [specs EXCEPT ![t] = Merged(c, t)]
    BY <1>3 DEF WriteSpec
  <2>2. Archived(proc[p], specs, archives) /\ proc[p].at = "write" /\ c \in Changes
    BY <1>3 DEF ArchiveInvariant, CarriedInvariant, Carries, Archiving, WriteSpec, At
  <2>3. /\ archives[c].prepared.base[t] \cap Changes = specs[t] \cap Changes
        /\ archives[c] # None /\ t \in Touches[c]
    BY <2>2 DEF Archived
  <2>4. c \notin archives[c].prepared.base[t]
    BY <2>2, <2>3 DEF ArchiveInvariant
  <2>5. specs'[s] = specs[s] \/ (s = t /\ specs'[s] = archives[c].prepared.base[s] \cup {c})
    BY <2>1 DEF TypeOK, Merged
  <2> DEFINE base == archives[c].prepared.base[t]
  <2> HIDE DEF c, base
  <2>6. CASE specs'[s] = specs[s]
    BY <2>6, BeforeOrder
  <2>7. CASE s = t /\ specs'[s] = base \cup {c}
    <3>1. base \cap Changes = specs[s] \cap Changes /\ c \notin base /\ c \in Changes
      BY <2>2, <2>3, <2>4, <2>7 DEF base
    <3>2. /\ specs[s] \cap Changes \subseteq specs'[s] \cap Changes
          /\ c \in specs'[s] \cap Changes /\ c \notin specs[s] \cap Changes
      BY <2>7, <3>1
    <3>3. QED
      BY <3>2 DEF Before
  <2>8. QED
    BY <2>5, <2>6, <2>7 DEF base
<1>4. UNCHANGED specs \/ (\E t \in Specs : EditSpec(t)) \/ (\E p \in Procs : WriteSpec(p))
  <2>1. ASSUME NEW p \in Procs, Continue(p) PROVE UNCHANGED specs \/ WriteSpec(p)
    BY <2>1 DEF Continue, RetainSource, RetainConfig, RunCheck, VerifyConfig, VerifySource, Reinspect, Recheck,
                FinalInspect, FinalRecheck, AppendEvent, FirstReport, StageArchive, SecondReport, SecondSource,
                PublishArchive, CheckSpecs, AppendUsage, project
  <2>2. QED
    BY <2>1 DEF Next, vars, Prepare, AcceptSlice, EditCode, EditConfig, Fail, Crash, CutOff, RemoveLocks, ImportUsage,
                AcceptFeature, ArchiveChange, project
<1>5. QED
  BY <1>1, <1>2, <1>3, <1>4

LEMMA ChangeForward ==
  ASSUME TypeOK, CarriedInvariant, [Next]_vars, NEW c \in Changes
  PROVE  Older(change[c], change'[c])
<1>1. UNCHANGED change => Older(change[c], change'[c])
  BY DEF Older
<1>2. ASSUME NEW d \in Changes, Prepare(d) PROVE Older(change[c], change'[c])
  <2>1. CASE c = d
    <3>1. change'[c].version = spent.edits + 1
      BY <1>2, <2>1 DEF Prepare, TypeOK
    <3>2. change'[c] # None
      <4> DEFINE new == [version |-> spent.edits + 1, base |-> [s \in Touches[d] |-> specs[s]]]
      <4>1. change' = [change EXCEPT ![d] = new] /\ spent.edits + 1 \in 1..MaxEdits
        BY <1>2, BoundsAssumption DEF Prepare, Edit, TypeOK
      <4>2. new \in Prepared
        BY <4>1, PreparedType
      <4> HIDE DEF new
      <4>3. QED
        BY <2>1, <4>1, <4>2, NoneAssumption DEF TypeOK
    <3>3. change[c] # None => change[c].version <= spent.edits /\ change[c].version \in Nat /\ spent.edits \in Nat
      BY BoundsAssumption DEF CarriedInvariant, TypeOK, Prepared
    <3>4. QED
      BY <3>1, <3>2, <3>3 DEF Older
  <2>2. CASE c # d
    BY <1>2, <2>2 DEF Prepare, TypeOK, Older
  <2>3. QED
    BY <2>1, <2>2
<1>3. UNCHANGED change \/ \E d \in Changes : Prepare(d)
  <2>1. ASSUME NEW p \in Procs, Continue(p) PROVE UNCHANGED change
    BY <2>1 DEF Continue, RetainSource, RetainConfig, RunCheck, VerifyConfig, VerifySource, Reinspect, Recheck,
                FinalInspect, FinalRecheck, AppendEvent, FirstReport, StageArchive, SecondReport, SecondSource,
                PublishArchive, CheckSpecs, WriteSpec, AppendUsage, project
  <2>2. QED
    BY <2>1 DEF Next, vars, AcceptSlice, EditSpec, EditCode, EditConfig, Fail, Crash, CutOff, RemoveLocks, ImportUsage,
                AcceptFeature, ArchiveChange, project
<1>4. QED
  BY <1>1, <1>2, <1>3

-----------------------------------------------------------------------------
(* Accepted together                                                       *)

(* What an acceptance knows survives every change of the project.          *)
LEMMA AcceptsForward ==
  ASSUME TypeOK, CarriedInvariant, ArchiveInvariant, [Next]_vars, TypeOK',
         NEW inv, Carries(inv), Accepts(inv, specs, change)
  PROVE  Accepts(inv, specs', change')
<1> DEFINE c == inv.change
           prepared == inv.slice.prepared
<1>1. SUFFICES ASSUME inv.at \in Accepting \ {"snapshot"} PROVE Accepts(inv, specs', change')
  BY DEF Accepts, Accepting
<1>2. c \in Changes /\ inv.slice \in Slices /\ inv.candidate \in Sources
  BY <1>1 DEF Carries
<1>3. /\ \A s \in Specs : Before(specs[s], specs'[s])
      /\ Older(change[c], change'[c]) /\ Touches[c] \subseteq Specs
  BY <1>2, SpecsForward, ChangeForward, TouchesAssumption
<1>4. {inv.candidate.change[c], change[c], change'[c], prepared} \subseteq Prepared \cup {None}
  <2>1. change[c] \in Prepared \cup {None} /\ change'[c] \in Prepared \cup {None}
    BY <1>2 DEF TypeOK
  <2>2. inv.candidate.change[c] \in Prepared \cup {None} /\ prepared \in Prepared
    BY <1>2 DEF Sources, Slices
  <2>3. QED
    BY <2>1, <2>2
<1>5. /\ \A s \in Specs : Before(inv.candidate.specs[s], specs'[s])
      /\ Older(inv.candidate.change[c], change'[c])
  <2>1. /\ \A s \in Specs : Before(inv.candidate.specs[s], specs[s])
        /\ Older(inv.candidate.change[c], change[c])
    BY <1>1 DEF Accepts
  <2>2. \A s \in Specs : Before(inv.candidate.specs[s], specs'[s])
    BY <1>3, <2>1, BeforeOrder
  <2>3. Older(inv.candidate.change[c], change'[c])
    BY <1>3, <1>4, <2>1, OlderOrder
  <2>4. QED
    BY <2>2, <2>3
<1>6. ASSUME inv.at \in {"recheck", "final", "confirm", "append"}
      PROVE  (\A s \in Touches[c] : Before(prepared.base[s], specs'[s])) /\ Older(prepared, change'[c])
  <2>1. (\A s \in Touches[c] : Before(prepared.base[s], specs[s])) /\ Older(prepared, change[c])
    BY <1>6 DEF Accepts
  <2>2. \A s \in Touches[c] : Before(prepared.base[s], specs'[s])
    BY <1>3, <2>1, BeforeOrder
  <2>3. Older(prepared, change'[c])
    BY <1>3, <1>4, <2>1, OlderOrder
  <2>4. QED
    BY <2>2, <2>3
<1>7. QED
  BY <1>5, <1>6 DEF Accepts

LEMMA AcceptedByOthers ==
  ASSUME TypeOK, CarriedInvariant, ArchiveInvariant, AcceptInvariant, [Next]_vars, TypeOK',
         NEW p \in Procs, Others(p), Accepts(proc'[p], specs', change'), AcceptedTogether'
  PROVE  AcceptInvariant'
<1>1. ASSUME NEW q \in Procs PROVE Accepts(proc'[q], specs', change')
  <2>1. Carries(proc[q]) /\ Accepts(proc[q], specs, change)
    BY DEF CarriedInvariant, AcceptInvariant
  <2>2. Accepts(proc[q], specs', change')
    BY <2>1, AcceptsForward
  <2>3. QED
    BY <2>2 DEF Others
<1>2. QED
  BY <1>1 DEF AcceptInvariant, Accepts

(* Between two comparisons nothing new is known.                           *)
LEMMA AcceptsGoesOn ==
  ASSUME NEW new, NEW inv, Accepts(inv, specs, change), Rest(new, inv), new.candidate = inv.candidate,
         inv.at \in Accepting \ {"snapshot"},
         new.at \in {"recheck", "final", "confirm", "append"} => inv.at \in {"recheck", "final", "confirm", "append"},
         new.at \in {"final", "confirm", "append"} => inv.at \in {"final", "confirm", "append"}
  PROVE  Accepts(new, specs, change)
  BY DEF Accepts, Rest

LEMMA NotAccepting ==
  ASSUME NEW inv, inv.at \notin Accepting \ {"snapshot"}, NEW now, NEW chg
  PROVE  Accepts(inv, now, chg)
  BY DEF Accepts, Accepting

(* The first comparison after the candidate was made shows that it is the  *)
(* accepted preparation, between the candidate and the project; the second *)
(* that there is nothing between them.                                     *)
LEMMA ReinspectAccepts ==
  ASSUME TypeOK, CarriedInvariant, NEW p \in Procs, proc[p].at = "reinspect", StillAccepted(p),
         Accepts(proc[p], specs, change), NEW new, Kept(new, proc[p]), new.at = "recheck"
  PROVE  Accepts(new, specs, change)
<1> DEFINE c == proc[p].change
           prepared == proc[p].slice.prepared
<1>1. c \in Changes /\ Carries(proc[p]) /\ Touches[c] \subseteq Specs
  BY TouchesAssumption DEF CarriedInvariant, Carries, Accepting
<1>2. prepared = change[c] /\ \A s \in Touches[c] : specs[s] = prepared.base[s]
  BY DEF StillAccepted, SliceAccepted, Valid
<1>3. /\ \A s \in Specs : Before(proc[p].candidate.specs[s], specs[s])
      /\ Older(proc[p].candidate.change[c], change[c])
  BY DEF Accepts, Accepting
<1>4. Older(prepared, change[c]) /\ \A s \in Touches[c] : Before(prepared.base[s], specs[s])
  BY <1>2, BeforeOrder DEF Older
<1>5. QED
  BY <1>1, <1>2, <1>3, <1>4 DEF Accepts, Kept, Rest, Accepting

LEMMA RecheckAccepts ==
  ASSUME TypeOK, CarriedInvariant, NEW p \in Procs, proc[p].at = "recheck", Source = proc[p].candidate,
         Accepts(proc[p], specs, change), NEW new, Kept(new, proc[p]), new.at = "final"
  PROVE  Accepts(new, specs, change)
<1> DEFINE c == proc[p].change
           prepared == proc[p].slice.prepared
<1>1. c \in Changes /\ Touches[c] \subseteq Specs /\ change[c] \in Prepared \cup {None} /\ prepared \in Prepared
  BY TouchesAssumption DEF CarriedInvariant, Carries, Accepting, Slices, TypeOK
<1>2. proc[p].candidate.specs = specs /\ proc[p].candidate.change = change
  BY DEF Source
<1>3. /\ \A s \in Touches[c] : Before(specs[s], prepared.base[s]) /\ Before(prepared.base[s], specs[s])
      /\ Older(change[c], prepared) /\ Older(prepared, change[c])
  BY <1>2 DEF Accepts
<1>4. /\ \A s \in Touches[c] : specs[s] = prepared.base[s]
      /\ change[c] = prepared
  BY <1>1, <1>3, BeforeOrder, OlderOrder
<1>5. \A s \in Specs : Before(specs[s], specs[s])
  BY BeforeOrder
<1>6. QED
  BY <1>1, <1>2, <1>3, <1>4, <1>5 DEF Accepts, Kept, Rest, Older

LEMMA AcceptStep ==
  ASSUME TypeOK, CarriedInvariant, ArchiveInvariant, AcceptInvariant, [Next]_vars, TypeOK'
  PROVE  AcceptInvariant'
<1> USE DEF At
<1>0. \A q \in Procs : Accepts(proc[q], specs, change) /\ Carries(proc[q])
  BY DEF AcceptInvariant, CarriedInvariant
<1>1. ASSUME NEW p \in Procs, NEW c \in Changes, AcceptFeature(p, c)
      PROVE  AcceptInvariant'
  <2>1. Accepts(proc'[p], specs', change')
    <3>1. proc'[p].at \notin Accepting \ {"snapshot"}
      BY <1>1, AcceptFeatureEffect, IdleFacts DEF Accepting, Ends, Goes
    <3>2. QED
      BY <3>1, NotAccepting
  <2>2. Others(p)
    BY <1>1, AcceptFeatureEffect DEF Ends, Goes
  <2>3. AcceptedTogether'
    <3>1. UNCHANGED events
      BY <1>1, AcceptFeatureEffect DEF project, ledgers
    <3>2. QED
      BY <3>1 DEF AcceptInvariant, AcceptedTogether
  <2>4. QED
    BY <2>1, <2>2, <2>3, AcceptedByOthers
<1>2. ASSUME NEW p \in Procs, RetainSource(p) PROVE AcceptInvariant'
  <2>1. Accepts(proc'[p], specs', change')
    <3>1. /\ proc'[p].candidate.specs = specs /\ proc'[p].candidate.change = change /\ proc'[p].at = "identify"
          /\ UNCHANGED <<specs, change>>
      <4>1. Source.specs = specs /\ Source.change = change
        BY DEF Source
      <4>2. QED
        BY <1>2, RetainSourceEffect, <4>1 DEF project
    <3>2. QED
      BY <3>1, BeforeOrder DEF Accepts, Older
  <2>2. Others(p)
    BY <1>2, RetainSourceEffect DEF Ends, Goes
  <2>3. AcceptedTogether'
    <3>1. UNCHANGED events
      BY <1>2, RetainSourceEffect DEF project, ledgers
    <3>2. QED
      BY <3>1 DEF AcceptInvariant, AcceptedTogether
  <2>4. QED
    BY <2>1, <2>2, <2>3, AcceptedByOthers
<1>3. ASSUME NEW p \in Procs, RetainConfig(p) PROVE AcceptInvariant'
  <2>1. Accepts(proc'[p], specs', change')
    BY <1>0, <1>3, RetainConfigEffect, AcceptsGoesOn DEF Goes, Kept, Accepting, project
  <2>2. Others(p)
    BY <1>3, RetainConfigEffect DEF Ends, Goes
  <2>3. AcceptedTogether'
    <3>1. UNCHANGED events
      BY <1>3, RetainConfigEffect DEF project, ledgers
    <3>2. QED
      BY <3>1 DEF AcceptInvariant, AcceptedTogether
  <2>4. QED
    BY <2>1, <2>2, <2>3, AcceptedByOthers
<1>4. ASSUME NEW p \in Procs, 
              RunCheck(p) \/ VerifyConfig(p) \/ VerifySource(p) \/ Reinspect(p) \/ Recheck(p) \/ FinalRecheck(p) \/ SecondSource(p)
      PROVE  AcceptInvariant'
  <2>0. UNCHANGED <<specs, change, events>>
    BY <1>4, CheckEffect DEF project, ledgers
  <2>1. Accepts(proc'[p], specs', change') /\ Others(p)
    <3>1. CASE Ends(p)
      BY <3>1, IdleFacts, NotAccepting DEF Ends, Accepting
    <3>2. CASE \/ At(p, "run") /\ Goes(p, "verify")
               \/ At(p, "verify") /\ Goes(p, "compare")
               \/ At(p, "compare") /\ Goes(p, "reinspect")
               \/ At(p, "confirm") /\ Goes(p, "append")
      BY <1>0, <2>0, <3>2, AcceptsGoesOn DEF Goes, Kept, Accepting
    <3>3. CASE At(p, "reinspect") /\ Goes(p, "recheck") /\ StillAccepted(p)
      BY <1>0, <2>0, <3>3, ReinspectAccepts DEF Goes
    <3>4. CASE At(p, "recheck") /\ Goes(p, "final") /\ Source = proc[p].candidate
      BY <1>0, <2>0, <3>4, RecheckAccepts DEF Goes
    <3>5. CASE Goes(p, "publish")
      BY <3>5, NotAccepting DEF Goes, Accepting
    <3>6. QED
      BY <1>4, <3>1, <3>2, <3>3, <3>4, <3>5, CheckEffect
  <2>2. AcceptedTogether'
    BY <2>0 DEF AcceptInvariant, AcceptedTogether
  <2>3. QED
    BY <2>1, <2>2, AcceptedByOthers
<1>5. ASSUME NEW p \in Procs, FinalInspect(p) PROVE AcceptInvariant'
  <2>0. UNCHANGED <<specs, change, events>>
    BY <1>5, FinalInspectEffect DEF project, ledgers
  <2>1. Accepts(proc'[p], specs', change') /\ Others(p)
    <3>1. CASE Ends(p)
      BY <3>1, IdleFacts, NotAccepting DEF Ends, Accepting
    <3>2. CASE ~Ends(p)
      <4>1. /\ proc[p].at = "final" /\ Others(p) /\ proc'[p].at = "confirm"
            /\ proc'[p].candidate = proc[p].candidate /\ Rest(proc'[p], proc[p])
        BY <1>5, <3>2, FinalInspectEffect
      <4>2. QED
        BY <1>0, <2>0, <4>1, AcceptsGoesOn DEF Accepting
    <3>3. QED
      BY <3>1, <3>2
  <2>2. AcceptedTogether'
    BY <2>0 DEF AcceptInvariant, AcceptedTogether
  <2>3. QED
    BY <2>1, <2>2, AcceptedByOthers
<1>6. ASSUME NEW p \in Procs, AppendEvent(p) PROVE AcceptInvariant'
  <2> DEFINE e == [change |-> proc[p].change, slice |-> proc[p].slice, candidate |-> proc[p].candidate,
                   config |-> proc[p].config, report |-> proc[p].report]
  <2>1. Accepts(proc'[p], specs', change') /\ Others(p)
    BY <1>6, AppendEventEffect, IdleFacts, NotAccepting DEF Ends, Accepting
  <2>2. /\ e.candidate.change[e.change] = e.slice.prepared
        /\ \A s \in Touches[e.change] : e.candidate.specs[s] = e.slice.prepared.base[s]
    BY <1>0, <1>6, AppendEventEffect DEF Accepts, Accepting
  <2>3. UNCHANGED events \/ events' = Append(events, e)
    BY <1>6, AppendEventEffect
  <2> HIDE DEF e
  <2>4. AcceptedTogether'
    <3>1. CASE UNCHANGED events
      BY <3>1 DEF AcceptInvariant, AcceptedTogether
    <3>2. CASE events' = Append(events, e)
      <4>1. events \in Seq(Events)
        BY DEF TypeOK
      <4>2. Len(events') = Len(events) + 1 /\ Len(events) \in Nat /\ events'[Len(events) + 1] = e
            /\ \A i \in 1..Len(events) : events'[i] = events[i]
        BY <3>2, <4>1
      <4>3. ASSUME NEW i \in 1..Len(events'), NEW f, f = events'[i]
            PROVE  /\ f.candidate.change[f.change] = f.slice.prepared
                   /\ \A s \in Touches[f.change] : f.candidate.specs[s] = f.slice.prepared.base[s]
        <5>1. CASE i = Len(events) + 1
          BY <2>2, <4>2, <4>3, <5>1
        <5>2. CASE i # Len(events) + 1
          <6>1. i \in 1..Len(events) /\ f = events[i]
            BY <4>2, <4>3, <5>2
          <6>2. QED
            BY <6>1 DEF AcceptInvariant, AcceptedTogether
        <5>3. QED
          BY <5>1, <5>2
      <4>4. QED
        BY <4>3 DEF AcceptedTogether
    <3>3. QED
      BY <2>3, <3>1, <3>2
  <2>5. QED
    BY <2>1, <2>4, AcceptedByOthers
<1>7. ASSUME NEW p \in Procs, NEW c \in Changes, ArchiveChange(p, c)
      PROVE  AcceptInvariant'
  <2>1. Accepts(proc'[p], specs', change')
    <3>1. proc'[p].at \notin Accepting \ {"snapshot"}
      BY <1>7, ArchiveChangeEffect, IdleFacts DEF Accepting, Ends, Goes
    <3>2. QED
      BY <3>1, NotAccepting
  <2>2. Others(p)
    BY <1>7, ArchiveChangeEffect DEF Ends, Goes
  <2>3. AcceptedTogether'
    <3>1. UNCHANGED events
      BY <1>7, ArchiveChangeEffect DEF project, ledgers
    <3>2. QED
      BY <3>1 DEF AcceptInvariant, AcceptedTogether
  <2>4. QED
    BY <2>1, <2>2, <2>3, AcceptedByOthers
<1>8. ASSUME NEW p \in Procs, FirstReport(p) PROVE AcceptInvariant'
  <2>1. Accepts(proc'[p], specs', change')
    <3>1. proc'[p].at \notin Accepting \ {"snapshot"}
      BY <1>8, FirstReportEffect, IdleFacts DEF Accepting, Ends, Goes
    <3>2. QED
      BY <3>1, NotAccepting
  <2>2. Others(p)
    BY <1>8, FirstReportEffect DEF Ends, Goes
  <2>3. AcceptedTogether'
    <3>1. UNCHANGED events
      BY <1>8, FirstReportEffect DEF project, ledgers
    <3>2. QED
      BY <3>1 DEF AcceptInvariant, AcceptedTogether
  <2>4. QED
    BY <2>1, <2>2, <2>3, AcceptedByOthers
<1>9. ASSUME NEW p \in Procs, StageArchive(p) PROVE AcceptInvariant'
  <2>1. Accepts(proc'[p], specs', change')
    <3>1. proc'[p].at \notin Accepting \ {"snapshot"}
      BY <1>9, StageArchiveEffect, IdleFacts DEF Accepting, Ends, Goes
    <3>2. QED
      BY <3>1, NotAccepting
  <2>2. Others(p)
    BY <1>9, StageArchiveEffect DEF Ends, Goes
  <2>3. AcceptedTogether'
    <3>1. UNCHANGED events
      BY <1>9, StageArchiveEffect DEF project, ledgers
    <3>2. QED
      BY <3>1 DEF AcceptInvariant, AcceptedTogether
  <2>4. QED
    BY <2>1, <2>2, <2>3, AcceptedByOthers
<1>10. ASSUME NEW p \in Procs, SecondReport(p) PROVE AcceptInvariant'
  <2>1. Accepts(proc'[p], specs', change')
    <3>1. proc'[p].at \notin Accepting \ {"snapshot"}
      BY <1>10, SecondReportEffect, IdleFacts DEF Accepting, Ends, Goes
    <3>2. QED
      BY <3>1, NotAccepting
  <2>2. Others(p)
    BY <1>10, SecondReportEffect DEF Ends, Goes
  <2>3. AcceptedTogether'
    <3>1. UNCHANGED events
      BY <1>10, SecondReportEffect DEF project, ledgers
    <3>2. QED
      BY <3>1 DEF AcceptInvariant, AcceptedTogether
  <2>4. QED
    BY <2>1, <2>2, <2>3, AcceptedByOthers
<1>11. ASSUME NEW p \in Procs, PublishArchive(p) PROVE AcceptInvariant'
  <2>1. Accepts(proc'[p], specs', change')
    <3>1. proc'[p].at \notin Accepting \ {"snapshot"}
      BY <1>11, PublishArchiveEffect, IdleFacts DEF Accepting, Ends, Goes
    <3>2. QED
      BY <3>1, NotAccepting
  <2>2. Others(p)
    BY <1>11, PublishArchiveEffect DEF Ends, Goes
  <2>3. AcceptedTogether'
    <3>1. UNCHANGED events
      BY <1>11, PublishArchiveEffect DEF project, ledgers
    <3>2. QED
      BY <3>1 DEF AcceptInvariant, AcceptedTogether
  <2>4. QED
    BY <2>1, <2>2, <2>3, AcceptedByOthers
<1>12. ASSUME NEW p \in Procs, CheckSpecs(p) PROVE AcceptInvariant'
  <2>1. Accepts(proc'[p], specs', change')
    <3>1. proc'[p].at \notin Accepting \ {"snapshot"}
      BY <1>12, CheckSpecsEffect, IdleFacts DEF Accepting, Ends, Goes
    <3>2. QED
      BY <3>1, NotAccepting
  <2>2. Others(p)
    BY <1>12, CheckSpecsEffect DEF Ends, Goes
  <2>3. AcceptedTogether'
    <3>1. UNCHANGED events
      BY <1>12, CheckSpecsEffect DEF project, ledgers
    <3>2. QED
      BY <3>1 DEF AcceptInvariant, AcceptedTogether
  <2>4. QED
    BY <2>1, <2>2, <2>3, AcceptedByOthers
<1>13. ASSUME NEW p \in Procs, WriteSpec(p) PROVE AcceptInvariant'
  <2>1. Accepts(proc'[p], specs', change') /\ Others(p)
    <3>1. Others(p) /\ proc'[p].at \notin Accepting \ {"snapshot"}
      <4>1. PICK s \in proc[p].pending : Ends(p) \/ (Others(p) /\ proc'[p].at = "write")
        BY <1>13, WriteSpecEffect
      <4>2. QED
        BY <4>1, IdleFacts DEF Ends, Accepting
    <3>2. QED
      BY <3>1, NotAccepting
  <2>2. AcceptedTogether'
    <3>1. UNCHANGED events
      BY <1>13, WriteSpecEffect DEF ledgers
    <3>2. QED
      BY <3>1 DEF AcceptInvariant, AcceptedTogether
  <2>3. QED
    BY <2>1, <2>2, AcceptedByOthers
<1>14. ASSUME NEW p \in Procs, ImportUsage(p) PROVE AcceptInvariant'
  <2>1. Accepts(proc'[p], specs', change')
    <3>1. proc'[p].at \notin Accepting \ {"snapshot"}
      BY <1>14, ImportUsageEffect, IdleFacts DEF Accepting, Ends, Goes
    <3>2. QED
      BY <3>1, NotAccepting
  <2>2. Others(p)
    BY <1>14, ImportUsageEffect DEF Ends, Goes
  <2>3. AcceptedTogether'
    <3>1. UNCHANGED events
      BY <1>14, ImportUsageEffect DEF project, ledgers
    <3>2. QED
      BY <3>1 DEF AcceptInvariant, AcceptedTogether
  <2>4. QED
    BY <2>1, <2>2, <2>3, AcceptedByOthers
<1>15. ASSUME NEW p \in Procs, AppendUsage(p) PROVE AcceptInvariant'
  <2>1. Accepts(proc'[p], specs', change')
    <3>1. proc'[p].at \notin Accepting \ {"snapshot"}
      BY <1>15, AppendUsageEffect, IdleFacts DEF Accepting, Ends, Goes
    <3>2. QED
      BY <3>1, NotAccepting
  <2>2. Others(p)
    BY <1>15, AppendUsageEffect DEF Ends, Goes
  <2>3. AcceptedTogether'
    <3>1. UNCHANGED events
      BY <1>15, AppendUsageEffect DEF project, ledgers
    <3>2. QED
      BY <3>1 DEF AcceptInvariant, AcceptedTogether
  <2>4. QED
    BY <2>1, <2>2, <2>3, AcceptedByOthers
<1>16. ASSUME NEW p \in Procs, Crash(p) PROVE AcceptInvariant'
  <2>1. Accepts(proc'[p], specs', change')
    <3>1. proc'[p].at \notin Accepting \ {"snapshot"}
      BY <1>16, CrashEffect, IdleFacts DEF Accepting, Ends, Goes
    <3>2. QED
      BY <3>1, NotAccepting
  <2>2. Others(p)
    BY <1>16, CrashEffect DEF Ends, Goes
  <2>3. AcceptedTogether'
    <3>1. UNCHANGED events
      BY <1>16, CrashEffect DEF project, ledgers
    <3>2. QED
      BY <3>1 DEF AcceptInvariant, AcceptedTogether
  <2>4. QED
    BY <2>1, <2>2, <2>3, AcceptedByOthers
<1>17. ASSUME NEW p \in Procs, RemoveLocks(p) \/ Fail(p) PROVE AcceptInvariant'
  <2>1. Accepts(proc'[p], specs', change')
    <3>1. proc'[p].at \notin Accepting \ {"snapshot"}
      BY <1>17, EndingEffect, IdleFacts DEF Accepting, Ends, Goes
    <3>2. QED
      BY <3>1, NotAccepting
  <2>2. Others(p)
    BY <1>17, EndingEffect DEF Ends, Goes
  <2>3. AcceptedTogether'
    <3>1. UNCHANGED events
      BY <1>17, EndingEffect DEF project, ledgers
    <3>2. QED
      BY <3>1 DEF AcceptInvariant, AcceptedTogether
  <2>4. QED
    BY <2>1, <2>2, <2>3, AcceptedByOthers
<1>18. ASSUME NEW c \in Changes, Prepare(c) PROVE AcceptInvariant'
  <2>1. UNCHANGED <<events, proc>>
    BY <1>18 DEF Prepare, ledgers
  <2>2. \A q \in Procs : Accepts(proc[q], specs', change')
    BY <1>0, AcceptsForward
  <2>3. QED
    BY <2>1, <2>2 DEF AcceptInvariant, AcceptedTogether, Accepts
<1>19. ASSUME NEW c \in Changes, AcceptSlice(c) PROVE AcceptInvariant'
  <2>1. UNCHANGED <<events, proc>>
    BY <1>19 DEF AcceptSlice, ledgers
  <2>2. \A q \in Procs : Accepts(proc[q], specs', change')
    BY <1>0, AcceptsForward
  <2>3. QED
    BY <2>1, <2>2 DEF AcceptInvariant, AcceptedTogether, Accepts
<1>20. ASSUME NEW s \in Specs, EditSpec(s) PROVE AcceptInvariant'
  <2>1. UNCHANGED <<events, proc>>
    BY <1>20 DEF EditSpec, ledgers
  <2>2. \A q \in Procs : Accepts(proc[q], specs', change')
    BY <1>0, AcceptsForward
  <2>3. QED
    BY <2>1, <2>2 DEF AcceptInvariant, AcceptedTogether, Accepts
<1>21. ASSUME EditCode \/ EditConfig PROVE AcceptInvariant'
  <2>1. UNCHANGED <<events, proc>>
    BY <1>21 DEF EditCode, EditConfig, ledgers
  <2>2. \A q \in Procs : Accepts(proc[q], specs', change')
    BY <1>0, AcceptsForward
  <2>3. QED
    BY <2>1, <2>2 DEF AcceptInvariant, AcceptedTogether, Accepts
<1>22. ASSUME UNCHANGED vars PROVE AcceptInvariant'
  <2>1. UNCHANGED <<events, proc>>
    BY <1>22 DEF vars
  <2>2. \A q \in Procs : Accepts(proc[q], specs', change')
    BY <1>0, AcceptsForward
  <2>3. QED
    BY <2>1, <2>2 DEF AcceptInvariant, AcceptedTogether, Accepts
<1>23. QED
  BY <1>1, <1>2, <1>3, <1>4, <1>5, <1>6, <1>7, <1>8, <1>9, <1>10, <1>11, <1>12, <1>13,
     <1>14, <1>15, <1>16, <1>17, <1>18, <1>19, <1>20, <1>21, <1>22 DEF Next, Continue

-----------------------------------------------------------------------------
(* What the locks keep                                                     *)

LEMMA LatestIs ==
  ASSUME NEW c
  PROVE  LatestEvent(c) = Latest(c, events)
  BY DEF LatestEvent, Latest

LEMMA HeldByOthers ==
  ASSUME HeldInvariant, NEW p \in Procs, Others(p), UNCHANGED <<usage, events, slice>>,
         Held(proc'[p], usage, events, slice)
  PROVE  HeldInvariant'
<1>1. \A q \in Procs : Held(proc'[q], usage, events, slice)
  BY DEF HeldInvariant, Others
<1>2. QED
  BY <1>1 DEF HeldInvariant

LEMMA HeldGoesOn ==
  ASSUME NEW new, NEW inv, Held(inv, usage, events, slice),
         \/ new.at \notin Metering \cup Publishing
         \/ Kept(new, inv) /\ inv.at = "confirm" /\ new.at = "append"
         \/ Kept(new, inv) /\ inv.at = "resnap" /\ new.at = "publish"
  PROVE  Held(new, usage, events, slice)
  BY DEF Held, Metering, Publishing, Kept, Rest

LEMMA HeldStep ==
  ASSUME TypeOK, CarriedInvariant, LockInvariant, HeldInvariant, [Next]_vars
  PROVE  HeldInvariant'
<1> USE DEF At
<1>0. \A q \in Procs : q # None /\ Held(proc[q], usage, events, slice) /\ Locked(proc[q], q, locks)
  BY NoneAssumption DEF HeldInvariant, LockInvariant
<1>1. ASSUME NEW p \in Procs, NEW c \in Changes, AcceptFeature(p, c)
      PROVE  HeldInvariant'
  <2>1. Held(proc'[p], usage, events, slice)
    <3>1. proc'[p].at \notin Metering \cup Publishing
      BY <1>1, AcceptFeatureEffect, IdleFacts DEF Metering, Publishing, Ends, Goes
    <3>2. QED
      BY <1>0, <3>1, HeldGoesOn
  <2>2. Others(p) /\ UNCHANGED <<usage, events, slice>>
    BY <1>1, AcceptFeatureEffect DEF project, ledgers, Ends, Goes
  <2>3. QED
    BY <2>1, <2>2, HeldByOthers
<1>2. ASSUME NEW p \in Procs, RetainSource(p) PROVE HeldInvariant'
  <2>1. Held(proc'[p], usage, events, slice)
    <3>1. proc'[p].at \notin Metering \cup Publishing
      BY <1>2, RetainSourceEffect, IdleFacts DEF Metering, Publishing, Ends, Goes
    <3>2. QED
      BY <1>0, <3>1, HeldGoesOn
  <2>2. Others(p) /\ UNCHANGED <<usage, events, slice>>
    BY <1>2, RetainSourceEffect DEF project, ledgers, Ends, Goes
  <2>3. QED
    BY <2>1, <2>2, HeldByOthers
<1>3. ASSUME NEW p \in Procs, RetainConfig(p) PROVE HeldInvariant'
  <2>1. Held(proc'[p], usage, events, slice)
    <3>1. proc'[p].at \notin Metering \cup Publishing
      BY <1>3, RetainConfigEffect, IdleFacts DEF Metering, Publishing, Ends, Goes
    <3>2. QED
      BY <1>0, <3>1, HeldGoesOn
  <2>2. Others(p) /\ UNCHANGED <<usage, events, slice>>
    BY <1>3, RetainConfigEffect DEF project, ledgers, Ends, Goes
  <2>3. QED
    BY <2>1, <2>2, HeldByOthers
<1>4. ASSUME NEW p \in Procs, 
              RunCheck(p) \/ VerifyConfig(p) \/ VerifySource(p) \/ Reinspect(p) \/ Recheck(p) \/ FinalRecheck(p) \/ SecondSource(p)
      PROVE  HeldInvariant'
  <2>1. Held(proc'[p], usage, events, slice)
    <3>1. \/ proc'[p].at \notin Metering \cup Publishing
          \/ Kept(proc'[p], proc[p]) /\ proc[p].at = "confirm" /\ proc'[p].at = "append"
          \/ Kept(proc'[p], proc[p]) /\ proc[p].at = "resnap" /\ proc'[p].at = "publish"
      BY <1>4, CheckEffect, IdleFacts DEF Metering, Publishing, Ends, Goes
    <3>2. QED
      BY <1>0, <3>1, HeldGoesOn
  <2>2. Others(p) /\ UNCHANGED <<usage, events, slice>>
    BY <1>4, CheckEffect DEF project, ledgers, Ends, Goes
  <2>3. QED
    BY <2>1, <2>2, HeldByOthers
<1>5. ASSUME NEW p \in Procs, FinalInspect(p) PROVE HeldInvariant'
  <2>1. Held(proc'[p], usage, events, slice)
    <3>1. CASE Ends(p)
      BY <1>0, <3>1, IdleFacts, HeldGoesOn DEF Ends, Metering, Publishing
    <3>2. CASE ~Ends(p)
      <4>1. proc'[p].at = "confirm" /\ proc'[p].report = usage
        BY <1>5, <3>2, FinalInspectEffect
      <4>2. QED
        BY <4>1 DEF Held, Publishing
    <3>3. QED
      BY <3>1, <3>2
  <2>2. Others(p) /\ UNCHANGED <<usage, events, slice>>
    BY <1>5, FinalInspectEffect DEF project, ledgers, Ends, Goes
  <2>3. QED
    BY <2>1, <2>2, HeldByOthers
<1>6. ASSUME NEW p \in Procs, AppendEvent(p) PROVE HeldInvariant'
  <2>1. Ends(p) /\ UNCHANGED <<usage, slice>> /\ locks["controller"] = p
    BY <1>0, <1>6, AppendEventEffect DEF project, Locked, Accepting
  <2>2. ASSUME NEW q \in Procs PROVE Held(proc'[q], usage, events', slice)
    <3>1. CASE q = p
      BY <2>1, <3>1, IdleFacts DEF Ends, Held, Publishing
    <3>2. CASE q # p
      BY <1>0, <2>1, <3>2 DEF Ends, Others, Held, Locked
    <3>3. QED
      BY <3>1, <3>2
  <2>3. QED
    BY <2>1, <2>2 DEF HeldInvariant
<1>7. ASSUME NEW p \in Procs, NEW c \in Changes, ArchiveChange(p, c)
      PROVE  HeldInvariant'
  <2>1. Held(proc'[p], usage, events, slice)
    <3>1. proc'[p].at \notin Metering \cup Publishing
      BY <1>7, ArchiveChangeEffect, IdleFacts DEF Metering, Publishing, Ends, Goes
    <3>2. QED
      BY <1>0, <3>1, HeldGoesOn
  <2>2. Others(p) /\ UNCHANGED <<usage, events, slice>>
    BY <1>7, ArchiveChangeEffect DEF project, ledgers, Ends, Goes
  <2>3. QED
    BY <2>1, <2>2, HeldByOthers
<1>8. ASSUME NEW p \in Procs, FirstReport(p) PROVE HeldInvariant'
  <2>1. Held(proc'[p], usage, events, slice)
    <3>1. proc'[p].at \notin Metering \cup Publishing
      BY <1>8, FirstReportEffect, IdleFacts DEF Metering, Publishing, Ends, Goes
    <3>2. QED
      BY <1>0, <3>1, HeldGoesOn
  <2>2. Others(p) /\ UNCHANGED <<usage, events, slice>>
    BY <1>8, FirstReportEffect DEF project, ledgers, Ends, Goes
  <2>3. QED
    BY <2>1, <2>2, HeldByOthers
<1>9. ASSUME NEW p \in Procs, StageArchive(p) PROVE HeldInvariant'
  <2>1. Held(proc'[p], usage, events, slice)
    <3>1. proc'[p].at \notin Metering \cup Publishing
      BY <1>9, StageArchiveEffect, IdleFacts DEF Metering, Publishing, Ends, Goes
    <3>2. QED
      BY <1>0, <3>1, HeldGoesOn
  <2>2. Others(p) /\ UNCHANGED <<usage, events, slice>>
    BY <1>9, StageArchiveEffect DEF project, ledgers, Ends, Goes
  <2>3. QED
    BY <2>1, <2>2, HeldByOthers
<1>10. ASSUME NEW p \in Procs, SecondReport(p) PROVE HeldInvariant'
  <2>1. Held(proc'[p], usage, events, slice)
    <3>1. CASE Ends(p)
      BY <1>0, <3>1, IdleFacts, HeldGoesOn DEF Ends, Metering, Publishing
    <3>2. CASE ~Ends(p)
      <4>1. Goes(p, "resnap") /\ SameEvent(p) /\ Eligible(p, LatestEvent(proc[p].change))
        BY <1>10, <3>2, SecondReportEffect
      <4>2. /\ proc[p].event = Latest(proc[p].change, events)
            /\ events[proc[p].event].slice = slice[proc[p].change]
            /\ slice[proc[p].change].prepared = proc[p].plan
        BY <4>1, LatestIs DEF SameEvent, Eligible
      <4>3. QED
        BY <4>1, <4>2 DEF Held, Goes, Kept, Rest
    <3>3. QED
      BY <3>1, <3>2
  <2>2. Others(p) /\ UNCHANGED <<usage, events, slice>>
    BY <1>10, SecondReportEffect DEF project, ledgers, Ends, Goes
  <2>3. QED
    BY <2>1, <2>2, HeldByOthers
<1>11. ASSUME NEW p \in Procs, PublishArchive(p) PROVE HeldInvariant'
  <2>1. Held(proc'[p], usage, events, slice)
    <3>1. proc'[p].at \notin Metering \cup Publishing
      BY <1>11, PublishArchiveEffect, IdleFacts DEF Metering, Publishing, Ends, Goes
    <3>2. QED
      BY <1>0, <3>1, HeldGoesOn
  <2>2. Others(p) /\ UNCHANGED <<usage, events, slice>>
    BY <1>11, PublishArchiveEffect DEF project, ledgers, Ends, Goes
  <2>3. QED
    BY <2>1, <2>2, HeldByOthers
<1>12. ASSUME NEW p \in Procs, CheckSpecs(p) PROVE HeldInvariant'
  <2>1. Held(proc'[p], usage, events, slice)
    <3>1. proc'[p].at \notin Metering \cup Publishing
      BY <1>12, CheckSpecsEffect, IdleFacts DEF Metering, Publishing, Ends, Goes
    <3>2. QED
      BY <1>0, <3>1, HeldGoesOn
  <2>2. Others(p) /\ UNCHANGED <<usage, events, slice>>
    BY <1>12, CheckSpecsEffect DEF project, ledgers, Ends, Goes
  <2>3. QED
    BY <2>1, <2>2, HeldByOthers
<1>13. ASSUME NEW p \in Procs, WriteSpec(p) PROVE HeldInvariant'
  <2>1. Held(proc'[p], usage, events, slice)
    <3>1. proc'[p].at \notin Metering \cup Publishing
      BY <1>13, WriteSpecEffect, IdleFacts DEF Metering, Publishing, Ends, Goes
    <3>2. QED
      BY <1>0, <3>1, HeldGoesOn
  <2>2. Others(p) /\ UNCHANGED <<usage, events, slice>>
    BY <1>13, WriteSpecEffect DEF project, ledgers, Ends, Goes
  <2>3. QED
    BY <2>1, <2>2, HeldByOthers
<1>14. ASSUME NEW p \in Procs, ImportUsage(p) PROVE HeldInvariant'
  <2>1. Held(proc'[p], usage, events, slice)
    BY <1>14, ImportUsageEffect DEF Held, Publishing, UsageFits, Goes
  <2>2. Others(p) /\ UNCHANGED <<usage, events, slice>>
    BY <1>14, ImportUsageEffect DEF project, ledgers, Ends, Goes
  <2>3. QED
    BY <2>1, <2>2, HeldByOthers
<1>15. ASSUME NEW p \in Procs, AppendUsage(p) PROVE HeldInvariant'
  <2>1. Ends(p) /\ UNCHANGED <<events, slice>> /\ locks["usage"] = p
    BY <1>0, <1>15, AppendUsageEffect DEF project, Locked, Metering
  <2>2. ASSUME NEW q \in Procs PROVE Held(proc'[q], usage', events, slice)
    <3>1. CASE q = p
      BY <2>1, <3>1, IdleFacts DEF Ends, Held, Publishing
    <3>2. CASE q # p
      <4>1. proc[q].at \notin Metering /\ proc'[q] = proc[q] /\ Held(proc[q], usage, events, slice)
        BY <1>0, <2>1, <3>2 DEF Ends, Others, Locked
      <4>2. QED
        BY <4>1 DEF Held, Metering
    <3>3. QED
      BY <3>1, <3>2
  <2>3. QED
    BY <2>1, <2>2 DEF HeldInvariant
<1>16. ASSUME NEW p \in Procs, Crash(p) PROVE HeldInvariant'
  <2>1. Held(proc'[p], usage, events, slice)
    <3>1. proc'[p].at \notin Metering \cup Publishing
      BY <1>16, CrashEffect, IdleFacts DEF Metering, Publishing, Ends, Goes
    <3>2. QED
      BY <1>0, <3>1, HeldGoesOn
  <2>2. Others(p) /\ UNCHANGED <<usage, events, slice>>
    BY <1>16, CrashEffect DEF project, ledgers, Ends, Goes
  <2>3. QED
    BY <2>1, <2>2, HeldByOthers
<1>17. ASSUME NEW p \in Procs, RemoveLocks(p) \/ Fail(p) PROVE HeldInvariant'
  <2>1. Held(proc'[p], usage, events, slice)
    <3>1. proc'[p].at \notin Metering \cup Publishing
      BY <1>17, EndingEffect, IdleFacts DEF Metering, Publishing, Ends, Goes
    <3>2. QED
      BY <1>0, <3>1, HeldGoesOn
  <2>2. Others(p) /\ UNCHANGED <<usage, events, slice>>
    BY <1>17, EndingEffect DEF project, ledgers, Ends, Goes
  <2>3. QED
    BY <2>1, <2>2, HeldByOthers
<1>18. ASSUME NEW c \in Changes, Prepare(c) PROVE HeldInvariant'
  <2>1. UNCHANGED <<usage, events, slice, proc>>
    BY <1>18 DEF Prepare, ledgers
  <2>2. QED
    BY <2>1 DEF HeldInvariant
<1>19. ASSUME NEW c \in Changes, AcceptSlice(c) PROVE HeldInvariant'
  <2>1. UNCHANGED <<usage, events, proc>> /\ locks["controller"] = None
    BY <1>19 DEF AcceptSlice, ledgers, Free
  <2>2. ASSUME NEW q \in Procs PROVE Held(proc[q], usage, events, slice')
    <3>1. proc[q].at \notin Publishing
      BY <1>0, <2>1 DEF Locked
    <3>2. QED
      BY <1>0, <3>1 DEF Held
  <2>3. QED
    BY <2>1, <2>2 DEF HeldInvariant
<1>20. ASSUME NEW s \in Specs, EditSpec(s) PROVE HeldInvariant'
  <2>1. UNCHANGED <<usage, events, slice, proc>>
    BY <1>20 DEF EditSpec, ledgers
  <2>2. QED
    BY <2>1 DEF HeldInvariant
<1>21. ASSUME EditCode \/ EditConfig PROVE HeldInvariant'
  <2>1. UNCHANGED <<usage, events, slice, proc>>
    BY <1>21 DEF EditCode, EditConfig, ledgers
  <2>2. QED
    BY <2>1 DEF HeldInvariant
<1>22. ASSUME UNCHANGED vars PROVE HeldInvariant'
  <2>1. UNCHANGED <<usage, events, slice, proc>>
    BY <1>22 DEF vars
  <2>2. QED
    BY <2>1 DEF HeldInvariant
<1>23. QED
  BY <1>1, <1>2, <1>3, <1>4, <1>5, <1>6, <1>7, <1>8, <1>9, <1>10, <1>11, <1>12, <1>13,
     <1>14, <1>15, <1>16, <1>17, <1>18, <1>19, <1>20, <1>21, <1>22 DEF Next, Continue

-----------------------------------------------------------------------------
(* Merged                                                                  *)

LEMMA MergeByOthers ==
  ASSUME MergeInvariant, NEW p \in Procs, Others(p), UNCHANGED <<specs, archives, cut>>,
         proc[p].at \notin {"check", "write"}, proc'[p].at # "write"
  PROVE  MergeInvariant'
<1>1. \A s : Edited(s) => Edited(s)'
  BY DEF Edited, Others
<1>2. \A q \in Procs : proc[q].at \in {"check", "write"} => proc'[q] = proc[q]
  BY DEF Others
<1>3. ASSUME NEW c \in Changes, Standing(c) PROVE Standing(c)'
  BY <1>1, <1>2, <1>3 DEF Standing
<1>4. \A q \in Procs : proc'[q].at = "write" => q # p /\ proc'[q] = proc[q]
  BY DEF Others
<1>5. QED
  BY <1>3, <1>4 DEF MergeInvariant, Writes

(* While one invocation archives, it alone writes or checks.               *)
LEMMA StandingAlone ==
  ASSUME LockInvariant, NEW p \in Procs, proc[p].at \in Archiving, NEW c \in Changes, Standing(c),
         proc[p].change # c \/ proc[p].at \notin {"check", "write"}
  PROVE  (\E s \in Touches[c] : Edited(s)) \/ (\A s \in Touches[c] : c \in specs[s])
<1>1. \A q \in Procs : proc[q].at \in {"check", "write"} => q = p
  BY OnlyArchiver DEF Archiving
<1>2. QED
  BY <1>1 DEF Standing

LEMMA MergeStep ==
  ASSUME TypeOK, CarriedInvariant, LockInvariant, ArchiveInvariant, MergeInvariant, [Next]_vars
  PROVE  MergeInvariant'
<1> USE DEF At
<1>0. \A q \in Procs : Archived(proc[q], specs, archives) /\ Carries(proc[q])
  BY DEF ArchiveInvariant, CarriedInvariant
<1>1. ASSUME NEW p \in Procs, NEW c \in Changes, AcceptFeature(p, c)
      PROVE  MergeInvariant'
  <2>1. Others(p) /\ UNCHANGED <<specs, archives, cut>>
    BY <1>1, AcceptFeatureEffect DEF project, Ends, Goes
  <2>2. proc[p].at \notin {"check", "write"} /\ proc'[p].at # "write"
    BY <1>1, AcceptFeatureEffect, IdleFacts DEF Ends, Goes, AcceptFeature, Start
  <2>3. QED
    BY <2>1, <2>2, MergeByOthers
<1>2. ASSUME NEW p \in Procs, RetainSource(p) PROVE MergeInvariant'
  <2>1. Others(p) /\ UNCHANGED <<specs, archives, cut>>
    BY <1>2, RetainSourceEffect DEF project, Ends, Goes
  <2>2. proc[p].at \notin {"check", "write"} /\ proc'[p].at # "write"
    BY <1>2, RetainSourceEffect, IdleFacts DEF Ends, Goes, RetainSource, Start
  <2>3. QED
    BY <2>1, <2>2, MergeByOthers
<1>3. ASSUME NEW p \in Procs, RetainConfig(p) PROVE MergeInvariant'
  <2>1. Others(p) /\ UNCHANGED <<specs, archives, cut>>
    BY <1>3, RetainConfigEffect DEF project, Ends, Goes
  <2>2. proc[p].at \notin {"check", "write"} /\ proc'[p].at # "write"
    BY <1>3, RetainConfigEffect, IdleFacts DEF Ends, Goes, RetainConfig, Start
  <2>3. QED
    BY <2>1, <2>2, MergeByOthers
<1>4. ASSUME NEW p \in Procs, 
              RunCheck(p) \/ VerifyConfig(p) \/ VerifySource(p) \/ Reinspect(p) \/ Recheck(p) \/ FinalRecheck(p) \/ SecondSource(p)
      PROVE  MergeInvariant'
  <2>1. Others(p) /\ UNCHANGED <<specs, archives, cut>>
    BY <1>4, CheckEffect DEF project, Ends, Goes
  <2>2. proc[p].at \notin {"check", "write"} /\ proc'[p].at # "write"
    BY <1>4, CheckEffect, IdleFacts DEF Ends, Goes, RunCheck, VerifyConfig, VerifySource, Reinspect, Recheck, FinalRecheck, SecondSource
  <2>3. QED
    BY <2>1, <2>2, MergeByOthers
<1>5. ASSUME NEW p \in Procs, FinalInspect(p) PROVE MergeInvariant'
  <2>1. Others(p) /\ UNCHANGED <<specs, archives, cut>>
    BY <1>5, FinalInspectEffect DEF project, Ends, Goes
  <2>2. proc[p].at \notin {"check", "write"} /\ proc'[p].at # "write"
    BY <1>5, FinalInspectEffect, IdleFacts DEF Ends, Goes, FinalInspect, Start
  <2>3. QED
    BY <2>1, <2>2, MergeByOthers
<1>6. ASSUME NEW p \in Procs, AppendEvent(p) PROVE MergeInvariant'
  <2>1. Others(p) /\ UNCHANGED <<specs, archives, cut>>
    BY <1>6, AppendEventEffect DEF project, Ends, Goes
  <2>2. proc[p].at \notin {"check", "write"} /\ proc'[p].at # "write"
    BY <1>6, AppendEventEffect, IdleFacts DEF Ends, Goes, AppendEvent, Start
  <2>3. QED
    BY <2>1, <2>2, MergeByOthers
<1>7. ASSUME NEW p \in Procs, NEW c \in Changes, ArchiveChange(p, c)
      PROVE  MergeInvariant'
  <2>1. Others(p) /\ UNCHANGED <<specs, archives, cut>>
    BY <1>7, ArchiveChangeEffect DEF project, Ends, Goes
  <2>2. proc[p].at \notin {"check", "write"} /\ proc'[p].at # "write"
    BY <1>7, ArchiveChangeEffect, IdleFacts DEF Ends, Goes, ArchiveChange, Start
  <2>3. QED
    BY <2>1, <2>2, MergeByOthers
<1>8. ASSUME NEW p \in Procs, FirstReport(p) PROVE MergeInvariant'
  <2>1. Others(p) /\ UNCHANGED <<specs, archives, cut>>
    BY <1>8, FirstReportEffect DEF project, Ends, Goes
  <2>2. proc[p].at \notin {"check", "write"} /\ proc'[p].at # "write"
    BY <1>8, FirstReportEffect, IdleFacts DEF Ends, Goes, FirstReport, Start
  <2>3. QED
    BY <2>1, <2>2, MergeByOthers
<1>9. ASSUME NEW p \in Procs, StageArchive(p) PROVE MergeInvariant'
  <2>1. Others(p) /\ UNCHANGED <<specs, archives, cut>>
    BY <1>9, StageArchiveEffect DEF project, Ends, Goes
  <2>2. proc[p].at \notin {"check", "write"} /\ proc'[p].at # "write"
    BY <1>9, StageArchiveEffect, IdleFacts DEF Ends, Goes, StageArchive, Start
  <2>3. QED
    BY <2>1, <2>2, MergeByOthers
<1>10. ASSUME NEW p \in Procs, SecondReport(p) PROVE MergeInvariant'
  <2>1. Others(p) /\ UNCHANGED <<specs, archives, cut>>
    BY <1>10, SecondReportEffect DEF project, Ends, Goes
  <2>2. proc[p].at \notin {"check", "write"} /\ proc'[p].at # "write"
    BY <1>10, SecondReportEffect, IdleFacts DEF Ends, Goes, SecondReport, Start
  <2>3. QED
    BY <2>1, <2>2, MergeByOthers
<1>11. ASSUME NEW p \in Procs, PublishArchive(p) PROVE MergeInvariant'
  <2> DEFINE c == proc[p].change
             made == [event |-> proc[p].event, prepared |-> proc[p].plan]
  <2>0. proc[p].at = "publish" /\ proc[p].at \in Archiving /\ c \in Changes /\ UNCHANGED <<specs, cut>>
    BY <1>0, <1>11, PublishArchiveEffect DEF Planning, Archiving, Carries, project
  <2>1. CASE Ends(p) /\ UNCHANGED archives
    BY <2>0, <2>1, IdleFacts, MergeByOthers DEF Ends
  <2>2. CASE Goes(p, "check") /\ archives' = [archives EXCEPT ![c] = made]
    <3>1. \A q \in Procs : proc'[q].at # "write"
      BY <2>0, <2>2, OnlyArchiver DEF Goes, Others, Archiving
    <3>2. \A s : ~(specs[s] \subseteq Changes) => Edited(s)'
      BY <2>0, <3>1 DEF Edited
    <3>3. ASSUME NEW d \in Changes, d \notin cut', archives'[d] # None PROVE Standing(d)'
      <4>1. CASE d = c
        <5>1. archives'[c].prepared = proc[p].plan
          BY <2>0, <2>2 DEF TypeOK
        <5>2. \A s \in Touches[c] : specs[s] = proc[p].plan.base[s] \/ ~(specs[s] \subseteq Changes)
          BY <1>0, <2>0 DEF Archived, Planning
        <5>3. proc'[p].change = c /\ proc'[p].at = "check"
          BY <2>2 DEF Goes, Kept, Rest
        <5> HIDE DEF c
        <5>4. CASE \E s \in Touches[c] : ~(specs[s] \subseteq Changes)
          BY <3>2, <4>1, <5>4 DEF Standing
        <5>5. CASE \A s \in Touches[c] : specs[s] = proc[p].plan.base[s]
          BY <2>0, <4>1, <5>1, <5>3, <5>5 DEF Standing
        <5>6. QED
          BY <5>2, <5>4, <5>5
      <4>2. CASE d # c
        <5>1. archives[d] # None /\ Standing(d)
          BY <2>0, <2>2, <3>3, <4>2 DEF TypeOK, MergeInvariant
        <5>2. (\E s \in Touches[d] : Edited(s)) \/ (\A s \in Touches[d] : d \in specs[s])
          BY <2>0, <4>2, <5>1, StandingAlone
        <5>3. QED
          BY <2>0, <3>2, <5>2 DEF Edited, Standing
      <4>3. QED
        BY <4>1, <4>2
    <3>4. QED
      BY <3>1, <3>3 DEF MergeInvariant
  <2>3. QED
    BY <1>11, <2>1, <2>2, PublishArchiveEffect
<1>12. ASSUME NEW p \in Procs, CheckSpecs(p) PROVE MergeInvariant'
  <2> DEFINE c == proc[p].change
             open == {s \in Touches[c] : specs[s] # Merged(c, s)}
  <2>0. proc[p].at = "check" /\ proc[p].at \in Archiving /\ c \in Changes /\ UNCHANGED <<specs, archives>>
    BY <1>0, <1>12, CheckSpecsEffect DEF Archiving, Carries, project
  <2>1. \A q \in Procs : q # p => proc[q].at # "write"
    BY <2>0, OnlyArchiver DEF Archiving
  <2>2. \A s \in Touches[c] : specs[s] = Merged(c, s) => c \in specs[s]
    BY DEF Merged
  <2>3. CASE /\ Ends(p)
             /\ \/ (\E s \in Touches[c] : Conflicts(c, s)) /\ UNCHANGED cut
                \/ open = {} /\ cut' = cut \ {c}
    <3>0. \A q \in Procs : proc'[q].at # "write"
      BY <2>0, <2>1, <2>3, IdleFacts DEF Ends, Others
    <3>1. \A s : Edited(s) => Edited(s)'
      BY <2>0, <2>1, <2>3, IdleFacts DEF Edited, Ends, Others
    <3>2. ASSUME NEW d \in Changes, d \notin cut', archives'[d] # None PROVE Standing(d)'
      <4>1. d \notin cut => Standing(d)
        BY <2>0, <3>2 DEF MergeInvariant
      <4>2. (\E s \in Touches[d] : Edited(s)) \/ (\A s \in Touches[d] : d \in specs[s])
        <5>1. CASE d # c
          BY <2>0, <2>3, <3>2, <4>1, <5>1, StandingAlone
        <5>2. CASE d = c /\ open = {}
          BY <2>2, <5>2
        <5>3. CASE d = c /\ (\E s \in Touches[c] : Conflicts(c, s)) /\ UNCHANGED cut
          <6>1. ~ \A s \in Touches[c] : specs[s] = archives[c].prepared.base[s]
            BY <5>3 DEF Conflicts
          <6>2. \A q \in Procs : proc[q].at # "write"
            BY <2>0, <2>1
          <6>3. QED
            BY <3>2, <4>1, <5>3, <6>1, <6>2 DEF Standing
        <5>4. QED
          BY <2>3, <5>1, <5>2, <5>3
      <4>3. QED
        BY <2>0, <3>1, <4>2 DEF Standing
    <3>3. QED
      BY <3>0, <3>2 DEF MergeInvariant
  <2>4. CASE ~Ends(p)
    <3>1. /\ UNCHANGED cut /\ \A s \in Touches[c] : ~Conflicts(c, s)
          /\ Others(p) /\ proc'[p].at = "write" /\ proc'[p].pending = open /\ proc'[p].change = c
      BY <1>12, <2>4, CheckSpecsEffect DEF Rest
    <3>0. Writes(proc'[p], specs')
      BY <2>0, <2>2, <3>1 DEF Writes
    <3>2. \A s \in open : specs[s] = archives[c].prepared.base[s]
      BY <3>1 DEF Conflicts
    <3>3. \A s : Edited(s) => Edited(s)'
      BY <2>0, <2>1, <3>1, <3>2 DEF Edited, Others
    <3>4. ASSUME NEW d \in Changes, d \notin cut', archives'[d] # None PROVE Standing(d)'
      <4>1. CASE d = c
        BY <3>0, <3>1, <4>1 DEF Standing, Writes
      <4>2. CASE d # c
        <5>1. (\E s \in Touches[d] : Edited(s)) \/ (\A s \in Touches[d] : d \in specs[s])
          BY <2>0, <3>1, <3>4, <4>2, StandingAlone DEF MergeInvariant
        <5>2. QED
          BY <2>0, <3>3, <5>1 DEF Standing
      <4>3. QED
        BY <4>1, <4>2
    <3>5. \A q \in Procs : proc'[q].at = "write" => q = p
      BY <2>1, <3>1 DEF Others
    <3>6. QED
      BY <3>0, <3>4, <3>5 DEF MergeInvariant
  <2>5. Ends(p) => \/ (\E s \in Touches[c] : Conflicts(c, s)) /\ UNCHANGED cut
                   \/ open = {} /\ cut' = cut \ {c}
    BY <1>12, CheckSpecsEffect, IdleFacts DEF Ends
  <2>6. QED
    BY <2>3, <2>4, <2>5
<1>13. ASSUME NEW p \in Procs, WriteSpec(p) PROVE MergeInvariant'
  <2> DEFINE c == proc[p].change
             base == archives[c].prepared.base
  <2>1. PICK s \in proc[p].pending :
          /\ specs' = [specs EXCEPT ![s] = Merged(c, s)]
          /\ \/ Ends(p) /\ proc[p].pending = {s} /\ cut' = cut \ {c}
             \/ /\ Others(p) /\ proc'[p].at = "write" /\ proc'[p].pending = proc[p].pending \ {s}
                /\ Rest(proc'[p], proc[p]) /\ UNCHANGED cut
    BY <1>13, WriteSpecEffect
  <2>2. /\ proc[p].at = "write" /\ proc[p].at \in Archiving /\ c \in Changes /\ s \in Specs
        /\ UNCHANGED <<archives>> /\ base[s] \cap Changes = specs[s] \cap Changes
    BY <1>0, <1>13, WriteSpecEffect, TouchesAssumption DEF Archived, Carries, Archiving
  <2>3. /\ specs'[s] = base[s] \cup {c}
        /\ \A t \in Specs \ {s} : specs'[t] = specs[t]
    BY <2>1, <2>2 DEF TypeOK, Merged
  <2>4. \A q \in Procs : q # p => proc[q].at # "write" /\ proc'[q].at # "write"
    BY <2>1, <2>2, OnlyArchiver DEF Archiving, Ends, Others
  <2>5. \A t \in Specs, d \in Changes : d \in specs[t] => d \in specs'[t]
    BY <2>2, <2>3
  <2>6. proc'[p].at = "write" => proc'[p].change = c /\ proc'[p].pending = proc[p].pending \ {s}
    BY <2>1, IdleFacts DEF Ends, Rest
  <2>7. /\ proc'[p].at # "write" => proc[p].pending = {s}
        /\ proc'[p].at = "write" => UNCHANGED cut
        /\ cut \subseteq cut' \cup {c}
    BY <2>1, IdleFacts DEF Ends
  <2>8. \A t \in Touches[c] : /\ t \in Specs
                              /\ c \in specs'[t] \/ t \in proc[p].pending \ {s}
    BY <2>2, <2>3, TouchesAssumption DEF MergeInvariant, Writes
  <2> HIDE DEF c
  <2>9. ASSUME NEW t \in Specs, Edited(t) PROVE Edited(t)'
    <3>1. ~(specs'[t] \subseteq Changes)
      <4>1. CASE t = s
        BY <2>1, <2>2, <2>3, <2>9, <4>1 DEF Edited, c
      <4>2. CASE t # s
        BY <2>3, <2>9, <4>2 DEF Edited
      <4>3. QED
        BY <4>1, <4>2
    <3>2. ASSUME NEW q \in Procs, proc'[q].at = "write", t \in proc'[q].pending
          PROVE  ~(archives'[proc'[q].change].prepared.base[t] \subseteq Changes)
      <4>1. q = p /\ t \in proc[p].pending /\ proc'[q].change = c
        BY <2>4, <2>6, <3>2
      <4>2. QED
        BY <2>2, <2>9, <4>1 DEF Edited, c
    <3>3. QED
      BY <3>1, <3>2 DEF Edited
  <2>10. ASSUME NEW d \in Changes, d \notin cut', archives'[d] # None PROVE Standing(d)'
    <3>0. Touches[d] \subseteq Specs
      BY TouchesAssumption
    <3>1. CASE d # c
      <4>1. (\E t \in Touches[d] : Edited(t)) \/ (\A t \in Touches[d] : d \in specs[t])
        BY <2>2, <2>7, <2>10, <3>1, StandingAlone DEF MergeInvariant, c
      <4>2. QED
        BY <2>5, <2>9, <3>0, <4>1 DEF Standing
    <3>2. CASE d = c /\ proc'[p].at = "write"
      BY <2>6, <2>8, <3>2 DEF Standing
    <3>3. CASE d = c /\ proc'[p].at # "write"
      BY <2>7, <2>8, <3>3 DEF Standing
    <3>4. QED
      BY <3>1, <3>2, <3>3
  <2>11. \A q \in Procs : proc'[q].at = "write" => Writes(proc'[q], specs')
    BY <2>4, <2>6, <2>8 DEF Writes
  <2>12. QED
    BY <2>10, <2>11 DEF MergeInvariant
<1>14. ASSUME NEW p \in Procs, ImportUsage(p) PROVE MergeInvariant'
  <2>1. Others(p) /\ UNCHANGED <<specs, archives, cut>>
    BY <1>14, ImportUsageEffect DEF project, Ends, Goes
  <2>2. proc[p].at \notin {"check", "write"} /\ proc'[p].at # "write"
    BY <1>14, ImportUsageEffect, IdleFacts DEF Ends, Goes, ImportUsage, Start
  <2>3. QED
    BY <2>1, <2>2, MergeByOthers
<1>15. ASSUME NEW p \in Procs, AppendUsage(p) PROVE MergeInvariant'
  <2>1. Others(p) /\ UNCHANGED <<specs, archives, cut>>
    BY <1>15, AppendUsageEffect DEF project, Ends, Goes
  <2>2. proc[p].at \notin {"check", "write"} /\ proc'[p].at # "write"
    BY <1>15, AppendUsageEffect, IdleFacts DEF Ends, Goes, AppendUsage, Start
  <2>3. QED
    BY <2>1, <2>2, MergeByOthers
<1>16. ASSUME NEW p \in Procs, Crash(p) \/ Fail(p) PROVE MergeInvariant'
  <2>1. /\ Others(p) /\ UNCHANGED <<specs, archives>> /\ cut' = cut \cup Unmerged(p)
        /\ proc'[p].at # "write"
    BY <1>16, CrashEffect, EndingEffect, IdleFacts DEF project, Ends, Fail, CutOff
  <2>2. CASE proc[p].at \notin {"check", "write"}
    <3>1. UNCHANGED cut
      BY <2>1, <2>2 DEF Unmerged
    <3>2. QED
      BY <2>1, <2>2, <3>1, MergeByOthers
  <2>3. CASE proc[p].at \in {"check", "write"}
    <3>1. \A s : Edited(s) => Edited(s)'
      BY <2>1 DEF Edited, Others
    <3>2. ASSUME NEW d \in Changes, d \notin cut', archives'[d] # None PROVE Standing(d)'
      <4>1. d \notin cut /\ d # proc[p].change /\ archives[d] # None
        BY <2>1, <2>3, <3>2 DEF Unmerged
      <4>2. (\E s \in Touches[d] : Edited(s)) \/ (\A s \in Touches[d] : d \in specs[s])
        BY <2>3, <4>1, StandingAlone DEF MergeInvariant, Archiving
      <4>3. QED
        BY <2>1, <3>1, <4>2 DEF Standing
    <3>3. \A q \in Procs : proc'[q].at = "write" => q # p /\ proc'[q] = proc[q]
      BY <2>1 DEF Others
    <3>4. QED
      BY <2>1, <3>2, <3>3 DEF MergeInvariant, Writes
  <2>4. QED
    BY <2>2, <2>3
<1>17. ASSUME NEW p \in Procs, RemoveLocks(p) PROVE MergeInvariant'
  <2>1. Others(p) /\ UNCHANGED <<specs, archives, cut>>
    BY <1>17, EndingEffect DEF project, Ends, RemoveLocks
  <2>2. proc[p].at \notin {"check", "write"} /\ proc'[p].at # "write"
    BY <1>17, EndingEffect, IdleFacts DEF Ends, RemoveLocks
  <2>3. QED
    BY <2>1, <2>2, MergeByOthers
<1>18. ASSUME NEW c \in Changes, Prepare(c) PROVE MergeInvariant'
  <2>1. UNCHANGED <<specs, archives, cut, proc>>
    BY <1>18 DEF Prepare
  <2>2. QED
    BY <2>1 DEF MergeInvariant, Standing, Edited, Writes
<1>19. ASSUME NEW c \in Changes, AcceptSlice(c) PROVE MergeInvariant'
  <2>1. UNCHANGED <<specs, archives, cut, proc>>
    BY <1>19 DEF AcceptSlice, project
  <2>2. QED
    BY <2>1 DEF MergeInvariant, Standing, Edited, Writes
<1>20. ASSUME NEW s \in Specs, EditSpec(s) PROVE MergeInvariant'
  <2>1. /\ spent.edits + 1 \in 1..MaxEdits /\ UNCHANGED <<archives, cut, proc>>
        /\ specs' = [specs EXCEPT ![s] = @ \cup {spent.edits + 1}]
    BY <1>20, BoundsAssumption DEF EditSpec, Edit, TypeOK
  <2>2. PICK mark : mark \notin Changes /\ specs' = [specs EXCEPT ![s] = @ \cup {mark}]
    BY <2>1, MarksAssumption
  <2>3. specs'[s] = specs[s] \cup {mark} /\ \A t \in Specs \ {s} : specs'[t] = specs[t]
    BY <2>2 DEF TypeOK
  <2>4. \A t \in Specs : specs[t] \subseteq specs'[t]
    BY <2>3
  <2>5. \A t \in Specs : Edited(t) => Edited(t)'
    BY <2>1, <2>4 DEF Edited
  <2>6. ASSUME NEW c \in Changes, c \notin cut', archives'[c] # None PROVE Standing(c)'
    <3>0. Touches[c] \subseteq Specs /\ Standing(c)
      BY <2>1, <2>6, TouchesAssumption DEF MergeInvariant
    <3>1. CASE \/ \E t \in Touches[c] : Edited(t)
               \/ \A t \in Touches[c] : c \in specs[t]
               \/ \E q \in Procs : /\ proc[q].change = c /\ proc[q].at = "write"
                                   /\ \A t \in Touches[c] : c \in specs[t] \/ t \in proc[q].pending
      BY <2>1, <2>4, <2>5, <3>0, <3>1 DEF Standing
    <3>2. ASSUME NEW q \in Procs, proc[q].change = c, proc[q].at = "check",
                 \A t \in Touches[c] : specs[t] = archives[c].prepared.base[t]
          PROVE  Standing(c)'
      <4>1. CASE s \in Touches[c]
        <5>1. \A r \in Procs : proc[r].at # "write"
          BY <3>2, OnlyArchiver DEF Archiving
        <5>2. Edited(s)'
          BY <2>1, <2>2, <2>3, <5>1 DEF Edited
        <5>3. QED
          BY <4>1, <5>2 DEF Standing
      <4>2. CASE s \notin Touches[c]
        <5>1. \A t \in Touches[c] : specs'[t] = specs[t]
          BY <2>3, <3>0, <4>2
        <5>2. QED
          BY <2>1, <3>2, <5>1 DEF Standing
      <4>3. QED
        BY <4>1, <4>2
    <3>3. QED
      BY <3>0, <3>1, <3>2 DEF Standing
  <2>7. \A q \in Procs : proc[q].at = "write" => Touches[proc[q].change] \subseteq Specs
    BY <1>0, TouchesAssumption DEF Carries, Archiving
  <2>8. QED
    BY <2>1, <2>4, <2>6, <2>7 DEF MergeInvariant, Writes
<1>21. ASSUME EditCode \/ EditConfig PROVE MergeInvariant'
  <2>1. UNCHANGED <<specs, archives, cut, proc>>
    BY <1>21 DEF EditCode, EditConfig, Edit
  <2>2. QED
    BY <2>1 DEF MergeInvariant, Standing, Edited, Writes
<1>22. ASSUME UNCHANGED vars PROVE MergeInvariant'
  <2>1. UNCHANGED <<specs, archives, cut, proc>>
    BY <1>22 DEF vars
  <2>2. QED
    BY <2>1 DEF MergeInvariant, Standing, Edited, Writes
<1>23. QED
  BY <1>1, <1>2, <1>3, <1>4, <1>5, <1>6, <1>7, <1>8, <1>9, <1>10, <1>11, <1>12, <1>13,
     <1>14, <1>15, <1>16, <1>17, <1>18, <1>19, <1>20, <1>21, <1>22 DEF Next, Continue

-----------------------------------------------------------------------------
(* The theorems                                                            *)

LEMMA InvariantInit ==
  ASSUME Init
  PROVE  DeliveryInvariant
<1> USE IdleFacts DEF Init
<1>1. TypeOK
  <2>1. specs \in [Specs -> Contents] /\ spent \in [edits : 0..MaxEdits, reviews : 0..MaxReviews,
                                                     starts : 0..MaxStarts, crashes : 0..MaxCrashes]
    BY BoundsAssumption DEF Contents
  <2>2. events \in Seq(Events) /\ usage \in 0..MaxImports /\ code \in 0..MaxEdits /\ config \in 0..MaxEdits
    BY BoundsAssumption
  <2>3. QED
    BY <2>1, <2>2 DEF TypeOK, LockNames
<1>2. \A p \in Procs : proc[p] = Idle
  OBVIOUS
<1>3. LockInvariant
  BY <1>2 DEF LockInvariant, Locked, Accepting, Publishing, Archiving, Planning, Metering
<1>4. CarriedInvariant
  BY <1>2, BoundsAssumption DEF CarriedInvariant, Carries, Accepting, Archiving, Planning
<1>5. ArchiveInvariant
  BY <1>2 DEF ArchiveInvariant, Archived, Planning
<1>6. AcceptInvariant
  BY <1>2, NotAccepting DEF AcceptInvariant, AcceptedTogether, Accepting
<1>7. HeldInvariant
  BY <1>2 DEF HeldInvariant, Held, Publishing
<1>8. MergeInvariant
  BY DEF MergeInvariant
<1>9. QED
  BY <1>1, <1>3, <1>4, <1>5, <1>6, <1>7, <1>8 DEF DeliveryInvariant

LEMMA InvariantStep ==
  ASSUME DeliveryInvariant, [Next]_vars
  PROVE  DeliveryInvariant'
<1>1. /\ TypeOK /\ LockInvariant /\ CarriedInvariant /\ ArchiveInvariant
      /\ AcceptInvariant /\ HeldInvariant /\ MergeInvariant
  BY DEF DeliveryInvariant
<1>2. TypeOK'
  BY <1>1, TypeStep
<1>3. LockInvariant' /\ CarriedInvariant' /\ ArchiveInvariant'
  BY <1>1, LockStep, CarriedStep, ArchiveStep
<1>4. AcceptInvariant'
  BY <1>1, <1>2, AcceptStep
<1>5. HeldInvariant' /\ MergeInvariant'
  BY <1>1, HeldStep, MergeStep
<1>6. QED
  BY <1>2, <1>3, <1>4, <1>5 DEF DeliveryInvariant

(* The invariant holds of every state of the delivery.                     *)
THEOREM DeliveryKeepsInvariant == Spec => []DeliveryInvariant
<1>1. Init => DeliveryInvariant
  BY InvariantInit
<1>2. DeliveryInvariant /\ [Next]_vars => DeliveryInvariant'
  BY InvariantStep
<1>3. QED
  BY <1>1, <1>2, PTL DEF Spec

(* Every variable keeps its type.                                          *)
THEOREM DeliveryTyped == Spec => []TypeOK
<1>1. DeliveryInvariant => TypeOK
  BY DEF DeliveryInvariant
<1>2. QED
  BY <1>1, DeliveryKeepsInvariant, PTL

(* Every acceptance in the ledger binds the preparation and the            *)
(* specifications that its integration check ran on, though they were read *)
(* at different moments (acceptFeature, controller.mjs 2140-2236).         *)
THEOREM AcceptancesTogether == Spec => []AcceptedTogether
<1>1. DeliveryInvariant => AcceptedTogether
  BY DEF DeliveryInvariant, AcceptInvariant
<1>2. QED
  BY <1>1, DeliveryKeepsInvariant, PTL

(* A published archive on which nobody works is merged, if nobody edited a *)
(* specification and no error or crash cut its merge off without a later   *)
(* call that completed it (applyArchivedSpecs, living-spec.mjs).           *)
THEOREM ArchivesMerged == Spec => []PublishedMerged
<1>1. DeliveryInvariant => PublishedMerged
  <2> SUFFICES ASSUME DeliveryInvariant, NEW c \in Changes \ cut, archives[c] # None,
                      \A p \in Procs : proc[p].change # c,
                      \A s \in Touches[c] : specs[s] \subseteq Changes
               PROVE  \A s \in Touches[c] : c \in specs[s]
    BY DEF PublishedMerged
  <2>1. Standing(c)
    BY DEF DeliveryInvariant, MergeInvariant
  <2>2. QED
    BY <2>1 DEF Standing, Edited
<1>2. QED
  BY <1>1, DeliveryKeepsInvariant, PTL

LEMMA ReportedWhole ==
  ASSUME DeliveryInvariant, [Next]_vars
  PROVE  [\A i \in DOMAIN events' : i \notin DOMAIN events => events'[i].report = usage']_vars
<1>1. UNCHANGED events \/ \E p \in Procs : AppendEvent(p)
  <2>1. ASSUME NEW p \in Procs, Continue(p) PROVE UNCHANGED events \/ AppendEvent(p)
    BY <2>1 DEF Continue, RetainSource, RetainConfig, RunCheck, VerifyConfig, VerifySource, Reinspect, Recheck,
                FinalInspect, FinalRecheck, FirstReport, StageArchive, SecondReport, SecondSource,
                PublishArchive, CheckSpecs, WriteSpec, AppendUsage, ledgers
  <2>2. QED
    BY <2>1 DEF Next, vars, Prepare, AcceptSlice, EditSpec, EditCode, EditConfig, Fail, Crash, CutOff, RemoveLocks, ImportUsage,
                AcceptFeature, ArchiveChange, ledgers
<1>2. ASSUME NEW p \in Procs, AppendEvent(p), ~UNCHANGED events, NEW i \in DOMAIN events', i \notin DOMAIN events
      PROVE  events'[i].report = usage'
  <2> DEFINE e == [change |-> proc[p].change, slice |-> proc[p].slice, candidate |-> proc[p].candidate,
                   config |-> proc[p].config, report |-> proc[p].report]
  <2>1. proc[p].report = usage /\ UNCHANGED usage /\ events' = Append(events, e)
    BY <1>2, AppendEventEffect DEF At, DeliveryInvariant, HeldInvariant, Held
  <2>2. e.report = usage
    BY <2>1
  <2> HIDE DEF e
  <2>3. events \in Seq(Events)
    BY DEF DeliveryInvariant, TypeOK
  <2>4. events'[i] = e
    BY <1>2, <2>1, <2>3
  <2>5. QED
    BY <2>1, <2>2, <2>4
<1>3. QED
  BY <1>1, <1>2

(* An acceptance reports every usage record there is when it is appended   *)
(* (controller.mjs 2199-2231).                                             *)
THEOREM ReportsComplete == Spec => ReportComplete
<1>1. DeliveryInvariant /\ [Next]_vars =>
        [\A i \in DOMAIN events' : i \notin DOMAIN events => events'[i].report = usage']_vars
  BY ReportedWhole
<1>2. QED
  BY <1>1, DeliveryKeepsInvariant, PTL DEF Spec, ReportComplete

LEMMA PublishedFresh ==
  ASSUME DeliveryInvariant, [Next]_vars, NEW c \in Changes, archives'[c] # archives[c]
  PROVE  /\ archives'[c].event = LatestEvent(c)
         /\ events[LatestEvent(c)].slice = slice[c]
         /\ archives'[c].prepared = slice[c].prepared
<1>1. \E p \in Procs : PublishArchive(p)
  <2>1. ASSUME NEW p \in Procs, Continue(p) PROVE UNCHANGED archives \/ PublishArchive(p)
    BY <2>1 DEF Continue, RetainSource, RetainConfig, RunCheck, VerifyConfig, VerifySource, Reinspect, Recheck,
                FinalInspect, FinalRecheck, FirstReport, StageArchive, SecondReport, SecondSource,
                AppendEvent, CheckSpecs, WriteSpec, AppendUsage
  <2>2. QED
    BY <2>1 DEF Next, vars, Prepare, AcceptSlice, EditSpec, EditCode, EditConfig, Fail, Crash, CutOff, RemoveLocks, ImportUsage,
                AcceptFeature, ArchiveChange
<1>2. PICK p \in Procs : PublishArchive(p)
  BY <1>1
<1>3. /\ proc[p].at = "publish" /\ TypeOK /\ Held(proc[p], usage, events, slice)
      /\ archives' = [archives EXCEPT ![proc[p].change] = [event |-> proc[p].event, prepared |-> proc[p].plan]]
  BY <1>2, PublishArchiveEffect DEF At, DeliveryInvariant, HeldInvariant
<1>4. c = proc[p].change /\ archives'[c].event = proc[p].event /\ archives'[c].prepared = proc[p].plan
  BY <1>3 DEF TypeOK
<1>5. QED
  BY <1>3, <1>4, LatestIs DEF Held, Publishing

(* An archive is published for the latest acceptance of its feature and    *)
(* for the slice as it is accepted now (living-spec.mjs 1104-1117).        *)
THEOREM ArchivesUnderAcceptance == Spec => PublishedUnderAcceptance
<1>1. DeliveryInvariant /\ [Next]_vars =>
        [\A c \in Changes : archives'[c] # archives[c] =>
           /\ archives'[c].event = LatestEvent(c)
           /\ events[LatestEvent(c)].slice = slice[c]
           /\ archives'[c].prepared = slice[c].prepared]_vars
  BY PublishedFresh
<1>2. QED
  BY <1>1, DeliveryKeepsInvariant, PTL DEF Spec, PublishedUnderAcceptance

(* Two invocations never both accept or publish, nor both archive, nor     *)
(* both report or add usage.                                               *)
Alone(steps) == \A p, q \in Procs : proc[p].at \in steps /\ proc[q].at \in steps => p = q

THEOREM LocksExclude ==
  Spec => [](Alone(Accepting \cup Publishing) /\ Alone(Archiving) /\ Alone(Metering))
<1>1. DeliveryInvariant => Alone(Accepting \cup Publishing) /\ Alone(Archiving) /\ Alone(Metering)
  BY DEF DeliveryInvariant, LockInvariant, Locked, Alone
<1>2. QED
  BY <1>1, DeliveryKeepsInvariant, PTL
=============================================================================
