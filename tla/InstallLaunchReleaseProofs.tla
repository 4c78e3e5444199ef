--------------------- MODULE InstallLaunchReleaseProofs ---------------------
(* What holds around a task's controller: of the installation of skills    *)
(* and registry (Installation), of the launch of a worker (WorkerRun) and  *)
(* of the release of a version (Release), for any number of invocations,   *)
(* files, requests, operators, changes and interruptions; and of what the  *)
(* worker is given to read (ContextCompiler, Compaction) and may change    *)
(* (FileScope), for manifests, files, conversations and paths of any length.*)
(* Nothing that was installed gets lost; what a run records is what there  *)
(* is; a version is one artifact, and versions are released in their order;*)
(* the worker reads the lines that were approved, compaction forgets       *)
(* nothing it was told, and no spelling of a reserved path is allowed.     *)
EXTENDS Installation, WorkerRun, Release, ContextCompiler, Compaction, FileScope,
        WellFoundedInduction, TLAPS

-----------------------------------------------------------------------------
(* The installation: the inductive invariant                               *)

(* An invocation knows the version it installs, and plans file by file.    *)
Sound(x) ==
  /\ x \in Invocations
  /\ x.at # "idle" => x.version \in Versions
  /\ x.at \in {"fetch", "registry"} => x.next = 1 /\ x.todo = {}
  /\ x.at = "plan" => x.next \in Files

(* What was moved aside has an owner only while that one is about to put   *)
(* the new directory in place, or to discard the old one.                  *)
Owned(d, procs) ==
  d.owner # None =>
    /\ procs[d.owner].at \in {"rename", "discard"}
    /\ \/ procs[d.owner].task = "skills" /\ d.profiles = None
       \/ procs[d.owner].task = "profiles" /\ d.skills = None

(* Nobody is going to remove it.                                           *)
Safe(d, procs) == d.owner = None \/ procs[d.owner].at # "discard"

(* What was installed is in place, or aside and safe.                      *)
SkillsKept(b, dirs, procs)   == Whole(b) \/ \E d \in dirs : Whole(d.skills) /\ Safe(d, procs)
RegistryKept(r, dirs, procs) == r # None \/ \E d \in dirs : d.profiles # None /\ Safe(d, procs)

Has(b, f, v) == b # None /\ b[f] = Release(v)[f]

(* What a setup may rely on as long as nobody replaced the bundle: every   *)
(* file that it found or wrote is there with the content of its release.   *)
Knows(x, b, linked) ==
  x.task = "setup" /\ ~x.undermined =>
    /\ x.at = "plan" => \A f \in Files \ x.todo : f < x.next => Has(b, f, x.version)
    /\ x.at \in {"links", "write"} => \A f \in Files \ x.todo : Has(b, f, x.version)
    /\ x.at \in {"link", "place"} => \A f \in Files : Has(b, f, x.version)
    /\ x.at = "place" => linked

AllSound     == \A p \in Procs : Sound(proc[p])
AllKnow      == \A p \in Procs : Knows(proc[p], bundle, links)
AsideOwned   == \A d \in aside : Owned(d, proc)
KeptInvariant ==
  /\ installed.skills => SkillsKept(bundle, aside, proc)
  /\ installed.profiles => RegistryKept(registry, aside, proc)

InstallationInvariant == TypeOK /\ AllSound /\ AllKnow /\ AsideOwned /\ KeptInvariant

-----------------------------------------------------------------------------
(* Bundles and releases                                                    *)

(* A set of numbers that is not empty has a least one.                     *)
LEMMA Least ==
  ASSUME NEW S, S \subseteq Nat, S # {}
  PROVE  \E m \in S : \A k \in S : m <= k
<1> DEFINE R == OpToRel(<, Nat)
<1>1. PICK m \in S : \A k \in S : <<k, m>> \notin R
  <2>1. IsWellFoundedOn(R, Nat)
    BY NatLessThanWellFounded
  <2> HIDE DEF R
  <2>2. QED
    BY <2>1, WFMin
<1>2. ASSUME NEW k \in S PROVE ~(k < m)
  <2>1. k < m => <<k, m>> \in R
    BY DEF OpToRel
  <2>2. QED
    BY <1>1, <2>1
<1>3. QED
  BY <1>2

LEMMA FilesFacts ==
  Files \subseteq Nat /\ 1 \in Files /\ NumFiles \in Files /\ NumFiles \in Nat
  /\ \A f \in Files : ~(f < 1) /\ \A g \in Files : g <= f => g < f \/ g = f
BY FilesAssumption DEF Files

(* A release is a bundle without gaps, and nothing is not whole.           *)
LEMMA ReleaseFacts ==
  /\ \A v \in Versions : /\ Release(v) \in Bundles /\ Release(v) # None
                         /\ \A f \in Files : Release(v)[f] \in Contents /\ Release(v)[f] # None
  /\ Empty \in Bundles /\ Empty # None /\ \A f \in Files : Empty[f] = None
  /\ ~Whole(None)
<1>1. ASSUME NEW v \in Versions
      PROVE  Release(v) \in Bundles /\ Release(v) # None
             /\ \A f \in Files : Release(v)[f] \in Contents /\ Release(v)[f] # None
  <2> DEFINE c == [version |-> v, cut |-> FALSE]
  <2>1. c \in Contents
    BY DEF Contents
  <2>2. Release(v) = [f \in Files |-> c]
    BY DEF Release
  <2> HIDE DEF c
  <2>3. c # None
    BY <2>1, NoneAssumption
  <2>4. Release(v) \in Bundles /\ \A f \in Files : Release(v)[f] = c
    BY <2>1, <2>2 DEF Bundles
  <2>5. Release(v) # None
    BY <2>4, NoneAssumption
  <2>6. QED
    BY <2>1, <2>3, <2>4, <2>5
<1>2. Empty \in Bundles /\ Empty # None /\ \A f \in Files : Empty[f] = None
  BY NoneAssumption DEF Empty, Bundles
<1>3. QED
  BY <1>1, <1>2 DEF Whole

(* A file that is put where there was none takes nothing away.             *)
LEMMA PutFacts ==
  ASSUME TypeOK, NEW f \in Files, NEW content \in Contents \cup {None}, Missing(f), Put(f, content)
  PROVE  /\ bundle' \in Bundles /\ bundle'[f] = content /\ bundle' # None
         /\ \A g \in Files : \A v \in Versions : Has(bundle, g, v) => Has(bundle', g, v)
         /\ ~Whole(bundle)
<1> DEFINE old == IF bundle = None THEN Empty ELSE bundle
<1>1. old \in Bundles /\ bundle' = [old EXCEPT ![f] = content]
  BY ReleaseFacts DEF TypeOK, Put
<1> HIDE DEF old
<1>2. bundle' \in Bundles /\ bundle'[f] = content /\ \A g \in Files \ {f} : bundle'[g] = old[g]
  BY <1>1 DEF Bundles
<1>3. bundle' # None
  BY <1>2, NoneAssumption
<1>4. ASSUME NEW g \in Files, NEW v \in Versions, Has(bundle, g, v) PROVE Has(bundle', g, v)
  <2>1. bundle # None /\ bundle[g] = Release(v)[g] /\ bundle[g] # None /\ old = bundle
    BY <1>4, ReleaseFacts DEF Has, old
  <2>2. g # f
    BY <2>1 DEF Missing
  <2>3. QED
    BY <1>2, <1>3, <2>1, <2>2 DEF Has
<1>5. ~Whole(bundle)
  BY ReleaseFacts DEF Whole, Missing
<1>6. QED
  BY <1>2, <1>3, <1>4, <1>5

-----------------------------------------------------------------------------
(* Steps of one invocation that owns nothing aside                         *)

Spendings == [starts : 0..MaxStarts, faults : 0..MaxFaults]
Histories == [skills : BOOLEAN, profiles : BOOLEAN]

(* Invocation p gets from its step to x; nothing that was there goes away. *)
Turns(p, x) ==
  /\ proc[p].at \notin {"rename", "discard"}
  /\ proc' = [proc EXCEPT ![p] = x] /\ Sound(x) /\ Knows(x, bundle', links')
  /\ aside' = aside
  /\ bundle' \in Bundles \cup {None} /\ registry' \in Versions \cup {None}
  /\ links' \in BOOLEAN /\ spent' \in Spendings /\ installed' \in Histories
  /\ \A g \in Files : \A v \in Versions : Has(bundle, g, v) => Has(bundle', g, v)
  /\ links => links'
  /\ Whole(bundle) => bundle' = bundle
  /\ registry # None => registry' # None
  /\ installed'.skills => installed.skills \/ Whole(bundle')
  /\ installed'.profiles => installed.profiles \/ registry' # None

LEMMA KnowsStays ==
  ASSUME NEW x, Sound(x), NEW b, NEW c, NEW l, NEW k, Knows(x, b, l),
         \A g \in Files : \A v \in Versions : Has(b, g, v) => Has(c, g, v), l => k
  PROVE  Knows(x, c, k)
<1>1. x.at # "idle" => x.version \in Versions
  BY DEF Sound
<1>2. QED
  BY <1>1 DEF Knows

LEMMA TurnsKeeps ==
  ASSUME InstallationInvariant, NEW p \in Procs, NEW x, Turns(p, x)
  PROVE  InstallationInvariant'
<1>1. /\ proc[p].at \notin {"rename", "discard"}
      /\ proc' = [proc EXCEPT ![p] = x] /\ Sound(x) /\ Knows(x, bundle', links')
      /\ aside' = aside
      /\ bundle' \in Bundles \cup {None} /\ registry' \in Versions \cup {None}
      /\ links' \in BOOLEAN /\ spent' \in Spendings /\ installed' \in Histories
      /\ \A g \in Files : \A v \in Versions : Has(bundle, g, v) => Has(bundle', g, v)
      /\ links => links'
      /\ Whole(bundle) => bundle' = bundle
      /\ registry # None => registry' # None
      /\ installed'.skills => installed.skills \/ Whole(bundle')
      /\ installed'.profiles => installed.profiles \/ registry' # None
  BY DEF Turns
<1>2. TypeOK /\ AllSound /\ AllKnow /\ AsideOwned /\ KeptInvariant
  BY DEF InstallationInvariant
<1>3. proc \in [Procs -> Invocations] /\ x \in Invocations
      /\ aside \subseteq [skills : Bundles \cup {None}, profiles : Versions \cup {None}, owner : Procs \cup {None}]
  BY <1>1, <1>2 DEF TypeOK, Sound
<1>4. proc'[p] = x /\ \A q \in Procs \ {p} : proc'[q] = proc[q]
  BY <1>1, <1>3
<1>5. TypeOK'
  <2>1. proc' \in [Procs -> Invocations]
    BY <1>1, <1>3
  <2>2. QED
    BY <1>1, <1>3, <2>1 DEF TypeOK, Spendings, Histories
<1>6. AllSound'
  BY <1>1, <1>2, <1>4 DEF AllSound
<1>7. AllKnow'
  <2> SUFFICES ASSUME NEW q \in Procs, q # p PROVE Knows(proc[q], bundle', links')
    BY <1>1, <1>4 DEF AllKnow
  <2>1. Sound(proc[q]) /\ Knows(proc[q], bundle, links)
    BY <1>2 DEF AllSound, AllKnow
  <2> DEFINE y == proc[q]
  <2> HIDE DEF y
  <2>2. Sound(y) /\ Knows(y, bundle, links)
    BY <2>1 DEF y
  <2>3. Knows(y, bundle', links')
    BY <1>1, <2>2, KnowsStays
  <2>4. QED
    BY <2>3 DEF y
<1>8. \A d \in aside : d.owner # p /\ (d.owner = None \/ d.owner \in Procs \ {p})
  BY <1>1, <1>2, <1>3, NoneAssumption DEF AsideOwned, Owned
<1>9. \A d \in aside : Owned(d, proc') /\ (Safe(d, proc) => Safe(d, proc'))
  BY <1>2, <1>4, <1>8 DEF AsideOwned, Owned, Safe
<1>10. AsideOwned'
  BY <1>1, <1>9 DEF AsideOwned
<1>11. KeptInvariant'
  <2>1. SkillsKept(bundle, aside, proc) => SkillsKept(bundle', aside', proc')
    BY <1>1, <1>9 DEF SkillsKept
  <2>2. RegistryKept(registry, aside, proc) => RegistryKept(registry', aside', proc')
    BY <1>1, <1>9 DEF RegistryKept
  <2>3. QED
    BY <1>1, <1>2, <2>1, <2>2 DEF KeptInvariant, SkillsKept, RegistryKept
<1>12. QED
  BY <1>5, <1>6, <1>7, <1>10, <1>11 DEF InstallationInvariant

(* A step that only changes what the invocation knows.                     *)
LEMMA QuietTurns ==
  ASSUME InstallationInvariant, NEW p \in Procs, NEW x, proc[p].at \notin {"rename", "discard"},
         proc' = [proc EXCEPT ![p] = x], Sound(x), Knows(x, bundle, links),
         UNCHANGED <<bundle, links, registry, aside, installed>>, spent' \in Spendings
  PROVE  Turns(p, x)
<1>1. /\ bundle \in Bundles \cup {None} /\ registry \in Versions \cup {None}
      /\ links \in BOOLEAN /\ installed \in Histories
  BY DEF InstallationInvariant, TypeOK, Histories
<1>2. QED
  BY <1>1 DEF Turns

-----------------------------------------------------------------------------
(* The steps that only look                                                *)

LEMMA NowFacts ==
  ASSUME InstallationInvariant, NEW p \in Procs
  PROVE  /\ TypeOK /\ proc \in [Procs -> Invocations] /\ spent \in Spendings
         /\ proc[p] \in Invocations /\ Sound(proc[p]) /\ Knows(proc[p], bundle, links)
BY DEF InstallationInvariant, TypeOK, AllSound, AllKnow, Spendings

LEMMA IdleFacts == Sound(Idle) /\ \A b, l : Knows(Idle, b, l)
BY FilesAssumption DEF Sound, Idle, Invocations, Steps, Knows

(* Starts and faults stay within their bounds.                             *)
LEMMA SpendFacts ==
  ASSUME InstallationInvariant
  PROVE  /\ spent.starts < MaxStarts /\ Spend("starts") => spent' \in Spendings
         /\ Fault => spent' \in Spendings
BY BoundsAssumption DEF InstallationInvariant, TypeOK, Spend, Fault, Spendings

LEMMA StartTurns ==
  ASSUME InstallationInvariant, NEW p \in Procs, NEW v \in Versions,
         RunSetup(p, v) \/ UpdateSkills(p, v) \/ UpdateProfiles(p, v)
  PROVE  \E x : Turns(p, x)
<1>1. PICK task \in {"setup", "skills", "profiles"} : Start(p, task, v)
  BY DEF RunSetup, UpdateSkills, UpdateProfiles
<1> DEFINE x == [Idle EXCEPT !.at = "fetch", !.task = task, !.version = v]
<1>2. proc' = [proc EXCEPT ![p] = x] /\ proc[p].at = "idle" /\ spent' \in Spendings
      /\ UNCHANGED <<bundle, links, registry, aside, installed>>
  BY <1>1, SpendFacts DEF Start
<1>3. x.at = "fetch" /\ x.next = 1 /\ x.todo = {} /\ x.version = v /\ x \in Invocations
  <2>1. Idle \in Invocations /\ Idle.next = 1 /\ Idle.todo = {}
    BY IdleFacts DEF Sound, Idle
  <2>2. QED
    BY <1>1, <2>1 DEF Invocations, Steps
<1> HIDE DEF x
<1>4. Sound(x) /\ Knows(x, bundle, links)
  BY <1>3 DEF Sound, Knows
<1>5. QED
  BY <1>2, <1>4, QuietTurns

(* Every command may end, without having changed anything.                 *)
LEMMA EndTurns ==
  ASSUME InstallationInvariant, NEW p \in Procs, proc[p].at \notin {"rename", "discard"}, End(p),
         UNCHANGED <<bundle, links, registry, aside, installed, spent>>
  PROVE  \E x : Turns(p, x)
BY NowFacts, IdleFacts, QuietTurns DEF End

LEMMA FetchTurns ==
  ASSUME InstallationInvariant, NEW p \in Procs, FetchRelease(p)
  PROVE  \E x : Turns(p, x)
<1>1. UNCHANGED <<bundle, links, registry, aside, installed, spent>> /\ proc[p].at = "fetch"
  BY DEF FetchRelease
<1>2. ASSUME NEW step \in {"plan", "registry"}, Go(p, step) PROVE \E x : Turns(p, x)
  <2> DEFINE x == [proc[p] EXCEPT !.at = step]
  <2>1. proc' = [proc EXCEPT ![p] = x]
    BY <1>2 DEF Go
  <2>2. Sound(x) /\ Knows(x, bundle, links)
    BY <1>1, NowFacts, FilesFacts DEF Sound, Invocations, Steps, Knows
  <2> HIDE DEF x
  <2>3. QED
    BY <1>1, <2>1, <2>2, NowFacts, QuietTurns
<1>3. QED
  BY <1>1, <1>2, EndTurns DEF FetchRelease

LEMMA PlanRegistryTurns ==
  ASSUME InstallationInvariant, NEW p \in Procs, PlanRegistry(p)
  PROVE  \E x : Turns(p, x)
<1>1. UNCHANGED <<bundle, links, registry, aside, installed, spent>> /\ proc[p].at = "registry"
  BY DEF PlanRegistry
<1>2. ASSUME NEW place \in {"install", "preserve", "replace"}, NEW step \in {"plan", "move", "place"},
             step = "place" => proc[p].task # "setup",
             proc' = [proc EXCEPT ![p].place = place, ![p].at = step]
      PROVE  \E x : Turns(p, x)
  <2> DEFINE x == [proc[p] EXCEPT !.place = place, !.at = step]
  <2>1. proc' = [proc EXCEPT ![p] = x]
    BY <1>2, NowFacts
  <2>2. Sound(x) /\ Knows(x, bundle, links)
    BY <1>1, <1>2, NowFacts, FilesFacts DEF Sound, Invocations, Steps, Knows
  <2> HIDE DEF x
  <2>3. QED
    BY <1>1, <2>1, <2>2, NowFacts, QuietTurns
<1>3. QED
  BY <1>1, <1>2, EndTurns DEF PlanRegistry

(* What a setup learns of one file.                                        *)
LEMMA PlanFileTurns ==
  ASSUME InstallationInvariant, NEW p \in Procs, PlanFile(p)
  PROVE  \E x : Turns(p, x)
<1> DEFINE f     == proc[p].next
           there == IF bundle = None THEN None ELSE bundle[f]
           todo  == IF there = None THEN proc[p].todo \cup {f} ELSE proc[p].todo
           step  == IF f = NumFiles THEN "links" ELSE "plan"
           x     == [proc[p] EXCEPT !.next = f + 1, !.todo = todo, !.at = step]
<1>1. UNCHANGED <<bundle, links, registry, aside, installed, spent>>
      /\ proc[p].at = "plan" /\ proc[p].task = "setup"
  BY DEF PlanFile, At
<1>2. f \in Files /\ f \in 1..NumFiles /\ proc[p].version \in Versions
  BY <1>1, NowFacts DEF Sound, Files
<1>3. CASE there \in {None, Release(proc[p].version)[f]}
  <2>1. proc' = [proc EXCEPT ![p] = x]
    BY <1>1, <1>3, NowFacts DEF PlanFile
  <2>2. there # None => Has(bundle, f, proc[p].version)
    BY <1>3 DEF Has
  <2>3. todo \subseteq Files /\ f \in Nat /\ f + 1 \in 1..(NumFiles + 1)
        /\ (f # NumFiles => f + 1 \in Files) /\ step \in {"links", "plan"}
    BY <1>2, NowFacts, FilesFacts DEF Invocations, Files
  <2>4. \A g \in Files \ todo : g <= f => Has(bundle, g, proc[p].version) \/ proc[p].undermined
    <3>1. \A g \in Files \ proc[p].todo : g < f => Has(bundle, g, proc[p].version) \/ proc[p].undermined
      BY <1>1, NowFacts DEF Knows, Invocations
    <3>2. \A g \in Files : g <= f => g < f \/ g = f
      BY <1>2, FilesFacts
    <3> HIDE DEF there, f
    <3>3. QED
      BY <2>2, <3>1, <3>2
  <2>5. /\ x.at = step /\ x.next = f + 1 /\ x.todo = todo /\ x.task = "setup"
        /\ x.version = proc[p].version /\ x.undermined = proc[p].undermined
        /\ x \in Invocations
    <3> HIDE DEF todo, step, f
    <3>1. QED
      BY <1>1, <2>3, NowFacts DEF Invocations, Steps
  <2>6. \A g \in Files : (g < f + 1 => g <= f) /\ (f = NumFiles => g <= f)
    BY <1>2, FilesFacts DEF Files
  <2> HIDE DEF x, todo, f
  <2>7. Sound(x)
    BY <1>2, <2>3, <2>5 DEF Sound
  <2>8. Knows(x, bundle, links)
    BY <2>4, <2>5, <2>6 DEF Knows
  <2>9. QED
    BY <1>1, <2>1, <2>7, <2>8, NowFacts, QuietTurns
<1>4. CASE there \notin {None, Release(proc[p].version)[f]}
  BY <1>1, <1>4, EndTurns DEF PlanFile
<1>5. QED
  BY <1>3, <1>4

LEMMA PlanLinksTurns ==
  ASSUME InstallationInvariant, NEW p \in Procs, PlanLinks(p)
  PROVE  \E x : Turns(p, x)
<1>1. UNCHANGED <<bundle, links, registry, aside, installed, spent>> /\ proc[p].at = "links"
      /\ links \in BOOLEAN
  BY NowFacts DEF PlanLinks, TypeOK
<1> DEFINE step == IF proc[p].task = "setup" THEN "write"
                   ELSE IF proc[p].place = "install" THEN "rename" ELSE "move"
<1>2. proc' = [proc EXCEPT ![p].linked = links, ![p].next = 1, ![p].at = step]
  BY DEF PlanLinks
<1>3. step \in {"write", "rename", "move"} /\ (proc[p].task = "setup" => step = "write")
  OBVIOUS
<1> HIDE DEF step
<1> DEFINE x == [proc[p] EXCEPT !.linked = links, !.next = 1, !.at = step]
<1>4. proc' = [proc EXCEPT ![p] = x]
  BY <1>2, NowFacts
<1>5. /\ x.at = step /\ x.todo = proc[p].todo /\ x.task = proc[p].task
      /\ x.version = proc[p].version /\ x.undermined = proc[p].undermined
      /\ x \in Invocations
  <2>1. step \in Steps /\ 1 \in 1..(NumFiles + 1) /\ proc[p] \in Invocations
    BY <1>3, NowFacts, FilesAssumption DEF Steps
  <2>2. QED
    BY <1>1, <2>1 DEF Invocations
<1> HIDE DEF x
<1>6. Sound(x) /\ Knows(x, bundle, links)
  BY <1>1, <1>3, <1>5, NowFacts DEF Sound, Knows
<1>7. QED
  BY <1>1, <1>4, <1>6, NowFacts, QuietTurns

LEMMA PlanReplaceTurns ==
  ASSUME InstallationInvariant, NEW p \in Procs, PlanReplace(p)
  PROVE  \E x : Turns(p, x)
<1>1. UNCHANGED <<bundle, links, registry, aside, installed, spent>>
      /\ proc[p].at = "plan" /\ proc[p].task = "skills"
  BY DEF PlanReplace, At
<1>2. ASSUME NEW place \in {"install", "replace"},
             proc' = [proc EXCEPT ![p].at = "links", ![p].place = place]
      PROVE  \E x : Turns(p, x)
  <2> DEFINE x == [proc[p] EXCEPT !.at = "links", !.place = place]
  <2>1. proc' = [proc EXCEPT ![p] = x]
    BY <1>2, NowFacts
  <2>2. Sound(x) /\ Knows(x, bundle, links)
    BY <1>1, NowFacts DEF Sound, Invocations, Steps, Knows
  <2> HIDE DEF x
  <2>3. QED
    BY <1>1, <2>1, <2>2, NowFacts, QuietTurns
<1>3. QED
  BY <1>1, <1>2, EndTurns DEF PlanReplace

-----------------------------------------------------------------------------
(* The steps that write                                                    *)

LEMMA PlaceRegistryTurns ==
  ASSUME InstallationInvariant, NEW p \in Procs, PlaceRegistry(p)
  PROVE  \E x : Turns(p, x)
<1>1. UNCHANGED <<bundle, links, aside, spent>> /\ proc[p].at = "place" /\ End(p)
  BY DEF PlaceRegistry
<1>2. CASE proc[p].place = "install" /\ registry = None
  <2>1. registry' = proc[p].version /\ installed' = [installed EXCEPT !.profiles = TRUE]
    BY <1>2 DEF PlaceRegistry
  <2>2. registry' \in Versions /\ registry' # None
    BY <1>1, <2>1, NowFacts, VersionsAssumption DEF Sound
  <2>3. installed' \in Histories /\ installed'.skills = installed.skills
    BY <2>1, NowFacts DEF TypeOK, Histories
  <2>4. bundle \in Bundles \cup {None} /\ links \in BOOLEAN
    BY NowFacts DEF TypeOK
  <2>5. Turns(p, Idle)
    BY <1>1, <2>2, <2>3, <2>4, NowFacts, IdleFacts DEF Turns, End
  <2>6. QED
    BY <2>5
<1>3. CASE ~(proc[p].place = "install" /\ registry = None)
  BY <1>1, <1>3, EndTurns DEF PlaceRegistry
<1>4. QED
  BY <1>2, <1>3

LEMMA LinkSkillsTurns ==
  ASSUME InstallationInvariant, NEW p \in Procs, LinkSkills(p)
  PROVE  \E x : Turns(p, x)
<1>1. /\ UNCHANGED <<bundle, registry, aside, spent, installed>>
      /\ proc[p].at = "link" /\ links' = TRUE
      /\ End(p) \/ Go(p, "place")
  BY DEF LinkSkills
<1>2. /\ bundle \in Bundles \cup {None} /\ registry \in Versions \cup {None} /\ installed \in Histories
  BY NowFacts DEF TypeOK, Histories
<1>3. ASSUME NEW x, proc' = [proc EXCEPT ![p] = x], Sound(x), Knows(x, bundle, TRUE) PROVE Turns(p, x)
  BY <1>1, <1>2, <1>3, NowFacts DEF Turns
<1>4. CASE End(p)
  BY <1>3, <1>4, IdleFacts DEF End
<1>5. CASE Go(p, "place")
  <2> DEFINE x == [proc[p] EXCEPT !.at = "place"]
  <2>1. proc' = [proc EXCEPT ![p] = x]
    BY <1>5 DEF Go
  <2>2. Sound(x) /\ Knows(x, bundle, TRUE)
    BY <1>1, NowFacts DEF Sound, Invocations, Steps, Knows
  <2> HIDE DEF x
  <2>3. QED
    BY <1>3, <2>1, <2>2
<1>6. QED
  BY <1>1, <1>4, <1>5

(* The file that is written next is one that is missing in the plan.       *)
FirstOf(todo) == CHOOSE f \in todo : \A g \in todo : f <= g

LEMMA FirstFile ==
  ASSUME NEW todo \in SUBSET Files, todo # {}
  PROVE  FirstOf(todo) \in todo
BY Least, FilesFacts DEF FirstOf

(* What a file that was missing is replaced by keeps the rest.             *)
LEMMA PutTurns ==
  ASSUME InstallationInvariant, NEW p \in Procs, NEW x, NEW f \in Files, NEW content \in Contents \cup {None},
         proc[p].at = "write", proc' = [proc EXCEPT ![p] = x], Sound(x), Knows(x, bundle', links),
         Missing(f), Put(f, content), UNCHANGED <<links, registry, aside>>, spent' \in Spendings,
         installed' \in Histories, installed'.profiles = installed.profiles,
         installed'.skills => installed.skills \/ Whole(bundle')
  PROVE  Turns(p, x)
<1>1. /\ bundle' \in Bundles /\ ~Whole(bundle)
      /\ \A g \in Files : \A v \in Versions : Has(bundle, g, v) => Has(bundle', g, v)
  BY NowFacts, PutFacts
<1>2. registry \in Versions \cup {None} /\ links \in BOOLEAN
  BY NowFacts DEF TypeOK
<1>3. QED
  BY <1>1, <1>2 DEF Turns

LEMMA WriteFileTurns ==
  ASSUME InstallationInvariant, NEW p \in Procs, WriteFile(p)
  PROVE  \E x : Turns(p, x)
<1> DEFINE y == proc[p]
           f == FirstOf(y.todo)
<1>1. /\ UNCHANGED <<links, registry, aside, spent>> /\ y.at = "write" /\ y.task = "setup"
      /\ y \in Invocations /\ y.version \in Versions
  BY NowFacts DEF WriteFile, At, Sound
<1>2. CASE y.todo = {}
  <2> DEFINE x == [y EXCEPT !.at = "link"]
  <2>1. proc' = [proc EXCEPT ![p] = x] /\ UNCHANGED <<bundle, installed>>
    BY <1>2 DEF WriteFile, Go
  <2>2. Sound(x) /\ Knows(x, bundle, links)
    BY <1>1, <1>2, NowFacts DEF Sound, Invocations, Steps, Knows
  <2> HIDE DEF x
  <2>3. QED
    BY <1>1, <2>1, <2>2, NowFacts, QuietTurns
<1>3. CASE y.todo # {} /\ Missing(f)
  <2> DEFINE x == [y EXCEPT !.todo = y.todo \ {f}]
  <2>1. /\ proc' = [proc EXCEPT ![p] = x] /\ Put(f, Release(y.version)[f])
        /\ installed' = [installed EXCEPT !.skills = installed.skills \/ Whole(bundle')]
    BY <1>3, NowFacts DEF WriteFile, FirstOf
  <2>2. f \in Files /\ f \in y.todo
    BY <1>1, <1>3, FirstFile DEF Invocations
  <2>3. /\ x.at = "write" /\ x.todo = y.todo \ {f} /\ x.task = "setup" /\ x.version = y.version
        /\ x.undermined = y.undermined /\ x \in Invocations
    <3> HIDE DEF f
    <3>1. QED
      BY <1>1 DEF Invocations
  <2>4. Sound(y) /\ Knows(y, bundle, links) /\ Release(y.version)[f] \in Contents
    BY <1>1, <2>2, NowFacts, ReleaseFacts
  <2> HIDE DEF x, y, f
  <2>5. Sound(x)
    BY <1>1, <2>3, <2>4 DEF Sound
  <2>6. /\ bundle'[f] = Release(y.version)[f] /\ bundle' # None
        /\ \A g \in Files : Has(bundle, g, y.version) => Has(bundle', g, y.version)
    BY <1>1, <1>3, <2>1, <2>2, <2>4, NowFacts, PutFacts
  <2>7. Knows(x, bundle', links)
    BY <1>1, <2>3, <2>4, <2>6 DEF Knows, Has
  <2>8. /\ installed' \in Histories /\ installed'.profiles = installed.profiles
        /\ installed'.skills => installed.skills \/ Whole(bundle')
    <3>1. installed \in Histories
      BY NowFacts DEF TypeOK, Histories
    <3>2. Whole(bundle') \in BOOLEAN
      BY DEF Whole
    <3> DEFINE w == Whole(bundle')
    <3> HIDE DEF w
    <3>3. w \in BOOLEAN /\ installed' = [installed EXCEPT !.skills = installed.skills \/ w]
      BY <2>1, <3>2 DEF w
    <3>4. /\ installed' \in Histories /\ installed'.profiles = installed.profiles
          /\ installed'.skills => installed.skills \/ w
      BY <3>1, <3>3 DEF Histories
    <3>5. QED
      BY <3>4 DEF w
  <2>9. y = proc[p] /\ spent' \in Spendings
    BY <1>1, NowFacts DEF y
  <2>10. Turns(p, x)
    BY <1>1, <1>3, <2>1, <2>2, <2>4, <2>5, <2>7, <2>8, <2>9, PutTurns
  <2>11. QED
    BY <2>10
<1>4. CASE y.todo # {} /\ ~Missing(f)
  BY <1>1, <1>4, EndTurns DEF WriteFile, FirstOf
<1>5. QED
  BY <1>2, <1>3, <1>4

LEMMA CutFileTurns ==
  ASSUME InstallationInvariant, NEW p \in Procs, CutFile(p)
  PROVE  \E x : Turns(p, x)
<1> DEFINE f == FirstOf(proc[p].todo)
<1>1. /\ proc[p].at = "write" /\ proc[p].todo # {} /\ Missing(f) /\ Fault /\ End(p)
      /\ UNCHANGED <<links, registry, aside, installed>>
  BY DEF CutFile, At, FirstOf
<1>2. f \in Files /\ proc[p].version \in Versions
  BY <1>1, NowFacts, FirstFile DEF Invocations, Sound
<1>3. PICK content \in Contents \cup {None} : Put(f, content)
  <2>1. [version |-> proc[p].version, cut |-> TRUE] \in Contents
    BY <1>2 DEF Contents
  <2>2. QED
    BY <2>1 DEF CutFile, FirstOf
<1>4. installed \in Histories /\ spent' \in Spendings
  BY <1>1, NowFacts, SpendFacts DEF TypeOK, Histories
<1> HIDE DEF f
<1>5. Turns(p, Idle)
  BY <1>1, <1>2, <1>3, <1>4, IdleFacts, PutTurns DEF End
<1>6. QED
  BY <1>5

-----------------------------------------------------------------------------
(* The steps that move directories                                         *)

Dirs == [skills : Bundles \cup {None}, profiles : Versions \cup {None}, owner : Procs \cup {None}]

LEMMA AsideFacts ==
  ASSUME InstallationInvariant
  PROVE  /\ aside \subseteq Dirs /\ None \notin Procs
         /\ \A d \in aside : (d.owner = None \/ d.owner \in Procs) /\ Owned(d, proc)
         /\ KeptInvariant
BY NoneAssumption DEF InstallationInvariant, TypeOK, Dirs, AsideOwned

(* What holds of the invocations after a step of p that is not a setup.    *)
Proceeds(p) ==
  /\ proc' \in [Procs -> Invocations] /\ AllSound' /\ AllKnow'
  /\ \A q \in Procs \ {p} : proc'[q].at = proc[q].at /\ proc'[q].task = proc[q].task

LEMMA TurnProceeds ==
  ASSUME InstallationInvariant, NEW p \in Procs, NEW x, proc' = [proc EXCEPT ![p] = x],
         Sound(x), \A b, l : Knows(x, b, l), UNCHANGED <<bundle, links>>
  PROVE  Proceeds(p) /\ proc'[p] = x
<1>1. proc'[p] = x /\ \A q \in Procs \ {p} : proc'[q] = proc[q]
  BY NowFacts
<1>2. proc' \in [Procs -> Invocations]
  BY NowFacts DEF Sound
<1>3. AllSound'
  BY <1>1 DEF AllSound, InstallationInvariant
<1>4. AllKnow'
  BY <1>1 DEF AllKnow, InstallationInvariant
<1>5. QED
  BY <1>1, <1>2, <1>3, <1>4 DEF Proceeds

LEMMA StepProceeds ==
  ASSUME InstallationInvariant, NEW p \in Procs, NEW step \in {"rename", "discard", "link"}, Go(p, step),
         proc[p].at # "idle", proc[p].task # "setup", UNCHANGED <<bundle, links>>
  PROVE  Proceeds(p) /\ proc'[p].at = step /\ proc'[p].task = proc[p].task
<1> DEFINE x == [proc[p] EXCEPT !.at = step]
<1>1. proc' = [proc EXCEPT ![p] = x]
  BY DEF Go
<1>2. Sound(x) /\ (\A b, l : Knows(x, b, l)) /\ x.at = step /\ x.task = proc[p].task
  BY NowFacts DEF Sound, Invocations, Steps, Knows
<1> HIDE DEF x
<1>3. QED
  BY <1>1, <1>2, TurnProceeds

(* When the bundle moves, no other setup relies on anything any more.      *)
LEMMA UndermineProceeds ==
  ASSUME InstallationInvariant, NEW p \in Procs, NEW step \in {"rename", "discard"}, Undermine(p, step),
         proc[p].at # "idle", proc[p].task = "skills"
  PROVE  Proceeds(p) /\ proc'[p].at = step /\ proc'[p].task = "skills"
<1>1. /\ DOMAIN proc' = Procs
      /\ proc'[p] = [proc[p] EXCEPT !.at = step]
      /\ \A q \in Procs \ {p} : proc'[q] = [proc[q] EXCEPT !.undermined = @ \/ proc[q].at # "idle"]
      /\ proc' = [q \in Procs |-> proc'[q]]
  BY DEF Undermine
<1> DEFINE x == [proc[p] EXCEPT !.at = step]
<1>2. Sound(x) /\ (\A b, l : Knows(x, b, l)) /\ x.at = step /\ x.task = "skills"
  BY NowFacts DEF Sound, Invocations, Steps, Knows
<1>3. ASSUME NEW q \in Procs \ {p}
      PROVE  /\ Sound(proc'[q]) /\ Knows(proc'[q], bundle', links')
             /\ proc'[q].at = proc[q].at /\ proc'[q].task = proc[q].task
  <2> DEFINE y == proc[q]
             u == y.undermined \/ y.at # "idle"
             z == [y EXCEPT !.undermined = u]
  <2>1. y \in Invocations /\ Sound(y) /\ proc'[q] = z
    BY <1>1, <1>3, NowFacts
  <2>2. u \in BOOLEAN
    BY <2>1 DEF Invocations
  <2>3. y.at # "idle" => u
    OBVIOUS
  <2> HIDE DEF u, y
  <2>4. /\ z \in Invocations /\ z.at = y.at /\ z.task = y.task /\ z.version = y.version
        /\ z.next = y.next /\ z.todo = y.todo /\ z.undermined = u
    BY <2>1, <2>2 DEF Invocations
  <2> HIDE DEF z
  <2>5. Sound(z) /\ Knows(z, bundle', links')
    BY <2>1, <2>3, <2>4 DEF Sound, Knows
  <2>6. QED
    BY <2>1, <2>4, <2>5 DEF y
<1> HIDE DEF x
<1>4. proc'[p] = x
  BY <1>1 DEF x
<1>5. \A q \in Procs : Sound(proc'[q]) /\ Knows(proc'[q], bundle', links')
  BY <1>2, <1>3, <1>4
<1>6. \A q \in Procs : proc'[q] \in Invocations
  BY <1>5 DEF Sound
<1>7. proc' \in [Procs -> Invocations]
  BY <1>1, <1>6
<1>8. QED
  BY <1>2, <1>3, <1>4, <1>5, <1>7 DEF Proceeds, AllSound, AllKnow

(* What others moved aside stays owned, and safe.                          *)
LEMMA OthersAside ==
  ASSUME InstallationInvariant, NEW p \in Procs, Proceeds(p)
  PROVE  \A d \in aside : d.owner # p => Owned(d, proc') /\ (Safe(d, proc) => Safe(d, proc'))
BY AsideFacts DEF Proceeds, Owned, Safe

LEMMA TypesStay ==
  ASSUME InstallationInvariant, NEW p \in Procs, Proceeds(p),
         bundle' \in Bundles \cup {None}, registry' \in Versions \cup {None}, aside' \subseteq Dirs,
         UNCHANGED links, spent' \in Spendings, installed' \in Histories
  PROVE  TypeOK'
<1>1. links \in BOOLEAN
  BY NowFacts DEF TypeOK
<1>2. QED
  BY <1>1 DEF TypeOK, Proceeds, Dirs, Spendings, Histories

(* A replacement that fails or crashes leaves the old directory behind.    *)
LEMMA DisownKeeps ==
  ASSUME InstallationInvariant, NEW p \in Procs, End(p),
         aside' = {IF d.owner = p THEN [d EXCEPT !.owner = None] ELSE d : d \in aside},
         UNCHANGED <<bundle, links, registry, installed>>, spent' \in Spendings
  PROVE  InstallationInvariant'
<1>1. Proceeds(p)
  BY IdleFacts, TurnProceeds DEF End
<1> DEFINE Left(d) == IF d.owner = p THEN [d EXCEPT !.owner = None] ELSE d
<1>2. ASSUME NEW d \in aside
      PROVE  /\ Left(d) \in Dirs /\ Left(d).skills = d.skills /\ Left(d).profiles = d.profiles
             /\ Owned(Left(d), proc') /\ (Safe(d, proc) => Safe(Left(d), proc'))
  <2>1. d \in Dirs
    BY <1>2, AsideFacts
  <2>2. CASE d.owner = p
    <3>1. Left(d) = [d EXCEPT !.owner = None] /\ Left(d).owner = None
      BY <2>1, <2>2 DEF Dirs
    <3>2. Left(d) \in Dirs /\ Left(d).skills = d.skills /\ Left(d).profiles = d.profiles
      BY <2>1, <3>1 DEF Dirs
    <3>3. QED
      BY <3>1, <3>2 DEF Owned, Safe
  <2>3. CASE d.owner # p
    BY <1>1, <1>2, <2>1, <2>3, OthersAside
  <2>4. QED
    BY <2>2, <2>3
<1>3. aside' = {Left(d) : d \in aside}
  OBVIOUS
<1> HIDE DEF Left
<1>4. TypeOK'
  <2>1. aside' \subseteq Dirs
    BY <1>2, <1>3
  <2>2. /\ bundle' \in Bundles \cup {None} /\ registry' \in Versions \cup {None}
        /\ UNCHANGED links /\ installed' \in Histories
    BY NowFacts DEF TypeOK, Histories
  <2>3. QED
    BY <1>1, <2>1, <2>2, TypesStay
<1>5. AsideOwned'
  BY <1>2, <1>3 DEF AsideOwned
<1>6. KeptInvariant'
  BY <1>2, <1>3, AsideFacts DEF KeptInvariant, SkillsKept, RegistryKept
<1>7. QED
  BY <1>1, <1>4, <1>5, <1>6 DEF InstallationInvariant, Proceeds

(* The old directory is aside, and safe, before anything else happens.     *)
LEMMA MoveKeeps ==
  ASSUME InstallationInvariant, NEW p \in Procs, NEW d \in Dirs,
         proc[p].at = "move", Proceeds(p), proc'[p].at = "rename", proc'[p].task = proc[p].task,
         d.owner = p, aside' = aside \cup {d}, UNCHANGED <<links, spent, installed>>,
         \/ /\ proc[p].task = "skills" /\ d.skills = bundle /\ d.profiles = None
            /\ bundle' = None /\ registry' = registry
         \/ /\ proc[p].task = "profiles" /\ d.skills = None /\ d.profiles = registry
            /\ registry' = None /\ bundle' = bundle
  PROVE  InstallationInvariant'
<1>1. \A e \in aside : e.owner # p
  BY AsideFacts DEF Owned
<1>2. \A e \in aside : Owned(e, proc') /\ (Safe(e, proc) => Safe(e, proc'))
  BY <1>1, OthersAside
<1>3. Owned(d, proc') /\ Safe(d, proc')
  BY DEF Owned, Safe
<1>4. TypeOK'
  <2>1. aside' \subseteq Dirs /\ spent' \in Spendings
    BY AsideFacts, NowFacts
  <2>2. /\ bundle' \in Bundles \cup {None} /\ registry' \in Versions \cup {None} /\ installed' \in Histories
    BY NowFacts DEF TypeOK, Histories
  <2>3. QED
    BY <2>1, <2>2, TypesStay
<1>5. AsideOwned'
  BY <1>2, <1>3 DEF AsideOwned
<1>6. SkillsKept(bundle, aside, proc) => SkillsKept(bundle', aside', proc')
  BY <1>2, <1>3 DEF SkillsKept
<1>7. RegistryKept(registry, aside, proc) => RegistryKept(registry', aside', proc')
  BY <1>2, <1>3 DEF RegistryKept
<1>8. KeptInvariant'
  BY <1>6, <1>7, AsideFacts DEF KeptInvariant
<1>9. QED
  BY <1>4, <1>5, <1>8 DEF InstallationInvariant, Proceeds

(* The new directory is in place before the old one is given up.           *)
LEMMA RenameKeeps ==
  ASSUME InstallationInvariant, NEW p \in Procs,
         proc[p].at = "rename", Proceeds(p), proc'[p].at = "discard", proc'[p].task = proc[p].task,
         UNCHANGED <<links, spent, aside>>, installed' \in Histories,
         \/ /\ proc[p].task = "skills" /\ bundle' \in Bundles /\ Whole(bundle')
            /\ registry' = registry /\ installed'.profiles = installed.profiles
         \/ /\ proc[p].task = "profiles" /\ registry' \in Versions
            /\ bundle' = bundle /\ installed'.skills = installed.skills
  PROVE  InstallationInvariant'
<1>1. \A e \in aside : e.owner # p => Owned(e, proc') /\ (Safe(e, proc) => Safe(e, proc'))
  BY OthersAside
<1>2. \A e \in aside : e.owner = p => Owned(e, proc')
  BY AsideFacts DEF Owned
<1>3. TypeOK'
  <2>1. aside' \subseteq Dirs /\ spent' \in Spendings
    BY AsideFacts, NowFacts
  <2>2. /\ bundle' \in Bundles \cup {None} /\ registry' \in Versions \cup {None}
    BY NowFacts DEF TypeOK
  <2>3. QED
    BY <2>1, <2>2, TypesStay
<1>4. AsideOwned'
  BY <1>1, <1>2 DEF AsideOwned
<1>5. KeptInvariant'
  <2>1. CASE proc[p].task = "skills"
    <3>1. \A e \in aside : e.profiles # None => e.owner # p
      BY <2>1, AsideFacts DEF Owned
    <3>2. RegistryKept(registry, aside, proc) => RegistryKept(registry, aside, proc')
      BY <1>1, <3>1 DEF RegistryKept
    <3>3. QED
      BY <2>1, <3>2, AsideFacts DEF KeptInvariant, SkillsKept
  <2>2. CASE proc[p].task = "profiles"
    <3>1. \A e \in aside : Whole(e.skills) => e.owner # p
      BY <2>2, AsideFacts, ReleaseFacts DEF Owned
    <3>2. SkillsKept(bundle, aside, proc) => SkillsKept(bundle, aside, proc')
      BY <1>1, <3>1 DEF SkillsKept
    <3>3. registry' # None
      BY <2>2, VersionsAssumption
    <3>4. QED
      BY <2>2, <3>2, <3>3, AsideFacts DEF KeptInvariant, RegistryKept
  <2>3. QED
    BY <2>1, <2>2
<1>6. QED
  BY <1>3, <1>4, <1>5 DEF InstallationInvariant, Proceeds

LEMMA MoveBundleKeeps ==
  ASSUME InstallationInvariant, NEW p \in Procs, MoveBundle(p)
  PROVE  InstallationInvariant'
<1>1. /\ proc[p].task = "skills" /\ proc[p].at = "move"
      /\ UNCHANGED <<links, registry, spent, installed>>
  BY DEF MoveBundle, At
<1>2. CASE bundle = None
  BY <1>1, <1>2, EndTurns, TurnsKeeps DEF MoveBundle
<1>3. CASE bundle # None
  <2> DEFINE d == [skills |-> bundle, profiles |-> None, owner |-> p]
  <2>1. aside' = aside \cup {d} /\ bundle' = None /\ Undermine(p, "rename")
    BY <1>3 DEF MoveBundle, MovedAside
  <2>2. d \in Dirs /\ d.owner = p /\ d.skills = bundle /\ d.profiles = None
    BY NowFacts DEF Dirs, TypeOK
  <2> HIDE DEF d
  <2>3. Proceeds(p) /\ proc'[p].at = "rename" /\ proc'[p].task = "skills"
    BY <1>1, <2>1, UndermineProceeds
  <2>4. QED
    BY <1>1, <2>1, <2>2, <2>3, MoveKeeps
<1>4. QED
  BY <1>2, <1>3

LEMMA MoveRegistryKeeps ==
  ASSUME InstallationInvariant, NEW p \in Procs, MoveRegistry(p)
  PROVE  InstallationInvariant'
<1>1. /\ proc[p].task = "profiles" /\ proc[p].at = "move"
      /\ UNCHANGED <<bundle, links, spent, installed>>
  BY DEF MoveRegistry, At
<1>2. CASE registry = None
  BY <1>1, <1>2, EndTurns, TurnsKeeps DEF MoveRegistry
<1>3. CASE registry # None
  <2> DEFINE d == [skills |-> None, profiles |-> registry, owner |-> p]
  <2>1. aside' = aside \cup {d} /\ registry' = None /\ Go(p, "rename")
    BY <1>3 DEF MoveRegistry
  <2>2. d \in Dirs /\ d.owner = p /\ d.skills = None /\ d.profiles = registry
    BY NowFacts DEF Dirs, TypeOK
  <2> HIDE DEF d
  <2>3. Proceeds(p) /\ proc'[p].at = "rename" /\ proc'[p].task = "profiles"
    BY <1>1, <2>1, StepProceeds
  <2>4. QED
    BY <1>1, <2>1, <2>2, <2>3, MoveKeeps
<1>4. QED
  BY <1>2, <1>3

LEMMA RenameBundleKeeps ==
  ASSUME InstallationInvariant, NEW p \in Procs, RenameBundle(p)
  PROVE  InstallationInvariant'
<1>1. /\ proc[p].task = "skills" /\ proc[p].at = "rename"
      /\ UNCHANGED <<links, registry, spent>>
  BY DEF RenameBundle, At
<1>2. CASE RootFree
  <2>1. /\ bundle' = Release(proc[p].version) /\ Undermine(p, "discard") /\ UNCHANGED aside
        /\ installed' = [installed EXCEPT !.skills = TRUE]
    BY <1>2 DEF RenameBundle
  <2>2. proc[p].version \in Versions
    BY <1>1, NowFacts DEF Sound
  <2>3. bundle' \in Bundles /\ Whole(bundle')
    BY <2>1, <2>2, ReleaseFacts DEF Whole
  <2>4. installed' \in Histories /\ installed'.profiles = installed.profiles
    BY <2>1, NowFacts DEF TypeOK, Histories
  <2>5. Proceeds(p) /\ proc'[p].at = "discard" /\ proc'[p].task = "skills"
    BY <1>1, <2>1, UndermineProceeds
  <2>6. QED
    BY <1>1, <2>1, <2>3, <2>4, <2>5, RenameKeeps
<1>3. CASE ~RootFree
  <2>1. /\ End(p) /\ UNCHANGED <<bundle, installed>>
        /\ aside' = {IF d.owner = p THEN [d EXCEPT !.owner = None] ELSE d : d \in aside}
    BY <1>3 DEF RenameBundle
  <2>2. QED
    BY <1>1, <2>1, NowFacts, DisownKeeps
<1>4. QED
  BY <1>2, <1>3

LEMMA RenameRegistryKeeps ==
  ASSUME InstallationInvariant, NEW p \in Procs, RenameRegistry(p)
  PROVE  InstallationInvariant'
<1>1. /\ proc[p].task = "profiles" /\ proc[p].at = "rename"
      /\ UNCHANGED <<bundle, links, spent>>
  BY DEF RenameRegistry, At
<1>2. CASE registry = None
  <2>1. /\ registry' = proc[p].version /\ Go(p, "discard") /\ UNCHANGED aside
        /\ installed' = [installed EXCEPT !.profiles = TRUE]
    BY <1>2 DEF RenameRegistry
  <2>2. proc[p].version \in Versions
    BY <1>1, NowFacts DEF Sound
  <2>3. installed' \in Histories /\ installed'.skills = installed.skills
    BY <2>1, NowFacts DEF TypeOK, Histories
  <2>4. Proceeds(p) /\ proc'[p].at = "discard" /\ proc'[p].task = "profiles"
    BY <1>1, <2>1, StepProceeds
  <2>5. QED
    BY <1>1, <2>1, <2>2, <2>3, <2>4, RenameKeeps
<1>3. CASE registry # None
  <2>1. /\ End(p) /\ UNCHANGED <<registry, installed>>
        /\ aside' = {IF d.owner = p THEN [d EXCEPT !.owner = None] ELSE d : d \in aside}
    BY <1>3 DEF RenameRegistry
  <2>2. QED
    BY <1>1, <2>1, NowFacts, DisownKeeps
<1>4. QED
  BY <1>2, <1>3

(* Only what was not kept any more is removed.                             *)
LEMMA DiscardKeeps ==
  ASSUME InstallationInvariant, NEW p \in Procs, Discard(p)
  PROVE  InstallationInvariant'
<1>1. /\ proc[p].at = "discard" /\ aside' = {d \in aside : d.owner # p}
      /\ UNCHANGED <<bundle, links, registry, spent, installed>>
  BY DEF Discard
<1>2. Proceeds(p)
  <2>1. CASE proc[p].task = "skills"
    <3>1. Go(p, "link")
      BY <2>1 DEF Discard
    <3>2. QED
      BY <1>1, <2>1, <3>1, StepProceeds
  <2>2. CASE proc[p].task # "skills"
    <3>1. proc' = [proc EXCEPT ![p] = Idle]
      BY <2>2 DEF Discard, End
    <3>2. QED
      BY <1>1, <3>1, IdleFacts, TurnProceeds
  <2>3. QED
    BY <2>1, <2>2
<1>3. \A d \in aside' : Owned(d, proc') /\ (Safe(d, proc) => Safe(d, proc'))
  BY <1>1, <1>2, OthersAside
<1>4. \A d \in aside : Safe(d, proc) => d \in aside'
  BY <1>1, AsideFacts DEF Safe
<1>5. TypeOK'
  <2>1. aside' \subseteq Dirs /\ spent' \in Spendings
    BY <1>1, AsideFacts, NowFacts
  <2>2. /\ bundle' \in Bundles \cup {None} /\ registry' \in Versions \cup {None} /\ installed' \in Histories
    BY <1>1, NowFacts DEF TypeOK, Histories
  <2>3. QED
    BY <1>1, <1>2, <2>1, <2>2, TypesStay
<1>6. AsideOwned'
  BY <1>3 DEF AsideOwned
<1>7. KeptInvariant'
  BY <1>1, <1>3, <1>4, AsideFacts DEF KeptInvariant, SkillsKept, RegistryKept
<1>8. QED
  BY <1>2, <1>5, <1>6, <1>7 DEF InstallationInvariant, Proceeds

LEMMA CrashKeeps ==
  ASSUME InstallationInvariant, NEW p \in Procs, Crash(p)
  PROVE  InstallationInvariant'
BY SpendFacts, DisownKeeps DEF Crash

-----------------------------------------------------------------------------
(* The invariant                                                           *)

LEMMA InstallationInit == Init => InstallationInvariant
<1> SUFFICES ASSUME Init PROVE InstallationInvariant
  OBVIOUS
<1>1. \A p \in Procs : proc[p] = Idle
  BY DEF Init
<1>2. proc \in [Procs -> Invocations]
  BY IdleFacts DEF Init, Sound
<1>3. TypeOK
  <2>1. 0 \in 0..MaxStarts /\ 0 \in 0..MaxFaults
    BY BoundsAssumption
  <2>2. spent \in [starts : 0..MaxStarts, faults : 0..MaxFaults]
    BY <2>1 DEF Init
  <2>3. QED
    BY <1>2, <2>2 DEF Init, TypeOK
<1>4. QED
  BY <1>1, <1>3, IdleFacts
     DEF Init, InstallationInvariant, AllSound, AllKnow, AsideOwned, KeptInvariant

LEMMA InstallationStep ==
  ASSUME InstallationInvariant, [Next]_vars
  PROVE  InstallationInvariant'
<1>1. ASSUME NEW p \in Procs, NEW v \in Versions, RunSetup(p, v) \/ UpdateSkills(p, v) \/ UpdateProfiles(p, v)
      PROVE  InstallationInvariant'
  BY <1>1, StartTurns, TurnsKeeps
<1>2. ASSUME NEW p \in Procs,
             \/ FetchRelease(p) \/ PlanRegistry(p) \/ PlanFile(p) \/ PlanLinks(p) \/ PlanReplace(p)
             \/ PlaceRegistry(p) \/ WriteFile(p) \/ LinkSkills(p) \/ CutFile(p)
      PROVE  InstallationInvariant'
  <2>1. \E x : Turns(p, x)
    BY <1>2, FetchTurns, PlanRegistryTurns, PlanFileTurns, PlanLinksTurns, PlanReplaceTurns,
       PlaceRegistryTurns, WriteFileTurns, LinkSkillsTurns, CutFileTurns
  <2>2. QED
    BY <2>1, TurnsKeeps
<1>3. ASSUME NEW p \in Procs,
             \/ MoveBundle(p) \/ MoveRegistry(p) \/ RenameBundle(p) \/ RenameRegistry(p)
             \/ Discard(p) \/ Crash(p)
      PROVE  InstallationInvariant'
  BY <1>3, MoveBundleKeeps, MoveRegistryKeeps, RenameBundleKeeps, RenameRegistryKeeps,
     DiscardKeeps, CrashKeeps
<1>4. CASE UNCHANGED vars
  BY <1>4 DEF vars, InstallationInvariant, TypeOK, AllSound, AllKnow, AsideOwned, KeptInvariant
<1>5. QED
  BY <1>1, <1>2, <1>3, <1>4 DEF Next, Continue

(* The inductive invariant of setups and updates.                          *)
THEOREM InstallationKeepsInvariant == Spec => []InstallationInvariant
BY InstallationInit, InstallationStep, PTL DEF Spec

(* Every variable has its type, whatever ran at the same time.             *)
THEOREM InstallationTyped == Spec => []TypeOK
<1>1. InstallationInvariant => TypeOK
  BY DEF InstallationInvariant
<1>2. QED
  BY <1>1, InstallationKeepsInvariant, PTL

(* Once a whole bundle, or a registry, was in place, one is in place or in *)
(* a directory next to it that nobody is going to remove: an update moves  *)
(* the old one away before it renames the new one, and removes it only     *)
(* afterwards (setup.mjs, applyRegistry and updateSkills).                 *)
THEOREM InstalledIsKept == Spec => []InstallationKept
<1>1. InstallationInvariant => InstallationKept
  BY DEF InstallationInvariant, KeptInvariant, SkillsKept, RegistryKept, InstallationKept
<1>2. QED
  BY <1>1, InstallationKeepsInvariant, PTL

(* A setup that comes to its end, while nobody replaced the bundle, leaves *)
(* a whole bundle of its version with the links, although another setup    *)
(* wrote files at the same time (setup.mjs, installBundle).                *)
THEOREM SetupsInstall == Spec => []SetupInstalls
<1>1. ASSUME InstallationInvariant, NEW p \in Procs, At(p, "setup", "place"), ~proc[p].undermined
      PROVE  bundle = Release(proc[p].version) /\ links
  <2> DEFINE v == proc[p].version
  <2>1. v \in Versions /\ links /\ \A f \in Files : Has(bundle, f, v)
    BY <1>1, NowFacts DEF At, Sound, Knows
  <2> HIDE DEF v
  <2>2. bundle # None /\ \A f \in Files : bundle[f] = Release(v)[f]
    BY <2>1, FilesFacts DEF Has
  <2>3. bundle \in Bundles /\ Release(v) \in Bundles
    <3>1. bundle \in Bundles \cup {None}
      BY <1>1, NowFacts DEF TypeOK
    <3>2. QED
      BY <2>1, <2>2, <3>1, ReleaseFacts
  <2>4. bundle = Release(v)
    BY <2>2, <2>3 DEF Bundles
  <2>5. QED
    BY <2>1, <2>4 DEF v
<1>2. InstallationInvariant => SetupInstalls
  BY <1>1 DEF SetupInstalls
<1>3. QED
  BY <1>2, InstallationKeepsInvariant, PTL

-----------------------------------------------------------------------------
(* The launch of a worker: the inductive invariant                         *)

(* The worker runs only while the launcher waits for it, on its copy; the  *)
(* reason of a stop is none before.                                        *)
ChildInvariant ==
  /\ launcher \in {"loading", "copying"} => child = Unset /\ forced = Unset
  /\ child = "live" => launcher = "capturing" /\ workspace \in Trees

(* No request is handled but by a scan.  A scan begins while the worker    *)
(* runs, and is over before the candidate is measured.                     *)
ScanInvariant ==
  /\ ~channel.scanning => handling = NoRequest
  /\ channel.scanning => launcher \in {"capturing", "closing", "draining"}

(* What is recorded is the end, and names the first reason to stop.        *)
ReasonRecorded == forced # Unset => result.outcome = forced
ResultInvariant ==
  /\ launcher \in LauncherSteps \ {"recorded"} => result = <<>>
  /\ Recorded => after = workspace /\ result.checks = log /\ ReasonRecorded

LaunchInvariant == LaunchTypeOK /\ ChildInvariant /\ ScanInvariant /\ ResultInvariant

-----------------------------------------------------------------------------
(* The launch of a worker: the steps                                       *)

(* What the operators on the channel's flags return.                       *)
Flags == [scanning : BOOLEAN, closed : BOOLEAN, aborted : BOOLEAN, failed : BOOLEAN]
ScanOver(ch) == [ch EXCEPT !.scanning = FALSE]
Overfull(ch) == [ch EXCEPT !.scanning = FALSE, !.failed = TRUE, !.aborted = TRUE]

LEMMA FlagsKept ==
  ASSUME NEW ch \in Flags
  PROVE  /\ Cancelled(ch) \in Flags
         /\ Cancelled(ch).scanning = ch.scanning
         /\ Scan(ch) \in Flags
         /\ ch.scanning => Scan(ch).scanning
         /\ ScanOver(ch) \in Flags /\ Overfull(ch) \in Flags
<1>1. Cancelled(ch) \in Flags /\ Cancelled(ch).scanning = ch.scanning
  BY DEF Cancelled, Flags
<1>2. Scan(ch) \in Flags /\ (ch.scanning => Scan(ch).scanning)
  BY DEF Scan, Flags
<1>3. ScanOver(ch) \in Flags /\ Overfull(ch) \in Flags
  BY DEF ScanOver, Overfull, Flags
<1>4. QED
  BY <1>1, <1>2, <1>3

(* A request is a tool call, written at most twice.                        *)
LEMMA AskTyped ==
  ASSUME WorkerRunAssumption, LaunchInvariant, NEW r \in Requests, Ask(r)
  PROVE  LaunchTypeOK'
<1>1. asked' \in [Requests -> 0..2]
  <2>1. asked \in [Requests -> 0..2] /\ asked' = [asked EXCEPT ![r] = asked[r] + 1] /\ asked[r] < 2
    BY DEF LaunchInvariant, LaunchTypeOK, Ask
  <2>2. asked[r] \in 0..2 /\ asked[r] + 1 \in 0..2
    BY <2>1
  <2>3. QED
    BY <2>1, <2>2
<1>2. tools' \in 0..(MaxToolCalls + 1)
  BY DEF LaunchInvariant, Ask, Working, LaunchTypeOK, WorkerRunAssumption
<1>3. QED
  BY <1>1, <1>2 DEF LaunchInvariant, Ask, doing, checks, LaunchTypeOK,
         Unset, LauncherSteps, Reasons, Late, Trees

(* The poll starts a scan, or stops the run for the first reason it sees.  *)
LEMMA PollKept ==
  ASSUME LaunchInvariant, Poll
  PROVE  LaunchTypeOK' /\ ScanInvariant'
<1>1. channel \in Flags
  BY DEF LaunchInvariant, LaunchTypeOK, Flags
<1>2. /\ channel' \in {channel, Scan(channel), Cancelled(channel), Cancelled(Scan(channel))}
      /\ forced' \in Reasons \cup {Unset}
  <2>1. LimitSeen \in Reasons \cup {Unset}
    BY DEF LimitSeen, Limit, Reasons
  <2>2. forced \in Reasons \cup {Unset} /\ "failed" \in Reasons
    BY DEF LaunchInvariant, LaunchTypeOK, Reasons
  <2>3. QED
    BY <2>1, <2>2 DEF Poll, Stop
<1>3. channel' \in Flags /\ (channel.scanning => channel'.scanning)
  BY <1>1, <1>2, FlagsKept
<1>4. LaunchTypeOK'
  BY <1>2, <1>3 DEF LaunchInvariant, LaunchTypeOK, Poll, doing, Flags,
         LauncherSteps, Trees
<1>5. ScanInvariant'
  BY <1>1, <1>2, <1>3, FlagsKept DEF LaunchInvariant, ScanInvariant, Poll
<1>6. QED
  BY <1>4, <1>5

(* The time limit ends no scan.                                            *)
LEMMA TimeoutScans ==
  ASSUME LaunchInvariant, Timeout
  PROVE  ScanInvariant'
<1>1. channel \in Flags
  BY DEF LaunchInvariant, LaunchTypeOK, Flags
<1>2. channel'.scanning = channel.scanning
  BY <1>1, FlagsKept DEF Timeout, Stop
<1>3. QED
  BY <1>2 DEF LaunchInvariant, ScanInvariant, Timeout

(* A request is taken at its present version, or the channel fails.        *)
LEMMA TakeRequestTyped ==
  ASSUME WorkerRunAssumption, LaunchInvariant, NEW r \in Requests, TakeRequest(r)
  PROVE  LaunchTypeOK'
<1>1. channel \in Flags
  BY DEF LaunchInvariant, LaunchTypeOK, Flags
<1>2. channel' \in {channel, ScanOver(channel), Overfull(channel)}
  BY DEF TakeRequest, ScanOver, Overfull
<1>3. channel' \in Flags
  BY <1>1, <1>2, FlagsKept
<1>4. seen' = seen \/ seen' = [seen EXCEPT ![r] = asked[r]]
  BY DEF TakeRequest
<1>5. seen' \in [Requests -> 0..2]
  BY <1>4 DEF LaunchInvariant, LaunchTypeOK
<1>6. UNCHANGED <<launcher, signalled, stopFile, after, child, tools, fault, workspace, clock,
                  forced, asked, count, operator>>
  BY DEF TakeRequest, doing
<1>7. QED
  BY <1>3, <1>5, <1>6 DEF LaunchInvariant, LaunchTypeOK, Flags, LauncherSteps, Trees

(* A check is counted only below its limit, and before the measurement.    *)
LEMMA NextCheckKept ==
  ASSUME WorkerRunAssumption, LaunchInvariant, NextCheck
  PROVE  LaunchTypeOK' /\ ResultInvariant'
<1>1. count' = count \/ (count' = count + 1 /\ ~Spent)
  BY DEF NextCheck, Fails
<1>2. count' \in 0..MaxCheckRuns
  BY <1>1 DEF LaunchInvariant, LaunchTypeOK, Spent, WorkerRunAssumption
<1>3. UNCHANGED <<launcher, signalled, stopFile, after, child, tools, fault, workspace, clock,
                  forced, channel, asked, seen, result, operator>>
  BY DEF NextCheck, doing
<1>4. LaunchTypeOK'
  BY <1>2, <1>3 DEF LaunchInvariant, LaunchTypeOK, LauncherSteps, Trees
<1>5. launcher \in {"capturing", "closing", "draining"}
  BY DEF LaunchInvariant, ScanInvariant, NextCheck, Handling, Serving
<1>6. ~Recorded
  BY <1>5 DEF LaunchInvariant, ResultInvariant, LauncherSteps, Recorded
<1>7. ResultInvariant'
  BY <1>3, <1>6 DEF LaunchInvariant, ResultInvariant, Recorded
<1>8. QED
  BY <1>4, <1>7

(* A signal is handled once, or kills.                                     *)
LEMMA SignalTyped ==
  ASSUME WorkerRunAssumption, LaunchInvariant, NEW o \in Operators, Signal(o)
  PROVE  LaunchTypeOK'
<1>1. channel \in Flags
  BY DEF LaunchInvariant, LaunchTypeOK, Flags
<1>2. /\ launcher' \in {launcher, "killed"} /\ signalled' \in {signalled, TRUE} /\ stopFile' \in {stopFile, FALSE}
      /\ child' \in {child, "killed"}
      /\ channel' \in {channel, ScanOver(channel), Cancelled(channel)}
      /\ forced' \in {forced, "stopped"}
  BY DEF Signal, Deliver, Stop, ScanOver
<1>3. channel' \in Flags
  BY <1>1, <1>2, FlagsKept
<1>4. operator' \in [Operators -> {"idle", "marking", "marked", "done"}]
  BY DEF LaunchInvariant, LaunchTypeOK, Signal, Goes
<1>5. UNCHANGED <<after, tools, fault, workspace, clock, asked, seen, count>>
  BY DEF Signal, launchAside, doing
<1>6. /\ launcher' \in LauncherSteps \cup {"exited", "killed"} /\ {signalled', stopFile'} \subseteq BOOLEAN
      /\ child' \in {Unset, "live", "killed", "completed", "error"}
      /\ forced' \in Reasons \cup {Unset}
  BY <1>2 DEF LaunchInvariant, LaunchTypeOK, Reasons
<1>7. QED
  BY <1>3, <1>4, <1>5, <1>6 DEF LaunchInvariant, LaunchTypeOK, Flags, LauncherSteps,
         Trees, Reasons

(* The start: handlers, copy, process; or an error on the way.             *)
LEMMA BeginLaunched ==
  ASSUME WorkerRunAssumption, LaunchInvariant,
         \/ SetHandlers
         \/ Prepare
         \/ Spawn
         \/ Refuse
  PROVE  LaunchInvariant'
<1>1. LaunchTypeOK'
  <2>1. ASSUME SetHandlers PROVE LaunchTypeOK'
    BY <2>1 DEF LaunchInvariant, ChildInvariant, ScanInvariant, SetHandlers, doing,
       checks, WorkerRunAssumption, LaunchTypeOK, Trees, Baseline,
       LauncherSteps, Reasons, Unset, Late
  <2>2. ASSUME Prepare PROVE LaunchTypeOK'
    BY <2>2 DEF LaunchInvariant, ChildInvariant, ScanInvariant, Prepare, doing,
       checks, WorkerRunAssumption, LaunchTypeOK, Trees, Baseline,
       LauncherSteps, Reasons, Unset, Late
  <2>3. ASSUME Spawn PROVE LaunchTypeOK'
    BY <2>3 DEF LaunchInvariant, ChildInvariant, ScanInvariant, Spawn, doing,
       checks, WorkerRunAssumption, LaunchTypeOK, Trees, Baseline,
       LauncherSteps, Reasons, Unset, Late
  <2>4. ASSUME Refuse PROVE LaunchTypeOK'
    BY <2>4 DEF LaunchInvariant, ChildInvariant, ScanInvariant, Refuse, doing,
       checks, WorkerRunAssumption, LaunchTypeOK, Trees, Baseline,
       LauncherSteps, Reasons, Unset, Late
  <2>5. QED
    BY <2>1, <2>2, <2>3, <2>4
<1>2. ChildInvariant'
  BY DEF LaunchInvariant, ChildInvariant, ScanInvariant, SetHandlers, Prepare,
     Spawn, Refuse, doing, checks, LaunchTypeOK, Trees,
     Unset
<1>3. ScanInvariant'
  BY DEF LaunchInvariant, ChildInvariant, ScanInvariant, SetHandlers, Prepare,
     Spawn, Refuse, doing, checks, LaunchTypeOK, NoRequest
<1>4. ResultInvariant'
  BY DEF LaunchInvariant, ChildInvariant, ScanInvariant, ResultInvariant, SetHandlers,
     Prepare, Spawn, Refuse, doing, checks, LaunchTypeOK,
     LauncherSteps, Unset, Recorded, ReasonRecorded
<1>5. QED
  BY <1>1, <1>2, <1>3, <1>4 DEF LaunchInvariant

(* The worker writes, asks and ends.                                       *)
LEMMA WorkLaunched ==
  ASSUME WorkerRunAssumption, LaunchInvariant,
         \/ \E f \in Outputs : Write(f)
         \/ \E r \in Requests : Ask(r)
         \/ Exit
         \/ Terminated
  PROVE  LaunchInvariant'
<1>1. LaunchTypeOK'
  <2>1. ASSUME NEW f \in Outputs, Write(f) PROVE LaunchTypeOK'
    BY <2>1 DEF LaunchInvariant, ChildInvariant, ScanInvariant, Write, Working,
       doing, checks, WorkerRunAssumption, LaunchTypeOK, Trees,
       Baseline, LauncherSteps, Reasons, Unset, Late
  <2>2. ASSUME NEW r \in Requests, Ask(r) PROVE LaunchTypeOK'
    BY <2>2, AskTyped
  <2>3. ASSUME Exit PROVE LaunchTypeOK'
    BY <2>3 DEF LaunchInvariant, ChildInvariant, ScanInvariant, Exit, Ended,
       doing, checks, WorkerRunAssumption, LaunchTypeOK, Trees,
       Baseline, LauncherSteps, Reasons, Unset, Late
  <2>4. ASSUME Terminated PROVE LaunchTypeOK'
    BY <2>4 DEF LaunchInvariant, ChildInvariant, ScanInvariant, Terminated, Ended,
       doing, checks, WorkerRunAssumption, LaunchTypeOK, Trees,
       Baseline, LauncherSteps, Reasons, Unset, Late
  <2>5. QED
    BY <2>1, <2>2, <2>3, <2>4
<1>2. ChildInvariant'
  BY DEF LaunchInvariant, ChildInvariant, ScanInvariant, Write, Working, Ask,
         Exit, Ended, Terminated, doing, checks, LaunchTypeOK,
         Trees, Unset
<1>3. ScanInvariant'
  BY DEF LaunchInvariant, ChildInvariant, ScanInvariant, Write, Working, Ask,
         Exit, Ended, Terminated, doing, checks, LaunchTypeOK,
         NoRequest
<1>4. ResultInvariant'
  BY DEF LaunchInvariant, ChildInvariant, ScanInvariant, ResultInvariant, Write,
     Working, Ask, Exit, Ended, Terminated, doing,
     checks, LaunchTypeOK, LauncherSteps, Unset, Recorded, ReasonRecorded
<1>5. QED
  BY <1>1, <1>2, <1>3, <1>4 DEF LaunchInvariant

(* The timers and the poll only stop it.                                   *)
LEMMA TimersLaunched ==
  ASSUME WorkerRunAssumption, LaunchInvariant,
         \/ Tick
         \/ Timeout
         \/ Poll
  PROVE  LaunchInvariant'
<1>1. LaunchTypeOK'
  <2>1. ASSUME Tick PROVE LaunchTypeOK'
    BY <2>1 DEF LaunchInvariant, ChildInvariant, ScanInvariant, Tick, doing,
       checks, WorkerRunAssumption, LaunchTypeOK, Trees, Baseline,
       LauncherSteps, Reasons, Unset, Late
  <2>2. ASSUME Timeout PROVE LaunchTypeOK'
    BY <2>2 DEF LaunchInvariant, ChildInvariant, ScanInvariant, Timeout, Stop,
       Cancelled, doing, checks, WorkerRunAssumption, LaunchTypeOK,
       Trees, Baseline, LauncherSteps, Reasons, Unset, Late
  <2>3. ASSUME Poll PROVE LaunchTypeOK'
    BY <2>3, PollKept
  <2>4. QED
    BY <2>1, <2>2, <2>3
<1>2. ChildInvariant'
  BY DEF LaunchInvariant, ChildInvariant, ScanInvariant, Tick, Timeout, Stop,
         Cancelled, Poll, Scan, LimitSeen, Limit, doing,
         checks, LaunchTypeOK, Trees, Unset
<1>3. ScanInvariant'
  <2>1. ASSUME Tick PROVE ScanInvariant'
    BY <2>1 DEF LaunchInvariant, ChildInvariant, ScanInvariant, Tick, doing,
       checks, LaunchTypeOK, NoRequest
  <2>2. ASSUME Timeout PROVE ScanInvariant'
    BY <2>2, TimeoutScans
  <2>3. ASSUME Poll PROVE ScanInvariant'
    BY <2>3, PollKept
  <2>4. QED
    BY <2>1, <2>2, <2>3
<1>4. ResultInvariant'
  BY DEF LaunchInvariant, ChildInvariant, ScanInvariant, ResultInvariant, Tick,
     Timeout, Stop, Cancelled, Poll, Scan, LimitSeen,
     Limit, doing, checks, LaunchTypeOK, LauncherSteps, Unset,
     Recorded, ReasonRecorded
<1>5. QED
  BY <1>1, <1>2, <1>3, <1>4 DEF LaunchInvariant

(* A scan takes requests one by one.                                       *)
LEMMA ScanLaunched ==
  ASSUME WorkerRunAssumption, LaunchInvariant,
         \/ \E r \in Requests : TakeRequest(r)
         \/ \E r \in Requests : NoteReplay(r)
         \/ EndScan
  PROVE  LaunchInvariant'
<1>1. LaunchTypeOK'
  <2>1. ASSUME NEW r \in Requests, TakeRequest(r) PROVE LaunchTypeOK'
    BY <2>1, TakeRequestTyped
  <2>2. ASSUME NEW r \in Requests, NoteReplay(r) PROVE LaunchTypeOK'
    BY <2>2 DEF LaunchInvariant, ChildInvariant, ScanInvariant, NoteReplay, Serving,
       doing, checks, WorkerRunAssumption, LaunchTypeOK, Trees,
       Baseline, LauncherSteps, Reasons, Unset, Late
  <2>3. ASSUME EndScan PROVE LaunchTypeOK'
    BY <2>3 DEF LaunchInvariant, ChildInvariant, ScanInvariant, EndScan, Serving,
       doing, checks, WorkerRunAssumption, LaunchTypeOK, Trees,
       Baseline, LauncherSteps, Reasons, Unset, Late
  <2>4. QED
    BY <2>1, <2>2, <2>3
<1>2. ChildInvariant'
  BY DEF LaunchInvariant, ChildInvariant, ScanInvariant, TakeRequest, Serving,
         NoteReplay, EndScan, doing, checks, LaunchTypeOK,
         Trees, Unset
<1>3. ScanInvariant'
  BY DEF LaunchInvariant, ChildInvariant, ScanInvariant, TakeRequest, Serving,
         NoteReplay, EndScan, doing, checks, LaunchTypeOK, NoRequest
<1>4. ResultInvariant'
  <2>1. ASSUME NEW r \in Requests, TakeRequest(r) PROVE ResultInvariant'
    BY <2>1 DEF LaunchInvariant, ChildInvariant, ScanInvariant, ResultInvariant,
       TakeRequest, Serving, doing, checks, LaunchTypeOK,
       LauncherSteps, Unset, Recorded, ReasonRecorded
  <2>2. ASSUME NEW r \in Requests, NoteReplay(r) PROVE ResultInvariant'
    BY <2>2 DEF LaunchInvariant, ChildInvariant, ScanInvariant, ResultInvariant,
       NoteReplay, Serving, doing, checks, LaunchTypeOK,
       LauncherSteps, Unset, Recorded, ReasonRecorded
  <2>3. ASSUME EndScan PROVE ResultInvariant'
    BY <2>3 DEF LaunchInvariant, ChildInvariant, ScanInvariant, ResultInvariant, EndScan,
       Serving, doing, checks, LaunchTypeOK, LauncherSteps, Unset,
       Recorded, ReasonRecorded
  <2>4. QED
    BY <2>1, <2>2, <2>3
<1>5. QED
  BY <1>1, <1>2, <1>3, <1>4 DEF LaunchInvariant

(* A check is frozen, run and logged while a scan is under way.            *)
LEMMA CheckLaunched ==
  ASSUME WorkerRunAssumption, LaunchInvariant,
         \/ NextCheck
         \/ \E f \in Outputs : Freeze(f)
         \/ RunCheck
         \/ EndCheck
         \/ Answer
  PROVE  LaunchInvariant'
<1>1. LaunchTypeOK'
  <2>1. ASSUME NextCheck PROVE LaunchTypeOK'
    BY <2>1, NextCheckKept
  <2>2. ASSUME NEW f \in Outputs, Freeze(f) PROVE LaunchTypeOK'
    BY <2>2 DEF LaunchInvariant, ChildInvariant, ScanInvariant, Freeze, Handling,
       Serving, Fails, doing, checks, WorkerRunAssumption,
       LaunchTypeOK, Trees, Baseline, LauncherSteps, Reasons, Unset,
       Late
  <2>3. ASSUME RunCheck PROVE LaunchTypeOK'
    BY <2>3 DEF LaunchInvariant, ChildInvariant, ScanInvariant, RunCheck, Handling,
       Serving, Fails, doing, checks, WorkerRunAssumption,
       LaunchTypeOK, Trees, Baseline, LauncherSteps, Reasons, Unset,
       Late
  <2>4. ASSUME EndCheck PROVE LaunchTypeOK'
    BY <2>4 DEF LaunchInvariant, ChildInvariant, ScanInvariant, EndCheck, Handling,
       Serving, doing, checks, WorkerRunAssumption, LaunchTypeOK,
       Trees, Baseline, LauncherSteps, Reasons, Unset, Late
  <2>5. ASSUME Answer PROVE LaunchTypeOK'
    BY <2>5 DEF LaunchInvariant, ChildInvariant, ScanInvariant, Answer, Handling,
       Serving, doing, checks, WorkerRunAssumption, LaunchTypeOK,
       Trees, Baseline, LauncherSteps, Reasons, Unset, Late
  <2>6. QED
    BY <2>1, <2>2, <2>3, <2>4, <2>5
<1>2. ChildInvariant'
  BY DEF LaunchInvariant, ChildInvariant, ScanInvariant, NextCheck, Handling,
     Serving, Fails, Spent, Freeze, RunCheck, EndCheck,
     Answer, doing, checks, LaunchTypeOK, Trees, Unset
<1>3. ScanInvariant'
  BY DEF LaunchInvariant, ChildInvariant, ScanInvariant, NextCheck, Handling,
     Serving, Fails, Spent, Freeze, RunCheck, EndCheck,
     Answer, doing, checks, LaunchTypeOK, NoRequest
<1>4. ResultInvariant'
  <2>1. ASSUME NextCheck PROVE ResultInvariant'
    BY <2>1, NextCheckKept
  <2>2. ASSUME NEW f \in Outputs, Freeze(f) PROVE ResultInvariant'
    BY <2>2 DEF LaunchInvariant, ChildInvariant, ScanInvariant, ResultInvariant, Freeze,
       Handling, Serving, Fails, doing, checks, LaunchTypeOK,
       LauncherSteps, Unset, Recorded, ReasonRecorded
  <2>3. ASSUME RunCheck PROVE ResultInvariant'
    BY <2>3 DEF LaunchInvariant, ChildInvariant, ScanInvariant, ResultInvariant, RunCheck,
       Handling, Serving, Fails, doing, checks, LaunchTypeOK,
       LauncherSteps, Unset, Recorded, ReasonRecorded
  <2>4. ASSUME EndCheck PROVE ResultInvariant'
    BY <2>4 DEF LaunchInvariant, ChildInvariant, ScanInvariant, ResultInvariant, EndCheck,
       Handling, Serving, doing, checks, LaunchTypeOK, LauncherSteps,
       Unset, Recorded, ReasonRecorded
  <2>5. ASSUME Answer PROVE ResultInvariant'
    BY <2>5 DEF LaunchInvariant, ChildInvariant, ScanInvariant, ResultInvariant, Answer,
       Handling, Serving, doing, checks, LaunchTypeOK, LauncherSteps,
       Unset, Recorded, ReasonRecorded
  <2>6. QED
    BY <2>1, <2>2, <2>3, <2>4, <2>5
<1>5. QED
  BY <1>1, <1>2, <1>3, <1>4 DEF LaunchInvariant

(* The end of the run, step by step.                                       *)
LEMMA ConcludeLaunched ==
  ASSUME WorkerRunAssumption, LaunchInvariant,
         \/ Close
         \/ FinalPoll
         \/ Drain
         \/ Record
         \/ Finish
  PROVE  LaunchInvariant'
<1>1. LaunchTypeOK'
  BY DEF LaunchInvariant, ChildInvariant, ScanInvariant, Close, Cancelled,
     FinalPoll, Stop, Limit, Drain, Drained, Record,
     Outcome, Reason, Finish, doing, checks,
     WorkerRunAssumption, LaunchTypeOK, Trees, Baseline, LauncherSteps,
     Reasons, Unset, Late
<1>2. ChildInvariant'
  BY DEF LaunchInvariant, ChildInvariant, ScanInvariant, Close, Cancelled,
     FinalPoll, Stop, Limit, Drain, Drained, Record,
     Outcome, Reason, Finish, doing, checks, LaunchTypeOK,
     Trees, Unset
<1>3. ScanInvariant'
  BY DEF LaunchInvariant, ChildInvariant, ScanInvariant, Close, Cancelled,
     FinalPoll, Stop, Limit, Drain, Drained, Record,
     Outcome, Reason, Finish, doing, checks, LaunchTypeOK,
     NoRequest
<1>4. ResultInvariant'
  BY DEF LaunchInvariant, ChildInvariant, ScanInvariant, ResultInvariant, Close,
     Cancelled, FinalPoll, Stop, Limit, Drain, Drained,
     Record, Outcome, Reason, Finish, doing, checks,
     LaunchTypeOK, LauncherSteps, Unset, Recorded, ReasonRecorded
<1>5. QED
  BY <1>1, <1>2, <1>3, <1>4 DEF LaunchInvariant

(* An operator stops the launch, or kills the launcher.                    *)
LEMMA CommandLaunched ==
  ASSUME WorkerRunAssumption, LaunchInvariant,
         \/ \E o \in Operators : FindLauncher(o)
         \/ \E o \in Operators : WriteStop(o)
         \/ \E o \in Operators : Signal(o)
  PROVE  LaunchInvariant'
<1>1. LaunchTypeOK'
  <2>1. ASSUME NEW o \in Operators, FindLauncher(o) PROVE LaunchTypeOK'
    BY <2>1 DEF LaunchInvariant, ChildInvariant, ScanInvariant, FindLauncher, launchAside,
       Goes, doing, checks, WorkerRunAssumption, LaunchTypeOK,
       Trees, Baseline, LauncherSteps, Reasons, Unset, Late
  <2>2. ASSUME NEW o \in Operators, WriteStop(o) PROVE LaunchTypeOK'
    BY <2>2 DEF LaunchInvariant, ChildInvariant, ScanInvariant, WriteStop, launchAside,
       Goes, OperatorAt, doing, checks, WorkerRunAssumption,
       LaunchTypeOK, Trees, Baseline, LauncherSteps, Reasons, Unset,
       Late
  <2>3. ASSUME NEW o \in Operators, Signal(o) PROVE LaunchTypeOK'
    BY <2>3, SignalTyped
  <2>4. QED
    BY <2>1, <2>2, <2>3
<1>2. ChildInvariant'
  BY DEF LaunchInvariant, ChildInvariant, ScanInvariant, FindLauncher, launchAside,
     Goes, WriteStop, OperatorAt, Signal, Deliver, Handled,
     Stop, Cancelled, Over, doing, checks, LaunchTypeOK,
     Trees, Unset
<1>3. ScanInvariant'
  BY DEF LaunchInvariant, ChildInvariant, ScanInvariant, FindLauncher, launchAside,
     Goes, WriteStop, OperatorAt, Signal, Deliver, Handled,
     Stop, Cancelled, Over, doing, checks, LaunchTypeOK,
     NoRequest
<1>4. ResultInvariant'
  BY DEF LaunchInvariant, ChildInvariant, ScanInvariant, ResultInvariant, FindLauncher,
     launchAside, Goes, WriteStop, OperatorAt, Signal, Deliver,
     Handled, Stop, Cancelled, Over, doing, checks,
     LaunchTypeOK, LauncherSteps, Unset, Recorded, ReasonRecorded
<1>5. QED
  BY <1>1, <1>2, <1>3, <1>4 DEF LaunchInvariant

-----------------------------------------------------------------------------
(* The launch of a worker: the theorems                                    *)

LEMMA LaunchStarts == ASSUME WorkerRunAssumption, LaunchInit PROVE LaunchInvariant
<1>1. LaunchTypeOK
  <2>1. asked \in [Requests -> 0..2] /\ seen \in [Requests -> 0..2]
    BY DEF LaunchInit
  <2>2. operator \in [Operators -> {"idle", "marking", "marked", "done"}]
    BY DEF LaunchInit
  <2>3. tools \in 0..(MaxToolCalls + 1) /\ count \in 0..MaxCheckRuns /\ clock \in 0..2
    BY DEF WorkerRunAssumption, LaunchInit
  <2>4. channel \in [scanning : BOOLEAN, closed : BOOLEAN, aborted : BOOLEAN,
                     failed : BOOLEAN]
    BY DEF LaunchInit
  <2>5. QED
    BY <2>1, <2>2, <2>3, <2>4 DEF LaunchInit, LaunchTypeOK, LauncherSteps, Late
<1>2. ChildInvariant /\ ScanInvariant
  BY DEF LaunchInit, ChildInvariant, ScanInvariant, Unset
<1>3. ResultInvariant
  BY DEF LaunchInit, ResultInvariant, Recorded
<1>4. QED
  BY <1>1, <1>2, <1>3 DEF LaunchInvariant

LEMMA LaunchStutters ==
  ASSUME LaunchInvariant, UNCHANGED launchVars
  PROVE  LaunchInvariant'
<1>1. UNCHANGED <<launcher, signalled, stopFile, after, child, tools, fault, workspace, clock,
                  forced, channel, asked, seen, handling, count, log, result, operator>>
  BY DEF launchVars, doing, checks
<1>2. LaunchTypeOK'
  BY <1>1 DEF LaunchInvariant, LaunchTypeOK, LauncherSteps, Trees, Reasons
<1>3. ChildInvariant' /\ ScanInvariant'
  BY <1>1 DEF LaunchInvariant, ChildInvariant, ScanInvariant, Trees, NoRequest
<1>4. ResultInvariant'
  BY <1>1 DEF LaunchInvariant, ResultInvariant, Recorded, ReasonRecorded
<1>5. QED
  BY <1>2, <1>3, <1>4 DEF LaunchInvariant

(* Every step of the launch keeps the invariant.                           *)
LEMMA LaunchStep ==
  ASSUME WorkerRunAssumption, LaunchInvariant, [LaunchNext]_launchVars
  PROVE  LaunchInvariant'
<1>1. CASE Begin \/ Refuse
  BY <1>1, BeginLaunched DEF Begin
<1>2. CASE Work \/ Terminated
  BY <1>2, WorkLaunched DEF Work
<1>3. CASE Tick \/ Timeout \/ Poll
  BY <1>3, TimersLaunched
<1>4. CASE Serve
  BY <1>4, ScanLaunched, CheckLaunched DEF Serve
<1>5. CASE Conclude
  BY <1>5, ConcludeLaunched DEF Conclude
<1>6. CASE Command
  BY <1>6, CommandLaunched DEF Command
<1>7. CASE UNCHANGED launchVars
  BY <1>7, LaunchStutters
<1>8. QED
  BY <1>1, <1>2, <1>3, <1>4, <1>5, <1>6, <1>7 DEF LaunchNext

(* In every reachable state of a launch its invariant holds, for any files, *)
(* requests, operators, checks and limits (bin/tinysdd.mjs, worker.mjs,     *)
(* check-channel.mjs, check-runner.mjs).                                    *)
THEOREM LaunchKeepsInvariant ==
  ASSUME WorkerRunAssumption
  PROVE  LaunchSpec => []LaunchInvariant
<1>1. LaunchInit => LaunchInvariant
  BY LaunchStarts
<1>2. LaunchInvariant /\ [LaunchNext]_launchVars => LaunchInvariant'
  BY LaunchStep
<1>3. QED
  BY <1>1, <1>2, PTL DEF LaunchSpec

(* The state of a launch is well typed: its counters stay within the limits *)
(* of the run.                                                              *)
THEOREM LaunchTyped ==
  ASSUME WorkerRunAssumption
  PROVE  LaunchSpec => []LaunchTypeOK
<1>1. LaunchInvariant => LaunchTypeOK
  BY DEF LaunchInvariant
<1>2. QED
  BY <1>1, LaunchKeepsInvariant, PTL

(* Once result.json of a run is written nothing of that run goes on, and   *)
(* what it records is what there is (worker.mjs waits for the close, the   *)
(* last poll and the queue before it measures).                            *)
THEOREM CandidateIsSettled ==
  ASSUME WorkerRunAssumption
  PROVE  LaunchSpec => []CandidateSettled
<1>1. LaunchInvariant => CandidateSettled
  <2> SUFFICES ASSUME LaunchInvariant, Recorded PROVE CandidateSettled
    BY DEF CandidateSettled
  <2>1. launcher \notin {"capturing", "closing", "draining"}
    BY DEF LaunchInvariant, ResultInvariant, Recorded, LauncherSteps
  <2>2. channel.scanning \in BOOLEAN
    BY DEF LaunchInvariant, LaunchTypeOK
  <2>3. child # "live" /\ handling = NoRequest /\ ~channel.scanning
    BY <2>1, <2>2 DEF LaunchInvariant, ChildInvariant, ScanInvariant
  <2>4. QED
    BY <2>3 DEF LaunchInvariant, ResultInvariant, CandidateSettled
<1>2. QED
  BY <1>1, LaunchKeepsInvariant, PTL

(* The result names the first reason the run was stopped for, when it was:  *)
(* no later reason replaces it (stop in worker.mjs)   .        *)
THEOREM FirstReasonRecorded ==
  ASSUME WorkerRunAssumption
  PROVE  LaunchSpec => [](Recorded /\ forced # Unset => result.outcome = forced)
<1>1. LaunchInvariant => (Recorded /\ forced # Unset => result.outcome = forced)
  BY DEF LaunchInvariant, ResultInvariant, ReasonRecorded
<1>2. QED
  BY <1>1, LaunchKeepsInvariant, PTL

-----------------------------------------------------------------------------
(* Releases: the inductive invariant                                       *)

VersionSet == Nat \X Nat \X Nat
Entries == [bump : Bumps, version : VersionSet]
Before(v, w) == Older(v, w) /\ tags[v].commit < tags[w].commit

(* The branch holds a commit per merge or release, and names versions.     *)
BranchInvariant ==
  /\ main \in Seq(Entries) /\ main # <<>>
  /\ toolchain \in Nat

(* A tag is on the branch, and records an artifact packed from its commit; *)
(* only the first one records none.  Newer versions are further on.        *)
TagInvariant ==
  /\ DOMAIN tags \subseteq VersionSet
  /\ \A v \in DOMAIN tags :
       /\ tags[v].commit \in 1..Len(main)
       /\ v \in Tagged => /\ tags[v].integrity \in Artifacts
                              /\ tags[v].integrity.commit = tags[v].commit
       /\ v \notin Tagged => \A w \in DOMAIN tags : w = v \/ Before(v, w)
  /\ \A v, w \in DOMAIN tags : v = w \/ Before(v, w) \/ Before(w, v)

(* npm and GitHub have nothing but the tagged artifacts.                   *)
StoreInvariant ==
  /\ DOMAIN npm \cup DOMAIN releases \subseteq Tagged
  /\ \A v \in DOMAIN npm :
       /\ npm[v] \in [artifact : Artifacts, visible : BOOLEAN]
       /\ npm[v].artifact = tags[v].integrity
  /\ \A v \in DOMAIN releases :
       /\ releases[v] \in Drafts
       /\ releases[v].asset \in {Nothing, tags[v].integrity}

(* All but the newest version are released.                                *)
OrderInvariant == \A v, w \in Tagged : Before(v, w) => Released(v)

RunFields == {"pc", "head", "local", "tools", "cycle", "path", "version", "artifact",
              "submitted"}
Shipping == {"archive", "draft", "submit", "confirm", "announce"}

(* The clone's tags are origin's, and its head reaches them.               *)
ClonePlans ==
  /\ run.local = tags /\ DOMAIN tags # {}
  /\ \A v \in DOMAIN tags : tags[v].commit <= run.head
  /\ ~PlanRefused(run.head, run.local)

(* A prepared release is newer than every tag, and those are released.     *)
PushInvariant ==
  /\ run.version \in VersionSet \ DOMAIN tags
  /\ \A v \in DOMAIN tags : Older(v, run.version) /\ tags[v].commit <= run.head
  /\ \A v \in Tagged : Released(v)
  /\ DOMAIN tags # {} /\ run.path = "create"
  /\ run.artifact \in Artifacts /\ run.artifact.commit = run.head + 1
  /\ run.local = With(tags, run.version,
                          [commit |-> run.head + 1, integrity |-> run.artifact])

ShipInvariant ==
  /\ run.version \in Tagged /\ run.local = tags
  /\ run.path = "finish" => ClonePlans
  /\ run.pc # "archive" => run.artifact = tags[run.version].integrity

RunInvariant ==
  /\ DOMAIN run = RunFields /\ run.pc \in {"idle", "validate", "inspect", "push"} \cup Shipping
  /\ run.pc # "idle" => run.head \in 1..Len(main) /\ run.tools \in Nat
  /\ run.pc = "validate" =>
       /\ run.local = tags \/ DOMAIN run.local = {}
       /\ \A v \in DOMAIN run.local : run.local[v].commit <= run.head
  /\ run.pc = "inspect" => ClonePlans
  /\ run.pc = "push" => PushInvariant
  /\ run.pc \in Shipping => ShipInvariant

StoresInvariant == BranchInvariant /\ TagInvariant /\ StoreInvariant /\ OrderInvariant
ReleaseInvariant == StoresInvariant /\ RunInvariant

-----------------------------------------------------------------------------
(* Releases: versions and plans                                            *)

LEMMA OlderOrder ==
  ASSUME NEW u \in VersionSet, NEW v \in VersionSet, NEW w \in VersionSet
  PROVE  /\ ~Older(v, v)
         /\ Older(u, v) /\ Older(v, w) => Older(u, w)
         /\ ~(Older(v, w) /\ Older(w, v))
BY DEF VersionSet, Older

LEMMA BumpNames == Bumps = {"none", "patch", "minor", "major"}
BY DEF Bumps, Rank

(* A bump makes a newer version.                                           *)
LEMMA BumpedIsNewer ==
  ASSUME NEW v \in VersionSet, NEW b \in Bumps \ {"none"}
  PROVE  BumpVersion(v, b) \in VersionSet /\ Older(v, BumpVersion(v, b))
<1>1. CASE b = "major"
  BY <1>1 DEF VersionSet, BumpVersion, Older
<1>2. CASE b = "minor"
  BY <1>2 DEF VersionSet, BumpVersion, Older
<1>3. CASE b = "patch"
  BY <1>3 DEF VersionSet, BumpVersion, Older
<1>4. QED
  BY <1>1, <1>2, <1>3, BumpNames

LEMMA CommitIs ==
  ASSUME BranchInvariant
  PROVE  /\ Len(main) \in Nat \ {0} /\ DOMAIN main = 1..Len(main)
         /\ \A c \in 1..Len(main) : main[c].bump \in Bumps /\ main[c].version \in VersionSet
<1>1. Len(main) \in Nat \ {0} /\ DOMAIN main = 1..Len(main)
  BY DEF BranchInvariant
<1>2. \A c \in 1..Len(main) : main[c] \in Entries
  BY DEF BranchInvariant
<1>3. QED
  BY <1>1, <1>2 DEF Entries

(* There is a highest bump of any commits of the branch.                   *)
LEMMA HighestBumpIs ==
  ASSUME BranchInvariant, NEW S \in SUBSET (1..Len(main))
  PROVE  HighestBump(S) \in Bumps
<1> DEFINE Asks(b) == \E c \in S : main[c].bump = b
           P(b) == /\ b = "none" \/ Asks(b)
                   /\ \A c \in S : Rank[main[c].bump] <= Rank[b]
<1>1. \A c \in S : main[c].bump \in {"none", "patch", "minor", "major"}
  BY CommitIs, BumpNames
<1>2. /\ Rank["none"] = 0 /\ Rank["patch"] = 1
      /\ Rank["minor"] = 2 /\ Rank["major"] = 3
  BY DEF Rank
<1>3. \E b \in Bumps : P(b)
  <2>1. CASE Asks("major")
    <3>1. P("major")
      BY <1>1, <1>2, <2>1
    <3>2. QED
      BY <3>1, BumpNames
  <2>2. CASE Asks("minor") /\ ~Asks("major")
    <3>1. P("minor")
      BY <1>1, <1>2, <2>2
    <3>2. QED
      BY <3>1, BumpNames
  <2>3. CASE Asks("patch") /\ ~Asks("minor") /\ ~Asks("major")
    <3>1. P("patch")
      BY <1>1, <1>2, <2>3
    <3>2. QED
      BY <3>1, BumpNames
  <2>4. CASE ~Asks("patch") /\ ~Asks("minor") /\ ~Asks("major")
    <3>1. P("none")
      BY <1>1, <1>2, <2>4
    <3>2. QED
      BY <3>1, BumpNames
  <2>5. QED
    BY <2>1, <2>2, <2>3, <2>4
<1>4. HighestBump(S) = CHOOSE b \in Bumps : P(b)
  BY DEF HighestBump
<1>5. QED
  BY <1>3, <1>4

(* The tag that is furthest on the branch is the newest.                   *)
LEMMA NewestTag ==
  ASSUME BranchInvariant, TagInvariant, ClonePlans
  PROVE  /\ Reachable(run.head, run.local) = DOMAIN tags
         /\ Newest(DOMAIN tags) \in DOMAIN tags
         /\ \A w \in DOMAIN tags : w = Newest(DOMAIN tags)
                                   \/ Before(w, Newest(DOMAIN tags))
<1>1. Reachable(run.head, run.local) = DOMAIN tags
  BY DEF Reachable, ClonePlans
<1> DEFINE n == Len(main)
           Left == {n - tags[v].commit : v \in DOMAIN tags}
<1>2. n \in Nat /\ \A v \in DOMAIN tags : tags[v].commit \in 1..n
  BY CommitIs DEF TagInvariant
<1> HIDE DEF n
<1>3. Left \in SUBSET Nat /\ Left # {}
  BY <1>2 DEF ClonePlans
<1>4. PICK m \in Left : \A k \in Left : m <= k
  BY <1>3, Least
<1>5. PICK v \in DOMAIN tags : m = n - tags[v].commit
  BY <1>4
<1>6. ASSUME NEW w \in DOMAIN tags PROVE tags[w].commit <= tags[v].commit
  <2>1. n - tags[v].commit <= n - tags[w].commit
    BY <1>4, <1>5
  <2>2. tags[v].commit \in 1..n /\ tags[w].commit \in 1..n /\ n \in Nat
    BY <1>2
  <2>3. QED
    BY <2>1, <2>2
<1>7. ASSUME NEW w \in DOMAIN tags PROVE w = v \/ Before(w, v)
  <2>1. ~Before(v, w)
    BY <1>2, <1>5, <1>6 DEF Before
  <2>2. QED
    BY <1>5, <2>1 DEF TagInvariant
<1>8. /\ Newest(DOMAIN tags) \in DOMAIN tags
      /\ \A w \in DOMAIN tags : w = Newest(DOMAIN tags)
                                \/ Older(w, Newest(DOMAIN tags))
  BY <1>7 DEF Newest, Before
<1>9. v = Newest(DOMAIN tags)
  BY <1>7, <1>8, OlderOrder DEF TagInvariant, Before
<1>10. QED
  BY <1>1, <1>7, <1>8, <1>9

(* A clone that plans finishes the newest tag or prepares a newer version. *)
LEMMA PlanMade ==
  ASSUME BranchInvariant, TagInvariant, ClonePlans, run.head \in 1..Len(main)
  PROVE  /\ ThisPlan.kind \in {"none", "release"}
         /\ ThisPlan.base = Newest(DOMAIN tags)
         /\ ThisPlan.kind = "release" =>
              /\ ThisPlan.version \in VersionSet
              /\ Older(Newest(DOMAIN tags), ThisPlan.version)
<1> DEFINE base == Newest(DOMAIN tags)
           commits == tags[base].commit + 1 .. run.head
           bump == HighestBump(commits)
           version == BumpVersion(base, bump)
<1>1. base \in DOMAIN tags /\ base \in VersionSet
  BY NewestTag DEF TagInvariant
<1>2. commits \in SUBSET (1..Len(main))
  BY <1>1, CommitIs DEF TagInvariant
<1>3. bump \in Bumps
  BY <1>2, HighestBumpIs
<1>4. bump # "none" => version \in VersionSet /\ Older(base, version)
  BY <1>1, <1>3, BumpedIsNewer
<1>5. bump # "none" => version \notin DOMAIN tags
  BY <1>1, <1>4, NewestTag, OlderOrder DEF TagInvariant, Before
<1>6. ThisPlan = IF bump = "none"
                     THEN [kind |-> "none", base |-> base, version |-> base]
                     ELSE IF version \in DOMAIN tags
                     THEN [kind |-> "refused", base |-> Nothing, version |-> Nothing]
                     ELSE [kind |-> "release", base |-> base, version |-> version]
  <2>1. run.local = tags /\ DOMAIN tags # {} /\ ~PlanRefused(run.head, run.local)
    BY DEF ClonePlans
  <2>2. Reachable(run.head, run.local) = DOMAIN tags
    BY NewestTag
  <2>3. QED
    BY <2>1, <2>2 DEF ThisPlan, Plan
<1> HIDE DEF base, bump, version
<1>7. CASE bump = "none"
  BY <1>6, <1>7 DEF base
<1>8. CASE bump # "none"
  BY <1>4, <1>5, <1>6, <1>8 DEF base
<1>9. QED
  BY <1>7, <1>8

-----------------------------------------------------------------------------
(* Releases: what a step leaves as it was                                  *)

LEMMA StoresKept ==
  ASSUME StoresInvariant, UNCHANGED stores, toolchain' \in Nat
  PROVE  StoresInvariant'
<1>1. main' = main /\ tags' = tags /\ npm' = npm /\ releases' = releases
  BY DEF stores
<1>2. BranchInvariant'
  BY <1>1 DEF StoresInvariant, BranchInvariant, Entries
<1>3. TagInvariant' /\ Tagged' = Tagged
  BY <1>1 DEF StoresInvariant, TagInvariant, Tagged, Before
<1>4. StoreInvariant'
  BY <1>1, <1>3 DEF StoresInvariant, StoreInvariant
<1>5. OrderInvariant'
  BY <1>1, <1>3 DEF StoresInvariant, OrderInvariant, Before, Released, Visible
<1>6. QED
  BY <1>2, <1>3, <1>4, <1>5 DEF StoresInvariant

LEMMA IdleKept == ASSUME run' = NoRun PROVE RunInvariant'
BY DEF NoRun, RunInvariant, RunFields, Shipping

(* What a clone plans depends on commits that stay what they are.          *)
LEMMA ClonePlansKept ==
  ASSUME BranchInvariant, TagInvariant, ClonePlans, run.head \in 1..Len(main),
         \A c \in 1..Len(main) : main'[c] = main[c],
         tags' = tags, run'.head = run.head, run'.local = run.local
  PROVE  ClonePlans'
<1>1. \A v \in DOMAIN tags : main'[tags[v].commit] = main[tags[v].commit]
  BY DEF TagInvariant
<1>2. main'[run.head] = main[run.head]
  OBVIOUS
<1>3. ~PlanRefused(run.head, run.local)'
  BY <1>1, <1>2 DEF ClonePlans, PlanRefused, Reachable, PackageVersion
<1>4. QED
  BY <1>3 DEF ClonePlans

(* A run that waits while the stores grow.                                 *)
LEMMA RunKept ==
  ASSUME BranchInvariant, TagInvariant, RunInvariant, run' = run, tags' = tags,
         Len(main') \in Nat, Len(main) <= Len(main'),
         \A c \in 1..Len(main) : main'[c] = main[c],
         \A v \in Tagged : Released(v) => Released(v)'
  PROVE  RunInvariant'
<1>1. Tagged' = Tagged
  BY DEF Tagged
<1>2. ClonePlans /\ run.pc # "idle" => ClonePlans'
  BY ClonePlansKept DEF RunInvariant
<1>3. run.pc # "idle" => run'.head \in 1..Len(main') /\ run'.tools \in Nat
  BY CommitIs DEF RunInvariant
<1>4. run.pc = "push" => PushInvariant'
  BY <1>1 DEF RunInvariant, PushInvariant, With, VersionSet
<1>5. run.pc \in Shipping => ShipInvariant'
  BY <1>1, <1>2 DEF RunInvariant, ShipInvariant, Shipping
<1>6. QED
  BY <1>1, <1>2, <1>3, <1>4, <1>5 DEF RunInvariant, RunFields, Shipping

-----------------------------------------------------------------------------
(* Releases: the steps that touch no store                                 *)

LEMMA StartReleases == ASSUME ReleaseInvariant, StartRelease PROVE ReleaseInvariant'
<1>1. StoresInvariant'
  BY StoresKept DEF ReleaseInvariant, StoresInvariant, BranchInvariant, StartRelease, world
<1>2. /\ DOMAIN run' = RunFields /\ run'.pc = "validate" /\ run'.local = tags
      /\ run'.head = Len(main) /\ run'.tools = toolchain
  BY DEF StartRelease, NoRun, RunFields
<1>3. Len(main) \in 1..Len(main) /\ toolchain \in Nat
  BY CommitIs DEF ReleaseInvariant, StoresInvariant, BranchInvariant
<1>4. \A v \in DOMAIN tags : tags[v].commit <= Len(main)
  BY CommitIs DEF ReleaseInvariant, StoresInvariant, TagInvariant
<1>5. main' = main /\ tags' = tags
  BY DEF StartRelease, stores
<1>6. RunInvariant'
  BY <1>2, <1>3, <1>4, <1>5 DEF RunInvariant, Shipping
<1>7. QED
  BY <1>1, <1>6 DEF ReleaseInvariant

(* A plan that can be made is made from tags the head reaches.             *)
LEMMA ValidateReleases == ASSUME ReleaseInvariant, Validate PROVE ReleaseInvariant'
<1>1. StoresInvariant'
  BY StoresKept DEF ReleaseInvariant, StoresInvariant, BranchInvariant, Validate, world
<1>2. CASE run' = NoRun
  BY <1>1, <1>2, IdleKept DEF ReleaseInvariant
<1>3. CASE run' # NoRun
  <2>1. /\ run.pc = "validate" /\ ThisPlan.kind \in {"none", "release"}
        /\ run' = [run EXCEPT !.pc = "inspect", !.cycle = 1]
        /\ UNCHANGED stores
    BY <1>3 DEF Validate, RunAt, RunEnded
  <2>2. /\ DOMAIN run' = RunFields /\ run'.pc = "inspect" /\ run'.head = run.head
        /\ run'.local = run.local /\ run'.tools = run.tools
    BY <2>1 DEF ReleaseInvariant, RunInvariant, RunFields
  <2>3. /\ Reachable(run.head, run.local) # {}
        /\ ~PlanRefused(run.head, run.local)
    BY <2>1 DEF ThisPlan, Plan
  <2>4. run.local = tags /\ DOMAIN tags # {}
    BY <2>1, <2>3 DEF ReleaseInvariant, RunInvariant, Reachable
  <2>5. ClonePlans
    BY <2>1, <2>3, <2>4 DEF ReleaseInvariant, RunInvariant, ClonePlans
  <2>6. main' = main /\ tags' = tags /\ run.head \in 1..Len(main) /\ run.tools \in Nat
    BY <2>1 DEF ReleaseInvariant, RunInvariant, stores
  <2>7. ClonePlans'
    BY <2>2, <2>5, <2>6, ClonePlansKept DEF ReleaseInvariant, StoresInvariant
  <2>8. RunInvariant'
    BY <2>2, <2>6, <2>7 DEF RunInvariant, Shipping
  <2>9. QED
    BY <1>1, <2>8 DEF ReleaseInvariant
<1>4. QED
  BY <1>2, <1>3

(* What is resumed is the newest tag, which records an artifact.           *)
LEMMA ResumeReleases == ASSUME ReleaseInvariant, Resume PROVE ReleaseInvariant'
<1>1. StoresInvariant'
  BY StoresKept DEF ReleaseInvariant, StoresInvariant, BranchInvariant, Resume, world
<1>2. /\ run.pc = "inspect" /\ Pending(ThisPlan.base) /\ UNCHANGED stores
      /\ run' = [run EXCEPT !.pc = "archive", !.path = "finish", !.version = ThisPlan.base]
  BY DEF Resume, RunAt
<1>3. /\ DOMAIN run' = RunFields /\ run'.pc = "archive" /\ run'.head = run.head
      /\ run'.local = run.local /\ run'.tools = run.tools /\ run'.version = ThisPlan.base
  BY <1>2 DEF ReleaseInvariant, RunInvariant, RunFields
<1>4. ClonePlans /\ run.head \in 1..Len(main) /\ run.tools \in Nat
  BY <1>2 DEF ReleaseInvariant, RunInvariant
<1>5. ThisPlan.base \in Tagged
  <2>1. ThisPlan.base \in DOMAIN tags
    BY <1>4, PlanMade, NewestTag DEF ReleaseInvariant, StoresInvariant
  <2>2. QED
    BY <1>2, <1>4, <2>1 DEF Pending, Tagged, ClonePlans
<1>6. main' = main /\ tags' = tags /\ Tagged' = Tagged
  BY <1>2 DEF stores, Tagged
<1>7. ClonePlans'
  BY <1>3, <1>4, <1>6, ClonePlansKept DEF ReleaseInvariant, StoresInvariant
<1>8. RunInvariant'
  BY <1>3, <1>4, <1>5, <1>6, <1>7 DEF RunInvariant, ShipInvariant, ClonePlans, Shipping
<1>9. QED
  BY <1>1, <1>8 DEF ReleaseInvariant

(* Nothing to do, a refusal, a stop: the clone is gone.                    *)
LEMMA EndReleases ==
  ASSUME ReleaseInvariant, NothingToRelease \/ GiveUp \/ StopRun
  PROVE  ReleaseInvariant'
<1>1. UNCHANGED stores /\ toolchain' = toolchain /\ run' = NoRun
  BY DEF NothingToRelease, GiveUp, StopRun, RunEnded, world
<1>2. QED
  BY <1>1, StoresKept, IdleKept DEF ReleaseInvariant, StoresInvariant, BranchInvariant

(* The owner enables the workflow, the runner image changes.               *)
LEMMA WorldReleases ==
  ASSUME ReleaseInvariant, Enable \/ Upgrade \/ UNCHANGED releaseVars
  PROVE  ReleaseInvariant'
<1>1. UNCHANGED stores /\ toolchain' \in Nat /\ run' = run
  BY DEF Enable, Upgrade, releaseVars, stores, ReleaseInvariant, StoresInvariant,
         BranchInvariant
<1>2. StoresInvariant'
  BY <1>1, StoresKept DEF ReleaseInvariant
<1>3. main' = main /\ tags' = tags /\ npm' = npm /\ releases' = releases
  BY <1>1 DEF stores
<1>4. \A v \in Tagged : Released(v) => Released(v)'
  BY <1>3 DEF Released, Visible
<1>5. RunInvariant'
  BY <1>1, <1>3, <1>4, RunKept, CommitIs DEF ReleaseInvariant, StoresInvariant
<1>6. QED
  BY <1>2, <1>5 DEF ReleaseInvariant

(* A release is prepared when the newest tag, and so every tag, is released. *)
LEMMA PrepareReleases == ASSUME ReleaseInvariant, PrepareRelease PROVE ReleaseInvariant'
<1> DEFINE base == ThisPlan.base
           v == ThisPlan.version
           made == Packed(run.head + 1)
           tag == [commit |-> run.head + 1, integrity |-> made]
<1>1. StoresInvariant'
  BY StoresKept DEF ReleaseInvariant, StoresInvariant, BranchInvariant, PrepareRelease, world
<1>2. CASE run' = NoRun
  BY <1>1, <1>2, IdleKept DEF ReleaseInvariant
<1>3. CASE run' # NoRun
  <2>1. /\ run.pc = "inspect" /\ ~Pending(base) /\ ThisPlan.kind = "release"
        /\ ~Clash(v) /\ UNCHANGED stores
        /\ run' = [run EXCEPT !.pc = "push", !.path = "create", !.version = v,
                              !.artifact = made, !.local = With(run.local, v, tag)]
    BY <1>3 DEF PrepareRelease, RunAt, RunEnded
  <2>2. /\ DOMAIN run' = RunFields /\ run'.pc = "push" /\ run'.head = run.head
        /\ run'.local = With(run.local, v, tag) /\ run'.tools = run.tools
        /\ run'.path = "create" /\ run'.version = v /\ run'.artifact = made
    BY <2>1 DEF ReleaseInvariant, RunInvariant, RunFields
  <2>3. ClonePlans /\ run.head \in 1..Len(main) /\ run.tools \in Nat /\ Len(main) \in Nat
    BY <2>1, CommitIs DEF ReleaseInvariant, RunInvariant, StoresInvariant
  <2>4. /\ base \in DOMAIN tags /\ v \in VersionSet /\ Older(base, v)
        /\ \A w \in DOMAIN tags : w = base \/ Before(w, base)
    BY <2>1, <2>3, PlanMade, NewestTag DEF ReleaseInvariant, StoresInvariant
  <2>5. v \notin DOMAIN tags
    BY <2>1, <2>3 DEF Clash, ClonePlans
  <2>6. \A w \in DOMAIN tags : Older(w, v) /\ tags[w].commit <= run.head
    BY <2>3, <2>4, OlderOrder DEF ReleaseInvariant, StoresInvariant, TagInvariant, Before,
       ClonePlans
  <2>7. ASSUME NEW w \in Tagged PROVE Released(w)
    <3>1. w \in DOMAIN tags
      BY DEF Tagged
    <3>2. CASE w = base
      BY <2>1, <2>3, <3>2 DEF Pending, Tagged, ClonePlans, ReleaseOf, Released
    <3>3. CASE w # base
      <4>1. Before(w, base) /\ ~Before(base, w)
        BY <2>4, <3>1, <3>3, OlderOrder DEF ReleaseInvariant, StoresInvariant, TagInvariant,
           Before
      <4>2. base \in Tagged
        BY <2>4, <3>1, <3>3, <4>1 DEF ReleaseInvariant, StoresInvariant, TagInvariant
      <4>3. QED
        BY <4>1, <4>2 DEF ReleaseInvariant, StoresInvariant, OrderInvariant
    <3>4. QED
      BY <3>2, <3>3
  <2>8. made \in Artifacts /\ made.commit = run.head + 1
    BY <2>3 DEF Packed, Artifacts
  <2>9. main' = main /\ tags' = tags /\ npm' = npm /\ releases' = releases
    BY <2>1 DEF stores
  <2>10. /\ Tagged' = Tagged
         /\ \A w \in Tagged : Released(w)'
    BY <2>7, <2>9 DEF Tagged, Released, Visible
  <2> HIDE DEF v, made
  <2>11. run'.local = With(tags', run'.version,
                               [commit |-> run'.head + 1, integrity |-> run'.artifact])
    BY <2>2, <2>3, <2>9 DEF ClonePlans
  <2>12. DOMAIN tags # {}
    BY <2>3 DEF ClonePlans
  <2>13. PushInvariant'
    BY <2>2, <2>4, <2>5, <2>6, <2>8, <2>9, <2>10, <2>11, <2>12 DEF PushInvariant, VersionSet,
       Older
  <2>14. RunInvariant'
    BY <2>2, <2>3, <2>9, <2>13 DEF RunInvariant, Shipping
  <2>15. QED
    BY <1>1, <2>14 DEF ReleaseInvariant
<1>4. QED
  BY <1>2, <1>3

(* Only the tagged artifact goes on.                                       *)
LEMMA VerifyReleases == ASSUME ReleaseInvariant, Verify PROVE ReleaseInvariant'
<1>1. StoresInvariant'
  BY StoresKept DEF ReleaseInvariant, StoresInvariant, BranchInvariant, Verify, world
<1>2. CASE run' = NoRun
  BY <1>1, <1>2, IdleKept DEF ReleaseInvariant
<1>3. CASE run' # NoRun
  <2>1. run.pc = "archive" /\ UNCHANGED stores
    BY DEF Verify, RunAt
  <2>2. PICK found : /\ run' = [run EXCEPT !.pc = "draft", !.artifact = found]
                     /\ found = run.local[run.version].integrity
    BY <1>3, Zenon DEF Verify, RunEnded, IsTagged
  <2>3. /\ DOMAIN run' = RunFields /\ run'.pc = "draft" /\ run'.head = run.head
        /\ run'.local = run.local /\ run'.tools = run.tools
        /\ run'.path = run.path /\ run'.version = run.version /\ run'.artifact = found
    BY <2>2 DEF ReleaseInvariant, RunInvariant, RunFields
  <2>4. ShipInvariant /\ run.head \in 1..Len(main) /\ run.tools \in Nat
    BY <2>1 DEF ReleaseInvariant, RunInvariant, Shipping
  <2>5. main' = main /\ tags' = tags /\ Tagged' = Tagged
    BY <2>1 DEF stores, Tagged
  <2>6. ClonePlans => ClonePlans'
    BY <2>3, <2>4, <2>5, ClonePlansKept DEF ReleaseInvariant, StoresInvariant
  <2>7. ShipInvariant'
    BY <2>2, <2>3, <2>4, <2>5, <2>6 DEF ShipInvariant
  <2>8. RunInvariant'
    BY <2>3, <2>4, <2>5, <2>7 DEF RunInvariant, Shipping
  <2>9. QED
    BY <1>1, <2>8 DEF ReleaseInvariant
<1>4. QED
  BY <1>2, <1>3

(* What a shipping run keeps when it goes on to the next step.             *)
LEMMA ShipGoesOn ==
  ASSUME ReleaseInvariant, run.pc \in Shipping \ {"archive"}, NEW pc \in Shipping \ {"archive"},
         run' = [run EXCEPT !.pc = pc], main' = main, tags' = tags
  PROVE  RunInvariant'
<1>1. /\ DOMAIN run' = RunFields /\ run'.pc = pc /\ run'.head = run.head
      /\ run'.local = run.local /\ run'.tools = run.tools
      /\ run'.path = run.path /\ run'.version = run.version /\ run'.artifact = run.artifact
  BY DEF ReleaseInvariant, RunInvariant, RunFields
<1>2. ShipInvariant /\ run.head \in 1..Len(main) /\ run.tools \in Nat
  BY DEF ReleaseInvariant, RunInvariant, Shipping
<1>3. Tagged' = Tagged
  BY DEF Tagged
<1>4. ClonePlans => ClonePlans'
  BY <1>1, <1>2, ClonePlansKept DEF ReleaseInvariant, StoresInvariant
<1>5. ShipInvariant'
  BY <1>1, <1>2, <1>3, <1>4 DEF ShipInvariant, Shipping
<1>6. QED
  BY <1>1, <1>2, <1>5 DEF RunInvariant, Shipping

LEMMA ConfirmReleases == ASSUME ReleaseInvariant, Confirm PROVE ReleaseInvariant'
<1>1. StoresInvariant'
  BY StoresKept DEF ReleaseInvariant, StoresInvariant, BranchInvariant, Confirm, world
<1>2. run.pc = "confirm" /\ main' = main /\ tags' = tags
  BY DEF Confirm, RunAt, stores
<1>3. run' = [run EXCEPT !.pc = "announce"] \/ run' = NoRun
  BY DEF Confirm
<1>4. RunInvariant'
  BY <1>2, <1>3, IdleKept, ShipGoesOn DEF Shipping
<1>5. QED
  BY <1>1, <1>4 DEF ReleaseInvariant

-----------------------------------------------------------------------------
(* Releases: the branch and its tags                                       *)

LEMMA BranchGrows ==
  ASSUME BranchInvariant, NEW e \in Entries, main' = Append(main, e), toolchain' = toolchain
  PROVE  /\ BranchInvariant' /\ Len(main') = Len(main) + 1
         /\ \A c \in 1..Len(main) : main'[c] = main[c]
<1> DEFINE E == Entries
<1>1. main \in Seq(E) /\ e \in E
  BY DEF BranchInvariant
<1>2. E' = E
  BY DEF Entries
<1> HIDE DEF E
<1>3. /\ main' \in Seq(E) /\ main' # <<>> /\ Len(main') = Len(main) + 1
      /\ \A c \in 1..Len(main) : main'[c] = main[c]
  BY <1>1
<1>4. QED
  BY <1>2, <1>3 DEF BranchInvariant, E

(* The tags of the past stay, and so does what is kept for them.           *)
LEMMA OldTagsKept ==
  ASSUME StoresInvariant, NEW v \in VersionSet \ DOMAIN tags, NEW tag,
         tags' = With(tags, v, tag), npm' = npm, releases' = releases,
         tag.integrity # Nothing =>
           \A w \in Tagged : Released(w) /\ Older(w, v)
  PROVE  /\ DOMAIN tags' = DOMAIN tags \cup {v} /\ tags'[v] = tag
         /\ \A w \in DOMAIN tags : tags'[w] = tags[w]
         /\ Tagged' = Tagged \cup (IF tag.integrity # Nothing THEN {v} ELSE {})
         /\ StoreInvariant' /\ OrderInvariant'
<1>1. /\ DOMAIN tags' = DOMAIN tags \cup {v} /\ tags'[v] = tag
      /\ \A w \in DOMAIN tags : tags'[w] = tags[w]
  BY DEF With
<1>2. Tagged' = Tagged \cup (IF tag.integrity # Nothing THEN {v} ELSE {})
  BY <1>1 DEF Tagged
<1>3. StoreInvariant'
  BY <1>1, <1>2 DEF StoresInvariant, StoreInvariant, Tagged
<1>4. \A w \in DOMAIN tags : Released(w)' <=> Released(w)
  BY DEF Released, Visible
<1>5. ASSUME NEW u \in Tagged', NEW w \in Tagged', Before(u, w)' PROVE Released(u)'
  <2>1. Tagged \subseteq DOMAIN tags /\ DOMAIN tags \subseteq VersionSet
    BY DEF Tagged, StoresInvariant, TagInvariant
  <2>2. CASE u \in Tagged /\ w \in Tagged
    BY <1>1, <1>4, <1>5, <2>1, <2>2 DEF StoresInvariant, OrderInvariant, Before
  <2>3. CASE u \in Tagged /\ w = v
    BY <1>2, <1>4, <2>1, <2>3
  <2>4. CASE u = v
    <3>1. w = v \/ Older(w, v)
      BY <1>2, <2>1, <2>4
    <3>2. QED
      BY <1>5, <2>1, <2>4, <3>1, <1>2, OlderOrder DEF Before
  <2>5. QED
    BY <1>2, <2>2, <2>3, <2>4
<1>6. QED
  BY <1>1, <1>2, <1>3, <1>5 DEF OrderInvariant

(* The pushed tag is the newest, on the commit that is the last.           *)
LEMMA PushReleases ==
  ASSUME ReleaseInvariant, NothingAssumption, Push
  PROVE  ReleaseInvariant'
<1>1. run.pc = "push" /\ PushInvariant /\ run.head \in 1..Len(main) /\ run.tools \in Nat
  BY DEF Push, RunAt, ReleaseInvariant, RunInvariant
<1>2. CASE run' = NoRun /\ UNCHANGED <<main, tags>>
  <2>1. UNCHANGED stores /\ toolchain' = toolchain
    BY <1>2 DEF Push, stores, world
  <2>2. QED
    BY <1>2, <2>1, StoresKept, IdleKept DEF ReleaseInvariant, StoresInvariant, BranchInvariant
<1>3. CASE ~(run' = NoRun /\ UNCHANGED <<main, tags>>)
  <2>0. PICK v, tag : v = run.version /\ tag = run.local[run.version]
    OBVIOUS
  <2>1. /\ Len(main) = run.head /\ main' = Append(main, Entry("none", v))
        /\ tags' = With(tags, v, tag) /\ run' = [run EXCEPT !.pc = "archive"]
        /\ npm' = npm /\ releases' = releases /\ toolchain' = toolchain
    BY <1>3, <2>0 DEF Push, RunEnded, world
  <2>2. /\ v \in VersionSet \ DOMAIN tags
        /\ tag.commit = Len(main) + 1 /\ tag.integrity = run.artifact
        /\ run.artifact \in Artifacts /\ run.artifact.commit = Len(main) + 1
        /\ run.local = With(tags, v, tag)
    BY <1>1, <2>0, <2>1 DEF PushInvariant, With
  <2>3. tag.integrity # Nothing
    BY <2>2 DEF NothingAssumption
  <2>4. /\ \A w \in DOMAIN tags : Older(w, v)
        /\ \A w \in Tagged : Released(w) /\ Older(w, v)
    BY <1>1, <2>0 DEF PushInvariant, Tagged
  <2>5. /\ DOMAIN tags' = DOMAIN tags \cup {v} /\ tags'[v] = tag
        /\ \A w \in DOMAIN tags : tags'[w] = tags[w]
        /\ Tagged' = Tagged \cup {v}
        /\ StoreInvariant' /\ OrderInvariant'
    BY <2>1, <2>2, <2>3, <2>4, OldTagsKept DEF ReleaseInvariant
  <2>6. Entry("none", v) \in Entries
    BY <2>2, BumpNames DEF Entry, Entries
  <2>7. BranchInvariant' /\ Len(main') = Len(main) + 1 /\ Len(main) \in Nat
    BY <2>1, <2>6, BranchGrows, CommitIs DEF ReleaseInvariant, StoresInvariant
  <2>8. \A w \in DOMAIN tags : Before(w, v)'
    BY <2>2, <2>4, <2>5, <2>7 DEF ReleaseInvariant, StoresInvariant, TagInvariant, Before
  <2>9. \A u, w \in DOMAIN tags : Before(u, w)' <=> Before(u, w)
    BY <2>5 DEF Before
  <2>10. TagInvariant'
    <3>1. DOMAIN tags' \subseteq VersionSet
      BY <2>2, <2>5 DEF ReleaseInvariant, StoresInvariant, TagInvariant
    <3>2. ASSUME NEW w \in DOMAIN tags
          PROVE  /\ tags'[w].commit \in 1..Len(main')
                 /\ w \in Tagged' => /\ tags'[w].integrity \in Artifacts
                                         /\ tags'[w].integrity.commit = tags'[w].commit
                 /\ w \notin Tagged' => \A u \in DOMAIN tags' : u = w \/ Before(w, u)'
      BY <2>2, <2>5, <2>7, <2>8, <2>9 DEF ReleaseInvariant, StoresInvariant, TagInvariant
    <3>3. /\ tags'[v].commit \in 1..Len(main')
          /\ tags'[v].integrity \in Artifacts
          /\ tags'[v].integrity.commit = tags'[v].commit
      BY <2>2, <2>5, <2>7
    <3>4. \A u, w \in DOMAIN tags' : u = w \/ Before(u, w)' \/ Before(w, u)'
      BY <2>5, <2>8, <2>9 DEF ReleaseInvariant, StoresInvariant, TagInvariant
    <3>5. QED
      BY <2>5, <3>1, <3>2, <3>3, <3>4 DEF TagInvariant, Artifacts
  <2>11. /\ DOMAIN run' = RunFields /\ run'.pc = "archive" /\ run'.head = run.head
         /\ run'.local = run.local /\ run'.tools = run.tools
         /\ run'.path = run.path /\ run'.version = v
    BY <2>0, <2>1 DEF ReleaseInvariant, RunInvariant, RunFields
  <2>12. ShipInvariant'
    BY <1>1, <2>0, <2>1, <2>2, <2>5, <2>11 DEF ShipInvariant, PushInvariant
  <2>13. RunInvariant'
    BY <1>1, <2>7, <2>11, <2>12 DEF RunInvariant, Shipping
  <2>14. QED
    BY <2>5, <2>7, <2>10, <2>13 DEF ReleaseInvariant, StoresInvariant
<1>4. QED
  BY <1>2, <1>3

-----------------------------------------------------------------------------
(* Releases: npm and GitHub                                                *)

LEMMA TagsKept ==
  ASSUME StoresInvariant, main' = main, tags' = tags, toolchain' = toolchain,
         \A v \in Tagged : Released(v) => Released(v)'
  PROVE  BranchInvariant' /\ TagInvariant' /\ OrderInvariant' /\ Tagged' = Tagged
<1>1. BranchInvariant'
  BY DEF StoresInvariant, BranchInvariant, Entries
<1>2. TagInvariant' /\ Tagged' = Tagged
  BY DEF StoresInvariant, TagInvariant, Tagged, Before
<1>3. OrderInvariant'
  BY <1>2 DEF StoresInvariant, OrderInvariant, Before
<1>4. QED
  BY <1>1, <1>2, <1>3

(* A draft is created for a tag that has no release.                       *)
LEMMA DraftReleases ==
  ASSUME ReleaseInvariant, NothingAssumption, CreateDraft
  PROVE  ReleaseInvariant'
<1>1. PICK v : v = run.version
  OBVIOUS
<1>2. /\ run.pc = "draft" /\ ReleaseOf(v) = Nothing
      /\ releases' = With(releases, v, [draft |-> TRUE, asset |-> Nothing])
      /\ main' = main /\ tags' = tags /\ npm' = npm /\ toolchain' = toolchain /\ run' = run
  BY <1>1 DEF CreateDraft, RunAt, world
<1>3. v \in Tagged
  BY <1>1, <1>2 DEF ReleaseInvariant, RunInvariant, ShipInvariant, Shipping
<1>4. v \notin DOMAIN releases
  BY <1>2 DEF ReleaseInvariant, StoresInvariant, StoreInvariant, ReleaseOf,
              NothingAssumption
<1>5. /\ DOMAIN releases' = DOMAIN releases \cup {v}
      /\ releases'[v] = [draft |-> TRUE, asset |-> Nothing]
      /\ \A w \in DOMAIN releases : releases'[w] = releases[w]
  BY <1>2, <1>4 DEF With
<1>6. \A w \in Tagged : Released(w) => Released(w)'
  BY <1>2, <1>5 DEF Released, Visible
<1>7. BranchInvariant' /\ TagInvariant' /\ OrderInvariant' /\ Tagged' = Tagged
  BY <1>2, <1>6, TagsKept DEF ReleaseInvariant
<1>8. [draft |-> TRUE, asset |-> Nothing] \in Drafts
  BY DEF Drafts
<1>9. StoreInvariant'
  <2>1. \A w \in DOMAIN releases' :
          releases'[w] \in Drafts /\ releases'[w].asset \in {Nothing, tags[w].integrity}
    <3>1. \A w \in DOMAIN releases :
            releases[w] \in Drafts /\ releases[w].asset \in {Nothing, tags[w].integrity}
      BY DEF ReleaseInvariant, StoresInvariant, StoreInvariant
    <3>2. releases'[v] \in Drafts /\ releases'[v].asset = Nothing
      BY <1>5, <1>8
    <3>3. QED
      BY <1>5, <3>1, <3>2
  <2>2. DOMAIN npm' \cup DOMAIN releases' \subseteq Tagged'
    BY <1>2, <1>3, <1>5, <1>7 DEF ReleaseInvariant, StoresInvariant, StoreInvariant
  <2>3. QED
    BY <1>2, <2>1, <2>2 DEF ReleaseInvariant, StoresInvariant, StoreInvariant, Drafts,
       Artifacts
<1>10. RunInvariant'
  BY <1>2, <1>6, RunKept, CommitIs DEF ReleaseInvariant, StoresInvariant
<1>11. QED
  BY <1>7, <1>9, <1>10 DEF ReleaseInvariant, StoresInvariant

(* The draft gets the tagged artifact, when it has none.                   *)
LEMMA AssetReleases == ASSUME ReleaseInvariant, EnsureAsset PROVE ReleaseInvariant'
<1>1. PICK v : v = run.version
  OBVIOUS
<1>2. /\ run.pc = "draft" /\ ReleaseOf(v) # Nothing
      /\ main' = main /\ tags' = tags /\ npm' = npm /\ toolchain' = toolchain
      /\ run' = [run EXCEPT !.pc = "submit"] \/ run' = NoRun
      /\ \/ releases' = releases
         \/ releases' = [releases EXCEPT ![v].asset = run.artifact]
  BY <1>1 DEF EnsureAsset, RunAt, world, RunEnded
<1>3. v \in Tagged /\ run.artifact = tags[v].integrity
  BY <1>1, <1>2 DEF ReleaseInvariant, RunInvariant, ShipInvariant, Shipping
<1>4. v \in DOMAIN releases
  BY <1>2 DEF ReleaseOf
<1>5. tags[v].integrity \in Artifacts
  BY <1>3 DEF ReleaseInvariant, StoresInvariant, TagInvariant, Tagged
<1>6. /\ DOMAIN releases' = DOMAIN releases
      /\ \A w \in DOMAIN releases :
           /\ releases'[w] \in Drafts /\ releases'[w].draft = releases[w].draft
           /\ releases'[w].asset \in {Nothing, tags[w].integrity}
  BY <1>2, <1>3, <1>4, <1>5 DEF ReleaseInvariant, StoresInvariant, StoreInvariant, Drafts
<1>7. \A w \in Tagged : Released(w) => Released(w)'
  BY <1>2, <1>6 DEF Released, Visible
<1>8. BranchInvariant' /\ TagInvariant' /\ OrderInvariant' /\ Tagged' = Tagged
  BY <1>2, <1>7, TagsKept DEF ReleaseInvariant
<1>9. StoreInvariant'
  BY <1>2, <1>6, <1>8 DEF ReleaseInvariant, StoresInvariant, StoreInvariant, Drafts,
     Artifacts
<1>10. RunInvariant'
  BY <1>2, IdleKept, ShipGoesOn DEF Shipping
<1>11. QED
  BY <1>8, <1>9, <1>10 DEF ReleaseInvariant, StoresInvariant

(* npm gets the tagged artifact, when it has none.                         *)
LEMMA SubmitReleases == ASSUME ReleaseInvariant, Submit PROVE ReleaseInvariant'
<1>1. PICK v : v = run.version
  OBVIOUS
<1>2. /\ run.pc = "submit" /\ main' = main /\ tags' = tags /\ releases' = releases
      /\ toolchain' = toolchain
  BY <1>1 DEF Submit, RunAt, world
<1>3. v \in Tagged /\ run.artifact = tags[v].integrity
  BY <1>1, <1>2 DEF ReleaseInvariant, RunInvariant, ShipInvariant, Shipping
<1>4. PICK a \in Artifacts : a = tags[v].integrity
  BY <1>3 DEF ReleaseInvariant, StoresInvariant, TagInvariant, Tagged
<1>5. \/ npm' = npm /\ (run' = [run EXCEPT !.pc = "confirm"] \/ run' = NoRun)
      \/ /\ v \notin DOMAIN npm
         /\ npm' = With(npm, v, [artifact |-> run.artifact, visible |-> FALSE])
         /\ run' = [run EXCEPT !.pc = "confirm", !.submitted = @ \cup {v}]
  BY <1>1 DEF Submit, RunEnded
<1>6. /\ DOMAIN npm' \subseteq DOMAIN npm \cup {v}
      /\ \A w \in DOMAIN npm : w \in DOMAIN npm' /\ npm'[w] = npm[w]
      /\ v \in DOMAIN npm' \ DOMAIN npm =>
           npm'[v] = [artifact |-> a, visible |-> FALSE]
  BY <1>3, <1>4, <1>5 DEF With
<1>7. \A w \in Tagged : Released(w) => Released(w)'
  BY <1>2, <1>6 DEF Released, Visible
<1>8. BranchInvariant' /\ TagInvariant' /\ OrderInvariant' /\ Tagged' = Tagged
  BY <1>2, <1>7, TagsKept DEF ReleaseInvariant
<1>9. StoreInvariant'
  <2>1. \A w \in DOMAIN npm' :
          /\ npm'[w] \in [artifact : Artifacts, visible : BOOLEAN]
          /\ npm'[w].artifact = tags[w].integrity
    <3>1. \A w \in DOMAIN npm : /\ npm[w] \in [artifact : Artifacts, visible : BOOLEAN]
                                /\ npm[w].artifact = tags[w].integrity
      BY DEF ReleaseInvariant, StoresInvariant, StoreInvariant
    <3>2. v \in DOMAIN npm' \ DOMAIN npm =>
            /\ npm'[v] \in [artifact : Artifacts, visible : BOOLEAN]
            /\ npm'[v].artifact = tags[v].integrity
      <4> DEFINE e == [artifact |-> a, visible |-> FALSE]
      <4>1. e \in [artifact : Artifacts, visible : BOOLEAN] /\ e.artifact = a
        OBVIOUS
      <4> HIDE DEF e
      <4>2. v \in DOMAIN npm' \ DOMAIN npm => npm'[v] = e
        BY <1>6 DEF e
      <4>3. QED
        BY <1>4, <4>1, <4>2
    <3>3. QED
      BY <1>6, <3>1, <3>2
  <2>2. DOMAIN npm' \cup DOMAIN releases' \subseteq Tagged'
    BY <1>2, <1>3, <1>6, <1>8 DEF ReleaseInvariant, StoresInvariant, StoreInvariant
  <2>3. QED
    BY <1>2, <2>1, <2>2 DEF ReleaseInvariant, StoresInvariant, StoreInvariant, Drafts,
       Artifacts
<1>10. RunInvariant'
  <2>1. CASE run' = [run EXCEPT !.pc = "confirm"] \/ run' = NoRun
    BY <1>2, <2>1, IdleKept, ShipGoesOn DEF Shipping
  <2>2. CASE run' = [run EXCEPT !.pc = "confirm", !.submitted = @ \cup {v}]
    <3>1. /\ DOMAIN run' = RunFields /\ run'.pc = "confirm" /\ run'.head = run.head
          /\ run'.local = run.local /\ run'.tools = run.tools
          /\ run'.path = run.path /\ run'.version = run.version
          /\ run'.artifact = run.artifact
      BY <2>2 DEF ReleaseInvariant, RunInvariant, RunFields
    <3>2. ShipInvariant /\ run.head \in 1..Len(main) /\ run.tools \in Nat
      BY <1>2 DEF ReleaseInvariant, RunInvariant, Shipping
    <3>3. ClonePlans => ClonePlans'
      BY <1>2, <3>1, <3>2, ClonePlansKept DEF ReleaseInvariant, StoresInvariant
    <3>4. ShipInvariant'
      BY <1>2, <1>8, <3>1, <3>2, <3>3 DEF ShipInvariant
    <3>5. QED
      BY <1>2, <3>1, <3>2, <3>4 DEF RunInvariant, Shipping
  <2>3. QED
    BY <1>5, <2>1, <2>2
<1>11. QED
  BY <1>8, <1>9, <1>10 DEF ReleaseInvariant, StoresInvariant

(* The release is published; a run that finished an older one plans again. *)
LEMMA AnnounceReleases == ASSUME ReleaseInvariant, Announce PROVE ReleaseInvariant'
<1>1. PICK v : v = run.version
  OBVIOUS
<1>2. /\ run.pc = "announce" /\ main' = main /\ tags' = tags /\ npm' = npm
      /\ releases' = [releases EXCEPT ![v].draft = FALSE] /\ toolchain' = toolchain
  BY <1>1 DEF Announce, RunAt, world
<1>3. /\ DOMAIN releases' = DOMAIN releases
      /\ \A w \in DOMAIN releases :
           /\ releases'[w] \in Drafts /\ releases'[w].asset = releases[w].asset
           /\ ~releases[w].draft => ~releases'[w].draft
  BY <1>2 DEF ReleaseInvariant, StoresInvariant, StoreInvariant, Drafts
<1>4. \A w \in Tagged : Released(w) => Released(w)'
  BY <1>2, <1>3 DEF Released, Visible
<1>5. BranchInvariant' /\ TagInvariant' /\ OrderInvariant' /\ Tagged' = Tagged
  BY <1>2, <1>4, TagsKept DEF ReleaseInvariant
<1>6. StoreInvariant'
  BY <1>2, <1>3, <1>5 DEF ReleaseInvariant, StoresInvariant, StoreInvariant, Drafts,
     Artifacts
<1>7. CASE run' = NoRun
  BY <1>5, <1>6, <1>7, IdleKept DEF ReleaseInvariant, StoresInvariant
<1>8. CASE run' # NoRun
  <2>1. /\ run.path = "finish"
        /\ run' = [run EXCEPT !.pc = "inspect", !.cycle = 2, !.path = Nothing,
                              !.version = Nothing, !.artifact = Nothing]
    BY <1>8 DEF Announce
  <2>2. /\ DOMAIN run' = RunFields /\ run'.pc = "inspect" /\ run'.head = run.head
        /\ run'.local = run.local /\ run'.tools = run.tools
    BY <2>1 DEF ReleaseInvariant, RunInvariant, RunFields
  <2>3. ClonePlans /\ run.head \in 1..Len(main) /\ run.tools \in Nat
    BY <1>2, <2>1 DEF ReleaseInvariant, RunInvariant, ShipInvariant, Shipping
  <2>4. ClonePlans'
    BY <1>2, <2>2, <2>3, ClonePlansKept DEF ReleaseInvariant, StoresInvariant
  <2>5. RunInvariant'
    BY <1>2, <2>2, <2>3, <2>4 DEF RunInvariant, Shipping
  <2>6. QED
    BY <1>5, <1>6, <2>5 DEF ReleaseInvariant, StoresInvariant
<1>9. QED
  BY <1>7, <1>8

(* npm shows what was submitted.                                           *)
LEMMA ShowReleases ==
  ASSUME ReleaseInvariant, NEW v \in DOMAIN npm, Show(v)
  PROVE  ReleaseInvariant'
<1>1. /\ main' = main /\ tags' = tags /\ releases' = releases /\ toolchain' = toolchain
      /\ run' = run /\ npm' = [npm EXCEPT ![v].visible = TRUE]
  BY DEF Show, world
<1>2. /\ DOMAIN npm' = DOMAIN npm
      /\ \A w \in DOMAIN npm :
           /\ npm'[w] \in [artifact : Artifacts, visible : BOOLEAN]
           /\ npm'[w].artifact = npm[w].artifact /\ (npm[w].visible => npm'[w].visible)
  BY <1>1 DEF ReleaseInvariant, StoresInvariant, StoreInvariant
<1>3. \A w \in Tagged : Released(w) => Released(w)'
  BY <1>1, <1>2 DEF Released, Visible
<1>4. BranchInvariant' /\ TagInvariant' /\ OrderInvariant' /\ Tagged' = Tagged
  BY <1>1, <1>3, TagsKept DEF ReleaseInvariant
<1>5. StoreInvariant'
  BY <1>1, <1>2, <1>4 DEF ReleaseInvariant, StoresInvariant, StoreInvariant, Drafts,
     Artifacts
<1>6. RunInvariant'
  BY <1>1, <1>3, RunKept, CommitIs DEF ReleaseInvariant, StoresInvariant
<1>7. QED
  BY <1>4, <1>5, <1>6 DEF ReleaseInvariant, StoresInvariant

-----------------------------------------------------------------------------
(* Releases: the owner of the repository                                   *)

(* A merge moves main under a run that works.                              *)
LEMMA MergeReleases ==
  ASSUME ReleaseInvariant, MergedAssumption, NEW bump \in Merged, Merge(bump)
  PROVE  ReleaseInvariant'
<1>1. /\ main' = Append(main, Entry(bump, main[Len(main)].version))
      /\ tags' = tags /\ npm' = npm /\ releases' = releases /\ toolchain' = toolchain
      /\ run' = run
  BY DEF Merge, world, PackageVersion
<1>2. Entry(bump, main[Len(main)].version) \in Entries
  <2>1. Len(main) \in 1..Len(main) /\ bump \in Bumps
    BY CommitIs DEF ReleaseInvariant, StoresInvariant, MergedAssumption
  <2>2. main[Len(main)].version \in VersionSet
    BY <2>1, CommitIs DEF ReleaseInvariant, StoresInvariant
  <2>3. QED
    BY <2>1, <2>2 DEF Entry, Entries
<1>3. /\ BranchInvariant' /\ Len(main') = Len(main) + 1 /\ Len(main) \in Nat
      /\ \A c \in 1..Len(main) : main'[c] = main[c]
  BY <1>1, <1>2, BranchGrows, CommitIs DEF ReleaseInvariant, StoresInvariant
<1>4. TagInvariant' /\ Tagged' = Tagged
  BY <1>1, <1>3 DEF ReleaseInvariant, StoresInvariant, TagInvariant, Tagged, Before
<1>5. StoreInvariant'
  BY <1>1, <1>4 DEF ReleaseInvariant, StoresInvariant, StoreInvariant
<1>6. \A v \in Tagged : Released(v) <=> Released(v)'
  BY <1>1 DEF Released, Visible
<1>7. OrderInvariant'
  BY <1>1, <1>4, <1>6 DEF ReleaseInvariant, StoresInvariant, OrderInvariant, Before
<1>8. RunInvariant'
  BY <1>1, <1>3, <1>6, RunKept DEF ReleaseInvariant, StoresInvariant
<1>9. QED
  BY <1>3, <1>4, <1>5, <1>7, <1>8 DEF ReleaseInvariant, StoresInvariant

(* The first tag is set while no run has a plan.                           *)
LEMMA BootstrapReleases ==
  ASSUME ReleaseInvariant, BoundAssumption, Bootstrap
  PROVE  ReleaseInvariant'
<1> DEFINE first == [commit |-> Len(main), integrity |-> Nothing]
<1>1. /\ DOMAIN tags = {} /\ tags' = With(tags, FirstVersion, first)
      /\ main' = main /\ npm' = npm /\ releases' = releases /\ toolchain' = toolchain
      /\ run' = run
  BY DEF Bootstrap, world
<1>2. FirstVersion \in VersionSet \ DOMAIN tags
  BY <1>1 DEF BoundAssumption, VersionSet
<1>3. /\ DOMAIN tags' = {FirstVersion} /\ tags'[FirstVersion] = first
      /\ Tagged' = {} /\ StoreInvariant' /\ OrderInvariant'
  <2>1. first.integrity = Nothing /\ Tagged = {}
    BY <1>1 DEF Tagged
  <2> HIDE DEF first
  <2>2. QED
    BY <1>1, <1>2, <2>1, OldTagsKept DEF ReleaseInvariant
<1>4. BranchInvariant'
  BY <1>1 DEF ReleaseInvariant, StoresInvariant, BranchInvariant, Entries
<1>5. TagInvariant'
  <2>1. tags'[FirstVersion].commit \in 1..Len(main')
    BY <1>1, <1>3, CommitIs DEF ReleaseInvariant, StoresInvariant
  <2>2. QED
    BY <1>2, <1>3, <2>1 DEF TagInvariant, VersionSet
<1>6. run.pc \in {"idle", "validate"}
  BY <1>1 DEF ReleaseInvariant, RunInvariant, ClonePlans, PushInvariant, ShipInvariant,
              Tagged
<1>7. run.pc = "validate" => DOMAIN run.local = {}
  BY <1>1 DEF ReleaseInvariant, RunInvariant
<1>8. RunInvariant'
  BY <1>1, <1>6, <1>7 DEF ReleaseInvariant, RunInvariant, RunFields, Shipping
<1>9. QED
  BY <1>3, <1>4, <1>5, <1>8 DEF ReleaseInvariant, StoresInvariant

-----------------------------------------------------------------------------
(* Releases: the theorems                                                  *)

LEMMA ReleasesStart == ASSUME BoundAssumption, ReleaseInit PROVE ReleaseInvariant
<1>1. BranchInvariant
  <2>1. main = <<Entry("none", FirstVersion)>> /\ toolchain \in Nat
    BY DEF ReleaseInit
  <2>2. Entry("none", FirstVersion) \in Entries
    BY BumpNames DEF BoundAssumption, Entry, Entries, VersionSet
  <2>3. QED
    BY <2>1, <2>2 DEF BranchInvariant
<1>2. DOMAIN tags = {} /\ DOMAIN npm = {} /\ DOMAIN releases = {}
  BY DEF ReleaseInit
<1>3. TagInvariant /\ StoreInvariant /\ OrderInvariant
  BY <1>2 DEF TagInvariant, StoreInvariant, OrderInvariant, Tagged
<1>4. RunInvariant
  BY DEF ReleaseInit, NoRun, RunInvariant, RunFields, Shipping
<1>5. QED
  BY <1>1, <1>3, <1>4 DEF ReleaseInvariant, StoresInvariant

LEMMA ReleaseStep ==
  ASSUME BoundAssumption, MergedAssumption, NothingAssumption,
         ReleaseInvariant, [ReleaseNext]_releaseVars
  PROVE  ReleaseInvariant'
<1>1. CASE RunWorks
  BY <1>1, ValidateReleases, ResumeReleases, EndReleases, PrepareReleases, PushReleases,
     VerifyReleases, DraftReleases, AssetReleases, SubmitReleases, ConfirmReleases,
     AnnounceReleases DEF RunWorks
<1>2. CASE StartRelease \/ GiveUp \/ StopRun
  BY <1>2, StartReleases, EndReleases
<1>3. CASE \E bump \in Merged : Merge(bump)
  BY <1>3, MergeReleases
<1>4. CASE Bootstrap
  BY <1>4, BootstrapReleases
<1>5. CASE Shown
  BY <1>5, ShowReleases DEF Shown
<1>6. CASE Enable \/ Upgrade \/ UNCHANGED releaseVars
  BY <1>6, WorldReleases
<1>7. QED
  BY <1>1, <1>2, <1>3, <1>4, <1>5, <1>6 DEF ReleaseNext

(* In every reachable state of the four stores and the run their invariant *)
(* holds, for any changes, numbers of stopped runs and toolchains          *)
(* (scripts/release.mjs, scripts/release-plan.mjs).                        *)
THEOREM ReleasesKeepInvariant ==
  ASSUME BoundAssumption, MergedAssumption, NothingAssumption
  PROVE  ReleaseSpec => []ReleaseInvariant
<1>1. ReleaseInit => ReleaseInvariant
  BY ReleasesStart
<1>2. ReleaseInvariant /\ [ReleaseNext]_releaseVars => ReleaseInvariant'
  BY ReleaseStep
<1>3. QED
  BY <1>1, <1>2, PTL DEF ReleaseSpec

(* A version is one artifact: what npm and GitHub have for it is what its  *)
(* tag recorded, packed from the tagged commit (finishPending, release.mjs *)
(* 625-648).                                                               *)
THEOREM ReleasesAreOneArtifact ==
  ASSUME BoundAssumption, MergedAssumption, NothingAssumption
  PROVE  ReleaseSpec => []OneArtifact
<1>1. ReleaseInvariant => OneArtifact
  BY DEF ReleaseInvariant, StoresInvariant, TagInvariant, StoreInvariant, OneArtifact,
         Tagged, Uploaded
<1>2. QED
  BY <1>1, ReleasesKeepInvariant, PTL

(* Versions follow each other on main in their order, and the next one is  *)
(* tagged only when every older one is on npm and published on GitHub      *)
(* (runRelease, release.mjs 759-783).                                      *)
THEOREM ReleasesAreInOrder ==
  ASSUME BoundAssumption, MergedAssumption, NothingAssumption
  PROVE  ReleaseSpec => []InOrder
<1>1. ASSUME ReleaseInvariant PROVE InOrder
  <2>1. ASSUME NEW v \in Tagged, NEW w \in Tagged, Older(v, w) PROVE Before(v, w)
    BY <1>1, <2>1, OlderOrder DEF ReleaseInvariant, StoresInvariant, TagInvariant, Before,
       Tagged
  <2>2. QED
    BY <1>1, <2>1 DEF ReleaseInvariant, StoresInvariant, OrderInvariant, Before, InOrder
<1>2. QED
  BY <1>1, ReleasesKeepInvariant, PTL

-----------------------------------------------------------------------------
(* The context of a worker                                                 *)

(* A manifest cites lines of files, each a sequence of lines.              *)
Citations(Paths) == [path : Paths, startLine : Nat, endLine : Nat]

(* An anchored reading is one of the shifts that are tried, it shows the   *)
(* approved text, and no other one that is tried does.                     *)
LEMMA AnchoredFacts ==
  ASSUME NEW manifest, NEW files, NEW approved, NEW limits,
         NEW shift \in Anchored(manifest, files, approved, limits)
  PROVE  /\ shift \in Shifts(manifest, files)
         /\ Relabelled(manifest, files, shift) = approved
         /\ \A other \in Shifts(manifest, files) :
              Relabelled(manifest, files, other) = approved => other = shift
         /\ \A i \in DOMAIN manifest.resources :
              shift[i] # 0 => Cardinality(Occurrences(manifest.resources[i], files, shift[i])) = 1
<1> DEFINE tried == Shifts(manifest, files)
           matching == {s \in tried : Relabelled(manifest, files, s) = approved}
           Unique(s) == /\ Cardinality(tried) <= limits.search
                        /\ matching = {s}
                        /\ \A i \in DOMAIN manifest.resources :
                             s[i] # 0 => Cardinality(Occurrences(manifest.resources[i], files, s[i])) = 1
<1>1. shift \in matching /\ Unique(shift)
  <2>1. Anchored(manifest, files, approved, limits) = {s \in matching : Unique(s)}
    BY DEF Anchored
  <2> QED BY <2>1
<1> QED BY <1>1

(* What is read elsewhere than it is recorded is anchored there.           *)
LEMMA ReadElsewhere ==
  ASSUME NEW manifest, NEW files, NEW approved, NEW limits,
         Reading(manifest, files, approved, limits) # Unmoved(manifest)
  PROVE  Reading(manifest, files, approved, limits) \in Anchored(manifest, files, approved, limits)
  BY DEF Reading

(* Texts that are the same show the same lines of every citation.          *)
LEMMA SameLines ==
  ASSUME NEW manifest, NEW files, NEW later, NEW shift, NEW other, NEW labels, NEW wherever,
         Labelled(manifest, files, shift, labels).shows = Labelled(manifest, later, other, wherever).shows,
         NEW i \in DOMAIN manifest.resources
  PROVE  Excerpt(manifest.resources[i], files, shift[i]) = Excerpt(manifest.resources[i], later, other[i])
<1>1. Labelled(manifest, files, shift, labels).shows[i].lines
        = Excerpt(manifest.resources[i], files, shift[i])
  BY DEF Labelled
<1>2. Labelled(manifest, later, other, wherever).shows[i].lines
        = Excerpt(manifest.resources[i], later, other[i])
  BY DEF Labelled
<1> QED BY <1>1, <1>2

(* Whatever became of the files, a fresh approval shows the worker the     *)
(* lines that were approved, under the numbers they have now, for any      *)
(* manifest, files and limits (context-compiler.mjs 148-207).              *)
THEOREM ApprovedLinesShown ==
  ASSUME NEW manifest, NEW files, NEW later, NEW limits
  PROVE  ShowsWhatWasApproved(manifest, files, later, limits)
<1> DEFINE approved == Rendered(manifest, files, Unmoved(manifest))
           shift == Reading(manifest, later, approved, limits)
<1> SUFFICES ASSUME Fresh(manifest, later, approved, limits),
                    NEW i \in DOMAIN manifest.resources
             PROVE  /\ Excerpt(manifest.resources[i], later, shift[i])
                         = Excerpt(manifest.resources[i], files, 0)
                    /\ Rendered(manifest, later, shift).shows[i].from
                         = manifest.resources[i].startLine + shift[i]
  BY DEF ShowsWhatWasApproved
<1>1. Unmoved(manifest)[i] = 0
  BY DEF Unmoved
<1>2. \/ approved = Rendered(manifest, later, shift)
      \/ approved = Legacy(manifest, later, shift)
      \/ shift # Unmoved(manifest)
  BY DEF Fresh, Digests
<1>3. \E labels : approved.shows = Labelled(manifest, later, shift, labels).shows
  <2>1. CASE approved = Rendered(manifest, later, shift)
    BY <2>1 DEF Rendered
  <2>2. CASE approved = Legacy(manifest, later, shift)
    <3>1. Legacy(manifest, later, shift).shows = Labelled(manifest, later, shift, shift).shows
      BY DEF Legacy, Rendered, Labelled
    <3> QED BY <2>2, <3>1
  <2>3. CASE shift # Unmoved(manifest)
    <3>1. Relabelled(manifest, later, shift) = approved
      BY <2>3, ReadElsewhere, AnchoredFacts
    <3> QED BY <3>1 DEF Relabelled
  <2> QED BY <1>2, <2>1, <2>2, <2>3
<1>4. PICK labels : approved.shows = Labelled(manifest, later, shift, labels).shows
  BY <1>3
<1>5. Excerpt(manifest.resources[i], files, Unmoved(manifest)[i])
        = Excerpt(manifest.resources[i], later, shift[i])
  BY <1>4, SameLines DEF Rendered
<1>6. Rendered(manifest, later, shift).shows[i].from = manifest.resources[i].startLine + shift[i]
  BY DEF Rendered, Labelled
<1> QED BY <1>1, <1>5, <1>6

(* An approval of the older kind holds only while every file that it cites *)
(* is the same as a whole (context-compiler.mjs 123-146, 262-267).         *)
THEOREM LegacyApprovalsBindFiles ==
  ASSUME NEW manifest, NEW files, NEW later, NEW limits
  PROVE  LegacyBindsFiles(manifest, files, later, limits)
<1> DEFINE approved == Legacy(manifest, files, Unmoved(manifest))
           shift == Reading(manifest, later, approved, limits)
<1> SUFFICES ASSUME Fresh(manifest, later, approved, limits),
                    NEW i \in DOMAIN manifest.resources
             PROVE  later[manifest.resources[i].path] = files[manifest.resources[i].path]
  BY DEF LegacyBindsFiles
<1>1. approved.whole[i] = files[manifest.resources[i].path] /\ DOMAIN approved.whole # {}
  BY DEF Legacy, Rendered, Labelled
<1>2. \A s, labels : Labelled(manifest, later, s, labels).whole = <<>>
  BY DEF Labelled
<1>3. approved # Rendered(manifest, later, shift) /\ approved # Relabelled(manifest, later, shift)
  BY <1>1, <1>2 DEF Rendered, Relabelled
<1>4. approved = Legacy(manifest, later, shift)
  BY <1>3, ReadElsewhere, AnchoredFacts DEF Fresh, Digests
<1>5. Legacy(manifest, later, shift).whole[i] = later[manifest.resources[i].path]
  BY DEF Legacy, Rendered, Labelled
<1> QED BY <1>1, <1>4, <1>5

(* The citations that a shift moves begin with one of them: a first line,  *)
(* and of those that begin there the first in the list.                    *)
LEMMA BlocksAreTried ==
  ASSUME NEW Paths, NEW manifest, manifest.resources \in Seq(Citations(Paths)),
         NEW files, \A p \in Paths : Len(files[p]) \in Nat,
         NEW shift \in [DOMAIN manifest.resources -> Int],
         OneBlock(manifest, shift), Fits(manifest, files, shift),
         \A i \in DOMAIN manifest.resources :
           manifest.resources[i].startLine <= manifest.resources[i].endLine
  PROVE  shift \in Shifts(manifest, files)
<1> DEFINE cited == manifest.resources
           Moving(first) == {i \in DOMAIN cited :
                               /\ cited[i].path = cited[first].path
                               /\ \/ cited[i].startLine > cited[first].startLine
                                  \/ cited[i].startLine = cited[first].startLine /\ i >= first}
           Longest(first) == Len(files[cited[first].path])
           Deltas(first) == (1 - cited[first].startLine..Longest(first)) \ {0}
           Moved(first, delta) == [i \in DOMAIN cited |-> IF i \in Moving(first) THEN delta ELSE 0]
<1>1. PICK first \in DOMAIN shift :
        /\ shift[first] # 0
        /\ \A j \in DOMAIN shift : shift[j] = IF After(manifest, first, j) THEN shift[first] ELSE 0
  BY DEF OneBlock
<1>2. /\ first \in DOMAIN cited /\ cited[first] \in Citations(Paths) /\ first \in Nat
      /\ \A j \in DOMAIN cited : cited[j] \in Citations(Paths) /\ j \in Nat
  OBVIOUS
<1>3. shift = Moved(first, shift[first])
  <2>1. ASSUME NEW j \in DOMAIN cited
        PROVE  After(manifest, first, j) <=> j \in Moving(first)
    BY <2>1 DEF After
  <2> QED BY <1>1, <2>1
<1>4. shift[first] \in Deltas(first)
  <2>1. /\ cited[first].startLine + shift[first] >= 1
        /\ cited[first].endLine + shift[first] <= Longest(first)
    BY <1>2 DEF Fits
  <2>2. cited[first].startLine \in Nat /\ cited[first].endLine \in Nat /\ Longest(first) \in Nat
    BY <1>2 DEF Citations
  <2> QED BY <1>1, <1>2, <2>1, <2>2
<1>5. shift \in {Moved(first, delta) : delta \in Deltas(first)}
  BY <1>3, <1>4
<1>6. Shifts(manifest, files)
        = {s \in UNION {{Moved(f, delta) : delta \in Deltas(f)} : f \in DOMAIN cited} :
             Fits(manifest, files, s)}
  BY DEF Shifts
<1>7. first \in DOMAIN cited /\ shift \in {Moved(first, delta) : delta \in Deltas(first)}
        => shift \in UNION {{Moved(f, delta) : delta \in Deltas(f)} : f \in DOMAIN cited}
  <2> HIDE DEF cited, Moved, Deltas
  <2> QED OBVIOUS
<1> QED BY <1>2, <1>5, <1>6, <1>7

(* What is shown of a shift depends on the lines read only.                *)
LEMMA SameText ==
  ASSUME NEW manifest, NEW files, NEW later, NEW shift, NEW labels,
         \A i \in DOMAIN manifest.resources :
           Excerpt(manifest.resources[i], later, shift[i]) = Excerpt(manifest.resources[i], files, 0)
  PROVE  Relabelled(manifest, later, shift) = Rendered(manifest, files, Unmoved(manifest))
<1>1. \A i \in DOMAIN manifest.resources : Unmoved(manifest)[i] = 0
  BY DEF Unmoved
<1> DEFINE Shows(f, s) ==
             [i \in DOMAIN manifest.resources |->
                [path |-> manifest.resources[i].path,
                 from |-> manifest.resources[i].startLine + Unmoved(manifest)[i],
                 lines |-> Excerpt(manifest.resources[i], f, s[i])]]
<1>2. Shows(later, shift) = Shows(files, Unmoved(manifest))
  BY <1>1
<1> QED BY <1>2 DEF Relabelled, Rendered, Labelled

(* Where an approval holds although its lines moved, nothing else explains *)
(* it: every moved citation stands once in its file, and no other block of *)
(* citations moved by whatever distance shows the approved lines           *)
(* (context-compiler.mjs 153-207).                                         *)
THEOREM MovesAreUnambiguous ==
  ASSUME NEW Paths, NEW manifest, manifest.resources \in Seq(Citations(Paths)),
         NEW files, NEW later, \A p \in Paths : Len(later[p]) \in Nat, NEW limits
  PROVE  AmbiguityIsStale(manifest, files, later, limits, Int)
<1> DEFINE approved == Rendered(manifest, files, Unmoved(manifest))
           shift == Reading(manifest, later, approved, limits)
           cited == manifest.resources
<1> SUFFICES ASSUME Fresh(manifest, later, approved, limits), shift # Unmoved(manifest)
             PROVE  /\ \A i \in DOMAIN shift :
                         shift[i] # 0 => Cardinality(Occurrences(cited[i], later, shift[i])) = 1
                    /\ \A other \in [DOMAIN shift -> Int] \ {shift} :
                         OneBlock(manifest, other) /\ Fits(manifest, later, other) =>
                           \E i \in DOMAIN shift :
                             Excerpt(cited[i], later, other[i]) # Excerpt(cited[i], files, 0)
  BY DEF AmbiguityIsStale
<1>1. /\ shift \in Shifts(manifest, later)
      /\ \A other \in Shifts(manifest, later) :
           Relabelled(manifest, later, other) = approved => other = shift
      /\ \A i \in DOMAIN cited :
           shift[i] # 0 => Cardinality(Occurrences(cited[i], later, shift[i])) = 1
  BY ReadElsewhere, AnchoredFacts
<1>2. \A s \in Shifts(manifest, later) : DOMAIN s = DOMAIN cited
  BY DEF Shifts
<1>3. DOMAIN shift = DOMAIN cited
  BY <1>1, <1>2
<1>4. \A i \in DOMAIN cited : cited[i].startLine <= cited[i].endLine
  BY DEF Fresh, Compiles, ManifestValid
<1>5. ASSUME NEW other \in [DOMAIN shift -> Int] \ {shift},
             OneBlock(manifest, other), Fits(manifest, later, other),
             \A i \in DOMAIN shift : Excerpt(cited[i], later, other[i]) = Excerpt(cited[i], files, 0)
      PROVE  FALSE
  <2>1. other \in Shifts(manifest, later)
    BY <1>3, <1>4, <1>5, BlocksAreTried
  <2>2. Relabelled(manifest, later, other) = approved
    BY <1>3, <1>5, SameText
  <2> QED BY <1>1, <1>5, <2>1, <2>2
<1> QED BY <1>1, <1>3, <1>5

-----------------------------------------------------------------------------
(* The conversation of a worker                                            *)

(* Either an item is kept, or it is the marker of the one call it answers. *)
LEMMA MarkedOrKept ==
  ASSUME NEW span, NEW i \in DOMAIN span
  PROVE  \/ ItemOf(span, i) = Kept(span[i])
         \/ \E at \in PairedCall(span, i) :
              ItemOf(span, i) = Marker(span[i], span[at[1]].calls[at[2]])
<1>1. CASE PairedCall(span, i) = {}
  BY <1>1 DEF ItemOf
<1>2. CASE PairedCall(span, i) # {}
  <2> DEFINE at == CHOOSE at \in PairedCall(span, i) : TRUE
  <2>1. at \in PairedCall(span, i)
    BY <1>2
  <2>2. ItemOf(span, i) = Marker(span[i], span[at[1]].calls[at[2]])
    BY <1>2 DEF ItemOf
  <2> QED BY <2>1, <2>2
<1> QED BY <1>1, <1>2

(* What is kept is no omission, and every marker is one.                   *)
LEMMA OmittedIsMarked ==
  ASSUME NEW span, NEW i \in DOMAIN span
  PROVE  /\ ItemOf(span, i) = Kept(span[i]) => i \notin Omitted(Items(span))
         /\ i \in Omitted(Items(span)) =>
              \E at \in PairedCall(span, i) :
                ItemOf(span, i) = Marker(span[i], span[at[1]].calls[at[2]])
<1>1. DOMAIN Items(span) = DOMAIN span /\ Items(span)[i] = ItemOf(span, i)
  BY DEF Items
<1>2. Kept(span[i]).replay = NoCall
  BY DEF Kept
<1> QED BY <1>1, <1>2, MarkedOrKept DEF Omitted

(* The calls of a span are those of its assistant's messages.              *)
LEMMA CallsAreAsked ==
  ASSUME NEW span, NEW id, NEW at \in CallsOf(span, id)
  PROVE  /\ at[1] \in DOMAIN span /\ at[2] \in DOMAIN span[at[1]].calls
         /\ at = <<at[1], at[2]>>
         /\ span[at[1]].calls[at[2]].id = id
<1>1. at \in UNION {{m} \X DOMAIN span[m].calls : m \in {n \in DOMAIN span : span[n].role = "assistant"}}
  BY DEF CallsOf
<1>2. PICK m \in DOMAIN span : at \in {m} \X DOMAIN span[m].calls
  BY <1>1
<1>3. span[at[1]].calls[at[2]].id = id
  BY DEF CallsOf
<1> QED BY <1>2, <1>3

(* An output is dropped only where the one call that asked for it comes    *)
(* before it and can be repeated, in conversations of any length           *)
(* (deterministic-compaction.mjs 245-267, 440-463).                        *)
THEOREM OnlyRepeatableElided ==
  ASSUME NEW Messages, NEW span \in Seq(Messages)
  PROVE  ElidedOnlyIfRepeatable(span)
<1> SUFFICES ASSUME NEW i \in Omitted(Items(span))
             PROVE  \E by \in 1..(i - 1) : \E k \in DOMAIN span[by].calls :
                      LET call == span[by].calls[k] IN
                      /\ call.id = span[i].answers /\ call.name = span[i].tool
                      /\ call.name \in {"read", "run_checks"}
                      /\ Items(span)[i].replay.target \in {call.target, "all"} \ {Nil}
                      /\ \A j \in DOMAIN span : \A l \in DOMAIN span[j].calls :
                           span[j].role = "assistant" /\ span[j].calls[l].name # Nil
                             /\ span[j].calls[l].id = call.id
                               => j = by /\ l = k
                      /\ \A j \in DOMAIN span \ {i} :
                           span[j].role = "toolResult" => span[j].answers # call.id
  BY DEF ElidedOnlyIfRepeatable
<1>1. i \in DOMAIN span /\ i \in Nat /\ DOMAIN span = 1..Len(span) /\ Len(span) \in Nat
  BY DEF Omitted, Items
<1>2. PICK at \in PairedCall(span, i) :
        ItemOf(span, i) = Marker(span[i], span[at[1]].calls[at[2]])
  BY <1>1, OmittedIsMarked
<1> DEFINE Called(id) == CallsOf(span, id)
           call == span[at[1]].calls[at[2]]
<1>3. /\ at \in Called(span[i].answers)
      /\ Describable(call) /\ call.name = span[i].tool
      /\ Called(call.id) = {at} /\ ResultsOf(span, call.id) = {i}
      /\ at[1] < i
  BY DEF PairedCall
<1>4. /\ at[1] \in DOMAIN span /\ at[2] \in DOMAIN span[at[1]].calls
      /\ call.id = span[i].answers /\ at = <<at[1], at[2]>>
  BY <1>3, CallsAreAsked
<1>5. ASSUME NEW j \in DOMAIN span, NEW l \in DOMAIN span[j].calls,
             span[j].role = "assistant", span[j].calls[l].name # Nil, span[j].calls[l].id = call.id
      PROVE  j = at[1] /\ l = at[2]
  <2>1. <<j, l>> \in Called(call.id)
    <3>1. call.id # Nil
      BY <1>3 DEF Describable
    <3>2. <<j, l>> \in UNION {{m} \X DOMAIN span[m].calls : m \in {n \in DOMAIN span : span[n].role = "assistant"}}
      BY <1>5
    <3> QED BY <1>5, <3>1, <3>2 DEF CallsOf
  <2>2. <<j, l>> = <<at[1], at[2]>>
    BY <1>3, <1>4, <2>1
  <2> QED BY <2>2
<1>6. \A j \in DOMAIN span \ {i} : span[j].role = "toolResult" => span[j].answers # call.id
  BY <1>3 DEF ResultsOf
<1>7. Items(span)[i].replay.target \in {call.target, "all"} \ {Nil}
  <2>1. Items(span)[i].replay.target = TargetOf(call)
    BY <1>1, <1>2 DEF Items, Marker, Descriptor
  <2>2. TargetOf(call) # Nil
    BY <1>3 DEF Describable
  <2> QED BY <2>1, <2>2 DEF TargetOf
<1>8. call.name \in {"read", "run_checks"}
  BY <1>3 DEF Describable, Elidable
<1>9. at[1] \in 1..(i - 1)
  BY <1>1, <1>3, <1>4
<1> HIDE DEF call
<1> QED BY <1>3, <1>4, <1>5, <1>6, <1>7, <1>8, <1>9 DEF call

(* No message of a span goes missing or changes its place, and what is     *)
(* not dropped is there as it was (deterministic-compaction.mjs 440-467).  *)
THEOREM NothingIsForgotten == ASSUME NEW span PROVE NothingForgotten(span)
<1>1. ASSUME NEW i \in DOMAIN span
      PROVE  /\ Items(span)[i].of = span[i].id /\ Items(span)[i].digest = span[i].body
             /\ i \notin Omitted(Items(span)) => Items(span)[i].shows = span[i].body
  <2>1. DOMAIN Items(span) = DOMAIN span /\ Items(span)[i] = ItemOf(span, i)
    BY DEF Items
  <2>2. CASE ItemOf(span, i) = Kept(span[i])
    BY <2>1, <2>2 DEF Kept
  <2>3. ASSUME NEW at \in PairedCall(span, i),
               ItemOf(span, i) = Marker(span[i], span[at[1]].calls[at[2]])
        PROVE  /\ Items(span)[i].of = span[i].id /\ Items(span)[i].digest = span[i].body
               /\ i \in Omitted(Items(span))
    <3>1. Describable(span[at[1]].calls[at[2]])
      BY DEF PairedCall
    <3>2. Descriptor(span[at[1]].calls[at[2]]) # NoCall
      BY <3>1 DEF Describable, Descriptor, NoCall
    <3>3. Items(span)[i].replay = Descriptor(span[at[1]].calls[at[2]])
      BY <2>1, <2>3 DEF Marker
    <3> QED BY <2>1, <2>3, <3>2, <3>3 DEF Marker, Omitted
  <2> QED BY <2>2, <2>3, MarkedOrKept
<1> QED BY <1>1 DEF NothingForgotten

(* A summary is of text and of items.                                      *)
Summaries(Texts, Pieces) ==
    [own : BOOLEAN, text : Texts, items : Seq(Pieces), bytes : Nat, details : Nat, whole : BOOLEAN]

(* A function on 1..n is a sequence.                                       *)
LEMMA FunctionIsSequence ==
  ASSUME NEW n \in Nat, NEW T, NEW f \in [1..n -> T]
  PROVE  f \in Seq(T) /\ Len(f) = n
OBVIOUS

(* The items of a span are as many as its messages, and of them.           *)
LEMMA ItemsOfSpan ==
  ASSUME NEW span, NEW n \in Nat, DOMAIN span = 1..n
  PROVE  /\ \E T : Items(span) \in Seq(T)
         /\ DOMAIN Items(span) = 1..n
         /\ \A i \in 1..n : Items(span)[i].of = span[i].id
<1> DEFINE T == {ItemOf(span, i) : i \in 1..n}
<1>1. Items(span) \in [1..n -> T]
  BY DEF Items
<1>2. Items(span) \in Seq(T)
  <2> HIDE DEF T
  <2> QED BY <1>1, FunctionIsSequence
<1>3. ASSUME NEW i \in 1..n
      PROVE  Items(span)[i].of = span[i].id
  <2>1. Items(span)[i] = ItemOf(span, i)
    BY DEF Items
  <2> QED BY <2>1, MarkedOrKept DEF Kept, Marker
<1> QED BY <1>1, <1>2, <1>3

(* Two pieces of a sequence next to each other are one piece.              *)
LEMMA PiecesJoin ==
  ASSUME NEW S, NEW m \in Seq(S), NEW turn \in Nat, NEW cut \in Nat, turn <= cut, cut <= Len(m)
  PROVE  SubSeq(m, 1, turn) \o SubSeq(m, turn + 1, cut) = SubSeq(m, 1, cut)
OBVIOUS

(* An outcome is a refusal or the summary of the whole span.               *)
LEMMA CompactOutcome ==
  ASSUME NEW history, NEW prefix, NEW previous, NEW anchor, NEW limits, NEW aborted,
         ~Compact(history, prefix, previous, anchor, limits, aborted).cancel
  PROVE  /\ Compact(history, prefix, previous, anchor, limits, aborted).summary
              = Summary(anchor, previous, history \o prefix)
         /\ AnchorRefusal(anchor, limits) = Nil
<1> DEFINE span == history \o prefix
           summary == Summary(anchor, previous, span)
<1>1. \A reason : Refusal(reason).cancel
  BY DEF Refusal
<1>2. Compact(history, prefix, previous, anchor, limits, aborted)
        = IF aborted THEN Refusal("COMPACTION_ABORTED")
          ELSE IF AnchorRefusal(anchor, limits) # Nil THEN Refusal(AnchorRefusal(anchor, limits))
          ELSE IF InputRefusal(span, previous, limits) # Nil
            THEN Refusal(InputRefusal(span, previous, limits))
          ELSE IF summary.bytes > limits.summary
            THEN Refusal("COMPACTION_SUMMARY_OVERSIZE")
          ELSE IF summary.details > limits.details
            THEN Refusal("COMPACTION_DETAILS_OVERSIZE")
          ELSE [cancel |-> FALSE, summary |-> summary, omitted |-> Omitted(Items(span))]
  BY DEF Compact
<1> HIDE DEF summary, span
<1>3. Compact(history, prefix, previous, anchor, limits, aborted).summary = summary
      /\ AnchorRefusal(anchor, limits) = Nil
  BY <1>1, <1>2
<1> QED BY <1>3 DEF summary, span

(* What a summary carries on is a sequence, and a summary of compaction's  *)
(* own carries on what it holds.                                           *)
LEMMA CarriedOn ==
  ASSUME NEW Texts, NEW Pieces, NEW summary \in Summaries(Texts, Pieces)
  PROVE  /\ \E S : PreviousItems(summary) \in Seq(S)
         /\ \A anchor, items, n : PreviousItems(Own(anchor, items, n)) = items
<1> DEFINE note == Kept([id |-> "previous", body |-> summary.text, bytes |-> 1])
<1>1. PreviousItems(summary) \in {<<>>, summary.items, <<note>>}
  BY DEF PreviousItems
<1>2. <<>> \in Seq({note}) /\ <<note>> \in Seq({note}) /\ summary.items \in Seq(Pieces)
  BY DEF Summaries
<1>3. \A anchor, items, n : Own(anchor, items, n).own /\ Own(anchor, items, n).items = items
  BY DEF Own
<1>4. ~NoSummary.own
  BY DEF NoSummary, Foreign
<1>5. \A anchor, items, n : PreviousItems(Own(anchor, items, n)) = items
  BY <1>3, <1>4 DEF PreviousItems
<1> QED BY <1>1, <1>2, <1>5

(* What a concatenation holds.                                             *)
LEMMA Concatenation ==
  ASSUME NEW S, NEW s \in Seq(S), NEW T, NEW t \in Seq(T)
  PROVE  /\ Len(s \o t) = Len(s) + Len(t)
         /\ DOMAIN (s \o t) = 1..(Len(s) + Len(t))
         /\ \A i \in 1..(Len(s) + Len(t)) : (s \o t)[i] = IF i <= Len(s) THEN s[i] ELSE t[i - Len(s)]
OBVIOUS

(* Two sequences that hold the same are the same.                          *)
LEMMA SameSequence ==
  ASSUME NEW S, NEW s \in Seq(S), NEW t \in Seq(S), Len(s) = Len(t),
         \A i \in 1..Len(s) : s[i] = t[i]
  PROVE  s = t
OBVIOUS

(* A concatenation is a sequence.                                          *)
LEMMA Joined ==
  ASSUME NEW S, NEW s \in Seq(S), NEW t \in Seq(S)
  PROVE  s \o t \in Seq(S)
OBVIOUS

(* A sequence is as long as its domain.                                    *)
LEMMA LengthOf ==
  ASSUME NEW S, NEW s \in Seq(S)
  PROVE  DOMAIN s = 1..Len(s) /\ Len(s) \in Nat
OBVIOUS

(* What a sequence holds behind a cut.                                     *)
LEMMA RestOf ==
  ASSUME NEW S, NEW s \in Seq(S), NEW cut \in Nat, cut <= Len(s),
         NEW rest, rest = SubSeq(s, cut + 1, Len(s))
  PROVE  /\ DOMAIN rest = 1..(Len(s) - cut)
         /\ \A i \in 1..(Len(s) - cut) : rest[i] = s[cut + i]
OBVIOUS

(* Two pairs of sequences that are cut at different places.                *)
LEMMA JoinedAlike ==
  ASSUME NEW U, NEW f1 \in Seq(U), NEW f2 \in Seq(U), NEW g1 \in Seq(U), NEW g2 \in Seq(U),
         Len(f1) + Len(f2) = Len(g1) + Len(g2), Len(g1) <= Len(f1),
         \A i \in 1..Len(g1) : f1[i] = g1[i],
         \A i \in 1..(Len(f1) - Len(g1)) : f1[Len(g1) + i] = g2[i],
         \A i \in 1..Len(f2) : f2[i] = g2[Len(f1) - Len(g1) + i]
  PROVE  f1 \o f2 = g1 \o g2
<1> DEFINE F == f1 \o f2
           G == g1 \o g2
           a == Len(g1)
           n == Len(f1)
<1>0. a \in Nat /\ n \in Nat /\ Len(f2) \in Nat /\ Len(g2) \in Nat
  OBVIOUS
<1>1. F \in Seq(U) /\ G \in Seq(U)
  BY Joined
<1>2. /\ Len(F) = n + Len(f2)
      /\ \A i \in 1..(n + Len(f2)) : F[i] = IF i <= n THEN f1[i] ELSE f2[i - n]
  OBVIOUS
<1>3. /\ Len(G) = a + Len(g2)
      /\ \A i \in 1..(a + Len(g2)) : G[i] = IF i <= a THEN g1[i] ELSE g2[i - a]
  OBVIOUS
<1>5. /\ \A i \in 1..a : f1[i] = g1[i]
      /\ \A i \in 1..(n - a) : f1[a + i] = g2[i]
      /\ \A i \in 1..Len(f2) : f2[i] = g2[n - a + i]
      /\ n + Len(f2) = a + Len(g2) /\ a <= n
  OBVIOUS
<1> HIDE DEF F, G, a, n
<1>4. ASSUME NEW i \in 1..(n + Len(f2))
      PROVE  F[i] = G[i]
  <2>1. i \in 1..(a + Len(g2))
    BY <1>5
  <2>2. CASE i <= a
    <3>1. f1[i] = g1[i] /\ i <= n
      BY <1>0, <1>5, <2>2
    <3> QED BY <1>2, <1>3, <2>1, <2>2, <3>1
  <2>3. CASE i > a /\ i <= n
    <3>1. i - a \in 1..(n - a) /\ a + (i - a) = i
      BY <1>0, <2>3
    <3>2. f1[a + (i - a)] = g2[i - a]
      BY <1>5, <3>1
    <3>3. ~(i <= a)
      BY <1>0, <2>3
    <3> QED BY <1>2, <1>3, <2>1, <2>3, <3>1, <3>2, <3>3
  <2>4. CASE i > n
    <3>1. /\ i - n \in 1..Len(f2) /\ n - a + (i - n) = i - a
          /\ ~(i <= a) /\ ~(i <= n)
      BY <1>0, <1>5, <2>4
    <3>2. f2[i - n] = g2[i - a]
      BY <1>5, <3>1
    <3> QED BY <1>2, <1>3, <2>1, <3>1, <3>2
  <2> QED BY <1>0, <2>2, <2>3, <2>4
<1>6. F = G
  <2>1. Len(F) = Len(G) /\ \A i \in 1..Len(F) : F[i] = G[i]
    BY <1>2, <1>3, <1>4, <1>5
  <2> QED BY <1>1, <2>1, SameSequence
<1> QED BY <1>6 DEF F, G

(* Two pairs of sequences that hold the same, wherever they are cut.       *)
HoldTheSame(f1, f2, g1, g2, U) ==
    /\ f1 \in Seq(U) /\ f2 \in Seq(U) /\ g1 \in Seq(U) /\ g2 \in Seq(U)
    /\ Len(f1) + Len(f2) = Len(g1) + Len(g2)
    /\ Len(g1) <= Len(f1)
    /\ \A i \in 1..Len(g1) : f1[i] = g1[i]
    /\ \A i \in 1..(Len(f1) - Len(g1)) : f1[Len(g1) + i] = g2[i]
    /\ \A i \in 1..Len(f2) : f2[i] = g2[Len(f1) - Len(g1) + i]

LEMMA CutAlike ==
  ASSUME NEW f1, NEW f2, NEW g1, NEW g2, NEW U, HoldTheSame(f1, f2, g1, g2, U)
  PROVE  f1 \o f2 = g1 \o g2
BY JoinedAlike, Zenon DEF HoldTheSame

(* The first messages of a session become the last items of its summary.  *)
TakesOver(p, items, m, cut, all, rest, S, T, M) ==
    /\ p \in Seq(S) /\ items \in Seq(T) /\ m \in Seq(M)
    /\ cut \in Nat /\ cut <= Len(m)
    /\ DOMAIN items = 1..cut /\ \A i \in 1..cut : items[i].of = m[i].id
    /\ all = p \o items /\ rest = SubSeq(m, cut + 1, Len(m))

(* What is shown of items and of messages.                                 *)
InTurn(p, m) == [i \in DOMAIN p |-> p[i].of] \o [i \in DOMAIN m |-> m[i].id]

LEMMA TakenOver ==
  ASSUME NEW p, NEW items, NEW m, NEW cut, NEW all, NEW rest, NEW S, NEW T, NEW M,
         TakesOver(p, items, m, cut, all, rest, S, T, M)
  PROVE  InTurn(all, rest) = InTurn(p, m)
<1>0. /\ p \in Seq(S) /\ items \in Seq(T) /\ m \in Seq(M)
      /\ cut \in Nat /\ cut <= Len(m)
      /\ DOMAIN items = 1..cut /\ \A i \in 1..cut : items[i].of = m[i].id
      /\ all = p \o items /\ rest = SubSeq(m, cut + 1, Len(m))
  BY DEF TakesOver
<1> DEFINE f1 == [i \in DOMAIN all |-> all[i].of]
           f2 == [i \in DOMAIN rest |-> rest[i].id]
           g1 == [i \in DOMAIN p |-> p[i].of]
           g2 == [i \in DOMAIN m |-> m[i].id]
           U == {all[i].of : i \in DOMAIN all} \cup {rest[i].id : i \in DOMAIN rest}
                  \cup {p[i].of : i \in DOMAIN p} \cup {m[i].id : i \in DOMAIN m}
<1>4. /\ DOMAIN p = 1..Len(p) /\ Len(p) \in Nat
      /\ DOMAIN m = 1..Len(m) /\ Len(m) \in Nat
      /\ DOMAIN items = 1..Len(items) /\ Len(items) \in Nat
  BY <1>0, LengthOf, Zenon
<1>1. Len(items) = cut /\ Len(p) \in Nat /\ Len(m) \in Nat /\ cut \in Nat /\ cut <= Len(m)
  <2>1. ASSUME NEW a \in Nat, NEW b \in Nat, 1..a = 1..b PROVE a = b
    BY <2>1
  <2> QED BY <1>0, <1>4, <2>1, Zenon
<1>2. /\ DOMAIN all = 1..(Len(p) + cut)
      /\ \A i \in 1..(Len(p) + cut) : all[i] = IF i <= Len(p) THEN p[i] ELSE items[i - Len(p)]
  <2>1. /\ DOMAIN (p \o items) = 1..(Len(p) + Len(items))
        /\ \A i \in 1..(Len(p) + Len(items)) :
             (p \o items)[i] = IF i <= Len(p) THEN p[i] ELSE items[i - Len(p)]
    BY ONLY <1>0, Concatenation
  <2> QED BY <1>0, <1>1, <2>1, Zenon
<1>3. /\ DOMAIN rest = 1..(Len(m) - cut)
      /\ \A i \in 1..(Len(m) - cut) : rest[i] = m[cut + i]
  BY <1>0, RestOf, Zenon
<1>5. /\ f1 \in [1..(Len(p) + cut) -> U] /\ f2 \in [1..(Len(m) - cut) -> U]
      /\ g1 \in [1..Len(p) -> U] /\ g2 \in [1..Len(m) -> U]
  BY <1>2, <1>3, <1>4
<1>6. /\ \A i \in 1..(Len(p) + cut) : f1[i] = all[i].of
      /\ \A i \in 1..(Len(m) - cut) : f2[i] = rest[i].id
      /\ \A i \in 1..Len(p) : g1[i] = p[i].of
      /\ \A i \in 1..Len(m) : g2[i] = m[i].id
  BY <1>2, <1>3, <1>4
<1> HIDE DEF f1, f2, g1, g2, U
<1>7. /\ f1 \in Seq(U) /\ Len(f1) = Len(p) + cut /\ f2 \in Seq(U) /\ Len(f2) = Len(m) - cut
      /\ g1 \in Seq(U) /\ Len(g1) = Len(p) /\ g2 \in Seq(U) /\ Len(g2) = Len(m)
  <2>1. Len(p) + cut \in Nat /\ Len(m) - cut \in Nat
    BY <1>1
  <2> QED BY <1>1, <1>5, <2>1, FunctionIsSequence
<1>8. /\ \A i \in 1..Len(p) : f1[i] = g1[i]
      /\ \A i \in 1..cut : f1[Len(p) + i] = g2[i]
      /\ \A i \in 1..(Len(m) - cut) : f2[i] = g2[cut + i]
  <2>1. ASSUME NEW i \in 1..Len(p)
        PROVE  f1[i] = g1[i]
    <3>1. i \in 1..(Len(p) + cut) /\ i <= Len(p)
      BY <1>1
    <3>2. all[i] = p[i]
      BY <1>2, <3>1, Zenon
    <3>3. f1[i] = all[i].of /\ g1[i] = p[i].of
      BY <1>6, <3>1, Zenon
    <3> QED BY <3>2, <3>3, Zenon
  <2>2. ASSUME NEW i \in 1..cut
        PROVE  f1[Len(p) + i] = g2[i]
    <3> DEFINE k == Len(p) + i
    <3>1. k \in 1..(Len(p) + cut) /\ ~(k <= Len(p)) /\ k - Len(p) = i /\ i \in 1..Len(m)
      BY <1>1
    <3> HIDE DEF k
    <3>2. f1[k] = items[i].of
      BY <1>2, <1>6, <3>1
    <3>3. g2[i] = m[i].id
      BY <1>6, <3>1
    <3>4. items[i].of = m[i].id
      BY <1>0, Zenon
    <3> QED BY <3>2, <3>3, <3>4, Zenon DEF k
  <2>3. ASSUME NEW i \in 1..(Len(m) - cut)
        PROVE  f2[i] = g2[cut + i]
    <3>1. cut + i \in 1..Len(m)
      BY <1>1
    <3> QED BY <1>3, <1>6, <3>1
  <2> QED BY <2>1, <2>2, <2>3
<1>9. f1 \o f2 = g1 \o g2
  <2>1. /\ Len(f1) + Len(f2) = Len(g1) + Len(g2) /\ Len(g1) <= Len(f1)
        /\ Len(f1) - Len(g1) = cut /\ Len(f2) = Len(m) - cut /\ Len(g1) = Len(p)
    BY <1>1, <1>7
  <2>2. /\ \A i \in 1..Len(g1) : f1[i] = g1[i]
        /\ \A i \in 1..(Len(f1) - Len(g1)) : f1[Len(g1) + i] = g2[i]
        /\ \A i \in 1..Len(f2) : f2[i] = g2[Len(f1) - Len(g1) + i]
    BY <1>8, <2>1, Zenon
  <2>3. HoldTheSame(f1, f2, g1, g2, U)
    BY <1>7, <2>1, <2>2, Zenon DEF HoldTheSame
  <2> QED BY ONLY <2>3, CutAlike
<1> QED BY <1>9 DEF f1, f2, g1, g2, InTurn

(* However often a session is compacted, at whatever cut, it shows the     *)
(* messages it showed, each once and in their order; a refusal leaves it as*)
(* it was, and a new summary stands behind the packet the host anchored    *)
(* (deterministic-compaction.mjs 417-506, compaction-extension.mjs 48-79). *)
THEOREM ConversationCarriedOn ==
  ASSUME NEW Texts, NEW Pieces, NEW Messages, NEW Refusals,
         NEW session \in [messages : Seq(Messages), summary : Summaries(Texts, Pieces),
                          refusals : Seq(Refusals)],
         NEW turn \in Nat, NEW cut \in Nat, turn <= cut, cut <= Len(session.messages),
         NEW anchor, NEW limits, NEW aborted
  PROVE  LET left == BeforeCompact(session, turn, cut, anchor, limits, aborted)
         IN  /\ MessagesShown(left) = MessagesShown(session)
             /\ \/ left.messages = session.messages /\ left.summary = session.summary
                \/ /\ left.messages = SubSeq(session.messages, cut + 1, Len(session.messages))
                   /\ ApprovedPacket(left.summary) = anchor.text
                   /\ anchor # NoAnchor /\ anchor.digest \in {Nil, anchor.text}
<1> DEFINE history == SubSeq(session.messages, 1, turn)
           prefix == SubSeq(session.messages, turn + 1, cut)
           span == history \o prefix
           outcome == Compact(history, prefix, session.summary, anchor, limits, aborted)
           left == BeforeCompact(session, turn, cut, anchor, limits, aborted)
<1> SUFFICES /\ MessagesShown(left) = MessagesShown(session)
             /\ \/ left.messages = session.messages /\ left.summary = session.summary
                \/ /\ left.messages = SubSeq(session.messages, cut + 1, Len(session.messages))
                   /\ ApprovedPacket(left.summary) = anchor.text
                   /\ anchor # NoAnchor /\ anchor.digest \in {Nil, anchor.text}
  OBVIOUS
<1>1. left = IF outcome.cancel
              THEN [session EXCEPT !.refusals = Append(session.refusals, outcome.reason)]
              ELSE [session EXCEPT
                      !.messages = SubSeq(session.messages, cut + 1, Len(session.messages)),
                      !.summary = outcome.summary]
  BY DEF BeforeCompact
<1>2. CASE outcome.cancel
  <2> HIDE DEF outcome, left
  <2>1. left.messages = session.messages /\ left.summary = session.summary
    BY <1>1, <1>2
  <2> QED BY <2>1 DEF MessagesShown
<1>3. CASE ~outcome.cancel
  <2>1. outcome.summary = Summary(anchor, session.summary, span) /\ AnchorRefusal(anchor, limits) = Nil
    BY <1>3, CompactOutcome
  <2>2. /\ left.messages = SubSeq(session.messages, cut + 1, Len(session.messages))
        /\ left.summary = Summary(anchor, session.summary, span)
    <3> HIDE DEF outcome, left, span
    <3> QED BY <1>1, <1>3, <2>1
  <2>3. span = SubSeq(session.messages, 1, cut)
    BY PiecesJoin
  <2>4. /\ DOMAIN span = 1..cut /\ \A i \in 1..cut : span[i] = session.messages[i]
    <3> HIDE DEF span
    <3> QED BY <2>3
  <2> DEFINE earlier == PreviousItems(session.summary)
             items == Items(span)
  <2>5. /\ DOMAIN items = 1..cut
        /\ \A i \in 1..cut : items[i].of = session.messages[i].id
    <3> HIDE DEF span
    <3> QED BY <2>4, ItemsOfSpan
  <2>6. PICK T : items \in Seq(T)
    <3> HIDE DEF span
    <3> QED BY <2>4, ItemsOfSpan
  <2>7. PreviousItems(left.summary) = earlier \o items
    <3>1. left.summary = Own(anchor, earlier \o items, Cardinality(Omitted(items)))
      BY <2>2 DEF Summary
    <3>2. \A kept, n : PreviousItems(Own(anchor, kept, n)) = kept
      BY CarriedOn
    <3> HIDE DEF left, earlier, items
    <3> QED BY <3>1, <3>2
  <2>8. PICK S : earlier \in Seq(S)
    BY CarriedOn
  <2>9. MessagesShown(left) = MessagesShown(session)
    <3> DEFINE all == earlier \o items
               rest == SubSeq(session.messages, cut + 1, Len(session.messages))
    <3>0. all = earlier \o items /\ rest = SubSeq(session.messages, cut + 1, Len(session.messages))
      OBVIOUS
    <3>1. InTurn(all, rest) = InTurn(earlier, session.messages)
      <4>1. session.messages \in Seq(Messages)
        OBVIOUS
      <4>2. cut \in Nat /\ cut <= Len(session.messages)
        OBVIOUS
      <4>3. DOMAIN items = 1..cut /\ \A i \in 1..cut : items[i].of = session.messages[i].id
        BY <2>5
      <4> DEFINE m == session.messages
      <4>4. m \in Seq(Messages) /\ cut <= Len(m) /\ rest = SubSeq(m, cut + 1, Len(m))
            /\ \A i \in 1..cut : items[i].of = m[i].id
        BY <4>1, <4>2, <4>3
      <4> HIDE DEF earlier, items, all, rest, m
      <4>5. TakesOver(earlier, items, m, cut, all, rest, S, T, Messages)
        BY <3>0, <2>6, <2>8, <4>2, <4>3, <4>4, Zenon DEF TakesOver
      <4>6. InTurn(all, rest) = InTurn(earlier, m)
        BY ONLY <4>5, TakenOver
      <4> QED BY <4>6 DEF m
    <3>2. MessagesShown(left) = InTurn(all, rest)
      BY <2>2, <2>7 DEF MessagesShown, InTurn
    <3>3. MessagesShown(session) = InTurn(earlier, session.messages)
      BY DEF MessagesShown, InTurn
    <3> QED BY <3>1, <3>2, <3>3
  <2>10. ApprovedPacket(left.summary) = anchor.text
    BY <2>2 DEF ApprovedPacket, Summary, Own
  <2>11. anchor # NoAnchor /\ anchor.digest \in {Nil, anchor.text}
    BY <2>1 DEF AnchorRefusal, Nil
  <2> QED BY <2>2, <2>9, <2>10, <2>11
<1> QED BY <1>2, <1>3

-----------------------------------------------------------------------------
(* The scope of a candidate's files                                        *)

(* A spelled name, and the entries of a directory.                         *)
Spelt(Letters) == [base : Letters, upper : BOOLEAN, decomposed : BOOLEAN]

(* Answers without a "no" do not agree on one.                             *)
LEMMA NoNo ==
  ASSUME NEW answers, "no" \notin answers
  PROVE  Agreed(answers) # "no"
BY DEF Agreed

(* What the probe says a directory does not do, it does not.               *)
LEMMA ProbesAreTrue ==
  ASSUME NEW Letters, NEW entries, \A e \in entries : e.name \in Spelt(Letters),
         NEW kind, Holds(kind, entries), NEW directory
  PROVE  /\ kind.case => ProbeOf(directory, kind, entries, Spelt(Letters)).case # "no"
         /\ kind.unicode => ProbeOf(directory, kind, entries, Spelt(Letters)).unicode # "no"
<1> DEFINE finds == [n \in Spelt(Letters) |-> LookedUp(kind, entries, n)]
           probed == {e \in entries : /\ e.kind # "link"
                                      /\ ~IsInternal(directory \o <<e.name>>)
                                      /\ ~IsSecret(directory \o <<e.name>>)}
           cased == {p \in probed : p.name.base.cased}
           composite == {p \in probed : p.name.base.composite}
<1>1. /\ ProbeOf(directory, kind, entries, Spelt(Letters)).case
           = Agreed({Probe(e, entries, AlternateCase(e.name), finds) : e \in cased})
      /\ ProbeOf(directory, kind, entries, Spelt(Letters)).unicode
           = Agreed({Probe(e, entries, AlternateForm(e.name), finds) : e \in composite})
  BY DEF ProbeOf, DirectoryModes
<1>2. ASSUME NEW e \in entries, NEW other \in Spelt(Letters), other # e.name,
             SameIn(kind, e.name, other)
      PROVE  Probe(e, entries, other, finds) # "no"
  <2>1. ~ \E f \in entries : f.name = other
    <3>1. ASSUME NEW f \in entries, f.name = other PROVE FALSE
      BY <1>2, <3>1 DEF Holds
    <3> QED BY <3>1
  <2>2. e \in finds[other]
    BY <1>2 DEF LookedUp
  <2> HIDE DEF finds
  <2> QED BY <2>1, <2>2 DEF Probe
<1>3. ASSUME NEW e \in entries, kind.case
      PROVE  Probe(e, entries, AlternateCase(e.name), finds) # "no"
  <2>1. AlternateCase(e.name) \in Spelt(Letters) /\ AlternateCase(e.name) # e.name
    BY DEF AlternateCase, Spelt
  <2>2. SameIn(kind, e.name, AlternateCase(e.name))
    BY <1>3 DEF AlternateCase, Spelt, SameIn, SameFold, CaseDiffers, FormDiffers
  <2> QED BY <1>2, <2>1, <2>2
<1>4. ASSUME NEW e \in entries, kind.unicode
      PROVE  Probe(e, entries, AlternateForm(e.name), finds) # "no"
  <2>1. AlternateForm(e.name) \in Spelt(Letters) /\ AlternateForm(e.name) # e.name
    BY DEF AlternateForm, Spelt
  <2>2. SameIn(kind, e.name, AlternateForm(e.name))
    BY <1>4 DEF AlternateForm, Spelt, SameIn, SameFold, CaseDiffers, FormDiffers
  <2> QED BY <1>2, <2>1, <2>2
<1>5. cased \subseteq entries /\ composite \subseteq entries
  OBVIOUS
<1> HIDE DEF finds, cased, composite
<1>6. kind.case => "no" \notin {Probe(e, entries, AlternateCase(e.name), finds) : e \in cased}
  BY <1>3, <1>5
<1>7. kind.unicode => "no" \notin {Probe(e, entries, AlternateForm(e.name), finds) : e \in composite}
  BY <1>4, <1>5
<1> QED BY <1>1, <1>6, <1>7, NoNo

(* There is a first reason when there is one.                              *)
LEMMA AllowedOrRefused ==
  ASSUME NEW change, NEW scope, NEW modes
  PROVE  Classify(change, scope, modes) = "none" <=> RefusalsOf(change, scope, modes) = {}
<1> DEFINE refusals == RefusalsOf(change, scope, modes)
           first == CHOOSE k \in refusals : \A j \in refusals : k <= j
<1>1. Classify(change, scope, modes) = IF refusals = {} THEN "none" ELSE ScopeReasons[first]
  BY DEF Classify
<1>2. refusals \subseteq 1..10
  BY DEF RefusalsOf
<1>3. ASSUME NEW k \in 1..10 PROVE ScopeReasons[k] # "none"
  <2>1. /\ ScopeReasons[1] # "none" /\ ScopeReasons[2] # "none" /\ ScopeReasons[3] # "none"
        /\ ScopeReasons[4] # "none" /\ ScopeReasons[5] # "none" /\ ScopeReasons[6] # "none"
        /\ ScopeReasons[7] # "none" /\ ScopeReasons[8] # "none" /\ ScopeReasons[9] # "none"
        /\ ScopeReasons[10] # "none"
    BY DEF ScopeReasons
  <2>2. \/ k = 1 \/ k = 2 \/ k = 3 \/ k = 4 \/ k = 5
        \/ k = 6 \/ k = 7 \/ k = 8 \/ k = 9 \/ k = 10
    OBVIOUS
  <2> QED BY <2>1, <2>2, Zenon
<1> HIDE DEF refusals
<1>4. ASSUME refusals # {} PROVE first \in refusals
  <2>1. refusals \subseteq Nat
    BY <1>2
  <2>2. \E m \in refusals : \A k \in refusals : m <= k
    BY <1>4, <2>1, Least, Zenon
  <2> QED BY <2>2, Zenon
<1> QED BY <1>1, <1>2, <1>3, <1>4 DEF refusals

(* What is allowed is ordinary, and what is ordinary is allowed, whatever  *)
(* the paths, the scope and what is known of the directories               *)
(* (file-scope.mjs 134-158).                                               *)
THEOREM AllowedAreOrdinary ==
  ASSUME NEW change, change.change \in {"created", "modified", "deleted", "type_changed"},
         NEW scope, NEW modes
  PROVE  AllowedIsOrdinary(change, scope, modes)
<1> DEFINE refusals == RefusalsOf(change, scope, modes)
<1>1. refusals = {} <=> \A k \in 1..10 : k \notin refusals
  BY DEF RefusalsOf
<1>2. (\A boundary \in Reserved(scope) : ~Touches(change.path, boundary, modes))
        <=> /\ ~TouchesAny(change.path, scope.dependencyMounts, modes)
            /\ ~TouchesAny(change.path, scope.protectedPaths, modes)
            /\ ~TouchesAny(change.path, scope.inputPaths, modes)
            /\ ~TouchesAny(change.path, scope.preparationPaths, modes)
  BY DEF Reserved, TouchesAny
<1>3. /\ 1 \in refusals <=> change.path = <<>>
      /\ 2 \in refusals <=> IsInternal(change.path)
      /\ 3 \in refusals <=> IsSecret(change.path)
      /\ 4 \in refusals <=> TouchesAny(change.path, scope.dependencyMounts, modes)
      /\ 5 \in refusals <=> TouchesAny(change.path, scope.protectedPaths, modes)
      /\ 6 \in refusals <=> TouchesAny(change.path, scope.inputPaths, modes)
      /\ 7 \in refusals <=> TouchesAny(change.path, scope.preparationPaths, modes)
  <2>1. 1 \in refusals <=> change.path = <<>>
    BY SMT DEF RefusalsOf
  <2>2. 2 \in refusals <=> IsInternal(change.path)
    BY SMT DEF RefusalsOf
  <2>3. 3 \in refusals <=> IsSecret(change.path)
    BY SMT DEF RefusalsOf
  <2>4. 4 \in refusals <=> TouchesAny(change.path, scope.dependencyMounts, modes)
    BY SMT DEF RefusalsOf
  <2>5. 5 \in refusals <=> TouchesAny(change.path, scope.protectedPaths, modes)
    BY SMT DEF RefusalsOf
  <2>6. 6 \in refusals <=> TouchesAny(change.path, scope.inputPaths, modes)
    BY SMT DEF RefusalsOf
  <2>7. 7 \in refusals <=> TouchesAny(change.path, scope.preparationPaths, modes)
    BY SMT DEF RefusalsOf
  <2> QED BY <2>1, <2>2, <2>3, <2>4, <2>5, <2>6, <2>7
<1>4. /\ 8 \in refusals <=> change.change = "deleted" \/ change.after = "absent"
      /\ 9 \in refusals <=> \/ change.change = "created" /\ change.before # "absent"
                            \/ change.change = "modified" /\ change.before = "absent"
      /\ 10 \in refusals <=> \/ change.change = "type_changed"
                             \/ change.before \notin {"absent", change.after}
                             \/ change.after # "file"
  <2>1. 8 \in refusals <=> change.change = "deleted" \/ change.after = "absent"
    BY SMT DEF RefusalsOf
  <2>2. 9 \in refusals <=> \/ change.change = "created" /\ change.before # "absent"
                           \/ change.change = "modified" /\ change.before = "absent"
    BY SMT DEF RefusalsOf
  <2>3. 10 \in refusals <=> \/ change.change = "type_changed"
                            \/ change.before \notin {"absent", change.after}
                            \/ change.after # "file"
    BY SMT DEF RefusalsOf
  <2> QED BY <2>1, <2>2, <2>3
<1>5. 8 \notin refusals /\ 9 \notin refusals /\ 10 \notin refusals
        <=> /\ change.after = "file"
            /\ \/ change.change = "created" /\ change.before = "absent"
               \/ change.change = "modified" /\ change.before = "file"
  BY <1>4
<1>6. refusals = {} <=> /\ 1 \notin refusals /\ 2 \notin refusals /\ 3 \notin refusals
                        /\ 4 \notin refusals /\ 5 \notin refusals /\ 6 \notin refusals
                        /\ 7 \notin refusals
                        /\ 8 \notin refusals /\ 9 \notin refusals /\ 10 \notin refusals
  <2> HIDE DEF refusals
  <2>1. \A k \in 1..10 : \/ k = 1 \/ k = 2 \/ k = 3 \/ k = 4 \/ k = 5
                         \/ k = 6 \/ k = 7 \/ k = 8 \/ k = 9 \/ k = 10
    OBVIOUS
  <2> QED BY <1>1, <2>1
<1>7. Classify(change, scope, modes) = "none" <=> refusals = {}
  BY AllowedOrRefused
<1> HIDE DEF refusals
<1> QED BY <1>2, <1>3, <1>5, <1>6, <1>7 DEF AllowedIsOrdinary

(* A change that a filesystem would write to a reserved path, or to a place*)
(* in it, under any spelling of it and at any depth, is refused, whichever *)
(* of the directories on the way were probed and whatever is in them       *)
(* (file-scope.mjs 89-126, 134-216).                                       *)
THEOREM AliasesAreRefused ==
  ASSUME NEW Letters, NEW Probed, NEW entries, NEW kindOf,
         \A d \in Probed : Holds(kindOf[d], entries[d]) /\ \A e \in entries[d] : e.name \in Spelt(Letters),
         NEW change, NEW scope, NEW boundary \in Reserved(scope), NEW kinds,
         NamesWithin(change.path, boundary, kinds),
         \A i \in 1..Len(change.path) : i <= Len(boundary) =>
           \A d \in Probed \cap {SubSeq(change.path, 1, i - 1), SubSeq(boundary, 1, i - 1)} : kindOf[d] = kinds[i]
  PROVE  Classify(change, scope, [d \in Probed |-> ProbeOf(d, kindOf[d], entries[d], Spelt(Letters))]) # "none"
<1> DEFINE modes == [d \in Probed |-> ProbeOf(d, kindOf[d], entries[d], Spelt(Letters))]
           path == change.path
<1>1. ASSUME NEW i \in 1..Len(path), i <= Len(boundary)
      PROVE  MayAlias(path, boundary, i, modes)
  <2> DEFINE mode == Mode(path, boundary, i, modes)
             own == SubSeq(path, 1, i - 1)
             reserved == SubSeq(boundary, 1, i - 1)
  <2>1. ASSUME NEW d \in Probed \cap {own, reserved}
        PROVE  /\ kinds[i].case => modes[d].case # "no"
               /\ kinds[i].unicode => modes[d].unicode # "no"
    <3>1. kindOf[d] = kinds[i]
      BY <1>1
    <3>2. modes[d] = ProbeOf(d, kinds[i], entries[d], Spelt(Letters))
      BY <3>1
    <3>3. Holds(kinds[i], entries[d]) /\ \A e \in entries[d] : e.name \in Spelt(Letters)
      BY <3>1
    <3> HIDE DEF modes
    <3> QED BY <3>2, <3>3, ProbesAreTrue
  <2>2. \/ own \in Probed /\ mode = modes[own]
        \/ reserved \in Probed /\ mode = modes[reserved]
        \/ mode = [case |-> "unknown", unicode |-> "unknown"]
    BY DEF Mode
  <2> HIDE DEF modes, mode, own, reserved
  <2>3. (kinds[i].case => mode.case # "no") /\ (kinds[i].unicode => mode.unicode # "no")
    BY <2>1, <2>2
  <2>4. SameIn(kinds[i], path[i], boundary[i])
    BY <1>1 DEF NamesWithin
  <2> QED BY <2>3, <2>4 DEF MayAlias, SameIn, mode
<1>2. Touches(path, boundary, modes)
  BY <1>1 DEF Touches
<1>3. \E k \in 4..7 : k \in RefusalsOf(change, scope, modes)
  <2> HIDE DEF modes
  <2> QED BY <1>2 DEF Reserved, TouchesAny, RefusalsOf
<1> HIDE DEF modes
<1>4. Classify(change, scope, modes) # "none"
  BY <1>3, AllowedOrRefused
<1> QED BY <1>4 DEF modes

=============================================================================
