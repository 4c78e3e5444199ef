--------------------------- MODULE Installation ---------------------------
(***************************************************************************)
(* How a release gets into a home directory (setup.mjs): `setup` installs  *)
(* the skills bundle file by file, never over a file that is there, then   *)
(* the agents' links and the profile registry; `skills update` and         *)
(* `profiles update` replace bundle and registry as directories.  None of  *)
(* them takes a lock, and each acts on what it looked at before.           *)
(*                                                                         *)
(* The files of a bundle are written in the order 1, 2, ...: 1 stands for  *)
(* package.json, 2 for the skills with tinysdd/SKILL.md, the rest for the  *)
(* documents.  The registry has one content for each version.              *)
(***************************************************************************)
EXTENDS Naturals, FiniteSets

CONSTANTS
  Procs,     \* invocations of the command line
  Versions,  \* versions of the command line, each with its own release
  NumFiles,  \* files of a bundle
  None,
  MaxStarts, \* bound on invocations
  MaxFaults  \* bound on crashes and failing writes

ASSUME FilesAssumption  == NumFiles \in Nat \ {0, 1}
ASSUME BoundsAssumption == {MaxStarts, MaxFaults} \subseteq Nat
ASSUME VersionsAssumption == None \notin Versions

VARIABLES
  bundle,    \* ~/.agents/tinysdd
  links,     \* the agents' skill entries are there
  registry,  \* <config>/registry
  aside,     \* directories that were moved aside and are still there
  proc,      \* what every invocation is doing
  spent,     \* starts and faults so far
  installed  \* history: a whole bundle, a registry was in place

vars == <<bundle, links, registry, aside, proc, spent, installed>>

Files    == 1..NumFiles
Contents == [version : Versions, cut : BOOLEAN] \* a write may be cut short
Bundles  == [Files -> Contents \cup {None}]

ASSUME NoneAssumption == None \notin Procs \cup Contents \cup Bundles

Steps == {"idle", "fetch", "registry", "plan", "links", "write", "link", "place", "move", "rename", "discard"}
Invocations ==
  [at : Steps, task : {"none", "setup", "skills", "profiles"}, version : Versions \cup {None},
   next : 1..(NumFiles + 1), todo : SUBSET Files, linked : BOOLEAN,
   place : {"none", "install", "replace", "preserve"}, undermined : BOOLEAN]

TypeOK ==
  /\ bundle \in Bundles \cup {None}
  /\ links \in BOOLEAN
  /\ registry \in Versions \cup {None}
  /\ aside \subseteq [skills : Bundles \cup {None}, profiles : Versions \cup {None}, owner : Procs \cup {None}]
  /\ proc \in [Procs -> Invocations]
  /\ spent \in [starts : 0..MaxStarts, faults : 0..MaxFaults]
  /\ installed \in [skills : BOOLEAN, profiles : BOOLEAN]

-----------------------------------------------------------------------------
Empty        == [f \in Files |-> None]
Release(v)   == [f \in Files |-> [version |-> v, cut |-> FALSE]]
Whole(b)     == \E v \in Versions : b = Release(v)

Idle == [at |-> "idle", task |-> "none", version |-> None, next |-> 1, todo |-> {}, linked |-> FALSE,
         place |-> "none", undermined |-> FALSE]

At(p, task, step) == proc[p].task = task /\ proc[p].at = step
Go(p, step)       == proc' = [proc EXCEPT ![p].at = step]
End(p)            == proc' = [proc EXCEPT ![p] = Idle]
Spend(what)       == spent' = [spent EXCEPT ![what] = @ + 1]
Fault             == spent.faults < MaxFaults /\ Spend("faults")

(* Whenever the bundle moves, whoever has looked at it acts on old news.   *)
Undermine(p, next) ==
  proc' = [q \in Procs |-> IF q = p THEN [proc[p] EXCEPT !.at = next]
                           ELSE [proc[q] EXCEPT !.undermined = @ \/ proc[q].at # "idle"]]

Start(p, task, v) ==
  /\ proc[p].at = "idle"
  /\ spent.starts < MaxStarts /\ Spend("starts")
  /\ proc' = [proc EXCEPT ![p] = [Idle EXCEPT !.at = "fetch", !.task = task, !.version = v]]
  /\ UNCHANGED <<bundle, links, registry, aside, installed>>

RunSetup(p, v)       == Start(p, "setup", v)
UpdateSkills(p, v)   == Start(p, "skills", v)
UpdateProfiles(p, v) == Start(p, "profiles", v)

(* The release archive is downloaded within its time, unpacked elsewhere   *)
(* and found to be the release of this version, or nothing happens.        *)
FetchRelease(p) ==
  /\ proc[p].at = "fetch"
  /\ \/ Go(p, IF proc[p].task = "skills" THEN "plan" ELSE "registry")
     \/ End(p)
  /\ UNCHANGED <<bundle, links, registry, aside, spent, installed>>

-----------------------------------------------------------------------------
(* planRegistry, applyRegistry                                             *)

(* Only an update may replace a registry that differs.                     *)
PlanRegistry(p) ==
  /\ proc[p].at = "registry"
  /\ LET place == IF registry = None THEN "install"
                  ELSE IF registry = proc[p].version THEN "preserve" ELSE "replace"
         setup == proc[p].task = "setup"
     IN  IF setup /\ place = "replace" THEN End(p)
         ELSE proc' = [proc EXCEPT ![p].place = place,
                         ![p].at = IF setup THEN "plan" ELSE IF place = "replace" THEN "move" ELSE "place"]
  /\ UNCHANGED <<bundle, links, registry, aside, spent, installed>>

(* A rename onto a registry that appeared meanwhile fails.                 *)
PlaceRegistry(p) ==
  /\ proc[p].task # "skills" /\ proc[p].at = "place"
  /\ IF proc[p].place = "install" /\ registry = None
     THEN registry' = proc[p].version /\ installed' = [installed EXCEPT !.profiles = TRUE]
     ELSE UNCHANGED <<registry, installed>>
  /\ End(p)
  /\ UNCHANGED <<bundle, links, aside, spent>>

MoveRegistry(p) ==
  /\ At(p, "profiles", "move")
  /\ IF registry = None THEN End(p) /\ UNCHANGED <<registry, aside>>
     ELSE /\ aside' = aside \cup {[skills |-> None, profiles |-> registry, owner |-> p]}
          /\ registry' = None /\ Go(p, "rename")
  /\ UNCHANGED <<bundle, links, spent, installed>>

RenameRegistry(p) ==
  /\ At(p, "profiles", "rename")
  /\ IF registry = None
     THEN /\ registry' = proc[p].version /\ Go(p, "discard")
          /\ installed' = [installed EXCEPT !.profiles = TRUE] /\ UNCHANGED aside
     ELSE /\ End(p) /\ UNCHANGED <<registry, installed>>
          /\ aside' = {IF d.owner = p THEN [d EXCEPT !.owner = None] ELSE d : d \in aside}
  /\ UNCHANGED <<bundle, links, spent>>

-----------------------------------------------------------------------------
(* installBundle                                                           *)

(* checkFilePlan looks at one file after the other.                        *)
PlanFile(p) ==
  /\ At(p, "setup", "plan")
  /\ LET f == proc[p].next
         there == IF bundle = None THEN None ELSE bundle[f]
     IN  IF there \notin {None, Release(proc[p].version)[f]} THEN End(p)
         ELSE proc' = [proc EXCEPT ![p].next = f + 1,
                         ![p].todo = IF there = None THEN @ \cup {f} ELSE @,
                         ![p].at = IF f = NumFiles THEN "links" ELSE @]
  /\ UNCHANGED <<bundle, links, registry, aside, spent, installed>>

PlanLinks(p) ==
  /\ proc[p].at = "links"
  /\ proc' = [proc EXCEPT ![p].linked = links, ![p].next = 1,
                ![p].at = IF proc[p].task = "setup" THEN "write"
                          ELSE IF proc[p].place = "install" THEN "rename" ELSE "move"]
  /\ UNCHANGED <<bundle, links, registry, aside, spent, installed>>

Put(f, content) == bundle' = [IF bundle = None THEN Empty ELSE bundle EXCEPT ![f] = content]

\* Mutant: an existing file is written over.
AnyFile(f) == TRUE

(* The flag wx: a file that appeared meanwhile is an error.                *)
Missing(f) == bundle # None => bundle[f] = None

(* The parent directories are made as they are needed, the root as well.   *)
WriteFile(p) ==
  /\ At(p, "setup", "write")
  /\ IF proc[p].todo = {} THEN Go(p, "link") /\ UNCHANGED <<bundle, installed>>
     ELSE LET f == CHOOSE f \in proc[p].todo : \A g \in proc[p].todo : f <= g
          IN  IF Missing(f)
              THEN /\ Put(f, Release(proc[p].version)[f])
                   /\ proc' = [proc EXCEPT ![p].todo = @ \ {f}]
                   /\ installed' = [installed EXCEPT !.skills = @ \/ Whole(bundle')]
              ELSE End(p) /\ UNCHANGED <<bundle, installed>>
  /\ UNCHANGED <<links, registry, aside, spent>>

(* A link that appeared meanwhile is an error.                             *)
LinkSkills(p) ==
  /\ proc[p].at = "link"
  /\ IF ~proc[p].linked /\ links THEN End(p)
     ELSE IF proc[p].task = "setup" THEN Go(p, "place") ELSE End(p)
  /\ links' = TRUE
  /\ UNCHANGED <<bundle, registry, aside, spent, installed>>

(* The write stops after its directory was made or half-way in the file.   *)
CutFile(p) ==
  /\ At(p, "setup", "write") /\ proc[p].todo # {}
  /\ LET f == CHOOSE f \in proc[p].todo : \A g \in proc[p].todo : f <= g
     IN  /\ Missing(f)
         /\ \E content \in {None, [version |-> proc[p].version, cut |-> TRUE]} : Put(f, content)
  /\ Fault
  /\ End(p)
  /\ UNCHANGED <<links, registry, aside, installed>>

-----------------------------------------------------------------------------
(* updateSkills                                                            *)

(* assertExistingBundleIsOurs                                              *)
Ours == bundle \in {None, Empty} \/ (bundle[1] # None /\ ~bundle[1].cut /\ bundle[2] # None)

PlanReplace(p) ==
  /\ At(p, "skills", "plan")
  /\ IF ~Ours THEN End(p)
     ELSE proc' = [proc EXCEPT ![p].at = "links",
                               ![p].place = IF bundle = None THEN "install" ELSE "replace"]
  /\ UNCHANGED <<bundle, links, registry, aside, spent, installed>>

\* Mutant: the old bundle is removed before the new one is in place.
Removed(p, b) == aside

MovedAside(p, b) == aside \cup {[skills |-> b, profiles |-> None, owner |-> p]}

(* The new bundle is complete in a directory of its own when the old one   *)
(* is moved aside.                                                         *)
MoveBundle(p) ==
  /\ At(p, "skills", "move")
  /\ IF bundle = None THEN End(p) /\ UNCHANGED <<bundle, aside>>
     ELSE aside' = MovedAside(p, bundle) /\ bundle' = None /\ Undermine(p, "rename")
  /\ UNCHANGED <<links, registry, spent, installed>>

(* rename replaces an empty directory and fails on any other.              *)
RootFree == bundle \in {None, Empty}

RenameBundle(p) ==
  /\ At(p, "skills", "rename")
  /\ IF RootFree
     THEN /\ bundle' = Release(proc[p].version) /\ Undermine(p, "discard")
          /\ installed' = [installed EXCEPT !.skills = TRUE] /\ UNCHANGED aside
     ELSE /\ End(p) /\ UNCHANGED <<bundle, installed>>
          /\ aside' = {IF d.owner = p THEN [d EXCEPT !.owner = None] ELSE d : d \in aside}
  /\ UNCHANGED <<links, registry, spent>>

(* What this invocation moved aside is removed.                            *)
Discard(p) ==
  /\ proc[p].at = "discard"
  /\ aside' = {d \in aside : d.owner # p}
  /\ IF proc[p].task = "skills" THEN Go(p, "link") ELSE End(p)
  /\ UNCHANGED <<bundle, links, registry, spent, installed>>

-----------------------------------------------------------------------------
(* A crash leaves what was moved aside, and the bundle as far as it came.  *)
Crash(p) ==
  /\ proc[p].at # "idle"
  /\ Fault
  /\ End(p)
  /\ aside' = {IF d.owner = p THEN [d EXCEPT !.owner = None] ELSE d : d \in aside}
  /\ UNCHANGED <<bundle, links, registry, installed>>

Init ==
  /\ bundle = None /\ links = FALSE /\ registry = None /\ aside = {}
  /\ proc = [p \in Procs |-> Idle]
  /\ spent = [starts |-> 0, faults |-> 0]
  /\ installed = [skills |-> FALSE, profiles |-> FALSE]

Continue(p) ==
  \/ FetchRelease(p) \/ PlanRegistry(p) \/ PlaceRegistry(p) \/ MoveRegistry(p) \/ RenameRegistry(p)
  \/ PlanFile(p) \/ PlanLinks(p) \/ WriteFile(p) \/ LinkSkills(p)
  \/ PlanReplace(p) \/ MoveBundle(p) \/ RenameBundle(p) \/ Discard(p)

Next ==
  \/ \E p \in Procs, v \in Versions : RunSetup(p, v) \/ UpdateSkills(p, v) \/ UpdateProfiles(p, v)
  \/ \E p \in Procs : Continue(p) \/ CutFile(p) \/ Crash(p)

Spec == Init /\ [][Next]_vars

-----------------------------------------------------------------------------
(* Whatever runs at the same time and wherever an update stops: once a     *)
(* whole bundle was installed, one is in place or was moved aside; the     *)
(* same for the registry (setup.mjs 1326-1338, 1441-1449).                 *)
InstallationKept ==
  /\ installed.skills => Whole(bundle) \/ \E d \in aside : Whole(d.skills)
  /\ installed.profiles => registry # None \/ \E d \in aside : d.profiles # None

(* A setup that comes to its end while nobody replaced the bundle leaves a *)
(* whole bundle of its own version with the links, although a crashed      *)
(* setup or a second one wrote files too (setup.mjs 1047-1190, 1353-1356). *)
SetupInstalls ==
  \A p \in Procs : At(p, "setup", "place") /\ ~proc[p].undermined =>
    bundle = Release(proc[p].version) /\ links
=============================================================================
