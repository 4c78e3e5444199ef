------------------------------- MODULE Release -------------------------------
(***************************************************************************)
(* How a version of the package is released: scripts/release.mjs, planned  *)
(* by scripts/release-plan.mjs and run by .github/workflows/release.yml    *)
(* whenever main moves or an operator asks for it.                         *)
(*                                                                         *)
(* Four stores take part, and none of them is ever rolled back: the main   *)
(* branch and the tags of the repository, npm, whose metadata shows a      *)
(* submitted version only after a while, and the releases of GitHub with   *)
(* the packed artifact as their asset. A run starts from a fresh clone and *)
(* keeps nothing; it may stop at every step (a failing command, a failing  *)
(* test, a cancelled job), and the next run has to find out from the four  *)
(* stores how far the last one came. The workflow's concurrency group lets *)
(* one run at a time work.                                                 *)
(*                                                                         *)
(* main is never rewritten, so a commit is its position on it; the entry   *)
(* there holds the bump the message asks for and the version package.json  *)
(* names. The commit a run prepares takes the position after its head, and *)
(* is lost unless it is pushed. An artifact is the commit it was packed    *)
(* from and the toolchain that packed it: npm and Node decide how the      *)
(* archive is compressed, the workflow asks for "Node 24" and takes what   *)
(* the runner then has. MaxMerges bounds the changes, MaxStops the stopped *)
(* runs and MaxUpgrades the toolchains; Merged are the kinds of change.    *)
(***************************************************************************)
EXTENDS Integers, Sequences, FiniteSets

CONSTANTS Nothing, FirstVersion, Merged, MaxMerges, MaxStops, MaxUpgrades

ASSUME BoundAssumption ==
  /\ MaxMerges \in Nat /\ MaxStops \in Nat /\ MaxUpgrades \in Nat
  /\ FirstVersion \in Nat \X Nat \X Nat

VARIABLES
  main,      \* origin/main: the sequence of its entries
  tags,      \* origin's release tags: version -> commit and recorded integrity
  npm,       \* npm's versions: version -> artifact and whether it can be seen
  releases,  \* GitHub's releases: version -> draft or not, and the asset
  enabled,   \* the repository variable NPM_RELEASES_ENABLED
  toolchain, \* the Node and npm the runner image has now
  stops,     \* runs that stopped at a step so far
  run        \* the run that is working

releaseVars == <<main, tags, npm, releases, enabled, toolchain, stops, run>>
stores == <<main, tags, npm, releases>>
world == <<enabled, toolchain, stops>>

Rank == [none |-> 0, patch |-> 1, minor |-> 2, major |-> 3]
Bumps == DOMAIN Rank

ASSUME MergedAssumption == Merged \subseteq Bumps

(* What npm pack makes, and what GitHub keeps for a tag.                   *)
Artifacts == [commit : Nat, tools : Nat]
Drafts == [draft : BOOLEAN, asset : Artifacts \cup {Nothing}]

ASSUME NothingAssumption == Nothing \notin Artifacts /\ Nothing \notin Drafts

(* A store once v has the entry e in it.                                   *)
With(store, v, e) ==
  [w \in DOMAIN store \cup {v} |-> IF w = v THEN e ELSE store[w]]

(* v is an older version than w (compareVersions).                         *)
Older(v, w) ==
  \/ v[1] < w[1]
  \/ v[1] = w[1] /\ v[2] < w[2]
  \/ v[1] = w[1] /\ v[2] = w[2] /\ v[3] < w[3]

BumpVersion(v, bump) ==
  CASE bump = "major" -> <<v[1] + 1, 0, 0>>
    [] bump = "minor" -> <<v[1], v[2] + 1, 0>>
    [] bump = "patch" -> <<v[1], v[2], v[3] + 1>>
    [] OTHER -> v

(* What classifyCommit makes of a message is the entry's bump; the commit  *)
(* of a release asks for none.                                             *)
Entry(bump, version) == [bump |-> bump, version |-> version]

HighestBump(commits) ==
  CHOOSE b \in Bumps :
    /\ b = "none" \/ \E c \in commits : main[c].bump = b
    /\ \A c \in commits : Rank[main[c].bump] <= Rank[b]

(* The version a commit's package.json names.                              *)
PackageVersion(commit) == main[commit].version

(***************************************************************************)
(* The plan (readReleasePlan, buildReleasePlan) of a clone: from the tags  *)
(* its head reaches, the newest of them, and the commits after that one.   *)
(***************************************************************************)
Reachable(head, known) == {v \in DOMAIN known : known[v].commit <= head}

Newest(versions) == CHOOSE v \in versions : \A w \in versions : w = v \/ Older(w, v)

PlanRefused(head, known) ==
  \/ \E v \in Reachable(head, known) : PackageVersion(known[v].commit) # v
  \/ PackageVersion(head) # Newest(Reachable(head, known))

Plan(head, known) ==
  IF Reachable(head, known) = {}
  THEN [kind |-> "bootstrap", base |-> Nothing, version |-> PackageVersion(head)]
  ELSE IF PlanRefused(head, known)
  THEN [kind |-> "refused", base |-> Nothing, version |-> Nothing]
  ELSE LET base == Newest(Reachable(head, known))
           bump == HighestBump(known[base].commit + 1 .. head)
           version == BumpVersion(base, bump)
       IN IF bump = "none"
          THEN [kind |-> "none", base |-> base, version |-> base]
          ELSE IF version \in Reachable(head, known)
          THEN [kind |-> "refused", base |-> Nothing, version |-> Nothing]
          ELSE [kind |-> "release", base |-> base, version |-> version]

(***************************************************************************)
(* What a run asks the stores.                                             *)
(***************************************************************************)
TagIn(known, v) == IF v \in DOMAIN known THEN known[v] ELSE Nothing

(* npm view finds the version.                                             *)
Visible(v) == v \in DOMAIN npm /\ npm[v].visible

Confirmed(v) == Visible(v)

(* The GitHub release of a tag, drafts included (getRelease).              *)
ReleaseOf(v) == IF v \in DOMAIN releases THEN releases[v] ELSE Nothing

(* A mutant never looks for a retained asset.                              *)
HasAssetNever(release) == FALSE /\ release # Nothing
HasAsset(release) == release # Nothing /\ release.asset # Nothing

(* assertTagMetadata, assertRegistryIntegrity and the digest of a          *)
(* downloaded asset: the artifact is the one the tag recorded. A mutant    *)
(* takes whatever was packed.                                              *)
IsTaggedUnchecked(v, artifact) == v \in DOMAIN run.local /\ artifact # Nothing
IsTagged(v, artifact) == artifact = run.local[v].integrity

(* npm pack of a commit with the tools of this run.                        *)
Packed(commit) == [commit |-> commit, tools |-> run.tools]

(* The release of a tag that records an artifact is unfinished: npm does   *)
(* not show it, or GitHub has no published release for it (inspectPending).*)
(* A mutant looks at npm only.                                             *)
PendingOnRegistry(v) == run.local[v].integrity # Nothing /\ ~Visible(v)
Pending(v) ==
  /\ run.local[v].integrity # Nothing
  /\ \/ ~Visible(v)
     \/ ReleaseOf(v) # Nothing => ReleaseOf(v).draft

(* inspectPending refuses a tag that is not origin's, whose message does   *)
(* not name its commit, or whose npm version is another artifact.          *)
InspectionFits(v) ==
  /\ TagIn(tags, v) = run.local[v]
  /\ run.local[v].integrity # Nothing =>
       /\ run.local[v].integrity.commit = run.local[v].commit
       /\ Visible(v) => IsTagged(v, npm[v].artifact)

(***************************************************************************)
(* The run. path says whether finishPending or createRelease works on      *)
(* version; submitted are the versions this process published already.     *)
(***************************************************************************)
NoRun ==
  [pc |-> "idle", head |-> 0, local |-> <<>>, tools |-> 0, cycle |-> 0,
   path |-> Nothing, version |-> Nothing, artifact |-> Nothing, submitted |-> {}]

RunEnded == run' = NoRun

RunAt(pc) == run.pc = pc

ThisPlan == Plan(run.head, run.local)

(* A qualifying push or an operator starts the workflow: the job checks    *)
(* main out with its whole history and its tags.                           *)
StartRelease ==
  /\ RunAt("idle")
  /\ run' = [NoRun EXCEPT !.pc = "validate", !.head = Len(main), !.local = tags,
                         !.tools = toolchain]
  /\ UNCHANGED <<stores, world>>

(* validateReleaseCheckout and readReleasePlan: main must not have moved,  *)
(* there must be a tag to plan from, and publication must be enabled.      *)
Validate ==
  /\ RunAt("validate")
  /\ \/ /\ Len(main) = run.head
        /\ ThisPlan.kind \in {"none", "release"}
        /\ enabled
        /\ run' = [run EXCEPT !.pc = "inspect", !.cycle = 1]
     \/ /\ Len(main) # run.head \/ ThisPlan.kind \in {"bootstrap", "refused"} \/ ~enabled
        /\ RunEnded
  /\ UNCHANGED <<stores, world>>

(* The last release is unfinished: this run finishes it first.             *)
Resume ==
  /\ RunAt("inspect")
  /\ InspectionFits(ThisPlan.base)
  /\ Pending(ThisPlan.base)
  /\ run' = [run EXCEPT !.pc = "archive", !.path = "finish", !.version = ThisPlan.base]
  /\ UNCHANGED <<stores, world>>

(* There is nothing to finish and nothing to release, or an inspection     *)
(* fails.                                                                  *)
NothingToRelease ==
  /\ RunAt("inspect")
  /\ \/ ~InspectionFits(ThisPlan.base)
     \/ ~Pending(ThisPlan.base) /\ ThisPlan.kind = "none"
  /\ RunEnded
  /\ UNCHANGED <<stores, world>>

Clash(v) == Visible(v) \/ v \in DOMAIN tags \/ v \in DOMAIN run.local

(* createRelease up to the push: it refuses a version that exists          *)
(* anywhere, commits the new package.json on top of the head in a detached *)
(* worktree, runs the tests, packs, and tags the commit in the clone.      *)
PrepareRelease ==
  /\ RunAt("inspect")
  /\ InspectionFits(ThisPlan.base)
  /\ ~Pending(ThisPlan.base)
  /\ ThisPlan.kind = "release"
  /\ LET v == ThisPlan.version
         commit == run.head + 1
     IN \/ /\ ~Clash(v)
           /\ run' = [run EXCEPT !.pc = "push", !.path = "create", !.version = v,
                        !.artifact = Packed(commit),
                        !.local = With(@, v, [commit |-> commit,
                                              integrity |-> Packed(commit)])]
        \/ /\ Clash(v)
           /\ RunEnded
  /\ UNCHANGED <<stores, world>>

(* git push --atomic: the release commit becomes main and its tag is       *)
(* created, or, when main moved (noticed before the push or by it),        *)
(* neither.                                                                *)
Push ==
  /\ RunAt("push")
  /\ \/ /\ Len(main) = run.head
        /\ run.version \notin DOMAIN tags
        /\ main' = Append(main, Entry("none", run.version))
        /\ tags' = With(tags, run.version, run.local[run.version])
        /\ run' = [run EXCEPT !.pc = "archive"]
     \/ /\ Len(main) # run.head \/ run.version \in DOMAIN tags
        /\ RunEnded
        /\ UNCHANGED <<main, tags>>
  /\ UNCHANGED <<npm, releases, world>>

(* The versioned archive is compared with the tagged commit, and the       *)
(* artifact is at hand: the one just packed, the retained asset of an      *)
(* unfinished release, or one packed again from the tagged commit; the     *)
(* last two must be the artifact the tag recorded.                         *)
Verify ==
  /\ RunAt("archive")
  /\ LET v == run.version
         found ==
           IF run.path = "create" THEN run.artifact
           ELSE IF HasAsset(ReleaseOf(v)) THEN ReleaseOf(v).asset
           ELSE Packed(run.local[v].commit)
     IN \/ /\ TagIn(tags, v) = run.local[v]
           /\ IsTagged(v, found)
           /\ run' = [run EXCEPT !.pc = "draft", !.artifact = found]
        \/ /\ TagIn(tags, v) # run.local[v] \/ ~IsTagged(v, found)
           /\ RunEnded
  /\ UNCHANGED <<stores, world>>

(* ensureDraftAsset: the draft is created when the tag has no release yet, *)
CreateDraft ==
  /\ RunAt("draft")
  /\ ReleaseOf(run.version) = Nothing
  /\ releases' = With(releases, run.version, [draft |-> TRUE, asset |-> Nothing])
  /\ UNCHANGED <<main, tags, npm, world, run>>

(* the artifact is uploaded when the draft has none, and a published       *)
(* release without it, or another artifact, is refused.                    *)
EnsureAsset ==
  /\ RunAt("draft")
  /\ LET release == ReleaseOf(run.version)
     IN /\ release # Nothing
        /\ \/ /\ ~HasAsset(release) /\ release.draft
              /\ releases' = [releases EXCEPT ![run.version].asset = run.artifact]
              /\ run' = [run EXCEPT !.pc = "submit"]
           \/ /\ HasAsset(release) /\ release.asset = run.artifact
              /\ run' = [run EXCEPT !.pc = "submit"]
              /\ UNCHANGED releases
           \/ /\ IF HasAsset(release) THEN release.asset # run.artifact ELSE ~release.draft
              /\ RunEnded
              /\ UNCHANGED releases
  /\ UNCHANGED <<main, tags, npm, world>>

(* finishPending asks npm first and does not publish what it shows;        *)
(* createRelease asked before. npm publish answers when the version is     *)
(* submitted, and refuses a version that was submitted before, shown or    *)
(* not.                                                                    *)
Submit ==
  /\ RunAt("submit")
  /\ LET v == run.version
     IN \/ /\ run.path = "finish" /\ Visible(v)
           /\ run' = IF IsTagged(v, npm[v].artifact)
                     THEN [run EXCEPT !.pc = "confirm"] ELSE NoRun
           /\ UNCHANGED npm
        \/ /\ run.path = "finish" => ~Visible(v)
           /\ v \in run.submitted
           /\ run' = [run EXCEPT !.pc = "confirm"]
           /\ UNCHANGED npm
        \/ /\ run.path = "finish" => ~Visible(v)
           /\ v \notin run.submitted
           /\ v \notin DOMAIN npm
           /\ npm' = With(npm, v, [artifact |-> run.artifact, visible |-> FALSE])
           /\ run' = [run EXCEPT !.pc = "confirm", !.submitted = @ \cup {v}]
        \/ /\ run.path = "finish" => ~Visible(v)
           /\ v \notin run.submitted
           /\ v \in DOMAIN npm
           /\ RunEnded
           /\ UNCHANGED npm
  /\ UNCHANGED <<main, tags, releases, world>>

(* confirmRegistryVisibility: npm shows the version, and it must be the    *)
(* tagged artifact,                                                        *)
Confirm ==
  /\ RunAt("confirm")
  /\ Confirmed(run.version)
  /\ run' = IF IsTagged(run.version, npm[run.version].artifact)
            THEN [run EXCEPT !.pc = "announce"] ELSE NoRun
  /\ UNCHANGED <<stores, world>>

(* or it is still missing after the last of the checks and the run fails.  *)
GiveUp ==
  /\ RunAt("confirm")
  /\ ~Visible(run.version)
  /\ RunEnded
  /\ UNCHANGED <<stores, world>>

(* publishRelease; a run that finished an older release plans once more    *)
(* when there is a version to release, and a second unfinished one ends it *)
(* (RELEASE_PENDING_LOOP).                                                 *)
Announce ==
  /\ RunAt("announce")
  /\ releases' = [releases EXCEPT ![run.version].draft = FALSE]
  /\ run' = IF run.path = "finish" /\ ThisPlan.kind = "release" /\ run.cycle = 1
            THEN [run EXCEPT !.pc = "inspect", !.cycle = 2, !.path = Nothing,
                             !.version = Nothing, !.artifact = Nothing]
            ELSE NoRun
  /\ UNCHANGED <<main, tags, npm, world>>

(* A command fails, a test fails or the job is cancelled; nothing is       *)
(* undone and the clone is gone.                                           *)
StopRun ==
  /\ ~RunAt("idle")
  /\ stops < MaxStops
  /\ stops' = stops + 1
  /\ RunEnded
  /\ UNCHANGED <<stores, enabled, toolchain>>

(***************************************************************************)
(* The rest of the world.                                                  *)
(***************************************************************************)
Tagged == {v \in DOMAIN tags : tags[v].integrity # Nothing}

(* Somebody merges a change to main.                                       *)
Merge(bump) ==
  /\ Len(main) - Cardinality(Tagged) <= MaxMerges
  /\ main' = Append(main, Entry(bump, PackageVersion(Len(main))))
  /\ UNCHANGED <<tags, npm, releases, world, run>>

(* The owner tags the first version by hand, without an artifact,          *)
Bootstrap ==
  /\ DOMAIN tags = {}
  /\ tags' = With(tags, FirstVersion, [commit |-> Len(main), integrity |-> Nothing])
  /\ UNCHANGED <<main, npm, releases, world, run>>

(* and then allows the workflow to publish.                                *)
Enable ==
  /\ DOMAIN tags # {}
  /\ ~enabled
  /\ enabled' = TRUE
  /\ UNCHANGED <<stores, toolchain, stops, run>>

(* npm's metadata shows a submitted version.                               *)
Show(v) ==
  /\ ~npm[v].visible
  /\ npm' = [npm EXCEPT ![v].visible = TRUE]
  /\ UNCHANGED <<main, tags, releases, world, run>>

(* The runner image comes with a newer Node or npm.                        *)
Upgrade ==
  /\ toolchain < MaxUpgrades
  /\ toolchain' = toolchain + 1
  /\ UNCHANGED <<stores, enabled, stops, run>>

ReleaseInit ==
  /\ main = <<Entry("none", FirstVersion)>>
  /\ tags = <<>> /\ npm = <<>> /\ releases = <<>>
  /\ enabled = FALSE /\ toolchain = 0 /\ stops = 0
  /\ run = NoRun

RunWorks ==
  \/ Validate \/ Resume \/ NothingToRelease \/ PrepareRelease \/ Push \/ Verify
  \/ CreateDraft \/ EnsureAsset \/ Submit \/ Confirm \/ Announce

Shown == \E v \in DOMAIN npm : Show(v)

ReleaseNext ==
  \/ StartRelease \/ RunWorks \/ GiveUp \/ StopRun
  \/ \E bump \in Merged : Merge(bump)
  \/ Bootstrap \/ Enable \/ Shown \/ Upgrade

ReleaseSpec == ReleaseInit /\ [][ReleaseNext]_releaseVars

(* A run that can go on does; a run that ended is started again, by the    *)
(* next push or by the operator the documentation sends there; npm shows   *)
(* what was submitted in the end.                                          *)
ReleaseFairSpec ==
  /\ ReleaseSpec
  /\ WF_releaseVars(StartRelease) /\ WF_releaseVars(RunWorks) /\ WF_releaseVars(Shown)
------------------------------------------------------------------------------
Uploaded == {v \in DOMAIN releases : releases[v].asset # Nothing}

Released(v) ==
  /\ Visible(v)
  /\ v \in DOMAIN releases /\ ~releases[v].draft

(* A version is one artifact: what npm and GitHub have for it is what its  *)
(* tag recorded, packed from the tagged commit, although runs with other   *)
(* tools may have packed that commit again (finishPending, release.mjs     *)
(* 625-648).                                                               *)
OneArtifact ==
  /\ DOMAIN npm \cup DOMAIN releases \subseteq Tagged
  /\ \A v \in Tagged :
       /\ tags[v].integrity.commit = tags[v].commit
       /\ v \in DOMAIN npm => npm[v].artifact = tags[v].integrity
       /\ v \in Uploaded => releases[v].asset = tags[v].integrity

(* Versions follow each other on main in their order, and the next one is  *)
(* tagged only when every older one is on npm and published on GitHub,     *)
(* wherever the runs in between stopped (runRelease, release.mjs 759-783). *)
InOrder ==
  \A v, w \in Tagged :
    Older(v, w) => /\ tags[v].commit < tags[w].commit
                   /\ Released(v)

(* An unfinished version can be packed again as it was, or its artifact is *)
(* kept with its draft.                                                    *)
Reproducible ==
  \A v \in Tagged \ Uploaded : tags[v].integrity.tools = toolchain

(* Every change that asks for a version gets into a released one, whatever *)
(* step the runs before stopped at and whatever npm is slow to show, as    *)
(* long as a draft without an artifact does not meet a new toolchain for   *)
(* good (docs/releases.md 81-102).                                        *)
Qualifies(c) == c > tags[FirstVersion].commit /\ main[c].bump # "none"

Ships(c) == \E v \in Tagged : tags[v].commit >= c /\ Released(v)

Settled == enabled => \A c \in DOMAIN main : Qualifies(c) => Ships(c)

ChangesShip == <>[]Reproducible => []<>Settled
==============================================================================
