---------------------------- MODULE SliceCapture ----------------------------
(***************************************************************************)
(* A slice that is implemented outside: src/slice-bundle.mjs exports an    *)
(* approved slice as a bundle of files, and src/harness-adapter.mjs begins *)
(* a capture from it, that is copies the project into a candidate for a    *)
(* foreign harness to work in, and later finalizes the candidate into the  *)
(* evidence of a run that the controller can apply.                        *)
(*                                                                         *)
(* None of the three holds a lock on what it reads. The operator edits and *)
(* approves again while the exporter and the adapter read, the harness     *)
(* writes while its candidate is retained, two sessions may finalize the   *)
(* same run, and each of them may fail or die at every step. What protects *)
(* the evidence is that everything is read again and compared.             *)
(*                                                                         *)
(* A file is one of the slice's outputs, one of the sources its context    *)
(* cites, or another file of the project; its content is a number: every   *)
(* edit makes a greater one, every write of the harness a lesser, below    *)
(* zero, so that none comes back. A tree is a function from files to       *)
(* contents. A packet is the approval it was built from: its stamp and the *)
(* cited text it binds. Only one run is followed.                          *)
(***************************************************************************)
EXTENDS Integers, FiniteSets, Functions

CONSTANTS
  None,
  CutOff,                   \* a bundle without its manifest, a file without its end
  Outputs, Cited, Others,   \* the project's files, numbered as they are read
  Sessions,                 \* the sessions that may finalize the run
  WithConstitution,         \* the change names a constitution
  MaxEdits, MaxWrites, MaxStops

ASSUME FilesAssumption ==
  /\ Outputs \cup Cited \cup Others \subseteq Nat
  /\ Outputs \cap Cited = {} /\ (Outputs \cup Cited) \cap Others = {}
  /\ WithConstitution \in BOOLEAN
  /\ MaxEdits \in Nat /\ MaxWrites \in Nat /\ MaxStops \in Nat

VARIABLES
  source,    \* the project's tree
  approval,  \* the task's current approval
  bundle,    \* the exported bundle: none, cut off before its manifest, or whole
  export,    \* the exporter at work
  begin,     \* the adapter beginning the capture
  capture,   \* the capture as begin-binding.json ties it together, or none
  candidate, \* the candidate's tree
  evidence,  \* the run's finalized files
  lock,      \* finalization.lock
  session,   \* what each finalizing session knows and where it is
  spoiled,   \* what somebody replaced: the bundle, the candidate, the baseline
  stops,     \* failures and deaths so far
  writes,    \* writes of the harness so far
  moments    \* every tree the candidate has had (for RetainedOneMoment)

vars == <<source, approval, bundle, export, begin, capture, candidate, evidence, lock,
          session, spoiled, stops, writes, moments>>
project == <<source, approval>>
exported == <<bundle, export>>
begun == <<begin, capture>>
worked == <<candidate, writes, moments>>
finalized == <<evidence, lock, session>>

Files == Outputs \cup Cited \cup Others
Snapped == Outputs \cup Cited
Things == {"bundle", "candidate", "baseline"}

Edits    == 0..MaxEdits                                  \* the operator's contents
Contents == -MaxWrites..MaxEdits
Trees    == [Files -> Contents]
Part(S)  == UNION {[read -> S] : read \in SUBSET Files}  \* read so far
Packets  == [stamp : Nat, bound : [Cited -> Edits]]
Bundles  == [packet : Packets, snapshot : [Snapped -> Edits], constitution : BOOLEAN]
Captures == [bundle : Bundles, before : [Files -> Edits]]
Results  == [completed : BOOLEAN, tree : Trees]
Steps == {"idle", "lock", "packet", "semantics", "source", "see", "keep", "compare",
          "commit after", "commit snapshot", "commit marker", "result"}

ASSUME NoneAssumption == None \notin Sessions \cup Captures

TypeOK ==
  /\ source \in [Files -> Edits] /\ approval \in Packets
  /\ bundle \in Bundles \cup {None, CutOff}
  /\ export \in [pc : {"idle", "snapshot", "write"}, packet : Packets \cup {None},
                 snapshot : [Snapped -> Edits] \cup {None}]
  /\ begin \in [pc : {"idle", "refused", "packet", "semantics", "copy"},
                bundle : Bundles \cup {None}, copied : Part(Edits)]
  /\ capture \in Captures \cup {None}
  /\ candidate \in Trees \cup {<<>>}
  /\ evidence \in [after : Trees \cup {None}, snapshot : Trees \cup {None},
                   marker : Results \cup {None, CutOff}, result : Results \cup {None, CutOff}]
  /\ lock \in Sessions \cup {None}
  /\ session \in [Sessions -> [pc : Steps, completed : BOOLEAN, seen : Part(Contents), kept : Part(Contents)]]
  /\ spoiled \subseteq Things
  /\ stops \in 0..MaxStops /\ writes \in 0..MaxWrites
  /\ moments \subseteq Trees

(* One file more of a tree that is read or copied file by file.            *)
Unread(tree) == Files \ DOMAIN tree
With(tree, from) ==
  LET f == CHOOSE f \in Unread(tree) : \A g \in Unread(tree) : f <= g
  IN  [g \in DOMAIN tree \cup {f} |-> IF g = f THEN from[f] ELSE tree[g]]

(***************************************************************************)
(* What is read and compared.                                              *)
(***************************************************************************)
(* resolveTaskPacket gives the packet of an approval whose cited sources   *)
(* are still as it bound them.                                             *)
Ready == approval.bound = Restrict(source, Cited)

(* currentPacket: the task is ready, and its packet is still this one.     *)
PacketCurrent(packet) == Ready /\ approval = packet

(* validateBundleSemantics and verifyCheckoutSnapshot: compiled context,   *)
(* checkout snapshot and baselines are those of the source as it is now,   *)
(* and the bundle retains exactly the expected files; the constitution the *)
(* exporter adds is not among those. A mutant takes the manifest's word.   *)
SourceFitsUnchecked(b) == b # None
SourceFits(b) ==
  /\ b.packet.bound = Restrict(source, Cited)
  /\ b.snapshot = Restrict(source, Snapped)
  /\ ~b.constitution

(* commitStagedDirectory, commitStagedJson and writeFinalizationOrVerify   *)
(* keep what an earlier attempt left when it is the same; the beginning of *)
(* a file is not. One mutant keeps whatever was left, another refuses      *)
(* whatever is there.                                                      *)
FitsAnything(old, new) == TRUE \/ old = new
FitsNothing(old, new) == old = None /\ new # None
Fits(old, new) == old \in {None, new}

(* The two readings of the candidate agree. A mutant reads it once.        *)
SameTreeUnchecked(seen, kept) == DOMAIN seen = DOMAIN kept
SameTree(seen, kept) == seen = kept

(***************************************************************************)
(* The exporter (exportSliceBundle): validation, packet and context first, *)
(* the checkout snapshot later, then the files, the manifest last.         *)
(***************************************************************************)
NotBegun == [pc |-> "idle", bundle |-> None, copied |-> <<>>]
NoExport == [pc |-> "idle", packet |-> None, snapshot |-> None]

ExportRead ==
  /\ export.pc = "idle" /\ capture = None /\ begin.pc \in {"idle", "refused"}
  /\ Ready
  /\ export' = [NoExport EXCEPT !.pc = "snapshot", !.packet = approval]
  /\ bundle' = None
  /\ begin' = NotBegun
  /\ spoiled' = spoiled \ {"bundle"}
  /\ UNCHANGED <<project, capture, worked, finalized, stops>>

ExportSnapshot ==
  /\ export.pc = "snapshot"
  /\ export' = [export EXCEPT !.pc = "write", !.snapshot = Restrict(source, Snapped)]
  /\ UNCHANGED <<bundle, project, begun, worked, finalized, spoiled, stops>>

ExportWrite ==
  /\ export.pc = "write"
  /\ bundle' = [packet |-> export.packet, snapshot |-> export.snapshot,
                constitution |-> WithConstitution]
  /\ export' = NoExport
  /\ UNCHANGED <<project, begun, worked, finalized, spoiled, stops>>

(* A write fails, or the exporter dies: what was written stays, without    *)
(* its manifest, and the directory cannot be used again.                   *)
ExportStops ==
  /\ export.pc # "idle" /\ stops < MaxStops
  /\ bundle' = IF export.pc = "write" THEN CutOff ELSE None
  /\ export' = NoExport
  /\ stops' = stops + 1
  /\ UNCHANGED <<project, begun, worked, finalized, spoiled>>

(***************************************************************************)
(* beginHarnessCapture. The copy of the project is taken file by file; the *)
(* binding is written last, so that a begin that stops leaves no capture.  *)
(***************************************************************************)
Refused == begin' = [NotBegun EXCEPT !.pc = "refused"]

BeginRead ==
  /\ begin.pc \in {"idle", "refused"} /\ capture = None /\ export.pc = "idle"
  /\ bundle \notin {None, CutOff}
  /\ IF "bundle" \in spoiled THEN Refused
     ELSE begin' = [NotBegun EXCEPT !.pc = "packet", !.bundle = bundle]
  /\ UNCHANGED <<capture, exported, project, worked, finalized, spoiled, stops>>

BeginPacket ==
  /\ begin.pc = "packet"
  /\ IF PacketCurrent(begin.bundle.packet)
     THEN begin' = [begin EXCEPT !.pc = "semantics"] ELSE Refused
  /\ UNCHANGED <<capture, exported, project, worked, finalized, spoiled, stops>>

BeginSemantics ==
  /\ begin.pc = "semantics"
  /\ IF SourceFits(begin.bundle)
     THEN begin' = [begin EXCEPT !.pc = "copy"] ELSE Refused
  /\ UNCHANGED <<capture, exported, project, worked, finalized, spoiled, stops>>

BeginCopy ==
  /\ begin.pc = "copy" /\ Unread(begin.copied) # {}
  /\ begin' = [begin EXCEPT !.copied = With(@, source)]
  /\ UNCHANGED <<capture, exported, project, worked, finalized, spoiled, stops>>

BeginRecord ==
  /\ begin.pc = "copy" /\ Unread(begin.copied) = {}
  /\ candidate' = begin.copied
  /\ moments' = {begin.copied}
  /\ capture' = [bundle |-> begin.bundle, before |-> begin.copied]
  /\ begin' = NotBegun
  /\ UNCHANGED <<exported, project, finalized, spoiled, stops, writes>>

BeginStops ==
  /\ begin.pc \in {"packet", "semantics", "copy"} /\ stops < MaxStops
  /\ begin' = NotBegun
  /\ stops' = stops + 1
  /\ UNCHANGED <<capture, exported, project, worked, finalized, spoiled>>

(***************************************************************************)
(* finalizeHarnessCapture, by session s. The steps go in this order; every *)
(* check that fails releases the lock and ends the call.                   *)
(***************************************************************************)
NoSession == [pc |-> "idle", completed |-> FALSE, seen |-> <<>>, kept |-> <<>>]

At(s, pc) == session[s].pc = pc
Goes(s, pc) == session' = [session EXCEPT ![s].pc = pc]

(* An error thrown inside the try block: the lock file is removed.         *)
Ends(s) ==
  /\ session' = [session EXCEPT ![s] = NoSession]
  /\ lock' = IF lock = s THEN None ELSE lock

Checks(s, pc, holds, next) ==
  /\ At(s, pc)
  /\ IF holds THEN Goes(s, next) /\ UNCHANGED lock ELSE Ends(s)
  /\ UNCHANGED <<evidence, begun, exported, project, worked, spoiled, stops>>

(* loadCapture, for a declaration that the harness completed or not.       *)
Load(s, completed) ==
  /\ At(s, "idle") /\ capture # None
  /\ evidence.result = None
  /\ session' = [session EXCEPT ![s] = [NoSession EXCEPT !.pc = "lock",
                                                         !.completed = completed]]
  /\ UNCHANGED <<evidence, lock, begun, exported, project, worked, spoiled, stops>>

(* acquireFinalizationLock creates the file or fails; the result is looked *)
(* for once more under the lock.                                           *)
AcquireLock(s) ==
  /\ At(s, "lock")
  /\ \/ /\ lock = None /\ evidence.result = None
        /\ lock' = s
        /\ Goes(s, "packet")
     \/ /\ lock # None \/ evidence.result # None
        /\ session' = [session EXCEPT ![s] = NoSession]
        /\ UNCHANGED lock
  /\ UNCHANGED <<evidence, begun, exported, project, worked, spoiled, stops>>

(* Candidate, bundle and baseline are the ones bound at the beginning, and *)
(* the packet is still the current one;                                    *)
CheckPacket(s) ==
  Checks(s, "packet", spoiled = {} /\ PacketCurrent(capture.bundle.packet), "semantics")

(* so is the source the bundle was taken from,                             *)
CheckSemantics(s) == Checks(s, "semantics", SourceFits(capture.bundle), "source")

(* and the whole project, copied once more, is the baseline.               *)
CheckSource(s) == Checks(s, "source", source = capture.before, "see")

(* The candidate is read (snapshotTree) and then copied                    *)
(* (retainCandidateTree), file by file, while the harness may still write. *)
Reads(s, pc, part, next) ==
  /\ At(s, pc)
  /\ IF Unread(session[s][part]) # {}
     THEN session' = [session EXCEPT ![s][part] = With(@, candidate)]
     ELSE Goes(s, next)
  /\ UNCHANGED <<evidence, lock, begun, exported, project, worked, spoiled, stops>>

See(s) == Reads(s, "see", "seen", "keep")
Keep(s) == Reads(s, "keep", "kept", "compare")

Compare(s) == Checks(s, "compare", SameTree(session[s].seen, session[s].kept), "commit after")

(* workspace-after, after-snapshot.json and finalization.json are put in   *)
(* place one after the other, unless an earlier attempt left the same;     *)
Commits(s, pc, part, value, next) ==
  /\ At(s, pc)
  /\ IF Fits(evidence[part], value)
     THEN /\ evidence' = [evidence EXCEPT ![part] =
                            IF evidence[part] = None THEN value ELSE @]
          /\ Goes(s, next)
          /\ UNCHANGED lock
     ELSE Ends(s) /\ UNCHANGED evidence
  /\ UNCHANGED <<begun, exported, project, worked, spoiled, stops>>

CommitAfter(s) == Commits(s, "commit after", "after", session[s].kept, "commit snapshot")
CommitSnapshot(s) ==
  Commits(s, "commit snapshot", "snapshot", session[s].seen, "commit marker")

Result(s) == [completed |-> session[s].completed, tree |-> session[s].seen]
CommitMarker(s) == Commits(s, "commit marker", "marker", Result(s), "result")

(* result.json is created last, and only if there is none.                 *)
PublishResult(s) ==
  /\ At(s, "result")
  /\ evidence' = IF evidence.result = None
                 THEN [evidence EXCEPT !.result = Result(s)] ELSE evidence
  /\ Ends(s)
  /\ UNCHANGED <<begun, exported, project, worked, spoiled, stops>>

(* writeExclusive writes the marker and the result where they belong, not  *)
(* beside it: a write that fails before its end, or a death in it, leaves  *)
(* the beginning of the file, which nobody removes.                        *)
Breaks(s, pc, part) ==
  /\ At(s, pc) /\ evidence[part] = None /\ stops < MaxStops
  /\ evidence' = [evidence EXCEPT ![part] = CutOff]
  /\ \/ Ends(s)
     \/ session' = [session EXCEPT ![s] = NoSession] /\ UNCHANGED lock
  /\ stops' = stops + 1
  /\ UNCHANGED <<begun, exported, project, worked, spoiled>>

BreakMarker(s) == Breaks(s, "commit marker", "marker")
BreakResult(s) == Breaks(s, "result", "result")

(* Any other read or write fails, and the call ends as after a failed      *)
(* check.                                                                  *)
Fails(s) ==
  /\ session[s].pc \notin {"idle", "lock"} /\ stops < MaxStops
  /\ Ends(s)
  /\ stops' = stops + 1
  /\ UNCHANGED <<evidence, begun, exported, project, worked, spoiled>>

(* The process dies, and the lock file stays.                              *)
Dies(s) ==
  /\ session[s].pc \notin {"idle", "lock"} /\ stops < MaxStops
  /\ session' = [session EXCEPT ![s] = NoSession]
  /\ stops' = stops + 1
  /\ UNCHANGED <<evidence, lock, begun, exported, project, worked, spoiled>>

(***************************************************************************)
(* The operator, the harness, and whoever touches what is not theirs.      *)
(***************************************************************************)

Edit(f) ==
  /\ \A g \in Files : source[g] < MaxEdits
  /\ source' = [source EXCEPT ![f] = @ + 1]
  /\ UNCHANGED <<approval, exported, begun, worked, finalized, spoiled, stops>>

Approve ==
  /\ approval.stamp < MaxEdits
  /\ approval' = [stamp |-> approval.stamp + 1, bound |-> Restrict(source, Cited)]
  /\ UNCHANGED <<source, exported, begun, worked, finalized, spoiled, stops>>

(* The harness writes a file of the candidate: a content it never had.     *)
Write(f) ==
  /\ capture # None /\ writes < MaxWrites
  /\ writes' = writes + 1
  /\ candidate' = [candidate EXCEPT ![f] = -(writes + 1)]
  /\ moments' = moments \cup {candidate'}
  /\ UNCHANGED <<exported, begun, project, finalized, spoiled, stops>>

Spoil(thing) ==
  /\ thing \notin spoiled /\ stops < MaxStops
  /\ IF thing = "bundle" THEN bundle \notin {None, CutOff} ELSE capture # None
  /\ spoiled' = spoiled \cup {thing}
  /\ stops' = stops + 1
  /\ UNCHANGED <<source, approval, exported, begun, worked, finalized>>

Init ==
  /\ source = [f \in Files |-> 0]
  /\ approval = [stamp |-> 0, bound |-> [f \in Cited |-> 0]]
  /\ bundle = None /\ export = NoExport
  /\ begin = NotBegun /\ capture = None
  /\ candidate = <<>> /\ writes = 0 /\ moments = {}
  /\ evidence = [after |-> None, snapshot |-> None, marker |-> None, result |-> None]
  /\ lock = None /\ session = [s \in Sessions |-> NoSession]
  /\ spoiled = {} /\ stops = 0

Works(s) ==
  \/ AcquireLock(s) \/ CheckPacket(s) \/ CheckSemantics(s) \/ CheckSource(s)
  \/ See(s) \/ Keep(s) \/ Compare(s)
  \/ CommitAfter(s) \/ CommitSnapshot(s) \/ CommitMarker(s) \/ PublishResult(s)

Next ==
  \/ ExportRead \/ ExportSnapshot \/ ExportWrite \/ ExportStops
  \/ BeginRead \/ BeginPacket \/ BeginSemantics \/ BeginCopy \/ BeginRecord \/ BeginStops
  \/ \E f \in Files : Edit(f) \/ Write(f)
  \/ \E s \in Sessions :
       (\E completed \in BOOLEAN : Load(s, completed)) \/ Works(s)
       \/ BreakMarker(s) \/ BreakResult(s) \/ Fails(s) \/ Dies(s)
  \/ Approve
  \/ \E thing \in Things : Spoil(thing)

Spec == Init /\ [][Next]_vars

(* A call that is running goes on, and the operator tries again with the   *)
(* declaration the evidence of an earlier attempt has.                     *)
Declared == IF evidence.marker \in {None, CutOff} THEN TRUE ELSE evidence.marker.completed
FairSpec ==
  /\ Spec
  /\ \A s \in Sessions : WF_vars(Works(s)) /\ SF_vars(Load(s, Declared))
-----------------------------------------------------------------------------
(* A run the controller can read: result.json is there, to its end.        *)
Published == evidence.result \notin {None, CutOff}

(* A published result, its marker and the retained tree tell the same      *)
(* story, whichever attempts and sessions wrote them (harness-adapter.mjs  *)
(* 1016-1024).                                                             *)
EvidenceAgrees ==
  Published =>
    /\ evidence.marker = evidence.result
    /\ evidence.after = evidence.result.tree
    /\ evidence.snapshot = evidence.result.tree

(* What is retained of a candidate is a tree the candidate had at one      *)
(* moment, although the harness may write while it is read file by file    *)
(* (harness-adapter.mjs 923-927).                                          *)
RetainedOneMoment == evidence.after # None => evidence.after \in moments

(* Evidence is published only for work that started from the bytes the     *)
(* bundle was exported with and the approval it carries, although export,  *)
(* begin and finalization each read the project several times and the      *)
(* operator edits in between.                                              *)
StartedFromBundle ==
  Published =>
    /\ Restrict(capture.before, Snapped) = capture.bundle.snapshot
    /\ capture.bundle.packet.bound = Restrict(capture.bundle.snapshot, Cited)

(* A finalization that failed can be repeated: while the project, the      *)
(* approval and the candidate stay as the capture and its retained tree    *)
(* have them, no session died with the lock, the declaration is not        *)
(* changed and neither the marker nor the result was written in part, a    *)
(* result is published in the end (tests/harness-adapter.test.mjs          *)
(* 393-450). A marker or a result without its end is never replaced.       *)
Undisturbed ==
  /\ capture # None /\ spoiled = {}
  /\ PacketCurrent(capture.bundle.packet) /\ SourceFits(capture.bundle)
  /\ source = capture.before
  /\ evidence.after \in {None, candidate}
  /\ evidence.marker # CutOff /\ evidence.result # CutOff
  /\ lock # None => session[lock].pc # "idle"
  /\ \A s \in Sessions :
       session[s].pc = "idle" \/ evidence.marker = None \/ session[s].completed = Declared

RetryPublishes == <>[]Undisturbed => <>Published

=============================================================================
