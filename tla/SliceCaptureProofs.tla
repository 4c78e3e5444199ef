------------------------- MODULE SliceCaptureProofs -------------------------
(* What holds of a slice that is implemented outside, for any files,       *)
(* sessions and bounds: published evidence agrees with itself, what is     *)
(* retained of a candidate is one moment of it, and the work started from  *)
(* the bytes of the bundle.                                                *)
EXTENDS SliceCapture, WellFoundedInduction, TLAPS

-----------------------------------------------------------------------------
(* The inductive invariant                                                 *)

(* What a tree was copied from at some time after a bundle's checks: the   *)
(* bundle binds the text its snapshot has, and nothing is older in the     *)
(* tree than in the snapshot, or newer than in the project.                *)
CopiedAfter(b, tree, now) ==
  /\ b.packet.bound = Restrict(b.snapshot, Cited)
  /\ \A f \in Snapped : b.snapshot[f] <= now[f]
  /\ \A f \in DOMAIN tree : tree[f] <= now[f] /\ (f \in Snapped => b.snapshot[f] <= tree[f])

ExportInvariant ==
  /\ export.pc # "idle" => export.packet \in Packets
  /\ export.pc = "write" => export.snapshot \in [Snapped -> Edits]

BeginInvariant ==
  /\ begin.pc \notin {"idle", "refused"} => capture = None /\ begin.bundle \in Bundles
  /\ begin.pc \in {"packet", "semantics"} => DOMAIN begin.copied = {}
  /\ begin.pc = "copy" => CopiedAfter(begin.bundle, begin.copied, source)

CaptureInvariant ==
  capture # None =>
    /\ CopiedAfter(capture.bundle, capture.before, source)
    /\ candidate \in moments
    /\ \A f \in Files : -writes <= candidate[f]

(* The capture's tree is, where the bundle has a snapshot, the bundle's.   *)
AsExported(cap) == cap # None /\ Restrict(cap.before, Snapped) = cap.bundle.snapshot

(* Some tree of the candidate lies between the two readings of it: no file *)
(* is newer in it than it was seen, or older than it was kept.  A lesser   *)
(* content of the harness is a newer one.                                  *)
Between(x, now, past) ==
  \E c \in past : \A f \in Files :
    c[f] <= x.seen[f] /\ now[f] <= c[f] /\ (f \in DOMAIN x.kept => x.kept[f] <= c[f])

Kept == {"commit after", "commit snapshot", "commit marker", "result"}
Finalizes(s, x, cap, holder, found, now, past) ==
  /\ x.pc # "idle" => cap # None
  /\ x.pc \notin {"idle", "lock"} => holder = s /\ found.result = None
  /\ x.pc \in {"source", "see", "keep", "compare"} \cup Kept => AsExported(cap)
  /\ x.pc \in {"lock", "packet", "semantics", "source", "see"} => DOMAIN x.kept = {}
  /\ x.pc \in {"lock", "packet", "semantics", "source"} => DOMAIN x.seen = {}
  /\ x.pc = "see" => \A f \in DOMAIN x.seen : now[f] <= x.seen[f]
  /\ x.pc \in {"keep", "compare"} => DOMAIN x.seen = Files /\ Between(x, now, past)
  /\ x.pc = "compare" => DOMAIN x.kept = Files
  /\ x.pc \in Kept => x.kept = x.seen /\ x.kept \in past
  /\ x.pc \in Kept \ {"commit after"} => found.after = x.kept
  /\ x.pc \in {"commit marker", "result"} => found.snapshot = x.seen
  /\ x.pc = "result" => found.marker = [completed |-> x.completed, tree |-> x.seen]
SessionInvariant ==
  \A s \in Sessions : Finalizes(s, session[s], capture, lock, evidence, candidate, moments)

Evident(found, cap, past) ==
  /\ found.after # None => cap # None /\ found.after \in past
  /\ found.result \notin {None, CutOff} =>
       /\ found.marker = found.result /\ found.after = found.result.tree
       /\ found.snapshot = found.result.tree
  /\ found.result # None =>
       AsExported(cap) /\ cap.bundle.packet.bound = Restrict(cap.bundle.snapshot, Cited)
EvidenceInvariant == Evident(evidence, capture, moments)

CaptureKept ==
  /\ TypeOK
  /\ ExportInvariant
  /\ BeginInvariant
  /\ CaptureInvariant
  /\ SessionInvariant
  /\ EvidenceInvariant

-----------------------------------------------------------------------------
(* Trees that are read file by file                                        *)

(* A set of numbers that is not empty has a least one.                     *)
LEMMA Least ==
  ASSUME NEW S, S \subseteq Nat, S # {}
  PROVE  \E m \in S : \A k \in S : m <= k
<1> DEFINE R == OpToRel(<, Nat)
<1>1. PICK m \in S : \A k \in S : <<k, m>> \notin R
  <2>1. IsWellFoundedOn(R, Nat)
    BY NatLessThanWellFounded
  <2> HIDE DEF R
  <2>2. QED
    BY <2>1, WFMin
<1>2. ASSUME NEW k \in S PROVE ~(k < m)
  <2>1. k < m => <<k, m>> \in R
    BY DEF OpToRel
  <2>2. QED
    BY <1>1, <2>1
<1>3. QED
  BY <1>2

(* Files are numbers, and a bundle snapshots some of them, the cited ones  *)
(* too.                                                                    *)
LEMMA FilesFacts == Files \subseteq Nat /\ Snapped \subseteq Files /\ Cited \subseteq Snapped
BY FilesAssumption DEF Files, Snapped

(* A part of a tree is a function on some of the files.                    *)
LEMMA PartFacts ==
  ASSUME NEW S, NEW tree
  PROVE  tree \in Part(S) <=> DOMAIN tree \subseteq Files /\ tree \in [DOMAIN tree -> S]
<1>1. ASSUME tree \in Part(S) PROVE DOMAIN tree \subseteq Files /\ tree \in [DOMAIN tree -> S]
  <2>1. PICK read \in SUBSET Files : tree \in [read -> S]
    BY <1>1 DEF Part
  <2>2. QED
    BY <2>1
<1>2. ASSUME DOMAIN tree \subseteq Files, tree \in [DOMAIN tree -> S] PROVE tree \in Part(S)
  BY <1>2 DEF Part
<1>3. QED
  BY <1>1, <1>2

(* Nothing is read at first.                                               *)
LEMMA EmptyPart == \A S : <<>> \in Part(S) /\ DOMAIN <<>> = {}
<1>1. \A S : DOMAIN <<>> = {} /\ <<>> \in [{} -> S]
  OBVIOUS
<1>2. QED
  BY <1>1, PartFacts

(* One file more is read.                                                  *)
LEMMA WithFacts ==
  ASSUME NEW S, NEW tree \in Part(S), NEW from \in [Files -> S], Unread(tree) # {}
  PROVE  /\ With(tree, from) \in Part(S)
         /\ \E f \in Files :
              /\ DOMAIN With(tree, from) = DOMAIN tree \cup {f} /\ With(tree, from)[f] = from[f]
              /\ \A g \in DOMAIN tree : With(tree, from)[g] = tree[g] /\ g # f
<1> DEFINE f == CHOOSE f \in Unread(tree) : \A g \in Unread(tree) : f <= g
           D == DOMAIN tree \cup {f}
           new == [g \in D |-> IF g = f THEN from[f] ELSE tree[g]]
<1>1. With(tree, from) = new
  BY DEF With
<1>2. f \in Files /\ f \notin DOMAIN tree
  <2>1. Unread(tree) \subseteq Nat
    BY FilesFacts DEF Unread
  <2>2. \E m \in Unread(tree) : \A g \in Unread(tree) : m <= g
    BY <2>1, Least
  <2>3. f \in Unread(tree)
    BY <2>2
  <2>4. QED
    BY <2>3 DEF Unread
<1>3. DOMAIN tree \subseteq Files /\ tree \in [DOMAIN tree -> S]
  BY PartFacts
<1> HIDE DEF f
<1>4. DOMAIN new = D /\ new \in [D -> S] /\ D \subseteq Files
  BY <1>2, <1>3
<1>5. new \in Part(S)
  <2> HIDE DEF new, D
  <2>1. QED
    BY <1>4, PartFacts
<1>6. QED
  BY <1>1, <1>2, <1>4, <1>5

(* A tree that was read to the end.                                        *)
LEMMA WholePart ==
  ASSUME NEW S, NEW tree \in Part(S), Unread(tree) = {}
  PROVE  DOMAIN tree = Files /\ tree \in [Files -> S]
BY PartFacts DEF Unread

-----------------------------------------------------------------------------
(* What a finalizing session does                                          *)

Knowledge == [pc : Steps, completed : BOOLEAN, seen : Part(Contents), kept : Part(Contents)]
Found == [after : Trees \cup {None}, snapshot : Trees \cup {None},
          marker : Results \cup {None, CutOff}, result : Results \cup {None, CutOff}]

(* Session s takes a step after which it knows x, and nobody is disturbed. *)
Takes(s, x) ==
  /\ x \in Knowledge /\ session' = [session EXCEPT ![s] = x]
  /\ evidence' \in Found /\ lock' \in {lock, s, None}
  /\ lock' # lock => lock \in {s, None}
  /\ evidence' # evidence => lock = s
  /\ Finalizes(s, x, capture, lock', evidence', candidate, moments)
  /\ Evident(evidence', capture, moments)
  /\ UNCHANGED <<begun, exported, project, worked, spoiled>>
  /\ stops' \in 0..MaxStops

(* A session that does not run knows nothing.                              *)
LEMMA NoSessionFacts ==
  /\ NoSession \in Knowledge /\ NoSession.pc = "idle"
  /\ DOMAIN NoSession.seen = {} /\ DOMAIN NoSession.kept = {}
BY EmptyPart DEF NoSession, Knowledge, Steps

(* What the types say of a session and of what it shares with the others.  *)
LEMMA SessionFacts ==
  ASSUME TypeOK, NEW s \in Sessions
  PROVE  /\ session[s] \in Knowledge /\ evidence \in Found /\ lock \in Sessions \cup {None}
         /\ None \notin Sessions /\ stops \in 0..MaxStops
         /\ \A x \in Knowledge : [session EXCEPT ![s] = x] \in [Sessions -> Knowledge]
BY NoneAssumption DEF TypeOK, Knowledge, Found

(* A session that goes on keeps what it knows.                             *)
LEMMA GoesFacts ==
  ASSUME TypeOK, NEW s \in Sessions, NEW pc \in Steps, Goes(s, pc)
  PROVE  \E x \in Knowledge :
           /\ session' = [session EXCEPT ![s] = x]
           /\ x.pc = pc /\ x.completed = session[s].completed
           /\ x.seen = session[s].seen /\ x.kept = session[s].kept
<1> DEFINE x == [session[s] EXCEPT !.pc = pc]
<1>1. session' = [session EXCEPT ![s] = x]
  BY DEF Goes
<1>2. session[s] \in Knowledge
  BY SessionFacts
<1>3. x \in Knowledge /\ x.pc = pc /\ x.completed = session[s].completed
      /\ x.seen = session[s].seen /\ x.kept = session[s].kept
  BY <1>2 DEF Knowledge
<1>4. QED
  BY <1>1, <1>3

(* A call that ends gives up the lock and knows nothing.                   *)
LEMMA EndsTakes ==
  ASSUME CaptureKept, NEW s \in Sessions, evidence' \in Found, evidence' # evidence => lock = s,
         Evident(evidence', capture, moments), session' = [session EXCEPT ![s] = NoSession],
         lock' = lock \/ lock' = (IF lock = s THEN None ELSE lock),
         UNCHANGED <<begun, exported, project, worked, spoiled>>, stops' \in 0..MaxStops
  PROVE  Takes(s, NoSession)
<1>1. Finalizes(s, NoSession, capture, lock', evidence', candidate, moments)
  BY NoSessionFacts DEF Finalizes, Kept
<1>2. lock' \in {lock, s, None} /\ (lock' # lock => lock \in {s, None})
  OBVIOUS
<1>3. QED
  BY <1>1, <1>2, NoSessionFacts DEF Takes

(* A call that starts has found a capture and read nothing.                *)
LEMMA LoadTakes ==
  ASSUME CaptureKept, NEW s \in Sessions, NEW completed \in BOOLEAN, Load(s, completed)
  PROVE  \E x : Takes(s, x)
<1> DEFINE x == [NoSession EXCEPT !.pc = "lock", !.completed = completed]
<1>1. /\ session' = [session EXCEPT ![s] = x] /\ capture # None
      /\ UNCHANGED <<evidence, lock, begun, exported, project, worked, spoiled, stops>>
  BY DEF Load
<1>2. /\ x \in Knowledge /\ x.pc = "lock" /\ DOMAIN x.seen = {} /\ DOMAIN x.kept = {}
  BY NoSessionFacts DEF Knowledge, Steps
<1> HIDE DEF x
<1>3. Finalizes(s, x, capture, lock', evidence', candidate, moments)
  BY <1>1, <1>2 DEF Finalizes, Kept
<1>4. /\ evidence \in Found /\ lock' = lock /\ stops' \in 0..MaxStops /\ evidence' = evidence
      /\ Evident(evidence, capture, moments)
  BY <1>1, SessionFacts DEF CaptureKept, EvidenceInvariant
<1>5. Takes(s, x)
  BY <1>1, <1>2, <1>3, <1>4 DEF Takes
<1>6. QED
  BY <1>5

(* The session that creates the lock file finds no result under it; one    *)
(* that does not create it has disturbed nobody.                           *)
LEMMA AcquireTakes ==
  ASSUME CaptureKept, NEW s \in Sessions, AcquireLock(s)
  PROVE  \E x : Takes(s, x)
<1>1. /\ UNCHANGED <<evidence, begun, exported, project, worked, spoiled, stops>>
      /\ session[s].pc = "lock"
  BY DEF AcquireLock, At
<1>2. /\ TypeOK /\ evidence \in Found /\ Evident(evidence, capture, moments) /\ stops' \in 0..MaxStops
      /\ Finalizes(s, session[s], capture, lock, evidence, candidate, moments) /\ evidence' = evidence
  BY <1>1, SessionFacts DEF CaptureKept, EvidenceInvariant, SessionInvariant
<1>3. CASE lock = None /\ evidence.result = None /\ lock' = s /\ Goes(s, "packet")
  <2>1. PICK x \in Knowledge : /\ session' = [session EXCEPT ![s] = x] /\ x.pc = "packet"
                               /\ x.seen = session[s].seen /\ x.kept = session[s].kept
    <3>1. "packet" \in Steps
      BY DEF Steps
    <3>2. QED
      BY <1>2, <1>3, <3>1, GoesFacts
  <2>2. Finalizes(s, x, capture, lock', evidence', candidate, moments)
    BY <1>1, <1>2, <1>3, <2>1 DEF Finalizes, Kept
  <2>3. Takes(s, x)
    BY <1>1, <1>2, <1>3, <2>1, <2>2 DEF Takes
  <2>4. QED
    BY <2>3
<1>4. CASE session' = [session EXCEPT ![s] = NoSession] /\ UNCHANGED lock
  BY <1>1, <1>2, <1>4, EndsTakes
<1>5. QED
  BY <1>3, <1>4 DEF AcquireLock

(* A step of a session that holds the lock and goes on.                    *)
LEMMA GoesTakes ==
  ASSUME CaptureKept, NEW s \in Sessions, NEW pc \in Steps, Goes(s, pc), UNCHANGED lock,
         evidence' \in Found, evidence' # evidence => lock = s, Evident(evidence', capture, moments),
         UNCHANGED <<begun, exported, project, worked, spoiled, stops>>,
         \A x \in Knowledge :
           /\ x.pc = pc /\ x.completed = session[s].completed
           /\ x.seen = session[s].seen /\ x.kept = session[s].kept
           => Finalizes(s, x, capture, lock, evidence', candidate, moments)
  PROVE  \E x : Takes(s, x)
<1>1. PICK x \in Knowledge :
        /\ session' = [session EXCEPT ![s] = x]
        /\ x.pc = pc /\ x.completed = session[s].completed
        /\ x.seen = session[s].seen /\ x.kept = session[s].kept
  BY GoesFacts DEF CaptureKept
<1>2. Finalizes(s, x, capture, lock', evidence', candidate, moments)
  BY <1>1
<1>3. stops' \in 0..MaxStops
  BY SessionFacts DEF CaptureKept
<1>4. Takes(s, x)
  BY <1>1, <1>2, <1>3 DEF Takes
<1>5. QED
  BY <1>4

(* A check that holds lets the session go on, any other ends it.           *)
LEMMA ChecksTakes ==
  ASSUME CaptureKept, NEW s \in Sessions, NEW pc, NEW holds \in BOOLEAN, NEW next \in Steps,
         Checks(s, pc, holds, next),
         \A x \in Knowledge :
           /\ holds /\ x.pc = next /\ x.completed = session[s].completed
           /\ x.seen = session[s].seen /\ x.kept = session[s].kept
           => Finalizes(s, x, capture, lock, evidence, candidate, moments)
  PROVE  \E x : Takes(s, x)
<1>1. UNCHANGED <<evidence, begun, exported, project, worked, spoiled, stops>>
  BY DEF Checks
<1>2. evidence' = evidence /\ evidence \in Found /\ Evident(evidence, capture, moments) /\ stops' \in 0..MaxStops
  BY <1>1, SessionFacts DEF CaptureKept, EvidenceInvariant
<1>3. CASE holds /\ Goes(s, next) /\ UNCHANGED lock
  BY <1>1, <1>2, <1>3, GoesTakes
<1>4. CASE Ends(s)
  BY <1>1, <1>2, <1>4, EndsTakes DEF Ends
<1>5. QED
  BY <1>3, <1>4 DEF Checks

(* The project, which is nowhere older than the capture, is where the      *)
(* bundle has a snapshot the bundle's, which is nowhere newer.             *)
LEMMA CheckedAsExported ==
  ASSUME CaptureKept, capture # None, SourceFits(capture.bundle)
  PROVE  AsExported(capture)
<1>1. /\ capture \in Captures /\ CopiedAfter(capture.bundle, capture.before, source)
      /\ source \in [Files -> Edits]
  BY DEF CaptureKept, CaptureInvariant, TypeOK
<1> DEFINE snapshot == capture.bundle.snapshot
           before == capture.before
<1>2. snapshot \in [Snapped -> Edits] /\ before \in [Files -> Edits] /\ snapshot = [f \in Snapped |-> source[f]]
  BY <1>1 DEF Captures, Bundles, SourceFits, Restrict
<1>3. \A f \in Snapped : before[f] <= source[f] /\ snapshot[f] <= before[f]
  BY <1>1, <1>2, FilesFacts DEF CopiedAfter
<1>4. Edits \subseteq Int
  BY FilesAssumption DEF Edits
<1> HIDE DEF snapshot, before
<1>5. \A f \in Snapped : before[f] = snapshot[f]
  <2> SUFFICES ASSUME NEW f \in Snapped PROVE before[f] = snapshot[f]
    OBVIOUS
  <2>1. source[f] \in Int /\ before[f] \in Int /\ snapshot[f] = source[f]
    BY <1>1, <1>2, <1>4, FilesFacts
  <2>2. QED
    BY <1>3, <2>1
<1>6. Restrict(before, Snapped) = snapshot
  BY <1>2, <1>5 DEF Restrict
<1>7. QED
  BY <1>6 DEF AsExported, before, snapshot

(* The invariant, seen by one session.                                     *)
LEMMA SessionState ==
  ASSUME CaptureKept, NEW s \in Sessions
  PROVE  /\ TypeOK /\ session[s] \in Knowledge /\ evidence \in Found /\ stops \in 0..MaxStops
         /\ Finalizes(s, session[s], capture, lock, evidence, candidate, moments)
         /\ Evident(evidence, capture, moments) /\ moments \subseteq Trees
         /\ capture # None => candidate \in moments
BY SessionFacts DEF CaptureKept, SessionInvariant, EvidenceInvariant, CaptureInvariant, TypeOK

(* After its three checks a session knows that the capture is as exported. *)
LEMMA CheckTakes ==
  ASSUME CaptureKept, NEW s \in Sessions, CheckPacket(s) \/ CheckSemantics(s) \/ CheckSource(s)
  PROVE  \E x : Takes(s, x)
<1>1. Finalizes(s, session[s], capture, lock, evidence, candidate, moments)
  BY SessionState
<1>2. CASE CheckPacket(s)
  <2> DEFINE holds == spoiled = {} /\ PacketCurrent(capture.bundle.packet)
  <2>1. Checks(s, "packet", holds, "semantics") /\ session[s].pc = "packet" /\ holds \in BOOLEAN
    BY <1>2 DEF CheckPacket, Checks, At
  <2> HIDE DEF holds
  <2>2. ASSUME NEW x \in Knowledge, x.pc = "semantics", x.completed = session[s].completed,
               x.seen = session[s].seen, x.kept = session[s].kept
        PROVE  Finalizes(s, x, capture, lock, evidence, candidate, moments)
    BY <1>1, <2>1, <2>2 DEF Finalizes, Kept
  <2>3. QED
    BY <2>1, <2>2, ChecksTakes DEF Steps
<1>3. CASE CheckSemantics(s)
  <2> DEFINE holds == SourceFits(capture.bundle)
  <2>1. Checks(s, "semantics", holds, "source") /\ session[s].pc = "semantics" /\ holds \in BOOLEAN
    BY <1>3 DEF CheckSemantics, Checks, At, SourceFits
  <2>2. capture # None
    BY <1>1, <2>1 DEF Finalizes
  <2>3. ASSUME holds PROVE AsExported(capture)
    BY <2>2, <2>3, CheckedAsExported
  <2> HIDE DEF holds
  <2>4. ASSUME NEW x \in Knowledge, holds, x.pc = "source", x.completed = session[s].completed,
               x.seen = session[s].seen, x.kept = session[s].kept
        PROVE  Finalizes(s, x, capture, lock, evidence, candidate, moments)
    BY <1>1, <2>1, <2>3, <2>4 DEF Finalizes, Kept
  <2>5. QED
    BY <2>1, <2>4, ChecksTakes DEF Steps
<1>4. CASE CheckSource(s)
  <2> DEFINE holds == source = capture.before
  <2>1. Checks(s, "source", holds, "see") /\ session[s].pc = "source" /\ holds \in BOOLEAN
    BY <1>4 DEF CheckSource, Checks, At
  <2> HIDE DEF holds
  <2>2. ASSUME NEW x \in Knowledge, x.pc = "see", x.completed = session[s].completed,
               x.seen = session[s].seen, x.kept = session[s].kept
        PROVE  Finalizes(s, x, capture, lock, evidence, candidate, moments)
    BY <1>1, <2>1, <2>2 DEF Finalizes, Kept
  <2>3. QED
    BY <2>1, <2>2, ChecksTakes DEF Steps
<1>5. QED
  BY <1>2, <1>3, <1>4

(* The contents, the operator's among them, are integers.                  *)
LEMMA ContentsAreNumbers == Contents \subseteq Int /\ Edits \subseteq Contents
BY FilesAssumption DEF Contents, Edits

(* The first reading: no file is newer in the candidate than it was seen,  *)
(* so that at its end the candidate as it is lies between the readings.    *)
LEMMA SeeTakes ==
  ASSUME CaptureKept, NEW s \in Sessions, See(s)
  PROVE  \E x : Takes(s, x)
<1>1. /\ session[s].pc = "see" /\ UNCHANGED <<evidence, lock, begun, exported, project, worked, spoiled, stops>>
      /\ IF Unread(session[s].seen) # {}
         THEN session' = [session EXCEPT ![s].seen = With(session[s].seen, candidate)]
         ELSE Goes(s, "keep")
  BY DEF See, Reads, At
<1>2. /\ TypeOK /\ session[s] \in Knowledge /\ evidence \in Found /\ stops' \in 0..MaxStops
      /\ Finalizes(s, session[s], capture, lock, evidence, candidate, moments) /\ evidence' = evidence
      /\ Evident(evidence, capture, moments) /\ lock' = lock
      /\ moments \subseteq Trees /\ (capture # None => candidate \in moments)
  BY <1>1, SessionState
<1>3. capture # None /\ candidate \in moments /\ candidate \in [Files -> Contents]
  BY <1>1, <1>2 DEF Finalizes, Trees
<1>4. session[s].seen \in Part(Contents) /\ session[s].kept \in Part(Contents) /\ session[s].completed \in BOOLEAN
  BY <1>2 DEF Knowledge
<1>5. CASE Unread(session[s].seen) # {}
  <2> DEFINE old  == session[s].seen
             tree == With(old, candidate)
  <2>1. /\ tree \in Part(Contents)
        /\ \E f \in Files : /\ DOMAIN tree = DOMAIN old \cup {f} /\ tree[f] = candidate[f]
                            /\ \A g \in DOMAIN old : tree[g] = old[g] /\ g # f
    <3>1. old \in Part(Contents) /\ Unread(old) # {}
      BY <1>4, <1>5
    <3> HIDE DEF old
    <3>2. QED
      BY <1>3, <3>1, WithFacts
  <2> DEFINE x == [session[s] EXCEPT !.seen = tree]
  <2>2. session' = [session EXCEPT ![s] = x]
    BY <1>1, <1>5
  <2> HIDE DEF tree
  <2>3. /\ x \in Knowledge /\ x.pc = "see" /\ x.seen = tree /\ x.kept = session[s].kept
    BY <1>1, <1>2, <2>1 DEF Knowledge
  <2> HIDE DEF x
  <2>4. \A g \in DOMAIN tree : candidate[g] <= tree[g]
    <3>1. \A g \in DOMAIN session[s].seen : candidate[g] <= session[s].seen[g]
      BY <1>1, <1>2 DEF Finalizes
    <3>2. \A g \in Files : candidate[g] \in Int
      BY <1>3, ContentsAreNumbers
    <3>3. QED
      BY <2>1, <3>1, <3>2
  <2>5. Finalizes(s, x, capture, lock, evidence, candidate, moments)
    BY <1>1, <1>2, <2>3, <2>4 DEF Finalizes, Kept
  <2>6. Takes(s, x)
    BY <1>1, <1>2, <2>2, <2>3, <2>5 DEF Takes
  <2>7. QED
    BY <2>6
<1>6. CASE Unread(session[s].seen) = {}
  <2>1. DOMAIN session[s].seen = Files
    BY <1>4, <1>6, WholePart
  <2>2. \A f \in Files : candidate[f] <= session[s].seen[f] /\ candidate[f] \in Int
    BY <1>1, <1>2, <1>3, <2>1, ContentsAreNumbers DEF Finalizes
  <2>3. ASSUME NEW x \in Knowledge, x.pc = "keep", x.completed = session[s].completed,
               x.seen = session[s].seen, x.kept = session[s].kept
        PROVE  Finalizes(s, x, capture, lock, evidence, candidate, moments)
    <3>1. DOMAIN x.kept = {} /\ DOMAIN x.seen = Files
      BY <1>1, <1>2, <2>1, <2>3 DEF Finalizes
    <3>2. Between(x, candidate, moments)
      BY <1>3, <2>2, <2>3, <3>1 DEF Between
    <3>3. QED
      BY <1>1, <1>2, <2>3, <3>1, <3>2 DEF Finalizes, Kept
  <2>4. QED
    <3>1. "keep" \in Steps /\ Goes(s, "keep") /\ UNCHANGED lock /\ evidence' \in Found
          /\ Evident(evidence', capture, moments) /\ evidence' = evidence
      BY <1>1, <1>2, <1>6 DEF Steps
    <3>2. \A x \in Knowledge :
            /\ x.pc = "keep" /\ x.completed = session[s].completed
            /\ x.seen = session[s].seen /\ x.kept = session[s].kept
            => Finalizes(s, x, capture, lock, evidence', candidate, moments)
      BY <2>3, <3>1
    <3>3. QED
      BY <1>1, <3>1, <3>2, GoesTakes
<1>7. QED
  BY <1>5, <1>6

(* The second reading: a file that is copied now is no newer than it was   *)
(* at the end of the first reading.                                        *)
LEMMA KeepTakes ==
  ASSUME CaptureKept, NEW s \in Sessions, Keep(s)
  PROVE  \E x : Takes(s, x)
<1>1. /\ session[s].pc = "keep" /\ UNCHANGED <<evidence, lock, begun, exported, project, worked, spoiled, stops>>
      /\ IF Unread(session[s].kept) # {}
         THEN session' = [session EXCEPT ![s].kept = With(session[s].kept, candidate)]
         ELSE Goes(s, "compare")
  BY DEF Keep, Reads, At
<1>2. /\ TypeOK /\ session[s] \in Knowledge /\ evidence \in Found /\ stops' \in 0..MaxStops
      /\ Finalizes(s, session[s], capture, lock, evidence, candidate, moments) /\ evidence' = evidence
      /\ Evident(evidence, capture, moments) /\ lock' = lock
      /\ moments \subseteq Trees /\ (capture # None => candidate \in moments)
  BY <1>1, SessionState
<1>3. capture # None /\ candidate \in moments /\ candidate \in [Files -> Contents]
  BY <1>1, <1>2 DEF Finalizes, Trees
<1>4. session[s].seen \in Part(Contents) /\ session[s].kept \in Part(Contents) /\ session[s].completed \in BOOLEAN
  BY <1>2 DEF Knowledge
<1>5. PICK c \in moments : \A f \in Files :
        /\ c[f] <= session[s].seen[f] /\ candidate[f] <= c[f]
        /\ f \in DOMAIN session[s].kept => session[s].kept[f] <= c[f]
  BY <1>1, <1>2 DEF Finalizes, Between
<1>6. CASE Unread(session[s].kept) # {}
  <2> DEFINE old  == session[s].kept
             tree == With(old, candidate)
  <2>1. /\ tree \in Part(Contents)
        /\ \E f \in Files : /\ DOMAIN tree = DOMAIN old \cup {f} /\ tree[f] = candidate[f]
                            /\ \A g \in DOMAIN old : tree[g] = old[g] /\ g # f
    <3>1. old \in Part(Contents) /\ Unread(old) # {}
      BY <1>4, <1>6
    <3> HIDE DEF old
    <3>2. QED
      BY <1>3, <3>1, WithFacts
  <2> DEFINE x == [session[s] EXCEPT !.kept = tree]
  <2>2. session' = [session EXCEPT ![s] = x]
    BY <1>1, <1>6
  <2> HIDE DEF tree
  <2>3. /\ x \in Knowledge /\ x.pc = "keep" /\ x.seen = session[s].seen /\ x.kept = tree
    BY <1>1, <1>2, <2>1 DEF Knowledge
  <2> HIDE DEF x
  <2>4. \A g \in DOMAIN tree : g \in Files => tree[g] <= c[g]
    BY <1>5, <2>1
  <2>5. Between(x, candidate, moments)
    BY <1>5, <2>3, <2>4 DEF Between
  <2>6. Finalizes(s, x, capture, lock, evidence, candidate, moments)
    BY <1>1, <1>2, <2>3, <2>5 DEF Finalizes, Kept
  <2>7. Takes(s, x)
    BY <1>1, <1>2, <2>2, <2>3, <2>6 DEF Takes
  <2>8. QED
    BY <2>7
<1>7. CASE Unread(session[s].kept) = {}
  <2>1. DOMAIN session[s].kept = Files
    BY <1>4, <1>7, WholePart
  <2>2. ASSUME NEW x \in Knowledge, x.pc = "compare", x.completed = session[s].completed,
               x.seen = session[s].seen, x.kept = session[s].kept
        PROVE  Finalizes(s, x, capture, lock, evidence, candidate, moments)
    <3>1. Between(x, candidate, moments)
      BY <1>1, <1>2, <2>2 DEF Finalizes, Between
    <3>2. QED
      BY <1>1, <1>2, <2>1, <2>2, <3>1 DEF Finalizes, Kept
  <2>3. "compare" \in Steps /\ Goes(s, "compare") /\ UNCHANGED lock /\ evidence' \in Found
        /\ Evident(evidence', capture, moments) /\ evidence' = evidence
    BY <1>1, <1>2, <1>7 DEF Steps
  <2>4. \A x \in Knowledge :
          /\ x.pc = "compare" /\ x.completed = session[s].completed
          /\ x.seen = session[s].seen /\ x.kept = session[s].kept
          => Finalizes(s, x, capture, lock, evidence', candidate, moments)
    BY <2>2, <2>3
  <2>5. QED
    BY <1>1, <2>3, <2>4, GoesTakes
<1>8. QED
  BY <1>6, <1>7

(* The tree between two readings that agree is the one they read.          *)
LEMMA AgreedMoment ==
  ASSUME CaptureKept, NEW s \in Sessions, session[s].pc = "compare", session[s].seen = session[s].kept
  PROVE  session[s].kept \in moments
<1>1. /\ session[s] \in Knowledge /\ moments \subseteq Trees
      /\ Finalizes(s, session[s], capture, lock, evidence, candidate, moments)
  BY SessionState
<1>2. PICK c \in moments : \A f \in Files :
        /\ c[f] <= session[s].seen[f]
        /\ f \in DOMAIN session[s].kept => session[s].kept[f] <= c[f]
  BY <1>1 DEF Finalizes, Between
<1> DEFINE tree == session[s].kept
<1>3. tree \in Part(Contents) /\ DOMAIN tree = Files
  <2>1. tree \in Part(Contents)
    BY <1>1 DEF Knowledge
  <2>2. DOMAIN tree = Files
    BY <1>1 DEF Finalizes
  <2>3. QED
    BY <2>1, <2>2
<1> HIDE DEF tree
<1>4. tree \in [Files -> Contents] /\ c \in [Files -> Contents]
  <2>1. tree \in [Files -> Contents]
    BY <1>3, PartFacts
  <2>2. QED
    BY <1>1, <2>1 DEF Trees
<1>5. \A f \in Files : c[f] <= tree[f] /\ tree[f] <= c[f]
  BY <1>2, <1>3 DEF tree
<1>6. ASSUME NEW f \in Files PROVE c[f] = tree[f]
  <2>1. c[f] \in Int /\ tree[f] \in Int
    BY <1>4, ContentsAreNumbers
  <2>2. QED
    BY <1>5, <2>1
<1>7. c = tree
  BY <1>4, <1>6
<1>8. QED
  BY <1>7 DEF tree

(* The comparison turns two readings into one tree of the candidate.       *)
LEMMA CompareTakes ==
  ASSUME CaptureKept, NEW s \in Sessions, Compare(s)
  PROVE  \E x : Takes(s, x)
<1> DEFINE holds == session[s].seen = session[s].kept
<1>1. Checks(s, "compare", holds, "commit after") /\ session[s].pc = "compare" /\ holds \in BOOLEAN
  BY DEF Compare, Checks, At, SameTree
<1>2. Finalizes(s, session[s], capture, lock, evidence, candidate, moments)
  BY SessionState
<1>3. ASSUME holds PROVE session[s].kept \in moments /\ session[s].kept = session[s].seen
  BY <1>1, <1>3, AgreedMoment
<1> HIDE DEF holds
<1>4. ASSUME NEW x \in Knowledge, holds, x.pc = "commit after", x.completed = session[s].completed,
             x.seen = session[s].seen, x.kept = session[s].kept
      PROVE  Finalizes(s, x, capture, lock, evidence, candidate, moments)
  BY <1>1, <1>2, <1>3, <1>4 DEF Finalizes, Kept
<1>5. "commit after" \in Steps
  BY DEF Steps
<1>6. QED
  BY <1>1, <1>4, <1>5, ChecksTakes

(* A part is put in place, or is there as an earlier attempt left it.      *)
LEMMA CommitTakes ==
  ASSUME CaptureKept, NEW s \in Sessions, CommitAfter(s) \/ CommitSnapshot(s) \/ CommitMarker(s)
  PROVE  \E x : Takes(s, x)
<1>1. /\ TypeOK /\ session[s] \in Knowledge /\ evidence \in Found /\ stops \in 0..MaxStops
      /\ Finalizes(s, session[s], capture, lock, evidence, candidate, moments)
      /\ Evident(evidence, capture, moments) /\ moments \subseteq Trees
  BY SessionState
<1>2. UNCHANGED <<begun, exported, project, worked, spoiled, stops>>
  BY DEF CommitAfter, CommitSnapshot, CommitMarker, Commits
<1>3. session[s].pc \in {"commit after", "commit snapshot", "commit marker"}
  BY DEF CommitAfter, CommitSnapshot, CommitMarker, Commits, At
<1>4. /\ lock = s /\ evidence.result = None /\ session[s].kept = session[s].seen
      /\ session[s].kept \in moments /\ session[s].seen \in Trees /\ AsExported(capture) /\ capture # None
      /\ DOMAIN session[s].seen = DOMAIN session[s].kept
  BY <1>1, <1>3 DEF Finalizes, Kept, AsExported
<1>5. CASE Ends(s) /\ UNCHANGED evidence
  <2>1. evidence' \in Found /\ Evident(evidence', capture, moments) /\ stops' \in 0..MaxStops
    BY <1>1, <1>2, <1>5
  <2>2. QED
    BY <1>2, <1>5, <2>1, EndsTakes DEF Ends
<1>6. CASE CommitAfter(s) /\ ~(Ends(s) /\ UNCHANGED evidence)
  <2> DEFINE tree == session[s].kept
  <2>1. /\ session[s].pc = "commit after" /\ evidence.after \in {None, tree} /\ Goes(s, "commit snapshot")
        /\ UNCHANGED lock
        /\ evidence' = [evidence EXCEPT !.after = IF evidence.after = None THEN tree ELSE evidence.after]
    BY <1>6 DEF CommitAfter, Commits, At, Fits
  <2>2. tree \in Trees
    BY <1>4
  <2> HIDE DEF tree
  <2>3. evidence' = [evidence EXCEPT !.after = tree]
    BY <1>1, <2>1 DEF Found
  <2>4. /\ evidence' \in Found /\ evidence'.after = tree /\ evidence'.result = None
        /\ evidence'.snapshot = evidence.snapshot /\ evidence'.marker = evidence.marker
    BY <1>1, <1>4, <2>2, <2>3 DEF Found
  <2>5. Evident(evidence', capture, moments)
    BY <1>4, <2>4 DEF Evident, tree
  <2>6. ASSUME NEW x \in Knowledge, x.pc = "commit snapshot", x.completed = session[s].completed,
               x.seen = session[s].seen, x.kept = session[s].kept
        PROVE  Finalizes(s, x, capture, lock, evidence', candidate, moments)
    BY <1>4, <2>4, <2>6 DEF Finalizes, Kept, tree
  <2>7. "commit snapshot" \in Steps
    BY DEF Steps
  <2>8. QED
    BY <1>2, <1>4, <2>1, <2>4, <2>5, <2>6, <2>7, GoesTakes
<1>7. CASE CommitSnapshot(s) /\ ~(Ends(s) /\ UNCHANGED evidence)
  <2> DEFINE tree == session[s].seen
  <2>1. /\ session[s].pc = "commit snapshot" /\ evidence.snapshot \in {None, tree} /\ Goes(s, "commit marker")
        /\ UNCHANGED lock
        /\ evidence' = [evidence EXCEPT !.snapshot = IF evidence.snapshot = None THEN tree ELSE evidence.snapshot]
    BY <1>7 DEF CommitSnapshot, Commits, At, Fits
  <2>2. tree \in Trees /\ evidence.after = session[s].kept
    BY <1>1, <1>4, <2>1 DEF Finalizes, Kept
  <2> HIDE DEF tree
  <2>3. evidence' = [evidence EXCEPT !.snapshot = tree]
    BY <1>1, <2>1 DEF Found
  <2>4. /\ evidence' \in Found /\ evidence'.snapshot = tree /\ evidence'.result = None
        /\ evidence'.after = evidence.after /\ evidence'.marker = evidence.marker
    BY <1>1, <1>4, <2>2, <2>3 DEF Found
  <2>5. Evident(evidence', capture, moments)
    BY <1>1, <2>4 DEF Evident
  <2>6. ASSUME NEW x \in Knowledge, x.pc = "commit marker", x.completed = session[s].completed,
               x.seen = session[s].seen, x.kept = session[s].kept
        PROVE  Finalizes(s, x, capture, lock, evidence', candidate, moments)
    BY <1>4, <2>2, <2>4, <2>6 DEF Finalizes, Kept, tree
  <2>7. "commit marker" \in Steps
    BY DEF Steps
  <2>8. QED
    BY <1>2, <1>4, <2>1, <2>4, <2>5, <2>6, <2>7, GoesTakes
<1>8. CASE CommitMarker(s) /\ ~(Ends(s) /\ UNCHANGED evidence)
  <2> DEFINE new == Result(s)
  <2>1. /\ session[s].pc = "commit marker" /\ evidence.marker \in {None, new} /\ Goes(s, "result")
        /\ UNCHANGED lock
        /\ evidence' = [evidence EXCEPT !.marker = IF evidence.marker = None THEN new ELSE evidence.marker]
    BY <1>8 DEF CommitMarker, Commits, At, Fits
  <2>2. /\ new = [completed |-> session[s].completed, tree |-> session[s].seen]
        /\ session[s].completed \in BOOLEAN
    BY <1>1 DEF Result, Knowledge
  <2>3. new \in Results /\ evidence.after = session[s].kept /\ evidence.snapshot = session[s].seen
    <3>1. new \in Results
      BY <1>4, <2>2 DEF Results
    <3>2. QED
      BY <1>1, <2>1, <3>1 DEF Finalizes, Kept
  <2> HIDE DEF new
  <2>4. evidence' = [evidence EXCEPT !.marker = new]
    BY <1>1, <2>1 DEF Found
  <2>5. /\ evidence' \in Found /\ evidence'.marker = new /\ evidence'.result = None
        /\ evidence'.after = evidence.after /\ evidence'.snapshot = evidence.snapshot
    BY <1>1, <1>4, <2>3, <2>4 DEF Found
  <2>6. Evident(evidence', capture, moments)
    BY <1>1, <2>5 DEF Evident
  <2>7. ASSUME NEW x \in Knowledge, x.pc = "result", x.completed = session[s].completed,
               x.seen = session[s].seen, x.kept = session[s].kept
        PROVE  Finalizes(s, x, capture, lock, evidence', candidate, moments)
    BY <1>4, <2>2, <2>3, <2>5, <2>7 DEF Finalizes, Kept
  <2>8. "result" \in Steps
    BY DEF Steps
  <2>9. QED
    BY <1>2, <1>4, <2>1, <2>5, <2>6, <2>7, <2>8, GoesTakes
<1>9. QED
  BY <1>5, <1>6, <1>7, <1>8

(* The result is published with the marker and the trees it agrees with.   *)
LEMMA PublishTakes ==
  ASSUME CaptureKept, NEW s \in Sessions, PublishResult(s)
  PROVE  \E x : Takes(s, x)
<1> DEFINE new == Result(s)
<1>1. /\ TypeOK /\ session[s] \in Knowledge /\ evidence \in Found /\ stops \in 0..MaxStops
      /\ Finalizes(s, session[s], capture, lock, evidence, candidate, moments)
      /\ Evident(evidence, capture, moments) /\ moments \subseteq Trees
  BY SessionState
<1>2. /\ session[s].pc = "result" /\ Ends(s) /\ UNCHANGED <<begun, exported, project, worked, spoiled, stops>>
      /\ evidence' = IF evidence.result = None THEN [evidence EXCEPT !.result = new] ELSE evidence
  BY DEF PublishResult, At
<1>3. /\ lock = s /\ evidence.result = None /\ session[s].kept = session[s].seen
      /\ session[s].seen \in Trees /\ AsExported(capture) /\ capture # None
      /\ evidence.after = session[s].seen /\ evidence.snapshot = session[s].seen
      /\ evidence.marker = new
  BY <1>1, <1>2 DEF Finalizes, Kept, AsExported, Result
<1>4. /\ new.tree = session[s].seen /\ new \in Results
  BY <1>1, <1>3 DEF Result, Knowledge, Results
<1> HIDE DEF new
<1>5. /\ evidence' \in Found /\ evidence'.result = new /\ evidence'.marker = evidence.marker
      /\ evidence'.after = evidence.after /\ evidence'.snapshot = evidence.snapshot
  BY <1>1, <1>2, <1>3, <1>4 DEF Found
<1>6. capture.bundle.packet.bound = Restrict(capture.bundle.snapshot, Cited)
  BY <1>3 DEF CaptureKept, CaptureInvariant, CopiedAfter
<1>7. Evident(evidence', capture, moments)
  BY <1>1, <1>3, <1>4, <1>5, <1>6 DEF Evident
<1>8. QED
  BY <1>1, <1>2, <1>3, <1>5, <1>7, EndsTakes DEF Ends

(* A failure or a death forgets what the session knows.                    *)
LEMMA StopTakes ==
  ASSUME CaptureKept, NEW s \in Sessions, Fails(s) \/ Dies(s)
  PROVE  \E x : Takes(s, x)
<1>1. /\ session' = [session EXCEPT ![s] = NoSession] /\ UNCHANGED <<evidence, begun, exported, project, worked, spoiled>>
      /\ lock' = lock \/ lock' = (IF lock = s THEN None ELSE lock)
      /\ stops < MaxStops /\ stops' = stops + 1
  BY DEF Fails, Dies, Ends
<1>2. evidence \in Found /\ stops \in 0..MaxStops /\ Evident(evidence, capture, moments)
  BY SessionState
<1>3. stops' \in 0..MaxStops
  BY <1>1, <1>2, FilesAssumption
<1>4. evidence' = evidence /\ evidence' \in Found /\ Evident(evidence', capture, moments)
  BY <1>1, <1>2
<1>5. QED
  BY <1>1, <1>3, <1>4, EndsTakes

(* A write of the marker or the result that breaks off: what the session   *)
(* relied on goes with it, and half a result is none that is published.    *)
LEMMA BreakTakes ==
  ASSUME CaptureKept, NEW s \in Sessions, BreakMarker(s) \/ BreakResult(s)
  PROVE  \E x : Takes(s, x)
<1>1. /\ TypeOK /\ session[s] \in Knowledge /\ evidence \in Found /\ stops \in 0..MaxStops
      /\ Finalizes(s, session[s], capture, lock, evidence, candidate, moments)
      /\ Evident(evidence, capture, moments)
  BY SessionState
<1>2. /\ session[s].pc \in {"commit marker", "result"}
      /\ \/ evidence' = [evidence EXCEPT !.marker = CutOff]
         \/ evidence' = [evidence EXCEPT !.result = CutOff]
      /\ session' = [session EXCEPT ![s] = NoSession]
      /\ lock' = lock \/ lock' = (IF lock = s THEN None ELSE lock)
      /\ UNCHANGED <<begun, exported, project, worked, spoiled>>
  BY DEF BreakMarker, BreakResult, Breaks, At, Ends
<1>3. lock = s /\ evidence.result = None /\ AsExported(capture)
  BY <1>1, <1>2 DEF Finalizes, Kept
<1>4. stops' \in 0..MaxStops
  <2>1. stops < MaxStops /\ stops' = stops + 1
    BY DEF BreakMarker, BreakResult, Breaks
  <2>2. QED
    BY <1>1, <2>1, FilesAssumption
<1>5. /\ evidence' \in Found /\ evidence'.after = evidence.after
      /\ evidence'.result \in {None, CutOff}
  BY <1>1, <1>2, <1>3 DEF Found
<1>6. Evident(evidence', capture, moments)
  <2>1. capture.bundle.packet.bound = Restrict(capture.bundle.snapshot, Cited)
    BY <1>3 DEF CaptureKept, CaptureInvariant, CopiedAfter, AsExported
  <2>2. QED
    BY <1>1, <1>3, <1>5, <2>1 DEF Evident
<1>7. QED
  BY <1>2, <1>3, <1>4, <1>5, <1>6, EndsTakes

(* Every step of a session is one of those.                                *)
LEMMA SessionTakes ==
  ASSUME CaptureKept, NEW s \in Sessions,
         \/ (\E completed \in BOOLEAN : Load(s, completed)) \/ Works(s)
         \/ BreakMarker(s) \/ BreakResult(s) \/ Fails(s) \/ Dies(s)
  PROVE  \E x : Takes(s, x)
BY LoadTakes, AcquireTakes, CheckTakes, SeeTakes, KeepTakes, CompareTakes, CommitTakes, PublishTakes,
   BreakTakes, StopTakes
   DEF Works

-----------------------------------------------------------------------------
(* The invariant                                                           *)

(* At first nothing is exported, captured or published.                    *)
LEMMA KeptInit == Init => CaptureKept
<1> SUFFICES ASSUME Init PROVE CaptureKept
  OBVIOUS
<1>1. 0 \in Edits /\ 0 \in 0..MaxStops /\ 0 \in 0..MaxWrites /\ Cited \subseteq Files
  BY FilesAssumption, FilesFacts DEF Edits
<1>2. TypeOK
  <2>1. /\ source \in [Files -> Edits] /\ approval \in Packets
    BY <1>1 DEF Init, Packets
  <2>2. /\ bundle = None /\ capture = None /\ candidate = <<>> /\ lock = None /\ spoiled = {}
        /\ moments = {} /\ stops = 0 /\ writes = 0
        /\ evidence = [after |-> None, snapshot |-> None, marker |-> None, result |-> None]
    BY DEF Init
  <2>3. export \in [pc : {"idle", "snapshot", "write"}, packet : Packets \cup {None},
                    snapshot : [Snapped -> Edits] \cup {None}]
    BY DEF Init, NoExport
  <2>4. begin \in [pc : {"idle", "refused", "packet", "semantics", "copy"},
                   bundle : Bundles \cup {None}, copied : Part(Edits)]
    BY EmptyPart DEF Init, NotBegun
  <2>5. session \in [Sessions -> Knowledge]
    BY NoSessionFacts DEF Init
  <2>6. QED
    BY <1>1, <2>1, <2>2, <2>3, <2>4, <2>5 DEF TypeOK, Knowledge
<1>3. /\ export.pc = "idle" /\ begin.pc = "idle" /\ capture = None
      /\ evidence.after = None /\ evidence.result = None
  BY DEF Init, NoExport, NotBegun
<1>4. SessionInvariant
  <2> SUFFICES ASSUME NEW s \in Sessions
               PROVE  Finalizes(s, session[s], capture, lock, evidence, candidate, moments)
    BY DEF SessionInvariant
  <2>1. session[s] = NoSession
    BY DEF Init
  <2>2. QED
    BY <2>1, NoSessionFacts DEF Finalizes, Kept
<1>5. QED
  BY <1>2, <1>3, <1>4 DEF CaptureKept, ExportInvariant, BeginInvariant, CaptureInvariant, EvidenceInvariant, Evident

(* Nothing a session relies on changes when another one takes a step.      *)
LEMMA TakesKeeps ==
  ASSUME CaptureKept, NEW s \in Sessions, NEW x, Takes(s, x)
  PROVE  CaptureKept'
<1>1. /\ x \in Knowledge /\ session' = [session EXCEPT ![s] = x]
      /\ evidence' \in Found /\ lock' \in {lock, s, None}
      /\ lock' # lock => lock \in {s, None}
      /\ evidence' # evidence => lock = s
      /\ Finalizes(s, x, capture, lock', evidence', candidate, moments)
      /\ Evident(evidence', capture, moments) /\ stops' \in 0..MaxStops
  BY DEF Takes
<1>2. /\ begin' = begin /\ capture' = capture /\ bundle' = bundle /\ export' = export
      /\ source' = source /\ approval' = approval /\ candidate' = candidate /\ writes' = writes
      /\ moments' = moments /\ spoiled' = spoiled
  BY DEF Takes, begun, exported, project, worked
<1>3. TypeOK /\ None \notin Sessions
  BY SessionFacts DEF CaptureKept
<1>4. TypeOK'
  <2>1. session' \in [Sessions -> Knowledge] /\ lock' \in Sessions \cup {None}
    BY <1>1, <1>3, SessionFacts
  <2>2. QED
    BY <1>1, <1>2, <1>3, <2>1 DEF TypeOK, Knowledge, Found
<1>5. ExportInvariant' /\ BeginInvariant' /\ CaptureInvariant'
  BY <1>2 DEF CaptureKept, ExportInvariant, BeginInvariant, CaptureInvariant
<1>6. SessionInvariant'
  <2> SUFFICES ASSUME NEW t \in Sessions
               PROVE  Finalizes(t, session'[t], capture, lock', evidence', candidate, moments)
    BY <1>2 DEF SessionInvariant
  <2>1. Finalizes(t, session[t], capture, lock, evidence, candidate, moments)
    BY DEF CaptureKept, SessionInvariant
  <2>2. CASE t = s
    BY <1>1, <1>3, <2>2 DEF TypeOK
  <2>3. CASE t # s
    <3>1. session'[t] = session[t]
      BY <1>1, <1>3, <2>3 DEF TypeOK
    <3>2. CASE session[t].pc \in {"idle", "lock"}
      BY <2>1, <3>1, <3>2 DEF Finalizes, Kept
    <3>3. CASE session[t].pc \notin {"idle", "lock"}
      <4>1. lock = t
        BY <2>1, <3>3 DEF Finalizes
      <4>2. lock' = lock /\ evidence' = evidence
        BY <1>1, <1>3, <2>3, <4>1
      <4>3. QED
        BY <2>1, <3>1, <4>2
    <3>4. QED
      BY <3>2, <3>3
  <2>4. QED
    BY <2>2, <2>3
<1>7. EvidenceInvariant'
  BY <1>1, <1>2 DEF EvidenceInvariant
<1>8. QED
  BY <1>4, <1>5, <1>6, <1>7 DEF CaptureKept

(* What was copied after the checks stays so while the project grows.      *)
LEMMA CopiedFacts ==
  ASSUME NEW b \in Bundles, NEW tree \in Part(Edits), NEW now \in [Files -> Edits],
         NEW then \in [Files -> Edits], \A f \in Files : now[f] <= then[f], CopiedAfter(b, tree, now)
  PROVE  CopiedAfter(b, tree, then)
<1>1. Edits \subseteq Int
  BY FilesAssumption DEF Edits
<1>2. DOMAIN tree \subseteq Files /\ tree \in [DOMAIN tree -> Edits]
  BY PartFacts
<1>3. b.snapshot \in [Snapped -> Edits]
  BY DEF Bundles
<1>4. ASSUME NEW f \in Snapped PROVE b.snapshot[f] <= then[f]
  <2>1. b.snapshot[f] \in Int /\ now[f] \in Int /\ then[f] \in Int /\ now[f] <= then[f]
    BY <1>1, <1>3, FilesFacts
  <2>2. b.snapshot[f] <= now[f]
    BY DEF CopiedAfter
  <2>3. QED
    BY <2>1, <2>2
<1>5. ASSUME NEW f \in DOMAIN tree PROVE tree[f] <= then[f]
  <2>1. tree[f] \in Int /\ now[f] \in Int /\ then[f] \in Int /\ now[f] <= then[f]
    BY <1>1, <1>2
  <2>2. tree[f] <= now[f]
    BY DEF CopiedAfter
  <2>3. QED
    BY <2>1, <2>2
<1>6. QED
  BY <1>4, <1>5 DEF CopiedAfter

(* The exporter's steps.                                                   *)
LEMMA ExportKeeps ==
  ASSUME CaptureKept, ExportRead \/ ExportSnapshot \/ ExportWrite \/ ExportStops
  PROVE  CaptureKept'
<1>1. /\ source' = source /\ approval' = approval /\ capture' = capture /\ candidate' = candidate
      /\ writes' = writes /\ moments' = moments /\ evidence' = evidence /\ lock' = lock /\ session' = session
  BY DEF ExportRead, ExportSnapshot, ExportWrite, ExportStops, project, begun, worked, finalized
<1>2. TypeOK /\ ExportInvariant /\ stops \in 0..MaxStops
  BY DEF CaptureKept, TypeOK
<1>3. /\ export' \in [pc : {"idle", "snapshot", "write"}, packet : Packets \cup {None},
                      snapshot : [Snapped -> Edits] \cup {None}]
      /\ ExportInvariant'
  <2> DEFINE E == [pc : {"idle", "snapshot", "write"}, packet : Packets \cup {None},
                   snapshot : [Snapped -> Edits] \cup {None}]
  <2>1. export \in E
    BY <1>2 DEF TypeOK
  <2>2. CASE ExportRead
    <3>1. export' = [pc |-> "snapshot", packet |-> approval, snapshot |-> None]
      BY <2>2 DEF ExportRead, NoExport
    <3>2. approval \in Packets
      BY <1>2 DEF TypeOK
    <3>3. QED
      BY <3>1, <3>2 DEF ExportInvariant
  <2>3. CASE ExportSnapshot
    <3> DEFINE tree == Restrict(source, Snapped)
    <3>1. tree \in [Snapped -> Edits]
      BY <1>2, FilesFacts DEF TypeOK, Restrict
    <3>2. export.pc = "snapshot" /\ export' = [export EXCEPT !.pc = "write", !.snapshot = tree]
      BY <2>3 DEF ExportSnapshot
    <3>3. export.packet \in Packets
      BY <1>2, <3>2 DEF ExportInvariant
    <3> HIDE DEF tree
    <3>4. export' \in E /\ export'.packet = export.packet /\ export'.snapshot = tree
      BY <2>1, <3>1, <3>2
    <3>5. QED
      BY <3>1, <3>3, <3>4 DEF ExportInvariant
  <2>4. CASE ExportWrite \/ ExportStops
    <3>1. export' = [pc |-> "idle", packet |-> None, snapshot |-> None]
      BY <2>4 DEF ExportWrite, ExportStops, NoExport
    <3>2. QED
      BY <3>1 DEF ExportInvariant
  <2>5. QED
    BY <2>2, <2>3, <2>4
<1>4. bundle' \in Bundles \cup {None, CutOff}
  <2>1. CASE ExportWrite
    <3>1. export.packet \in Packets /\ export.snapshot \in [Snapped -> Edits] /\ WithConstitution \in BOOLEAN
      BY <1>2, <2>1, FilesAssumption DEF ExportWrite, ExportInvariant
    <3>2. bundle' = [packet |-> export.packet, snapshot |-> export.snapshot, constitution |-> WithConstitution]
      BY <2>1 DEF ExportWrite
    <3>3. QED
      BY <3>1, <3>2 DEF Bundles
  <2>2. CASE ~ExportWrite
    BY <1>2, <2>2 DEF ExportRead, ExportSnapshot, ExportStops, TypeOK
  <2>3. QED
    BY <2>1, <2>2
<1>5. begin' \in {begin, NotBegun} /\ spoiled' \subseteq Things
  BY <1>2 DEF ExportRead, ExportSnapshot, ExportWrite, ExportStops, begun, TypeOK
<1>6. NotBegun = [pc |-> "idle", bundle |-> None, copied |-> <<>>]
  BY DEF NotBegun
<1>7. begin' \in [pc : {"idle", "refused", "packet", "semantics", "copy"},
                  bundle : Bundles \cup {None}, copied : Part(Edits)]
  BY <1>2, <1>5, <1>6, EmptyPart DEF TypeOK
<1>8. stops' \in 0..MaxStops
  BY <1>2, FilesAssumption DEF ExportRead, ExportSnapshot, ExportWrite, ExportStops
<1>9. TypeOK'
  BY <1>1, <1>2, <1>3, <1>4, <1>5, <1>7, <1>8 DEF TypeOK
<1>10. BeginInvariant'
  BY <1>1, <1>5, <1>6 DEF CaptureKept, BeginInvariant
<1>11. CaptureInvariant' /\ SessionInvariant' /\ EvidenceInvariant'
  BY <1>1 DEF CaptureKept, CaptureInvariant, SessionInvariant, EvidenceInvariant
<1>12. QED
  BY <1>3, <1>9, <1>10, <1>11 DEF CaptureKept

(* The steps of a begin: the checks fix what the snapshot is when the      *)
(* copying starts, and every file is copied from a project that is no      *)
(* older.                                                                  *)
LEMMA BeginKeeps ==
  ASSUME CaptureKept, BeginRead \/ BeginPacket \/ BeginSemantics \/ BeginCopy \/ BeginStops
  PROVE  CaptureKept'
<1>1. /\ source' = source /\ approval' = approval /\ capture' = capture /\ candidate' = candidate
      /\ writes' = writes /\ moments' = moments /\ evidence' = evidence /\ lock' = lock /\ session' = session
      /\ bundle' = bundle /\ export' = export /\ spoiled' = spoiled
  BY DEF BeginRead, BeginPacket, BeginSemantics, BeginCopy, BeginStops, project, exported, worked, finalized
<1>2. TypeOK /\ BeginInvariant /\ stops \in 0..MaxStops
  BY DEF CaptureKept, TypeOK
<1> DEFINE B == [pc : {"idle", "refused", "packet", "semantics", "copy"},
                 bundle : Bundles \cup {None}, copied : Part(Edits)]
<1>3. begin \in B /\ source \in [Files -> Edits]
  BY <1>2 DEF TypeOK
<1>4. /\ NotBegun = [pc |-> "idle", bundle |-> None, copied |-> <<>>]
      /\ [NotBegun EXCEPT !.pc = "refused"] = [pc |-> "refused", bundle |-> None, copied |-> <<>>]
  BY DEF NotBegun
<1>5. ASSUME begin' \in {NotBegun, [NotBegun EXCEPT !.pc = "refused"]}
      PROVE  begin' \in B /\ BeginInvariant'
  BY <1>4, <1>5, EmptyPart DEF BeginInvariant
<1>6. ASSUME BeginRead /\ begin' # [NotBegun EXCEPT !.pc = "refused"]
      PROVE  begin' \in B /\ BeginInvariant'
  <2>1. capture = None /\ bundle \in Bundles /\ begin' = [pc |-> "packet", bundle |-> bundle, copied |-> <<>>]
    BY <1>2, <1>6 DEF BeginRead, Refused, NotBegun, TypeOK
  <2>2. QED
    BY <1>1, <2>1, EmptyPart DEF BeginInvariant
<1>7. ASSUME BeginPacket /\ begin' # [NotBegun EXCEPT !.pc = "refused"]
      PROVE  begin' \in B /\ BeginInvariant'
  <2>1. begin.pc = "packet" /\ begin' = [begin EXCEPT !.pc = "semantics"]
    BY <1>7 DEF BeginPacket, Refused
  <2>2. capture = None /\ begin.bundle \in Bundles
    BY <1>2, <2>1 DEF BeginInvariant
  <2>3. begin' \in B /\ begin'.pc = "semantics" /\ begin'.bundle = begin.bundle
    BY <1>3, <2>1
  <2>4. DOMAIN begin'.copied = {}
    BY <1>2, <1>3, <2>1 DEF BeginInvariant
  <2>5. QED
    BY <1>1, <2>2, <2>3, <2>4 DEF BeginInvariant
<1>8. ASSUME BeginSemantics /\ begin' # [NotBegun EXCEPT !.pc = "refused"]
      PROVE  begin' \in B /\ BeginInvariant'
  <2>1. begin.pc = "semantics" /\ begin' = [begin EXCEPT !.pc = "copy"] /\ SourceFits(begin.bundle)
    BY <1>8 DEF BeginSemantics, Refused
  <2>2. capture = None /\ begin.bundle \in Bundles /\ DOMAIN begin.copied = {}
    BY <1>2, <2>1 DEF BeginInvariant
  <2>3. begin' \in B /\ begin'.pc = "copy" /\ begin'.bundle = begin.bundle /\ begin'.copied = begin.copied
    BY <1>3, <2>1
  <2> DEFINE b == begin.bundle
  <2>4. /\ b.packet.bound = [f \in Cited |-> source[f]] /\ b.snapshot = [f \in Snapped |-> source[f]]
        /\ b.packet.bound = Restrict(b.snapshot, Cited)
    BY <2>1, <1>3, FilesFacts DEF SourceFits, Restrict
  <2>5. \A f \in Snapped : b.snapshot[f] = source[f] /\ source[f] \in Int
    BY <1>3, <2>4, FilesFacts, FilesAssumption DEF Edits
  <2>6. CopiedAfter(begin.bundle, begin.copied, source)
    <3>1. \A f \in Snapped : b.snapshot[f] <= source[f]
      BY <2>5
    <3>2. QED
      BY <2>2, <2>4, <3>1 DEF CopiedAfter
  <2>7. QED
    BY <1>1, <2>2, <2>3, <2>6 DEF BeginInvariant
<1>9. ASSUME BeginCopy
      PROVE  begin' \in B /\ BeginInvariant'
  <2> DEFINE old  == begin.copied
             tree == With(old, source)
  <2>1. begin.pc = "copy" /\ Unread(begin.copied) # {} /\ begin' = [begin EXCEPT !.copied = tree]
    BY <1>9 DEF BeginCopy
  <2>2. capture = None /\ begin.bundle \in Bundles /\ CopiedAfter(begin.bundle, begin.copied, source)
    BY <1>2, <2>1 DEF BeginInvariant
  <2>3. /\ tree \in Part(Edits)
        /\ \E f \in Files : /\ DOMAIN tree = DOMAIN old \cup {f} /\ tree[f] = source[f]
                            /\ \A g \in DOMAIN old : tree[g] = old[g] /\ g # f
    <3>1. old \in Part(Edits) /\ Unread(old) # {}
      BY <1>3, <2>1
    <3> HIDE DEF old
    <3>2. QED
      BY <1>3, <3>1, WithFacts
  <2> HIDE DEF tree
  <2>4. begin' \in B /\ begin'.pc = "copy" /\ begin'.bundle = begin.bundle /\ begin'.copied = tree
    BY <1>3, <2>1, <2>3
  <2>5. CopiedAfter(begin.bundle, tree, source)
    <3>1. PICK f \in Files : /\ DOMAIN tree = DOMAIN old \cup {f} /\ tree[f] = source[f]
                             /\ \A g \in DOMAIN old : tree[g] = old[g] /\ g # f
      BY <2>3
    <3>2. source[f] \in Int
      BY <1>3, FilesAssumption DEF Edits
    <3>3. \A g \in DOMAIN tree : tree[g] <= source[g] /\ (g \in Snapped => begin.bundle.snapshot[g] <= tree[g])
      BY <2>2, <3>1, <3>2 DEF CopiedAfter
    <3>4. QED
      BY <2>2, <3>3 DEF CopiedAfter
  <2>6. QED
    BY <1>1, <2>2, <2>4, <2>5 DEF BeginInvariant
<1>10. begin' \in B /\ BeginInvariant'
  <2>1. BeginStops => begin' = NotBegun
    BY DEF BeginStops
  <2>2. QED
    BY <1>5, <1>6, <1>7, <1>8, <1>9, <2>1
<1>11. stops' \in 0..MaxStops
  BY <1>2, FilesAssumption DEF BeginRead, BeginPacket, BeginSemantics, BeginCopy, BeginStops
<1>12. TypeOK'
  BY <1>1, <1>2, <1>10, <1>11 DEF TypeOK
<1>13. ExportInvariant' /\ CaptureInvariant' /\ SessionInvariant' /\ EvidenceInvariant'
  BY <1>1 DEF CaptureKept, ExportInvariant, CaptureInvariant, SessionInvariant, EvidenceInvariant
<1>14. QED
  BY <1>10, <1>12, <1>13 DEF CaptureKept

(* The record of a begin that reached its end is a capture nobody worked   *)
(* on yet.                                                                 *)
LEMMA RecordKeeps ==
  ASSUME CaptureKept, BeginRecord
  PROVE  CaptureKept'
<1> DEFINE tree == begin.copied
           new == [bundle |-> begin.bundle, before |-> tree]
<1>1. /\ source' = source /\ approval' = approval /\ bundle' = bundle /\ export' = export
      /\ writes' = writes /\ evidence' = evidence /\ lock' = lock /\ session' = session
      /\ spoiled' = spoiled /\ stops' = stops
      /\ begin.pc = "copy" /\ Unread(tree) = {}
      /\ candidate' = tree /\ moments' = {tree} /\ capture' = new
      /\ begin' = [pc |-> "idle", bundle |-> None, copied |-> <<>>]
  BY DEF BeginRecord, project, exported, finalized, NotBegun
<1>2. /\ TypeOK /\ capture = None /\ begin.bundle \in Bundles
      /\ CopiedAfter(begin.bundle, tree, source) /\ tree \in Part(Edits)
  BY <1>1 DEF CaptureKept, TypeOK, BeginInvariant
<1> HIDE DEF tree
<1>3. DOMAIN tree = Files /\ tree \in [Files -> Edits]
  BY <1>1, <1>2, WholePart
<1>4. new \in Captures /\ tree \in Trees /\ new # None /\ new.bundle = begin.bundle /\ new.before = tree
  <2>1. new \in Captures /\ new.bundle = begin.bundle /\ new.before = tree
    BY <1>2, <1>3 DEF Captures
  <2>2. tree \in Trees
    BY <1>3, ContentsAreNumbers DEF Trees
  <2>3. QED
    BY <2>1, <2>2, NoneAssumption
<1> HIDE DEF new
<1>5. TypeOK'
  BY <1>1, <1>2, <1>4, EmptyPart DEF TypeOK
<1>6. \A f \in Files : -writes <= tree[f]
  <2> SUFFICES ASSUME NEW f \in Files PROVE -writes <= tree[f]
    OBVIOUS
  <2>1. tree[f] \in Nat /\ writes \in Nat
    BY <1>2, <1>3, FilesAssumption DEF TypeOK, Edits
  <2>2. QED
    BY <2>1
<1>7. CaptureInvariant'
  BY <1>1, <1>2, <1>4, <1>6 DEF CaptureInvariant
<1>8. SessionInvariant'
  <2> SUFFICES ASSUME NEW s \in Sessions
               PROVE  Finalizes(s, session'[s], capture', lock', evidence', candidate', moments')
    BY DEF SessionInvariant
  <2>1. session'[s].pc = "idle"
    BY <1>1, <1>2 DEF CaptureKept, SessionInvariant, Finalizes
  <2>2. QED
    BY <2>1 DEF Finalizes, Kept
<1>9. EvidenceInvariant'
  <2>1. evidence.after = None /\ evidence.result = None
    BY <1>2 DEF CaptureKept, EvidenceInvariant, Evident, AsExported
  <2>2. QED
    BY <1>1, <2>1 DEF EvidenceInvariant, Evident
<1>10. ExportInvariant' /\ BeginInvariant'
  BY <1>1 DEF CaptureKept, ExportInvariant, BeginInvariant
<1>11. QED
  BY <1>5, <1>7, <1>8, <1>9, <1>10 DEF CaptureKept

(* An edit makes a file of the project greater; an approval and damage     *)
(* touch nothing that was read.                                            *)
LEMMA OperatorKeeps ==
  ASSUME CaptureKept, (\E f \in Files : Edit(f)) \/ Approve \/ \E thing \in Things : Spoil(thing)
  PROVE  CaptureKept'
<1>1. /\ capture' = capture /\ candidate' = candidate /\ bundle' = bundle /\ export' = export /\ begin' = begin
      /\ writes' = writes /\ moments' = moments /\ evidence' = evidence /\ lock' = lock /\ session' = session
  BY DEF Edit, Approve, Spoil, exported, begun, worked, finalized
<1>2. TypeOK /\ BeginInvariant /\ CaptureInvariant /\ stops \in 0..MaxStops /\ source \in [Files -> Edits]
  BY DEF CaptureKept, TypeOK
<1>3. source' \in [Files -> Edits] /\ \A f \in Files : source[f] <= source'[f]
  <2>1. \A f \in Files : source[f] \in Int
    BY <1>2, FilesAssumption DEF Edits
  <2>2. CASE source' = source
    BY <1>2, <2>1, <2>2
  <2>3. CASE \E f \in Files : Edit(f)
    <3>1. PICK f \in Files : Edit(f)
      BY <2>3
    <3> DEFINE new == source[f] + 1
    <3>2. source[f] < MaxEdits /\ source' = [source EXCEPT ![f] = new]
      BY <3>1 DEF Edit
    <3>3. new \in Edits /\ source[f] <= new
      BY <1>2, <3>2, FilesAssumption DEF Edits
    <3> HIDE DEF new
    <3>4. QED
      BY <1>2, <2>1, <3>2, <3>3
  <2>4. QED
    BY <2>2, <2>3 DEF Approve, Spoil
<1>4. approval' \in Packets
  <2>1. CASE Approve
    <3> DEFINE bound == Restrict(source, Cited)
    <3>1. approval' = [stamp |-> approval.stamp + 1, bound |-> bound] /\ approval.stamp \in Nat
      BY <1>2, <2>1 DEF Approve, TypeOK, Packets
    <3>2. bound \in [Cited -> Edits]
      BY <1>2, FilesFacts DEF Restrict
    <3> HIDE DEF bound
    <3>3. QED
      BY <3>1, <3>2 DEF Packets
  <2>2. CASE approval' = approval
    BY <1>2, <2>2 DEF TypeOK
  <2>3. QED
    BY <2>1, <2>2 DEF Edit, Spoil, project
<1>5. spoiled' \subseteq Things /\ stops' \in 0..MaxStops
  <2>1. CASE \E thing \in Things : Spoil(thing)
    BY <1>2, <2>1, FilesAssumption DEF Spoil, TypeOK
  <2>2. CASE spoiled' = spoiled /\ stops' = stops
    BY <1>2, <2>2 DEF TypeOK
  <2>3. QED
    BY <2>1, <2>2 DEF Edit, Approve
<1>6. TypeOK'
  BY <1>1, <1>2, <1>3, <1>4, <1>5 DEF TypeOK
<1>7. BeginInvariant'
  <2>1. ASSUME begin.pc = "copy" PROVE CopiedAfter(begin.bundle, begin.copied, source')
    <3>1. begin.bundle \in Bundles /\ begin.copied \in Part(Edits) /\ CopiedAfter(begin.bundle, begin.copied, source)
      BY <1>2, <2>1 DEF BeginInvariant, TypeOK
    <3> DEFINE b == begin.bundle
               tree == begin.copied
    <3> HIDE DEF b, tree
    <3>2. b \in Bundles /\ tree \in Part(Edits) /\ CopiedAfter(b, tree, source)
      BY <3>1 DEF b, tree
    <3>3. CopiedAfter(b, tree, source')
      BY <1>2, <1>3, <3>2, CopiedFacts
    <3>4. QED
      BY <3>3 DEF b, tree
  <2>2. QED
    BY <1>1, <1>2, <2>1 DEF BeginInvariant
<1>8. CaptureInvariant'
  <2>1. ASSUME capture # None PROVE CopiedAfter(capture.bundle, capture.before, source')
    <3> DEFINE b == capture.bundle
               tree == capture.before
    <3>1. b \in Bundles /\ tree \in [Files -> Edits] /\ CopiedAfter(b, tree, source)
      BY <1>2, <2>1 DEF CaptureInvariant, TypeOK, Captures
    <3> HIDE DEF b, tree
    <3>2. tree \in Part(Edits)
      BY <3>1, PartFacts
    <3>3. CopiedAfter(b, tree, source')
      BY <1>2, <1>3, <3>1, <3>2, CopiedFacts
    <3>4. QED
      BY <3>3 DEF b, tree
  <2>2. QED
    BY <1>1, <1>2, <2>1 DEF CaptureInvariant
<1>9. ExportInvariant' /\ SessionInvariant' /\ EvidenceInvariant'
  BY <1>1 DEF CaptureKept, ExportInvariant, SessionInvariant, EvidenceInvariant
<1>10. QED
  BY <1>6, <1>7, <1>8, <1>9 DEF CaptureKept

(* What the harness writes is newer than all it wrote: no content of the   *)
(* candidate grows, so that the tree between two readings stays there.     *)
LEMMA WriteKeeps ==
  ASSUME CaptureKept, NEW f \in Files, Write(f)
  PROVE  CaptureKept'
<1> DEFINE new == -(writes + 1)
           tree == [candidate EXCEPT ![f] = new]
<1>1. /\ capture' = capture /\ source' = source /\ approval' = approval /\ bundle' = bundle /\ export' = export
      /\ begin' = begin /\ evidence' = evidence /\ lock' = lock /\ session' = session
      /\ spoiled' = spoiled /\ stops' = stops
      /\ capture # None /\ writes < MaxWrites /\ writes' = writes + 1
      /\ candidate' = tree /\ moments' = moments \cup {candidate'}
  BY DEF Write, project, exported, begun, finalized
<1>2. /\ TypeOK /\ candidate \in moments /\ candidate \in [Files -> Contents] /\ writes \in Nat
      /\ \A g \in Files : -writes <= candidate[g] /\ candidate[g] \in Int
  <2>1. TypeOK /\ candidate \in moments /\ \A g \in Files : -writes <= candidate[g]
    BY <1>1 DEF CaptureKept, CaptureInvariant
  <2>2. candidate \in [Files -> Contents] /\ writes \in Nat
    BY <2>1, FilesAssumption DEF TypeOK, Trees
  <2>3. QED
    BY <2>1, <2>2, ContentsAreNumbers
<1>3. new \in Contents /\ -writes' <= new /\ new <= -writes /\ -writes' <= -writes /\ writes' \in 0..MaxWrites
      /\ new \in Int /\ -writes' \in Int /\ -writes \in Int
  BY <1>1, <1>2, FilesAssumption DEF Contents
<1> HIDE DEF new
<1>4. tree \in Trees /\ \A g \in Files : tree[g] = IF g = f THEN new ELSE candidate[g]
  BY <1>2, <1>3 DEF Trees
<1> HIDE DEF tree
<1>5. \A g \in Files : candidate'[g] <= candidate[g] /\ -writes' <= candidate'[g] /\ candidate'[g] \in Int
  <2> SUFFICES ASSUME NEW g \in Files
               PROVE  tree[g] <= candidate[g] /\ -writes' <= tree[g] /\ tree[g] \in Int
    BY <1>1
  <2>1. CASE g = f
    <3>1. tree[g] = new /\ -writes <= candidate[g] /\ candidate[g] \in Int
      BY <1>2, <1>4, <2>1
    <3>2. \A a, b, c \in Int : a <= b /\ b <= c => a <= c
      OBVIOUS
    <3>3. new <= candidate[g]
      BY <1>3, <3>1, <3>2
    <3>4. QED
      BY <1>3, <3>1, <3>3
  <2>2. CASE g # f
    <3>1. tree[g] = candidate[g] /\ -writes <= candidate[g] /\ candidate[g] \in Int
      BY <1>2, <1>4, <2>2
    <3>2. QED
      BY <1>3, <3>1
  <2>3. QED
    BY <2>1, <2>2
<1>6. TypeOK'
  BY <1>1, <1>2, <1>3, <1>4 DEF TypeOK
<1>7. CaptureInvariant'
  BY <1>1, <1>5 DEF CaptureKept, CaptureInvariant
<1>8. SessionInvariant'
  <2> SUFFICES ASSUME NEW s \in Sessions
               PROVE  Finalizes(s, session[s], capture, lock, evidence, candidate', moments')
    BY <1>1 DEF SessionInvariant
  <2>1. Finalizes(s, session[s], capture, lock, evidence, candidate, moments)
        /\ session[s] \in Knowledge /\ moments \subseteq Trees
    BY SessionState
  <2>2. ASSUME session[s].pc = "see" PROVE \A g \in DOMAIN session[s].seen : candidate'[g] <= session[s].seen[g]
    <3> DEFINE seen == session[s].seen
    <3>1. seen \in Part(Contents) /\ \A g \in DOMAIN seen : candidate[g] <= seen[g]
      BY <2>1, <2>2 DEF Finalizes, Knowledge
    <3> HIDE DEF seen
    <3>2. DOMAIN seen \subseteq Files /\ \A g \in DOMAIN seen : seen[g] \in Int
      <4>1. DOMAIN seen \subseteq Files /\ seen \in [DOMAIN seen -> Contents]
        BY <3>1, PartFacts
      <4>2. QED
        BY <4>1, ContentsAreNumbers
    <3>3. \A g \in DOMAIN seen : candidate'[g] <= seen[g]
      BY <1>2, <1>5, <3>1, <3>2
    <3>4. QED
      BY <3>3 DEF seen
  <2>3. ASSUME Between(session[s], candidate, moments) PROVE Between(session[s], candidate', moments')
    <3>1. PICK c \in moments : \A g \in Files :
            /\ c[g] <= session[s].seen[g] /\ candidate[g] <= c[g]
            /\ g \in DOMAIN session[s].kept => session[s].kept[g] <= c[g]
      BY <2>3 DEF Between
    <3>2. \A g \in Files : c[g] \in Int
      BY <2>1, ContentsAreNumbers DEF Trees
    <3>3. \A g \in Files : candidate'[g] <= c[g]
      BY <1>2, <1>5, <3>1, <3>2
    <3>4. c \in moments'
      BY <1>1
    <3>5. QED
      BY <3>1, <3>3, <3>4 DEF Between
  <2>4. moments \subseteq moments'
    BY <1>1
  <2>5. QED
    BY <2>1, <2>2, <2>3, <2>4 DEF Finalizes
<1>9. EvidenceInvariant'
  BY <1>1 DEF CaptureKept, EvidenceInvariant, Evident
<1>10. ExportInvariant' /\ BeginInvariant'
  BY <1>1 DEF CaptureKept, ExportInvariant, BeginInvariant
<1>11. QED
  BY <1>6, <1>7, <1>8, <1>9, <1>10 DEF CaptureKept

(* Every step keeps the invariant.                                         *)
LEMMA KeptStep == CaptureKept /\ [Next]_vars => CaptureKept'
<1> SUFFICES ASSUME CaptureKept, [Next]_vars PROVE CaptureKept'
  OBVIOUS
<1>1. CASE ExportRead \/ ExportSnapshot \/ ExportWrite \/ ExportStops
  BY <1>1, ExportKeeps
<1>2. CASE BeginRead \/ BeginPacket \/ BeginSemantics \/ BeginCopy \/ BeginStops
  BY <1>2, BeginKeeps
<1>3. CASE BeginRecord
  BY <1>3, RecordKeeps
<1>4. CASE (\E f \in Files : Edit(f)) \/ Approve \/ \E thing \in Things : Spoil(thing)
  BY <1>4, OperatorKeeps
<1>5. CASE \E f \in Files : Write(f)
  BY <1>5, WriteKeeps
<1>6. CASE \E s \in Sessions :
             \/ (\E completed \in BOOLEAN : Load(s, completed)) \/ Works(s)
             \/ BreakMarker(s) \/ BreakResult(s) \/ Fails(s) \/ Dies(s)
  BY <1>6, SessionTakes, TakesKeeps
<1>7. CASE UNCHANGED vars
  <2>1. /\ source' = source /\ approval' = approval /\ capture' = capture /\ candidate' = candidate
        /\ bundle' = bundle /\ export' = export /\ begin' = begin /\ writes' = writes /\ moments' = moments
        /\ evidence' = evidence /\ lock' = lock /\ session' = session /\ spoiled' = spoiled /\ stops' = stops
    BY <1>7 DEF vars
  <2>2. TypeOK'
    BY <2>1 DEF CaptureKept, TypeOK
  <2>3. ExportInvariant' /\ BeginInvariant' /\ CaptureInvariant' /\ SessionInvariant' /\ EvidenceInvariant'
    BY <2>1 DEF CaptureKept, ExportInvariant, BeginInvariant, CaptureInvariant, SessionInvariant, EvidenceInvariant
  <2>4. QED
    BY <2>2, <2>3 DEF CaptureKept
<1>8. QED
  BY <1>1, <1>2, <1>3, <1>4, <1>5, <1>6, <1>7 DEF Next

-----------------------------------------------------------------------------
(* The theorems                                                            *)

(* The invariant holds in every state: of the exporter and the begin at    *)
(* work, of the capture, of what every finalizing session has read and put *)
(* in place, and of the evidence.                                          *)
THEOREM CaptureKeepsInvariant == Spec => []CaptureKept
<1>1. QED
  BY KeptInit, KeptStep, PTL DEF Spec

(* Every variable has its type; a candidate has only contents somebody     *)
(* wrote into it.                                                          *)
THEOREM CaptureTyped == Spec => []TypeOK
<1>1. CaptureKept => TypeOK
  BY DEF CaptureKept
<1>2. QED
  BY <1>1, CaptureKeepsInvariant, PTL

(* A published result, its marker and the retained tree tell the same      *)
(* story, whichever attempts of whichever sessions wrote them              *)
(* (harness-adapter.mjs 1016-1024).                                        *)
THEOREM EvidenceAlwaysAgrees == Spec => []EvidenceAgrees
<1>1. CaptureKept => EvidenceAgrees
  BY DEF CaptureKept, EvidenceInvariant, Evident, EvidenceAgrees, Published
<1>2. QED
  BY <1>1, CaptureKeepsInvariant, PTL

(* What is retained of a candidate is a tree the candidate had at one      *)
(* moment, although it is read twice, file by file, and the harness may    *)
(* write between any two reads (harness-adapter.mjs 923-927).              *)
THEOREM RetainedOfOneMoment == Spec => []RetainedOneMoment
<1>1. CaptureKept => RetainedOneMoment
  BY DEF CaptureKept, EvidenceInvariant, Evident, RetainedOneMoment
<1>2. QED
  BY <1>1, CaptureKeepsInvariant, PTL

(* Published evidence is of work that started from the bytes of the bundle *)
(* and the text its approval binds, although exporter, begin and           *)
(* finalization each read a project that the operator edits meanwhile.     *)
THEOREM AlwaysStartedFromBundle == Spec => []StartedFromBundle
<1>1. CaptureKept => StartedFromBundle
  BY DEF CaptureKept, EvidenceInvariant, Evident, AsExported, StartedFromBundle, Published
<1>2. QED
  BY <1>1, CaptureKeepsInvariant, PTL

(* Between finalization.lock and its removal no second session reads the   *)
(* candidate or writes a part of the evidence, although a session that     *)
(* died leaves the lock behind (harness-adapter.mjs 658-673, 872).         *)
OneFinalizer ==
  \A s, t \in Sessions :
    session[s].pc \notin {"idle", "lock"} /\ session[t].pc \notin {"idle", "lock"} => s = t

(* Every session past the lock file is its holder.                         *)
THEOREM FinalizersExclude == Spec => []OneFinalizer
<1>1. CaptureKept => OneFinalizer
  BY DEF CaptureKept, SessionInvariant, Finalizes, OneFinalizer
<1>2. QED
  BY <1>1, CaptureKeepsInvariant, PTL

(* Once result.json is there, whole or in part, nobody changes any part of *)
(* the evidence, not even a session that had loaded the capture before.    *)
ResultFinal == evidence.result # None => evidence' = evidence

(* No session that may still write comes past a published result.          *)
THEOREM ResultStands == Spec => [][ResultFinal]_vars
<1>1. CaptureKept /\ [Next]_vars => ResultFinal
  <2> SUFFICES ASSUME CaptureKept, [Next]_vars, evidence' # evidence PROVE evidence.result = None
    BY DEF ResultFinal
  <2>1. ASSUME NEW s \in Sessions,
               \/ CommitAfter(s) \/ CommitSnapshot(s) \/ CommitMarker(s) \/ PublishResult(s)
               \/ BreakMarker(s) \/ BreakResult(s)
        PROVE  evidence.result = None
    <3>1. session[s].pc \in Kept
      BY <2>1 DEF CommitAfter, CommitSnapshot, CommitMarker, Commits, PublishResult,
                     BreakMarker, BreakResult, Breaks, At, Kept
    <3>2. QED
      BY <3>1 DEF CaptureKept, SessionInvariant, Finalizes, Kept
  <2>2. ASSUME NEW s \in Sessions,
               (\E completed \in BOOLEAN : Load(s, completed)) \/ AcquireLock(s) \/ CheckPacket(s)
               \/ CheckSemantics(s) \/ CheckSource(s) \/ See(s) \/ Keep(s) \/ Compare(s) \/ Fails(s) \/ Dies(s)
        PROVE  FALSE
    BY <2>2 DEF Load, AcquireLock, CheckPacket, CheckSemantics, CheckSource, Checks, See, Keep, Reads,
                Compare, Fails, Dies
  <2>3. ~(ExportRead \/ ExportSnapshot \/ ExportWrite \/ ExportStops)
    BY DEF ExportRead, ExportSnapshot, ExportWrite, ExportStops, finalized
  <2>4. ~(BeginRead \/ BeginPacket \/ BeginSemantics \/ BeginCopy \/ BeginRecord \/ BeginStops)
    BY DEF BeginRead, BeginPacket, BeginSemantics, BeginCopy, BeginRecord, BeginStops, finalized
  <2>5. /\ ~Approve /\ ~\E f \in Files : Edit(f) \/ Write(f)
        /\ ~\E thing \in Things : Spoil(thing)
        /\ ~UNCHANGED vars
    BY DEF Approve, Edit, Write, Spoil, finalized, vars
  <2>6. QED
    BY <2>1, <2>2, <2>3, <2>4, <2>5 DEF Next, Works
<1>2. QED
  BY <1>1, CaptureKeepsInvariant, PTL DEF Spec
=============================================================================
