----------------------- MODULE SliceTestReviewProofs -----------------------
(* What holds of the slice test review for every set of slices and         *)
(* policies and whatever the bounds: the ledger of a slice can be read     *)
(* back, no worker is overtaken, no policy's limit is exceeded, a pending  *)
(* operator revision can be published, and what is applied was vetted.     *)
EXTENDS SliceTestReview, FiniteSetTheorems, WellFoundedInduction, TLAPS

-----------------------------------------------------------------------------
(* The inductive invariant                                                 *)

(* The places of a slice's events in a ledger, the last of them, those     *)
(* before a place, the last assessment before it.                          *)
Pos(s, L)        == {i \in DOMAIN L : L[i].slice = s}
Final(s, L)      == LastOf(Pos(s, L))
Earlier(s, L, n) == {j \in Pos(s, L) : j < n}
Assessed(s, L, n) == {j \in Pos(s, L) : j < n /\ L[j].type \in Completions}
Parent(s, L, n)  == LastOf(Assessed(s, L, n))

(* A revision failed before the place.                                     *)
Failed(s, L, n) == \E i \in Earlier(s, L, n) : L[i].type = "revision-candidate" /\ L[i].route = "escalation"

(* A check or a review refers to the last assessment, unless a revision    *)
(* failed before it.                                                       *)
OfAssessment(e, L, n) ==
  \/ Failed(e.slice, L, n)
  \/ /\ Parent(e.slice, L, n) # 0
     /\ e.assessment = Parent(e.slice, L, n)
     /\ e.envelope = L[Parent(e.slice, L, n)].envelope

(* Event e may stand at place n after event p of its slice.                *)
Spends(e, p) == e.type = "revision-dispatched" \/ (e.type = "assessment-started" /\ p.route = "revision")
Linked(e, p, L, n) ==
  /\ e.prev = p.sequence
  /\ e.revision = p.revision + (IF Spends(e, p) THEN 1 ELSE 0)
  /\ e.type = "assessment-started" => p.route \in {"revision", "assessment-required"}
  /\ e.type # "assessment-started" => e.policy = p.policy /\ e.envelope = p.envelope
  /\ e.type \in Completions => p.type = "assessment-started" /\ e.assessment = p.sequence
  /\ e.type = "operator-revision" =>
       /\ p.type = "strong-review" /\ p.route = "operator-acceptance"
       /\ e.route = BudgetRoute(e) /\ e.fromProject /\ e.assessment = p.assessment
  /\ e.type = "revision-dispatched" => p.route = "revision" /\ e.route = "dispatch-pending"
  /\ e.type = "revision-candidate" =>
       p.type = "revision-dispatched" /\ e.route \in {"assessment-required", "escalation"}
  /\ e.type \in {"independent-checks", "strong-review"} =>
       p.route \in {"independent-review", "escalation"}
  /\ e.type \in {"independent-checks", "strong-review", "operator-revision"} => OfAssessment(e, L, n)
  /\ e.type = "strong-review" =>
       IF e.verdict = "accepted"
       THEN p.type = "independent-checks" /\ p.checks = "passed" /\ e.route = "operator-acceptance"
       ELSE e.route = BudgetRoute(e)

(* The event at place n is within its policy's limit; it begins the slice  *)
(* or stands after the one before it.                                      *)
Fits(e, L, n) ==
  LET before == Earlier(e.slice, L, n)
  IN  /\ e.sequence = n
      /\ e.type = "assessment-started" => e.route = "assessment-pending"
      /\ e.revision <= e.policy.limit
      /\ before = {} => e.type = "assessment-started" /\ e.revision = 0 /\ e.prev = 0
      /\ before # {} => Linked(e, L[LastOf(before)], L, n)

(* Every event fits where it stands and has its record, the operator       *)
(* revision excepted that is being published.  The dispatches up to an     *)
(* event are no more than its revision.                                    *)
Dispatches(s, L, n) == {j \in Pos(s, L) : j <= n /\ L[j].type = "revision-dispatched"}
Chained(s, L, R, pending) ==
  \A i \in Pos(s, L) :
    /\ Fits(L[i], L, i)
    /\ L[i] \in R \/ (pending # None /\ pending.event = L[i])
    /\ Cardinality(Dispatches(s, L, i)) <= L[i].revision
ChainInvariant == \A s \in Slices : Chained(s, ledger, records, intent[s])

(* A pending operator revision follows an accepted strong review, which is *)
(* the slice's last event until the revision is published.                 *)
Standing(e, L) == e.sequence \in DOMAIN L /\ L[e.sequence] = e
Pending(s, e, L) ==
  /\ e.slice = s /\ e.type = "operator-revision" /\ e.prev \in Pos(s, L)
  /\ LET p == L[e.prev]
     IN  /\ p.type = "strong-review" /\ p.route = "operator-acceptance"
         /\ e.policy = p.policy /\ e.envelope = p.envelope /\ e.revision = p.revision
         /\ e.assessment = p.assessment /\ e.route = BudgetRoute(e) /\ e.fromProject
  /\ Standing(e, L) \/ Final(s, L) = e.prev
IntentInvariant == \A s \in Slices : intent[s] # None => Pending(s, intent[s].event, ledger)

(* A worker's dispatch is the last event of its slice.                     *)
Dispatched(s, job, L) ==
  /\ job.dispatched = Final(s, L) /\ Final(s, L) \in Pos(s, L)
  /\ L[Final(s, L)].type = "revision-dispatched" /\ L[Final(s, L)].route = "dispatch-pending"
WorkInvariant == \A s \in Slices : working[s] # None => Dispatched(s, working[s], ledger)

(* What the holder of workflow.lock is about to write still fits, since    *)
(* nobody else writes an event.                                            *)
Holds(h, L, R, pending, job) ==
  LET s == h.slice
      e == h.event
  IN  /\ e.slice = s
      /\ h.stage = "append" =>
           /\ e \in R /\ Fits(e, L, Len(L) + 1) /\ e.type # "operator-revision"
           /\ e.type = "revision-candidate" => job = None
      /\ h.stage \in {"provider", "checking"} =>
           /\ Final(s, L) \in Pos(s, L) /\ e = L[Final(s, L)]
           /\ h.stage = "provider" => e.type = "assessment-started"
           /\ h.stage = "checking" => e.route \in {"independent-review", "escalation"}
      /\ h.stage \in {"publish", "link", "clear"} =>
           /\ pending # None /\ pending.event = e
           /\ h.stage = "publish" => e.sequence = Len(L) + 1 /\ Final(s, L) = e.prev
           /\ h.stage # "publish" => Standing(e, L)
           /\ h.stage = "clear" => e \in R
HeldInvariant == held # None => Holds(held, ledger, records, intent[held.slice], working[held.slice])

ReviewInvariant ==
  /\ TypeOK
  /\ ChainInvariant
  /\ IntentInvariant
  /\ WorkInvariant
  /\ HeldInvariant

-----------------------------------------------------------------------------
(* Places in a ledger                                                      *)

(* A finite set of places that is not empty has a last one.                *)
LEMMA LastExists ==
  ASSUME NEW n \in Nat, NEW S, S \subseteq 1..n, S # {}
  PROVE  \E m \in S : \A k \in S : k <= m
<1> DEFINE Above(x) == {k \in 1..n : k > x}
           T == {Above(x) : x \in S}
           R == StrictSubsetOrdering(1..n)
<1>1. IsWellFoundedOn(R, FiniteSubsetsOf(1..n))
  BY FS_StrictSubsetOrderingWellFounded
<1>2. T \subseteq FiniteSubsetsOf(1..n)
  <2>1. IsFiniteSet(1..n)
    BY FS_Interval
  <2>2. FiniteSubsetsOf(1..n) = SUBSET (1..n)
    BY <2>1, FS_FiniteSubsetsOfFinite
  <2>3. QED
    BY <2>2
<1>3. T # {}
  OBVIOUS
<1>4. PICK U \in T : \A V \in T : ~(<<V, U>> \in R)
  BY <1>1, <1>2, <1>3, WFMin
<1>5. PICK m \in S : U = Above(m)
  BY <1>4
<1>6. ASSUME NEW k \in S PROVE k <= m
  <2>1. SUFFICES ASSUME k > m PROVE FALSE
    OBVIOUS
  <2>2. Above(k) \subseteq Above(m) /\ m \notin Above(m) /\ k \in Above(m) /\ k \notin Above(k)
    BY <2>1
  <2>3. <<Above(k), Above(m)>> \in R
    BY <2>2 DEF StrictSubsetOrdering
  <2>4. QED
    BY <1>4, <1>5, <2>3
<1>7. QED
  BY <1>6

(* LastOf is 0 for no places, else one of them.                            *)
LEMMA LastOfFacts ==
  ASSUME NEW n \in Nat, NEW S, S \subseteq 1..n
  PROVE  /\ S = {} => LastOf(S) = 0
         /\ S # {} => LastOf(S) \in S
         /\ LastOf(S) \in Nat
         /\ \A j \in S : j <= LastOf(S)
<1>1. \E i \in S \cup {0} : \A j \in S : j <= i
  <2>1. CASE S = {}
    BY <2>1
  <2>2. CASE S # {}
    BY <2>2, LastExists
  <2>3. QED
    BY <2>1, <2>2
<1>2. LastOf(S) \in S \cup {0} /\ \A j \in S : j <= LastOf(S)
  BY <1>1 DEF LastOf
<1>3. LastOf(S) \in Nat /\ S \subseteq Nat \ {0}
  <2>1. S \subseteq Nat \ {0}
    OBVIOUS
  <2>2. LastOf(S) \in Nat
    <3>1. CASE LastOf(S) = 0
      BY <3>1
    <3>2. CASE LastOf(S) \in S
      BY <2>1, <3>2
    <3>3. QED
      BY <1>2, <3>1, <3>2
  <2>3. QED
    BY <2>1, <2>2
<1>4. ASSUME S # {} PROVE LastOf(S) # 0
  <2>1. PICK j \in S : j <= LastOf(S)
    BY <1>2, <1>4
  <2>2. QED
    BY <1>3, <2>1
<1>5. QED
  BY <1>2, <1>3, <1>4

(* A place that no other of them follows is the last.                      *)
LEMMA LastOfIs ==
  ASSUME NEW n \in Nat, NEW S, S \subseteq 1..n, NEW m \in S, \A j \in S : j <= m
  PROVE  LastOf(S) = m
<1>1. LastOf(S) \in S /\ m <= LastOf(S)
  BY LastOfFacts
<1>2. LastOf(S) <= m /\ LastOf(S) \in Nat /\ m \in Nat
  <2>1. S \subseteq Nat
    OBVIOUS
  <2>2. QED
    BY <1>1, <2>1
<1>3. QED
  BY <1>1, <1>2

(* The places of a slice are places of the ledger.                         *)
LEMMA PlacesFacts ==
  ASSUME NEW L \in Seq(Events), NEW s
  PROVE  /\ Len(L) \in Nat /\ DOMAIN L = 1..Len(L)
         /\ Pos(s, L) \subseteq 1..Len(L)
         /\ \A n : Earlier(s, L, n) \subseteq 1..Len(L) /\ Assessed(s, L, n) \subseteq 1..Len(L)
         /\ \A i \in 1..Len(L) : L[i] \in Events
  BY DEF Pos, Earlier, Assessed

LEMMA FinalFacts ==
  ASSUME NEW L \in Seq(Events), NEW s
  PROVE  /\ Pos(s, L) = {} => Final(s, L) = 0
         /\ Pos(s, L) # {} => Final(s, L) \in Pos(s, L)
         /\ Final(s, L) \in 0..Len(L)
         /\ \A j \in Pos(s, L) : j <= Final(s, L)
<1>1. Len(L) \in Nat /\ Pos(s, L) \subseteq 1..Len(L)
  BY PlacesFacts
<1>2. /\ Pos(s, L) = {} => Final(s, L) = 0
      /\ Pos(s, L) # {} => Final(s, L) \in Pos(s, L)
      /\ \A j \in Pos(s, L) : j <= Final(s, L)
  BY <1>1, LastOfFacts DEF Final
<1>3. QED
  BY <1>1, <1>2

(* What the model calls the last event of a slice.                         *)
LEMMA LastFacts ==
  ASSUME TypeOK, NEW s \in Slices
  PROVE  /\ Positions(s) = Pos(s, ledger) /\ Last(s) = Final(s, ledger)
         /\ Last(s) # 0 => /\ Last(s) \in Pos(s, ledger) /\ LastEvent(s) = ledger[Last(s)]
                           /\ LastEvent(s) \in Events /\ LastEvent(s).slice = s
                           /\ LastRoute(s) = LastEvent(s).route
<1>1. Positions(s) = Pos(s, ledger) /\ Last(s) = Final(s, ledger)
  BY DEF Positions, Pos, Last, Final
<1>2. ledger \in Seq(Events)
  BY DEF TypeOK
<1>3. ASSUME Last(s) # 0 PROVE Last(s) \in Pos(s, ledger)
  BY <1>1, <1>2, <1>3, FinalFacts
<1>4. ASSUME Last(s) \in Pos(s, ledger)
      PROVE  LastEvent(s) = ledger[Last(s)] /\ LastEvent(s) \in Events /\ LastEvent(s).slice = s
  BY <1>2, <1>4, PlacesFacts DEF LastEvent, Pos
<1>5. QED
  BY <1>1, <1>3, <1>4 DEF LastRoute

(* Everything a slice has stands before the next place.                    *)
LEMMA NextPlace ==
  ASSUME NEW L \in Seq(Events), NEW s
  PROVE  /\ Earlier(s, L, Len(L) + 1) = Pos(s, L)
         /\ LastOf(Earlier(s, L, Len(L) + 1)) = Final(s, L)
<1>1. Len(L) \in Nat /\ Pos(s, L) \subseteq 1..Len(L)
  BY PlacesFacts
<1>2. Earlier(s, L, Len(L) + 1) = Pos(s, L)
  BY <1>1 DEF Earlier
<1>3. QED
  BY <1>2 DEF Final

(* An event at its end leaves what a ledger holds where it was.            *)
LEMMA AppendFacts ==
  ASSUME NEW L \in Seq(Events), NEW e \in Events, NEW s
  PROVE  LET M == Append(L, e)
         IN  /\ M \in Seq(Events) /\ Len(M) = Len(L) + 1 /\ M[Len(L) + 1] = e
             /\ DOMAIN M = 1..Len(L) + 1
             /\ \A i \in 1..Len(L) : M[i] = L[i]
             /\ Pos(s, M) = IF e.slice = s THEN Pos(s, L) \cup {Len(L) + 1} ELSE Pos(s, L)
<1> DEFINE M == Append(L, e)
<1>1. /\ M \in Seq(Events) /\ Len(M) = Len(L) + 1 /\ M[Len(L) + 1] = e /\ DOMAIN M = 1..Len(L) + 1
      /\ \A i \in 1..Len(L) : M[i] = L[i]
      /\ Len(L) \in Nat /\ DOMAIN L = 1..Len(L)
  OBVIOUS
<1> HIDE DEF M
<1>2. Pos(s, M) = IF e.slice = s THEN Pos(s, L) \cup {Len(L) + 1} ELSE Pos(s, L)
  BY <1>1 DEF Pos
<1>3. QED
  BY <1>1, <1>2 DEF M

(* What stands before a place does not change.                             *)
LEMMA AppendPlaces ==
  ASSUME NEW L \in Seq(Events), NEW e \in Events, NEW s, NEW n \in 1..Len(L) + 1
  PROVE  LET M == Append(L, e)
         IN  /\ Earlier(s, M, n) = Earlier(s, L, n)
             /\ Parent(s, M, n) = Parent(s, L, n)
             /\ Failed(s, M, n) = Failed(s, L, n)
<1> DEFINE M == Append(L, e)
<1>1. /\ Pos(s, M) = IF e.slice = s THEN Pos(s, L) \cup {Len(L) + 1} ELSE Pos(s, L)
      /\ \A i \in 1..Len(L) : M[i] = L[i]
  BY AppendFacts
<1>2. Len(L) \in Nat /\ Pos(s, L) \subseteq 1..Len(L)
  BY PlacesFacts
<1> HIDE DEF M
<1>3. \A j \in Pos(s, L) : M[j] = L[j]
  BY <1>1, <1>2
<1>4. Earlier(s, M, n) = Earlier(s, L, n)
  BY <1>1, <1>2 DEF Earlier
<1>5. \A j \in Earlier(s, L, n) : M[j] = L[j]
  BY <1>3 DEF Earlier
<1>6. Assessed(s, M, n) = Assessed(s, L, n)
  <2>1. Assessed(s, M, n) = {j \in Earlier(s, M, n) : M[j].type \in Completions}
    BY DEF Assessed, Earlier
  <2>2. Assessed(s, L, n) = {j \in Earlier(s, L, n) : L[j].type \in Completions}
    BY DEF Assessed, Earlier
  <2>3. QED
    BY <1>4, <1>5, <2>1, <2>2
<1>7. Parent(s, M, n) = Parent(s, L, n)
  BY <1>6 DEF Parent
<1>8. Failed(s, M, n) = Failed(s, L, n)
  BY <1>4, <1>5 DEF Failed
<1>9. QED
  BY <1>4, <1>7, <1>8 DEF M

-----------------------------------------------------------------------------
(* What fits where                                                         *)

(* An event fits at a place whatever is added later.                       *)
LEMMA FitsLater ==
  ASSUME NEW L \in Seq(Events), NEW e \in Events, NEW f \in Events, NEW n \in 1..Len(L) + 1,
         Fits(f, L, n)
  PROVE  Fits(f, Append(L, e), n)
<1> DEFINE M == Append(L, e)
           before == Earlier(f.slice, L, n)
<1>1. /\ \A i \in 1..Len(L) : M[i] = L[i]
      /\ Earlier(f.slice, M, n) = before
      /\ Parent(f.slice, M, n) = Parent(f.slice, L, n)
      /\ Failed(f.slice, M, n) = Failed(f.slice, L, n)
  BY AppendFacts, AppendPlaces
<1> HIDE DEF M
<1>2. before # {} => LastOf(before) \in 1..Len(L)
  BY PlacesFacts, LastOfFacts
<1>3. Parent(f.slice, L, n) # 0 => Parent(f.slice, L, n) \in 1..Len(L)
  <2>1. Len(L) \in Nat /\ Assessed(f.slice, L, n) \subseteq 1..Len(L)
    BY PlacesFacts
  <2>2. QED
    BY <2>1, LastOfFacts DEF Parent
<1>4. OfAssessment(f, L, n) => OfAssessment(f, M, n)
  BY <1>1, <1>3 DEF OfAssessment
<1> HIDE DEF before
<1>5. before # {} => M[LastOf(before)] = L[LastOf(before)]
  BY <1>1, <1>2
<1>6. before # {} => Linked(f, M[LastOf(before)], M, n)
  <2>1. SUFFICES ASSUME before # {} PROVE Linked(f, L[LastOf(before)], M, n)
    BY <1>5
  <2>2. Linked(f, L[LastOf(before)], L, n)
    BY <2>1 DEF Fits, before
  <2> DEFINE q == L[LastOf(before)]
  <2> HIDE DEF q
  <2>3. Linked(f, q, L, n) => Linked(f, q, M, n)
    BY <1>4 DEF Linked
  <2>4. QED
    BY <2>2, <2>3 DEF q
<1>7. Fits(f, M, n)
  BY <1>1, <1>6 DEF Fits, before
<1>8. QED
  BY <1>7 DEF M

(* The event that begins a slice, and one after the last event of its      *)
(* slice.                                                                  *)
LEMMA FirstFits ==
  ASSUME NEW L \in Seq(Events), NEW e \in Events, Pos(e.slice, L) = {},
         e.sequence = Len(L) + 1, e.type = "assessment-started", e.route = "assessment-pending",
         e.revision = 0, e.prev = 0
  PROVE  Fits(e, L, Len(L) + 1)
<1>1. Earlier(e.slice, L, Len(L) + 1) = {}
  BY NextPlace
<1>2. 0 <= e.policy.limit
  BY DEF Events, PolicyType
<1>3. QED
  BY <1>1, <1>2 DEF Fits

LEMMA NextFits ==
  ASSUME NEW L \in Seq(Events), NEW e \in Events, Final(e.slice, L) \in Pos(e.slice, L),
         e.sequence = Len(L) + 1, e.type = "assessment-started" => e.route = "assessment-pending",
         e.revision <= e.policy.limit, Linked(e, L[Final(e.slice, L)], L, Len(L) + 1)
  PROVE  Fits(e, L, Len(L) + 1)
<1>1. /\ Earlier(e.slice, L, Len(L) + 1) # {}
      /\ LastOf(Earlier(e.slice, L, Len(L) + 1)) = Final(e.slice, L)
  BY NextPlace
<1>2. QED
  BY <1>1 DEF Fits

(* An event that does not begin its slice is linked to the one before it.  *)
LEMMA FitsLinked ==
  ASSUME NEW L \in Seq(Events), NEW e \in Events, NEW n, Fits(e, L, n), e.type # "assessment-started"
  PROVE  \E q \in Pos(e.slice, L) : q < n /\ Linked(e, L[q], L, n)
<1>1. Earlier(e.slice, L, n) # {} /\ Linked(e, L[LastOf(Earlier(e.slice, L, n))], L, n)
  BY DEF Fits
<1>2. Len(L) \in Nat /\ Earlier(e.slice, L, n) \subseteq 1..Len(L)
  BY PlacesFacts
<1>3. LastOf(Earlier(e.slice, L, n)) \in Earlier(e.slice, L, n)
  BY <1>1, <1>2, LastOfFacts
<1>4. QED
  BY <1>1, <1>3 DEF Earlier

(* What waits for checks or a review is an assessment, what was made of    *)
(* one, or a failed revision.                                              *)
Judged == Completions \cup {"independent-checks", "strong-review", "operator-revision"}

LEMMA AwaitingType ==
  ASSUME NEW L \in Seq(Events), NEW e \in Events, NEW n, Fits(e, L, n),
         e.route \in {"independent-review", "escalation"}
  PROVE  e.type \in Judged \/ (e.type = "revision-candidate" /\ e.route = "escalation")
<1>1. e.type # "assessment-started"
  BY DEF Fits
<1>2. PICK q \in Pos(e.slice, L) : q < n /\ Linked(e, L[q], L, n)
  BY <1>1, FitsLinked
<1>3. e.type # "revision-dispatched"
  BY <1>2 DEF Linked
<1>4. e.type \in Types
  BY DEF Events
<1>5. ASSUME e.type = "revision-candidate" PROVE e.route = "escalation"
  <2>1. e.route # "independent-review"
    BY <1>2, <1>5 DEF Linked
  <2>2. QED
    BY <2>1
<1>6. QED
  BY <1>1, <1>3, <1>4, <1>5 DEF Types, Judged, Completions

(* What is made of the last event of a slice is of the assessment that     *)
(* event is of, or is.                                                     *)
LEMMA Inherits ==
  ASSUME NEW L \in Seq(Events), NEW s, Final(s, L) \in Pos(s, L),
         NEW p \in Events, p = L[Final(s, L)], Fits(p, L, Final(s, L)),
         p.type \in Judged \/ (p.type = "revision-candidate" /\ p.route = "escalation"),
         NEW e \in Events, e.slice = s, e.envelope = p.envelope,
         e.assessment = IF p.type \in Completions THEN p.sequence ELSE p.assessment
  PROVE  OfAssessment(e, L, Len(L) + 1)
<1> DEFINE k == Final(s, L)
<1>1. /\ Len(L) \in Nat /\ Pos(s, L) \subseteq 1..Len(L) /\ k \in 1..Len(L)
      /\ \A j \in Pos(s, L) : j <= k
      /\ Assessed(s, L, Len(L) + 1) \subseteq 1..Len(L)
  BY PlacesFacts, FinalFacts
<1>2. p.slice = s
  BY DEF Pos
<1> HIDE DEF k
<1>3. k \in Pos(s, L) /\ p = L[k] /\ Fits(p, L, k)
  BY DEF k
<1>4. CASE p.type \in Completions
  <2>1. k \in Assessed(s, L, Len(L) + 1) /\ \A j \in Assessed(s, L, Len(L) + 1) : j <= k
    BY <1>1, <1>3, <1>4 DEF Assessed
  <2>2. Parent(s, L, Len(L) + 1) = k
    BY <1>1, <2>1, LastOfIs DEF Parent
  <2>3. p.sequence = k
    BY <1>3 DEF Fits
  <2>4. QED
    BY <1>1, <1>3, <1>4, <2>2, <2>3 DEF OfAssessment
<1>5. CASE p.type = "revision-candidate" /\ p.route = "escalation"
  <2>1. k \in Earlier(s, L, Len(L) + 1)
    BY <1>1, <1>3 DEF Earlier
  <2>2. QED
    BY <1>3, <1>5, <2>1 DEF OfAssessment, Failed
<1>6. CASE p.type \in {"independent-checks", "strong-review", "operator-revision"}
  <2>1. PICK q \in Pos(s, L) : Linked(p, L[q], L, k)
    BY <1>2, <1>3, <1>6, FitsLinked
  <2>2. OfAssessment(p, L, k)
    BY <1>6, <2>1 DEF Linked
  <2>3. Assessed(s, L, Len(L) + 1) = Assessed(s, L, k)
    <3>1. ASSUME NEW j \in Assessed(s, L, Len(L) + 1) PROVE j \in Assessed(s, L, k)
      <4>1. j \in Pos(s, L) /\ L[j].type \in Completions /\ j <= k
        BY <1>1 DEF Assessed
      <4>2. j # k
        BY <1>3, <1>6, <4>1 DEF Completions
      <4>3. QED
        BY <1>1, <4>1, <4>2 DEF Assessed
    <3>2. ASSUME NEW j \in Assessed(s, L, k) PROVE j \in Assessed(s, L, Len(L) + 1)
      BY <1>1 DEF Assessed
    <3>3. QED
      BY <3>1, <3>2
  <2>4. Parent(s, L, Len(L) + 1) = Parent(s, L, k)
    BY <2>3 DEF Parent
  <2>5. Failed(s, L, k) => Failed(s, L, Len(L) + 1)
    BY <1>1 DEF Failed, Earlier
  <2>6. e.assessment = p.assessment
    BY <1>6 DEF Completions
  <2>7. QED
    BY <1>2, <2>2, <2>4, <2>5, <2>6 DEF OfAssessment
<1>7. QED
  BY <1>4, <1>5, <1>6 DEF Judged

-----------------------------------------------------------------------------
(* The chain of a slice                                                    *)

(* It is kept by new records, and whatever becomes of an intent that is    *)
(* recorded.                                                               *)
LEMMA ChainedMore ==
  ASSUME NEW s, NEW L, NEW R, NEW S, R \subseteq S, NEW pending, Chained(s, L, R, pending)
  PROVE  Chained(s, L, S, pending)
  BY DEF Chained

(* The last event of a slice is numbered by its place, within its limit.   *)
LEMMA ChainedFinal ==
  ASSUME NEW L \in Seq(Events), NEW s, NEW R, NEW pending, Chained(s, L, R, pending),
         NEW i \in Pos(s, L)
  PROVE  /\ L[i] \in Events /\ L[i].slice = s /\ L[i].sequence = i /\ Fits(L[i], L, i)
         /\ L[i].revision <= L[i].policy.limit
         /\ Cardinality(Dispatches(s, L, i)) <= L[i].revision
<1>1. L[i] \in Events /\ L[i].slice = s
  BY PlacesFacts DEF Pos
<1>2. QED
  BY <1>1 DEF Chained, Fits

LEMMA DispatchesFinite ==
  ASSUME NEW L \in Seq(Events), NEW s, NEW n
  PROVE  IsFiniteSet(Dispatches(s, L, n)) /\ Cardinality(Dispatches(s, L, n)) \in Nat
<1>1. Len(L) \in Nat /\ Dispatches(s, L, n) \subseteq 1..Len(L)
  BY PlacesFacts DEF Dispatches
<1>2. IsFiniteSet(1..Len(L))
  BY <1>1, FS_Interval
<1>3. QED
  BY <1>1, <1>2, FS_Subset, FS_CardinalityType

(* A new event adds itself to the dispatches of its slice, if it is one.   *)
LEMMA AppendDispatches ==
  ASSUME NEW L \in Seq(Events), NEW e \in Events, NEW s
  PROVE  /\ \A n \in 1..Len(L) : Dispatches(s, Append(L, e), n) = Dispatches(s, L, n)
         /\ e.slice = s => Dispatches(s, Append(L, e), Len(L) + 1) =
              Dispatches(s, L, Final(s, L)) \cup (IF e.type = "revision-dispatched" THEN {Len(L) + 1} ELSE {})
<1> DEFINE M == Append(L, e)
<1>1. /\ Len(L) \in Nat /\ Pos(s, L) \subseteq 1..Len(L)
      /\ \A j \in Pos(s, L) : j <= Final(s, L)
  BY PlacesFacts, FinalFacts
<1>2. /\ \A i \in 1..Len(L) : M[i] = L[i]
      /\ M[Len(L) + 1] = e
      /\ Pos(s, M) = IF e.slice = s THEN Pos(s, L) \cup {Len(L) + 1} ELSE Pos(s, L)
  BY <1>1, AppendFacts
<1> HIDE DEF M
<1>3. ASSUME NEW n \in 1..Len(L) PROVE Dispatches(s, M, n) = Dispatches(s, L, n)
  BY <1>1, <1>2 DEF Dispatches
<1>4. ASSUME e.slice = s
      PROVE  Dispatches(s, M, Len(L) + 1) =
               Dispatches(s, L, Final(s, L)) \cup (IF e.type = "revision-dispatched" THEN {Len(L) + 1} ELSE {})
  BY <1>1, <1>2, <1>4 DEF Dispatches
<1>5. QED
  BY <1>3, <1>4 DEF M

(* One more event leaves the chain of its slice a chain, and the others.   *)
LEMMA ChainedAppend ==
  ASSUME NEW L \in Seq(Events), NEW e \in Events, Fits(e, L, Len(L) + 1),
         NEW s, NEW R, NEW pending, Chained(s, L, R, pending),
         e.slice = s => e \in R \/ (pending # None /\ pending.event = e)
  PROVE  Chained(s, Append(L, e), R, pending)
<1> DEFINE M == Append(L, e)
           N == Len(L) + 1
<1>1. /\ Len(L) \in Nat /\ Pos(s, L) \subseteq 1..Len(L)
      /\ \A i \in 1..Len(L) : L[i] \in Events
  BY PlacesFacts
<1>2. /\ \A i \in 1..Len(L) : M[i] = L[i]
      /\ M[N] = e
      /\ Pos(s, M) = IF e.slice = s THEN Pos(s, L) \cup {N} ELSE Pos(s, L)
  BY <1>1, AppendFacts
<1>3. ASSUME NEW f \in Events, NEW n \in 1..Len(L) + 1, Fits(f, L, n) PROVE Fits(f, M, n)
  BY <1>3, FitsLater
<1>4. \A n \in 1..Len(L) : Dispatches(s, M, n) = Dispatches(s, L, n)
  BY AppendDispatches
<1>5. e.slice = s => Dispatches(s, M, N) =
        Dispatches(s, L, Final(s, L)) \cup (IF e.type = "revision-dispatched" THEN {N} ELSE {})
  BY AppendDispatches
<1> HIDE DEF M, N
<1>6. ASSUME NEW i \in Pos(s, L)
      PROVE  /\ Fits(M[i], M, i)
             /\ M[i] \in R \/ (pending # None /\ pending.event = M[i])
             /\ Cardinality(Dispatches(s, M, i)) <= M[i].revision
  <2>1. i \in 1..Len(L) /\ M[i] = L[i] /\ L[i] \in Events /\ Dispatches(s, M, i) = Dispatches(s, L, i)
    BY <1>1, <1>2, <1>4
  <2>2. /\ Fits(L[i], L, i) /\ (L[i] \in R \/ (pending # None /\ pending.event = L[i]))
        /\ Cardinality(Dispatches(s, L, i)) <= L[i].revision
    BY DEF Chained
  <2>3. i \in 1..Len(L) + 1
    BY <1>1, <2>1
  <2>4. Fits(L[i], M, i)
    BY <1>3, <2>1, <2>2, <2>3
  <2>5. QED
    BY <2>1, <2>2, <2>4
<1>7. ASSUME e.slice = s
      PROVE  /\ Fits(M[N], M, N)
             /\ M[N] \in R \/ (pending # None /\ pending.event = M[N])
             /\ Cardinality(Dispatches(s, M, N)) <= M[N].revision
  <2>1. Fits(e, M, N)
    BY <1>1, <1>3 DEF N
  <2> DEFINE D == Dispatches(s, L, Final(s, L))
  <2>2. IsFiniteSet(D) /\ Cardinality(D) \in Nat
    BY DispatchesFinite
  <2>3. Cardinality(Dispatches(s, M, N)) <= e.revision
    <3>1. CASE Pos(s, L) = {}
      <4>1. e.type = "assessment-started" /\ e.revision = 0
        BY <1>7, <3>1, NextPlace DEF Fits
      <4>2. Dispatches(s, M, N) = {}
        BY <1>5, <1>7, <3>1, <4>1 DEF Dispatches
      <4>3. QED
        BY <4>1, <4>2, FS_EmptySet
    <3>2. CASE Pos(s, L) # {}
      <4> DEFINE p == L[Final(s, L)]
      <4>1. Final(s, L) \in Pos(s, L)
        BY <3>2, FinalFacts
      <4>2. p \in Events /\ Cardinality(D) <= p.revision
        BY <4>1, ChainedFinal
      <4>3. Linked(e, p, L, N)
        BY <1>7, <3>2, NextPlace DEF Fits, N
      <4>4. p.revision \in Nat /\ e.revision = p.revision + (IF Spends(e, p) THEN 1 ELSE 0)
        BY <4>2, <4>3 DEF Linked, Events
      <4> HIDE DEF p, D
      <4>5. CASE e.type = "revision-dispatched"
        <5>1. e.revision = p.revision + 1
          BY <4>4, <4>5 DEF Spends
        <5>2. Dispatches(s, M, N) = D \cup {N}
          BY <1>5, <1>7, <4>5 DEF D
        <5>3. Cardinality(D \cup {N}) = IF N \in D THEN Cardinality(D) ELSE Cardinality(D) + 1
          BY <2>2, FS_AddElement
        <5>4. Cardinality(Dispatches(s, M, N)) \in {Cardinality(D), Cardinality(D) + 1}
          BY <5>2, <5>3
        <5>5. QED
          BY <2>2, <4>2, <4>4, <5>1, <5>4
      <4>6. CASE e.type # "revision-dispatched"
        <5>1. Dispatches(s, M, N) = D
          BY <1>5, <1>7, <4>6 DEF D
        <5>2. QED
          BY <2>2, <4>2, <4>4, <5>1
      <4>7. QED
        BY <4>5, <4>6
    <3>3. QED
      BY <3>1, <3>2
  <2>4. QED
    BY <1>2, <1>7, <2>1, <2>3
<1>8. Chained(s, M, R, pending)
  BY <1>2, <1>6, <1>7 DEF Chained
<1>9. QED
  BY <1>8 DEF M

(* The last place of each slice after a new event.                         *)
LEMMA AppendFinal ==
  ASSUME NEW L \in Seq(Events), NEW e \in Events, NEW s
  PROVE  Final(s, Append(L, e)) = IF e.slice = s THEN Len(L) + 1 ELSE Final(s, L)
<1> DEFINE M == Append(L, e)
<1>1. /\ Len(L) \in Nat /\ Pos(s, L) \subseteq 1..Len(L)
  BY PlacesFacts
<1>2. Pos(s, M) = IF e.slice = s THEN Pos(s, L) \cup {Len(L) + 1} ELSE Pos(s, L)
  BY <1>1, AppendFacts
<1> HIDE DEF M
<1>3. CASE e.slice = s
  <2>1. /\ Pos(s, M) \subseteq 1..Len(L) + 1 /\ Len(L) + 1 \in Pos(s, M)
        /\ \A j \in Pos(s, M) : j <= Len(L) + 1
    BY <1>1, <1>2, <1>3
  <2>2. LastOf(Pos(s, M)) = Len(L) + 1
    BY <1>1, <2>1, LastOfIs
  <2>3. QED
    BY <1>3, <2>2 DEF Final, M
<1>4. CASE e.slice # s
  BY <1>2, <1>4 DEF Final, M
<1>5. QED
  BY <1>3, <1>4

(* An intent stays pending and a dispatch stays the last event while other *)
(* events are added: nothing but the operator revision fits after the      *)
(* accepted review, nothing but the candidate after the dispatch.          *)
LEMMA PendingAppend ==
  ASSUME NEW L \in Seq(Events), NEW e \in Events, Fits(e, L, Len(L) + 1),
         NEW s, NEW f, Pending(s, f, L), e.type # "operator-revision"
  PROVE  Pending(s, f, Append(L, e))
<1> DEFINE M == Append(L, e)
<1>1. /\ Len(L) \in Nat /\ DOMAIN L = 1..Len(L) /\ Pos(s, L) \subseteq 1..Len(L)
      /\ f.prev \in Pos(s, L) /\ L[f.prev].type = "strong-review" /\ L[f.prev].route = "operator-acceptance"
  BY PlacesFacts DEF Pending
<1>2. /\ DOMAIN M = 1..Len(L) + 1 /\ \A i \in 1..Len(L) : M[i] = L[i]
      /\ Pos(s, M) = IF e.slice = s THEN Pos(s, L) \cup {Len(L) + 1} ELSE Pos(s, L)
  BY <1>1, AppendFacts
<1>3. Final(s, M) = IF e.slice = s THEN Len(L) + 1 ELSE Final(s, L)
  BY AppendFinal
<1>4. ASSUME Standing(f, L) PROVE Standing(f, M)
  BY <1>1, <1>2, <1>4 DEF Standing
<1>5. ASSUME Final(s, L) = f.prev PROVE e.slice # s
  <2>1. SUFFICES ASSUME e.slice = s PROVE FALSE
    OBVIOUS
  <2>2. Linked(e, L[f.prev], L, Len(L) + 1)
    BY <1>1, <1>5, <2>1, NextPlace DEF Fits
  <2>3. e.type \in Types
    BY DEF Events
  <2>4. QED
    BY <1>1, <2>2, <2>3 DEF Linked, Types, Completions
<1> HIDE DEF M
<1>6. M[f.prev] = L[f.prev] /\ f.prev \in Pos(s, M)
  BY <1>1, <1>2
<1>7. Standing(f, M) \/ Final(s, M) = f.prev
  BY <1>3, <1>4, <1>5 DEF Pending
<1>8. Pending(s, f, M)
  BY <1>6, <1>7 DEF Pending
<1>9. QED
  BY <1>8 DEF M

LEMMA DispatchedAppend ==
  ASSUME NEW L \in Seq(Events), NEW e \in Events, Fits(e, L, Len(L) + 1),
         NEW s, NEW job, Dispatched(s, job, L), e.slice = s => e.type # "revision-candidate"
  PROVE  Dispatched(s, job, Append(L, e))
<1> DEFINE M == Append(L, e)
           k == Final(s, L)
<1>1. /\ Len(L) \in Nat /\ DOMAIN L = 1..Len(L) /\ Pos(s, L) \subseteq 1..Len(L)
      /\ k \in Pos(s, L) /\ L[k].type = "revision-dispatched" /\ L[k].route = "dispatch-pending"
      /\ job.dispatched = k
  BY PlacesFacts DEF Dispatched
<1>2. /\ \A i \in 1..Len(L) : M[i] = L[i]
      /\ Pos(s, M) = IF e.slice = s THEN Pos(s, L) \cup {Len(L) + 1} ELSE Pos(s, L)
  BY <1>1, AppendFacts
<1>3. Final(s, M) = IF e.slice = s THEN Len(L) + 1 ELSE k
  BY AppendFinal
<1>4. e.slice # s
  <2>1. SUFFICES ASSUME e.slice = s PROVE FALSE
    OBVIOUS
  <2>2. Linked(e, L[k], L, Len(L) + 1)
    BY <1>1, <2>1, NextPlace DEF Fits
  <2>3. e.type \in Types
    BY DEF Events
  <2>4. QED
    BY <1>1, <2>1, <2>2, <2>3 DEF Linked, Types, Completions
<1> HIDE DEF M, k
<1>5. M[k] = L[k] /\ k \in Pos(s, M) /\ Final(s, M) = k
  BY <1>1, <1>2, <1>3, <1>4
<1>6. Dispatched(s, job, M)
  BY <1>1, <1>5 DEF Dispatched
<1>7. QED
  BY <1>6 DEF M

-----------------------------------------------------------------------------
(* The steps that write a record                                           *)

Jobs == [dispatched : Nat, start : Nat, approval : Nat]

(* The holder has recorded an event that fits at the end of the ledger.    *)
Writes(e) ==
  /\ e \in Events /\ Fits(e, ledger, Len(ledger) + 1) /\ e.type # "operator-revision"
  /\ records' = records \cup {e}
  /\ held' = [slice |-> e.slice, stage |-> "append", event |-> e, packet |-> approval[e.slice]]
  /\ ledger' = ledger /\ intent' = intent
  /\ working' \in [Slices -> Jobs \cup {None}]
  /\ \A s \in Slices : working'[s] \in {working[s], None}
  /\ e.type = "revision-candidate" => working'[e.slice] = None

LEMMA EventFields ==
  ASSUME NEW e \in Events
  PROVE  /\ e.slice \in Slices /\ e.sequence \in Nat /\ e.type \in Types /\ e.route \in Routes
         /\ e.revision \in Nat /\ e.prev \in Nat /\ e.envelope \in Envelopes /\ e.policy \in PolicyType
         /\ e.assessment \in Nat /\ e.candidate \in Nat /\ e.fromProject \in BOOLEAN
         /\ e.policy.limit \in Nat /\ e.policy.unavailable \in {"revision", "escalation", "unavailable"}
  BY DEF Events, PolicyType

LEMMA FollowFacts ==
  ASSUME TypeOK, NEW e \in Events, NEW type \in Types, NEW route \in Routes
  PROVE  LET f == Follow(e, type, route)
         IN  /\ f \in Events
             /\ f.slice = e.slice /\ f.sequence = Len(ledger) + 1 /\ f.type = type /\ f.route = route
             /\ f.revision = e.revision /\ f.prev = e.sequence /\ f.envelope = e.envelope
             /\ f.policy = e.policy /\ f.assessment = e.assessment /\ f.candidate = e.candidate
             /\ f.fromProject = e.fromProject
<1>1. Len(ledger) + 1 \in Nat /\ e.sequence \in Nat
  BY EventFields DEF TypeOK
<1> DEFINE n == Len(ledger) + 1
<1> HIDE DEF n
<1>2. Follow(e, type, route) =
        [e EXCEPT !.sequence = n, !.type = type, !.route = route, !.prev = e.sequence, !.verdict = "none"]
  BY DEF Follow, n
<1>3. n \in Nat
  BY <1>1 DEF n
<1> DEFINE f == [e EXCEPT !.sequence = n, !.type = type, !.route = route, !.prev = e.sequence,
                          !.verdict = "none"]
<1>4. /\ f \in Events
      /\ f.slice = e.slice /\ f.sequence = n /\ f.type = type /\ f.route = route
      /\ f.revision = e.revision /\ f.prev = e.sequence /\ f.envelope = e.envelope
      /\ f.policy = e.policy /\ f.assessment = e.assessment /\ f.candidate = e.candidate
      /\ f.fromProject = e.fromProject
  BY <1>1, <1>3 DEF Events
<1>5. QED
  BY <1>2, <1>4 DEF n

(* The routes that depend on the policy.                                   *)
LEMMA BudgetRoutes ==
  ASSUME NEW e \in Events
  PROVE  /\ BudgetRoute(e) \in {"revision", "escalation"}
         /\ UnavailableRoute(e) \in {"revision", "escalation", "unavailable"}
         /\ \A f : f.revision = e.revision /\ f.policy = e.policy => BudgetRoute(f) = BudgetRoute(e)
<1>1. BudgetRoute(e) \in {"revision", "escalation"}
  BY DEF BudgetRoute
<1>2. UnavailableRoute(e) \in {"revision", "escalation", "unavailable"}
  BY <1>1, EventFields DEF UnavailableRoute
<1>3. \A f : f.revision = e.revision /\ f.policy = e.policy => BudgetRoute(f) = BudgetRoute(e)
  BY DEF BudgetRoute, RevisionLeft
<1>4. QED
  BY <1>1, <1>2, <1>3

LEMMA WriteFacts ==
  ASSUME TypeOK, NEW e \in Events, WriteRecord(e), UNCHANGED <<ledger, intent, working>>,
         Fits(e, ledger, Len(ledger) + 1), e.type \notin {"operator-revision", "revision-candidate"}
  PROVE  Writes(e)
  BY DEF WriteRecord, Writes, TypeOK, Jobs

(* The last event of a slice that has one.                                 *)
LEMMA LastChained ==
  ASSUME TypeOK, ChainInvariant, NEW s \in Slices, Final(s, ledger) \in Pos(s, ledger)
  PROVE  LET p == ledger[Final(s, ledger)]
         IN  /\ p \in Events /\ p.slice = s /\ p.sequence = Final(s, ledger)
             /\ Fits(p, ledger, Final(s, ledger)) /\ p.revision <= p.policy.limit
  BY ChainedFinal DEF TypeOK, ChainInvariant

(* The answer of a provider, or its loss, completes the assessment.        *)
LEMMA CompleteWrites ==
  ASSUME TypeOK, ChainInvariant, HeldInvariant, held # None, held.stage = "provider",
         NEW type \in Completions, NEW route \in Routes, Complete(type, route)
  PROVE  \E e : Writes(e)
<1> DEFINE h == held.event
           s == held.slice
           n == Len(ledger) + 1
           g == Follow(h, type, route)
           e == [g EXCEPT !.assessment = h.sequence]
<1>1. s \in Slices /\ h \in Events /\ n \in Nat /\ type \in Types
  BY DEF TypeOK, Types
<1>2. /\ h.slice = s /\ Final(s, ledger) \in Pos(s, ledger) /\ h = ledger[Final(s, ledger)]
      /\ h.type = "assessment-started"
  BY DEF HeldInvariant, Holds
<1>3. h.sequence \in Nat /\ h.revision \in Nat /\ h.revision <= h.policy.limit
  BY <1>1, <1>2, LastChained, EventFields
<1>4. /\ g \in Events /\ g.slice = s /\ g.sequence = n /\ g.type = type
      /\ g.revision = h.revision /\ g.prev = h.sequence /\ g.envelope = h.envelope /\ g.policy = h.policy
  BY <1>1, <1>2, FollowFacts
<1> HIDE DEF g, n, h, s
<1>5. /\ e \in Events /\ e.slice = s /\ e.sequence = n /\ e.type = type
      /\ e.revision = h.revision /\ e.prev = h.sequence /\ e.envelope = h.envelope /\ e.policy = h.policy
      /\ e.assessment = h.sequence
  BY <1>3, <1>4 DEF Events
<1>6. WriteRecord(e) /\ UNCHANGED <<ledger, intent, working>>
  BY DEF Complete, g, h
<1> HIDE DEF e
<1>7. type \notin {"assessment-started", "operator-revision", "revision-dispatched", "revision-candidate",
                   "independent-checks", "strong-review"}
  BY DEF Completions
<1>8. Linked(e, h, ledger, n)
  BY <1>2, <1>3, <1>5, <1>7 DEF Linked, Spends
<1>9. Fits(e, ledger, n)
  <2>1. ledger \in Seq(Events)
    BY DEF TypeOK
  <2>2. QED
    BY <1>2, <1>3, <1>5, <1>7, <1>8, <2>1, NextFits DEF n
<1>10. Writes(e)
  BY <1>5, <1>6, <1>7, <1>9, WriteFacts DEF n
<1>11. QED
  BY <1>10

LEMMA AssessmentWrites ==
  ASSUME TypeOK, ChainInvariant, HeldInvariant,
         \/ LoseAssessment \/ StaleAssessment
         \/ \E verdict \in {"positive", "negative", "uncertain"} : FinishAssessment(verdict)
  PROVE  \E e : Writes(e)
<1>1. ASSUME held # None PROVE held.event \in Events
  BY <1>1 DEF TypeOK
<1>2. {"revision", "escalation", "unavailable", "independent-review"} \subseteq Routes
  BY DEF Routes
<1>3. CASE LoseAssessment
  <2>1. /\ held # None /\ held.stage = "provider"
        /\ Complete("provider-failure", UnavailableRoute(held.event))
    BY <1>3 DEF LoseAssessment
  <2>2. UnavailableRoute(held.event) \in Routes /\ "provider-failure" \in Completions
    BY <1>1, <1>2, <2>1, BudgetRoutes DEF Completions
  <2>3. QED
    BY <2>1, <2>2, CompleteWrites
<1>4. CASE StaleAssessment
  <2>1. held # None /\ held.stage = "provider" /\ Complete("provider-failure", "escalation")
    BY <1>4 DEF StaleAssessment
  <2>2. "escalation" \in Routes /\ "provider-failure" \in Completions
    BY <1>2 DEF Completions
  <2>3. QED
    BY <2>1, <2>2, CompleteWrites
<1>5. ASSUME NEW verdict \in {"positive", "negative", "uncertain"}, FinishAssessment(verdict)
      PROVE  \E e : Writes(e)
  <2> DEFINE type == IF held.event.revision = 0 THEN "initial-assessment" ELSE "revision-assessment"
             route == AssessmentRoute(held.event, verdict)
  <2>1. held # None /\ held.stage = "provider" /\ Complete(type, route)
    BY <1>5 DEF FinishAssessment
  <2>2. type \in Completions
    BY DEF Completions
  <2>3. route \in Routes
    BY <1>1, <1>2, <2>1, BudgetRoutes DEF AssessmentRoute
  <2>4. QED
    BY <2>1, <2>2, <2>3, CompleteWrites
<1>6. QED
  BY <1>3, <1>4, <1>5

(* The checks of a candidate are of its assessment.                        *)
LEMMA ChecksWrites ==
  ASSUME TypeOK, ChainInvariant, HeldInvariant, NEW passed \in BOOLEAN, FinishChecks(passed)
  PROVE  \E e : Writes(e)
<1> DEFINE h == held.event
           s == held.slice
           n == Len(ledger) + 1
           route == IF passed THEN h.route ELSE BudgetRoute(h)
           g == Follow(h, "independent-checks", route)
           e == [g EXCEPT !.assessment = AssessmentOf(h), !.checks = IF passed THEN "passed" ELSE "failed"]
<1>1. held # None /\ held.stage = "checking" /\ WriteRecord(e) /\ UNCHANGED <<ledger, intent, working>>
  BY DEF FinishChecks
<1>2. s \in Slices /\ h \in Events /\ n \in Nat /\ ledger \in Seq(Events)
  BY <1>1 DEF TypeOK
<1>3. /\ h.slice = s /\ Final(s, ledger) \in Pos(s, ledger) /\ h = ledger[Final(s, ledger)]
      /\ h.route \in {"independent-review", "escalation"}
  BY <1>1 DEF HeldInvariant, Holds
<1>4. /\ h.sequence \in Nat /\ h.assessment \in Nat /\ h.route \in Routes /\ h.revision \in Nat
      /\ h.revision <= h.policy.limit /\ Fits(h, ledger, Final(s, ledger))
  BY <1>2, <1>3, LastChained, EventFields
<1>5. route \in Routes /\ "independent-checks" \in Types /\ AssessmentOf(h) \in Nat
  <2>1. route \in Routes
    BY <1>2, <1>4, BudgetRoutes DEF Routes
  <2>2. QED
    BY <1>4, <2>1 DEF Types, AssessmentOf
<1>6. /\ g \in Events /\ g.slice = s /\ g.sequence = n /\ g.type = "independent-checks"
      /\ g.revision = h.revision /\ g.prev = h.sequence /\ g.envelope = h.envelope /\ g.policy = h.policy
  BY <1>2, <1>3, <1>5, FollowFacts
<1> HIDE DEF g, n, h, s
<1>7. /\ e \in Events /\ e.slice = s /\ e.sequence = n /\ e.type = "independent-checks"
      /\ e.revision = h.revision /\ e.prev = h.sequence /\ e.envelope = h.envelope /\ e.policy = h.policy
      /\ e.assessment = AssessmentOf(h)
  BY <1>5, <1>6 DEF Events
<1> HIDE DEF e
<1>8. OfAssessment(e, ledger, n)
  <2>1. h.type \in Judged \/ (h.type = "revision-candidate" /\ h.route = "escalation")
    BY <1>2, <1>3, <1>4, AwaitingType
  <2>2. e.assessment = IF h.type \in Completions THEN h.sequence ELSE h.assessment
    BY <1>7 DEF AssessmentOf
  <2>3. QED
    BY <1>2, <1>3, <1>4, <1>7, <2>1, <2>2, Inherits DEF n
<1>9. Linked(e, h, ledger, n)
  BY <1>3, <1>4, <1>7, <1>8 DEF Linked, Spends, Completions
<1>10. Fits(e, ledger, n)
  BY <1>2, <1>3, <1>4, <1>7, <1>9, NextFits DEF n
<1>11. Writes(e)
  BY <1>1, <1>7, <1>10, WriteFacts DEF n
<1>12. QED
  BY <1>11

(* The strong review is of the assessment, and accepts only after checks   *)
(* that passed.                                                            *)
LEMMA ReviewWrites ==
  ASSUME TypeOK, ChainInvariant, NEW s \in Slices, NEW verdict \in {"accepted", "rejected"},
         StrongReview(s, verdict)
  PROVE  \E e : Writes(e)
<1> DEFINE h == LastEvent(s)
           n == Len(ledger) + 1
           route == IF verdict = "accepted" THEN "operator-acceptance" ELSE BudgetRoute(h)
           g == Follow(h, "strong-review", route)
           e == [g EXCEPT !.assessment = AssessmentOf(h), !.verdict = verdict]
<1>1. /\ LastRoute(s) \in {"independent-review", "escalation"}
      /\ verdict = "accepted" => h.type = "independent-checks" /\ h.checks = "passed"
      /\ WriteRecord(e) /\ UNCHANGED <<ledger, intent, working>>
  BY DEF StrongReview, AwaitsReview, ChecksSupport
<1>2. Last(s) # 0
  BY <1>1 DEF LastRoute
<1>3. /\ Final(s, ledger) \in Pos(s, ledger) /\ h = ledger[Final(s, ledger)] /\ h \in Events /\ h.slice = s
      /\ h.route \in {"independent-review", "escalation"}
  BY <1>1, <1>2, LastFacts
<1>4. /\ h.sequence \in Nat /\ h.assessment \in Nat /\ h.revision \in Nat
      /\ h.revision <= h.policy.limit /\ Fits(h, ledger, Final(s, ledger))
  BY <1>3, LastChained, EventFields
<1>5. /\ route \in Routes /\ "strong-review" \in Types /\ AssessmentOf(h) \in Nat
      /\ n \in Nat /\ ledger \in Seq(Events)
  <2>1. route \in Routes
    BY <1>3, BudgetRoutes DEF Routes
  <2>2. QED
    BY <1>4, <2>1 DEF Types, AssessmentOf, TypeOK
<1>6. /\ g \in Events /\ g.slice = s /\ g.sequence = n /\ g.type = "strong-review" /\ g.route = route
      /\ g.revision = h.revision /\ g.prev = h.sequence /\ g.envelope = h.envelope /\ g.policy = h.policy
  BY <1>3, <1>5, FollowFacts
<1> HIDE DEF g, n, h
<1>7. /\ e \in Events /\ e.slice = s /\ e.sequence = n /\ e.type = "strong-review" /\ e.route = route
      /\ e.revision = h.revision /\ e.prev = h.sequence /\ e.envelope = h.envelope /\ e.policy = h.policy
      /\ e.assessment = AssessmentOf(h) /\ e.verdict = verdict
  BY <1>5, <1>6 DEF Events
<1> HIDE DEF e
<1>8. OfAssessment(e, ledger, n)
  <2>1. h.type \in Judged \/ (h.type = "revision-candidate" /\ h.route = "escalation")
    BY <1>3, <1>4, <1>5, AwaitingType
  <2>2. e.assessment = IF h.type \in Completions THEN h.sequence ELSE h.assessment
    BY <1>7 DEF AssessmentOf
  <2>3. QED
    BY <1>3, <1>4, <1>5, <1>7, <2>1, <2>2, Inherits DEF n
<1>9. verdict # "accepted" => e.route = BudgetRoute(e)
  <2>1. BudgetRoute(e) = BudgetRoute(h)
    BY <1>3, <1>7, BudgetRoutes
  <2>2. QED
    BY <1>7, <2>1
<1>10. Linked(e, h, ledger, n)
  <2>1. verdict = "accepted" => e.route = "operator-acceptance"
    BY <1>7
  <2>2. QED
    BY <1>1, <1>3, <1>4, <1>7, <1>8, <1>9, <2>1 DEF Linked, Spends, Completions, h
<1>11. Fits(e, ledger, n)
  BY <1>3, <1>4, <1>5, <1>7, <1>10, NextFits DEF n
<1>12. Writes(e)
  BY <1>1, <1>7, <1>11, WriteFacts DEF n
<1>13. QED
  BY <1>12

(* A dispatch spends a revision that the policy of the slice still allows. *)
LEMMA DispatchWrites ==
  ASSUME TypeOK, ChainInvariant, NEW s \in Slices, DispatchRevision(s)
  PROVE  \E e : Writes(e)
<1> DEFINE h == LastEvent(s)
           n == Len(ledger) + 1
           g == Follow(h, "revision-dispatched", "dispatch-pending")
           e == [g EXCEPT !.revision = h.revision + 1]
<1>1. /\ Last(s) # 0 /\ LastRoute(s) = "revision" /\ h.revision < h.policy.limit
      /\ WriteRecord(e) /\ UNCHANGED <<ledger, intent, working>>
  BY DEF DispatchRevision, RevisionLeft, Fresh
<1>2. /\ Final(s, ledger) \in Pos(s, ledger) /\ h = ledger[Final(s, ledger)] /\ h \in Events /\ h.slice = s
      /\ h.route = "revision"
  BY <1>1, LastFacts
<1>3. h.sequence \in Nat /\ h.revision \in Nat /\ h.policy.limit \in Nat
  BY <1>2, EventFields
<1>4. "dispatch-pending" \in Routes /\ "revision-dispatched" \in Types /\ n \in Nat /\ ledger \in Seq(Events)
  BY DEF Types, Routes, TypeOK
<1>5. /\ g \in Events /\ g.slice = s /\ g.sequence = n /\ g.type = "revision-dispatched"
      /\ g.route = "dispatch-pending" /\ g.prev = h.sequence /\ g.envelope = h.envelope /\ g.policy = h.policy
  BY <1>2, <1>4, FollowFacts
<1> HIDE DEF g, n, h
<1>6. /\ e \in Events /\ e.slice = s /\ e.sequence = n /\ e.type = "revision-dispatched"
      /\ e.route = "dispatch-pending" /\ e.prev = h.sequence /\ e.envelope = h.envelope /\ e.policy = h.policy
      /\ e.revision = h.revision + 1
  BY <1>3, <1>5 DEF Events
<1> HIDE DEF e
<1>7. Linked(e, h, ledger, n)
  BY <1>2, <1>3, <1>6 DEF Linked, Spends, Completions
<1>8. e.revision <= e.policy.limit
  <2>1. h.revision < h.policy.limit
    BY <1>1 DEF h
  <2>2. QED
    BY <1>3, <1>6, <2>1
<1>9. Fits(e, ledger, n)
  BY <1>2, <1>4, <1>6, <1>7, <1>8, NextFits DEF n
<1>10. Writes(e)
  BY <1>1, <1>6, <1>9, WriteFacts DEF n
<1>11. QED
  BY <1>10

(* A worker that returns records its candidate after its dispatch.         *)
LEMMA ReturnWrites ==
  ASSUME TypeOK, ChainInvariant, WorkInvariant, NEW s \in Slices, NEW complete \in BOOLEAN,
         ReturnCandidate(s, complete)
  PROVE  \E e : Writes(e)
<1> DEFINE h == LastEvent(s)
           n == Len(ledger) + 1
           route == IF complete THEN "assessment-required" ELSE "escalation"
           g == Follow(h, "revision-candidate", route)
           e == [g EXCEPT !.candidate = IF complete THEN Len(runs) + 1 ELSE @]
<1>1. /\ working[s] # None
      /\ WriteRecord(e) /\ UNCHANGED <<ledger, intent>> /\ working' = [working EXCEPT ![s] = None]
  BY DEF ReturnCandidate
<1>2. /\ Final(s, ledger) \in Pos(s, ledger)
      /\ ledger[Final(s, ledger)].type = "revision-dispatched"
  BY <1>1 DEF WorkInvariant, Dispatched
<1>3. ledger \in Seq(Events) /\ Len(runs) + 1 \in Nat
  BY DEF TypeOK
<1>4. Final(s, ledger) # 0
  BY <1>2, <1>3, PlacesFacts
<1>5. h = ledger[Final(s, ledger)] /\ h \in Events /\ h.slice = s /\ h.type = "revision-dispatched"
  BY <1>2, <1>4, LastFacts
<1>6. h.sequence \in Nat /\ h.revision \in Nat /\ h.revision <= h.policy.limit /\ h.candidate \in Nat
  BY <1>2, <1>5, LastChained, EventFields
<1>7. route \in Routes /\ "revision-candidate" \in Types /\ n \in Nat
  BY <1>3 DEF Types, Routes
<1>8. /\ g \in Events /\ g.slice = s /\ g.sequence = n /\ g.type = "revision-candidate" /\ g.route = route
      /\ g.revision = h.revision /\ g.prev = h.sequence /\ g.envelope = h.envelope /\ g.policy = h.policy
      /\ g.candidate = h.candidate
  BY <1>5, <1>7, FollowFacts
<1> HIDE DEF g, n, h
<1>9. /\ e \in Events /\ e.slice = s /\ e.sequence = n /\ e.type = "revision-candidate" /\ e.route = route
      /\ e.revision = h.revision /\ e.prev = h.sequence /\ e.envelope = h.envelope /\ e.policy = h.policy
  BY <1>3, <1>6, <1>8 DEF Events
<1> HIDE DEF e
<1>10. Linked(e, h, ledger, n)
  BY <1>5, <1>6, <1>9 DEF Linked, Spends, Completions
<1>11. Fits(e, ledger, n)
  BY <1>2, <1>3, <1>5, <1>6, <1>9, <1>10, NextFits DEF n
<1>12. /\ working' \in [Slices -> Jobs \cup {None}] /\ working'[s] = None
       /\ \A t \in Slices : working'[t] \in {working[t], None}
  BY <1>1 DEF TypeOK, Jobs
<1>13. Writes(e)
  BY <1>1, <1>9, <1>11, <1>12 DEF n, Writes, WriteRecord
<1>14. QED
  BY <1>13

(* An assessment begins a slice, or a round after a revision or an         *)
(* operator's, within the active policy's limit.                           *)
LEMMA StartWrites ==
  ASSUME TypeOK, ChainInvariant, NEW s \in Slices, NEW r \in DOMAIN runs, StartAssessment(s, r)
  PROVE  \E e : Writes(e)
<1> DEFINE n == Len(ledger) + 1
           spent == IF Last(s) = 0 THEN 0 ELSE LastEvent(s).revision
           revision == spent + (IF LastRoute(s) = "revision" THEN 1 ELSE 0)
           taken == [run |-> r, approval |-> approval[s], taken |-> n]
           e == [slice |-> s, sequence |-> n, type |-> "assessment-started", route |-> "assessment-pending",
                 revision |-> revision, prev |-> Last(s), envelope |-> taken,
                 policy |-> policy, assessment |-> 0, checks |-> "none", verdict |-> "none",
                 candidate |-> 0, fromProject |-> FALSE]
<1>1. /\ policy # None /\ LastRoute(s) \in {"revision", "assessment-required"} /\ revision <= policy.limit
      /\ WriteRecord(e) /\ UNCHANGED <<ledger, intent, working>>
  BY DEF StartAssessment
<1>2. /\ policy \in PolicyType /\ approval[s] \in Nat /\ n \in Nat /\ ledger \in Seq(Events)
      /\ r \in Nat /\ Len(ledger) \in Nat
  BY <1>1 DEF TypeOK
<1>3. Last(s) \in Nat /\ Last(s) = Final(s, ledger)
  BY <1>2, LastFacts, FinalFacts
<1>4. Last(s) # 0 => /\ Final(s, ledger) \in Pos(s, ledger)
                     /\ LastEvent(s) = ledger[Final(s, ledger)] /\ LastEvent(s) \in Events
                     /\ LastEvent(s).sequence = Last(s) /\ LastRoute(s) = LastEvent(s).route
                     /\ LastEvent(s).revision \in Nat
  BY <1>3, LastFacts, LastChained, EventFields
<1>5. spent \in Nat /\ revision \in Nat
  BY <1>4
<1>6. taken \in Envelopes
  BY <1>2 DEF Envelopes
<1> HIDE DEF taken, n, spent
<1>7. /\ e \in Events /\ e.slice = s /\ e.sequence = n /\ e.type = "assessment-started"
      /\ e.route = "assessment-pending" /\ e.revision = revision /\ e.prev = Last(s) /\ e.policy = policy
  BY <1>2, <1>3, <1>5, <1>6 DEF Events, Types, Routes
<1> HIDE DEF e
<1>8. Fits(e, ledger, n)
  <2>1. CASE Last(s) = 0
    <3>1. Pos(s, ledger) = {}
      <4>1. Pos(s, ledger) # {} => Final(s, ledger) \in Pos(s, ledger)
        BY <1>2, FinalFacts
      <4>2. Pos(s, ledger) \subseteq 1..Len(ledger)
        BY <1>2, PlacesFacts
      <4>3. QED
        BY <1>2, <1>3, <2>1, <4>1, <4>2
    <3>2. revision = 0
      BY <2>1 DEF spent, LastRoute
    <3>3. QED
      BY <1>2, <1>7, <2>1, <3>1, <3>2, FirstFits DEF n
  <2>2. CASE Last(s) # 0
    <3> DEFINE p == LastEvent(s)
    <3>1. /\ p = ledger[Final(s, ledger)] /\ p.sequence = Last(s) /\ LastRoute(s) = p.route
          /\ Final(s, ledger) \in Pos(s, ledger) /\ spent = p.revision
      BY <1>4, <2>2 DEF spent
    <3> HIDE DEF p
    <3>2. e.revision = p.revision + (IF p.route = "revision" THEN 1 ELSE 0)
      BY <1>7, <3>1
    <3>3. Linked(e, p, ledger, n)
      BY <1>1, <1>7, <3>1, <3>2 DEF Linked, Spends, Completions
    <3>4. e.revision <= e.policy.limit
      BY <1>1, <1>7
    <3>5. QED
      BY <1>2, <1>7, <3>1, <3>3, <3>4, NextFits DEF n
  <2>3. QED
    BY <2>1, <2>2
<1>9. Writes(e)
  BY <1>1, <1>7, <1>8, WriteFacts DEF n
<1>10. QED
  BY <1>9

-----------------------------------------------------------------------------
(* The invariant                                                           *)

(* What most steps of the controller, its operator and the worker do not   *)
(* touch.                                                                  *)
Aside == UNCHANGED <<ledger, records, intent, held, working>>

(* A worker ends without recording anything.                               *)
Drops == /\ UNCHANGED <<ledger, records, intent, held>>
         /\ working' \in [Slices -> Jobs \cup {None}]
         /\ \A s \in Slices : working'[s] \in {working[s], None}

(* Every step writes a record, or is one of those that follow it, or is    *)
(* none of the review's.                                                   *)
Steps ==
  \/ Aside \/ Drops
  \/ \E e : Writes(e)
  \/ AppendEvent \/ Interrupt \/ PublishEvent \/ LinkRecord \/ ClearIntent
  \/ \E s \in Slices : StartChecks(s) \/ StartPublish(s) \/ PrepareRevision(s)

LEMMA StepKinds ==
  ASSUME TypeOK, ChainInvariant, WorkInvariant, HeldInvariant, [Next]_vars
  PROVE  Steps
<1>1. ASSUME UNCHANGED vars PROVE Aside
  BY <1>1 DEF vars, Aside
<1>2. ASSUME \/ LoseAssessment \/ StaleAssessment
             \/ \E verdict \in {"positive", "negative", "uncertain"} : FinishAssessment(verdict)
      PROVE  \E e : Writes(e)
  BY <1>2, AssessmentWrites
<1>3. ASSUME NEW passed \in BOOLEAN, FinishChecks(passed) PROVE \E e : Writes(e)
  BY <1>3, ChecksWrites
<1>4. ASSUME SaveRevision \/ AbandonRevision PROVE Aside
  BY <1>4 DEF SaveRevision, AbandonRevision, Aside
<1>5. ASSUME NEW s \in Slices, DispatchRevision(s) PROVE \E e : Writes(e)
  BY <1>5, DispatchWrites
<1>6. ASSUME NEW s \in Slices, ReturnUnrecorded(s) \/ LoseWorker(s) PROVE Drops
  <2>1. UNCHANGED <<ledger, records, intent, held>> /\ working' = [working EXCEPT ![s] = None]
    BY <1>6 DEF ReturnUnrecorded, LoseWorker
  <2>2. QED
    BY <2>1 DEF Drops, TypeOK, Jobs
<1>7. ASSUME NEW s \in Slices, ApproveTask(s) \/ AcceptTask(s) \/ BlockTask(s) PROVE Aside
  BY <1>7 DEF ApproveTask, AcceptTask, BlockTask, Aside
<1>8. ASSUME NEW s \in Slices, NEW r \in DOMAIN runs, StartAssessment(s, r) PROVE \E e : Writes(e)
  BY <1>8, StartWrites
<1>9. ASSUME NEW s \in Slices, NEW r \in DOMAIN runs, ApplyTask(s, r) PROVE Aside
  BY <1>9 DEF ApplyTask, Aside
<1>10. ASSUME NEW s \in Slices, NEW verdict \in {"accepted", "rejected"}, StrongReview(s, verdict)
       PROVE  \E e : Writes(e)
  BY <1>10, ReviewWrites
<1>11. ASSUME NEW s \in Slices, NEW complete \in BOOLEAN, ReturnCandidate(s, complete)
       PROVE  \E e : Writes(e)
  BY <1>11, ReturnWrites
<1>12. ASSUME NEW s \in Slices, NEW x, RunWorker(s, x) \/ EditProject(s, x) PROVE Aside
  BY <1>12 DEF RunWorker, EditProject, Aside
<1>13. ASSUME NEW p \in Policies, EditPolicy(p) PROVE Aside
  BY <1>13 DEF EditPolicy, Aside
<1>14. QED
  BY <1>1, <1>2, <1>3, <1>4, <1>5, <1>6, <1>7, <1>8, <1>9, <1>10, <1>11, <1>12, <1>13 DEF Next, Steps

(* What the holder appends fits, under the record it wrote.                *)
LEMMA AppendEffect ==
  ASSUME TypeOK, HeldInvariant, AppendEvent
  PROVE  /\ held # None /\ held.event \in Events /\ held.event \in records /\ held.event.slice = held.slice
         /\ Fits(held.event, ledger, Len(ledger) + 1) /\ held.event.type # "operator-revision"
         /\ held.event.type = "revision-candidate" => working[held.slice] = None
         /\ ledger' = Append(ledger, held.event) /\ records' = records /\ intent' = intent
<1>1. held # None /\ held.stage = "append"
  BY DEF AppendEvent
<1>2. Holds(held, ledger, records, intent[held.slice], working[held.slice]) /\ held.event \in Events
  BY <1>1 DEF HeldInvariant, TypeOK
<1>3. ledger' = Append(ledger, held.event) /\ records' = records /\ intent' = intent
  BY DEF AppendEvent
<1>4. QED
  BY <1>1, <1>2, <1>3 DEF Holds

(* The operator revision fits where its intent left the slice.             *)
LEMMA PublishEffect ==
  ASSUME TypeOK, ChainInvariant, IntentInvariant, HeldInvariant, PublishEvent
  PROVE  /\ held # None /\ held.event \in Events /\ held.event.slice = held.slice /\ held.slice \in Slices
         /\ intent[held.slice] # None /\ intent[held.slice].event = held.event
         /\ Fits(held.event, ledger, Len(ledger) + 1) /\ held.event.type = "operator-revision"
         /\ held.event.sequence = Len(ledger) + 1 /\ Final(held.slice, ledger) = held.event.prev
         /\ Pending(held.slice, held.event, ledger)
         /\ ledger' = Append(ledger, held.event) /\ records' = records /\ intent' = intent
         /\ working' = working /\ held' = [held EXCEPT !.stage = "link"]
<1> DEFINE s == held.slice
           e == held.event
           k == Final(s, ledger)
           p == ledger[k]
           n == Len(ledger) + 1
<1>1. /\ held # None /\ held.stage = "publish" /\ ledger' = Append(ledger, e) /\ records' = records
      /\ intent' = intent /\ working' = working /\ held' = [held EXCEPT !.stage = "link"]
  BY DEF PublishEvent
<1>2. /\ Holds(held, ledger, records, intent[held.slice], working[held.slice])
      /\ e \in Events /\ s \in Slices /\ ledger \in Seq(Events) /\ n \in Nat
  BY <1>1 DEF HeldInvariant, TypeOK
<1>3. e.slice = s /\ intent[s] # None /\ intent[s].event = e /\ e.sequence = n /\ k = e.prev
  BY <1>1, <1>2 DEF Holds
<1>4. Pending(s, e, ledger)
  BY <1>2, <1>3 DEF IntentInvariant
<1>5. /\ k \in Pos(s, ledger) /\ p.type = "strong-review" /\ e.type = "operator-revision"
      /\ p.route = "operator-acceptance" /\ e.policy = p.policy /\ e.envelope = p.envelope
      /\ e.revision = p.revision /\ e.assessment = p.assessment /\ e.route = BudgetRoute(e) /\ e.fromProject
  BY <1>3, <1>4 DEF Pending
<1>6. /\ p \in Events /\ p.slice = s /\ p.sequence = k /\ p.revision \in Nat
      /\ Fits(p, ledger, k) /\ p.revision <= p.policy.limit
  BY <1>2, <1>5, LastChained, EventFields
<1> HIDE DEF p, e, s, n, k
<1>7. OfAssessment(e, ledger, n)
  <2>1. p.type \in Judged
    BY <1>5 DEF Judged
  <2>2. p.type \notin Completions
    BY <1>5 DEF Completions
  <2>3. QED
    BY <1>2, <1>3, <1>5, <1>6, <2>1, <2>2, Inherits DEF k, p, n
<1>8. Linked(e, p, ledger, n)
  BY <1>3, <1>5, <1>6, <1>7 DEF Linked, Spends, Completions
<1>9. Fits(e, ledger, n)
  BY <1>2, <1>3, <1>5, <1>6, <1>8, NextFits DEF k, p, n
<1>10. QED
  BY <1>1, <1>2, <1>3, <1>4, <1>5, <1>9 DEF s, e, n, k

LEMMA ChainStep ==
  ASSUME TypeOK, ChainInvariant, IntentInvariant, WorkInvariant, HeldInvariant, Steps
  PROVE  ChainInvariant'
<1>1. ledger \in Seq(Events) /\ \A s \in Slices : Chained(s, ledger, records, intent[s])
  BY DEF TypeOK, ChainInvariant
<1>2. CASE Aside
  <2>1. ledger' = ledger /\ records' = records /\ intent' = intent
    BY <1>2 DEF Aside
  <2>2. QED
    BY <1>1, <2>1 DEF ChainInvariant
<1>3. CASE Drops
  <2>1. ledger' = ledger /\ records' = records /\ intent' = intent
    BY <1>3 DEF Drops
  <2>2. QED
    BY <1>1, <2>1 DEF ChainInvariant
<1>4. ASSUME NEW e, Writes(e) PROVE ChainInvariant'
  <2>1. ledger' = ledger /\ records' = records \cup {e} /\ intent' = intent
    BY <1>4 DEF Writes
  <2>2. \A s \in Slices : Chained(s, ledger, records \cup {e}, intent[s])
    BY <1>1, ChainedMore
  <2>3. QED
    BY <2>1, <2>2 DEF ChainInvariant
<1>5. CASE AppendEvent
  <2>1. /\ held.event \in Events /\ held.event \in records /\ Fits(held.event, ledger, Len(ledger) + 1)
        /\ ledger' = Append(ledger, held.event) /\ records' = records /\ intent' = intent
    BY <1>5, AppendEffect
  <2>2. \A s \in Slices : Chained(s, Append(ledger, held.event), records, intent[s])
    BY <1>1, <2>1, ChainedAppend
  <2>3. QED
    BY <2>1, <2>2 DEF ChainInvariant
<1>6. CASE Interrupt
  <2>1. ledger' = ledger /\ intent' = intent
    BY <1>6 DEF Interrupt
  <2>2. CASE records' = records
    BY <1>1, <2>1, <2>2 DEF ChainInvariant
  <2>3. CASE held # None /\ held.stage = "append" /\ records' = records \ {held.event}
    <3>1. held.event.sequence = Len(ledger) + 1
      BY <2>3 DEF HeldInvariant, Holds, Fits
    <3>2. ASSUME NEW s \in Slices, NEW i \in Pos(s, ledger) PROVE ledger[i] # held.event
      <4>1. i \in 1..Len(ledger) /\ Len(ledger) \in Nat /\ ledger[i].sequence = i
        BY <1>1, <3>2, PlacesFacts, ChainedFinal
      <4>2. QED
        BY <3>1, <4>1
    <3>3. \A s \in Slices : Chained(s, ledger, records \ {held.event}, intent[s])
      BY <1>1, <3>2 DEF Chained
    <3>4. QED
      BY <2>1, <2>3, <3>3 DEF ChainInvariant
  <2>4. QED
    BY <1>6, <2>2, <2>3 DEF Interrupt
<1>7. CASE PublishEvent
  <2>1. /\ held.event \in Events /\ held.event.slice = held.slice /\ Fits(held.event, ledger, Len(ledger) + 1)
        /\ intent[held.slice] # None /\ intent[held.slice].event = held.event
        /\ ledger' = Append(ledger, held.event) /\ records' = records /\ intent' = intent
    BY <1>7, PublishEffect
  <2>2. \A s \in Slices : Chained(s, Append(ledger, held.event), records, intent[s])
    BY <1>1, <2>1, ChainedAppend
  <2>3. QED
    BY <2>1, <2>2 DEF ChainInvariant
<1>8. CASE LinkRecord
  <2>1. ledger' = ledger /\ records' = records \cup {held.event} /\ intent' = intent
    BY <1>8 DEF LinkRecord
  <2>2. \A s \in Slices : Chained(s, ledger, records \cup {held.event}, intent[s])
    BY <1>1, ChainedMore
  <2>3. QED
    BY <2>1, <2>2 DEF ChainInvariant
<1>9. CASE ClearIntent
  <2>1. /\ held # None /\ held.stage = "clear" /\ ledger' = ledger /\ records' = records
        /\ intent' = [intent EXCEPT ![held.slice] = None]
    BY <1>9 DEF ClearIntent
  <2>2. held.slice \in Slices /\ intent[held.slice].event \in records
    BY <2>1 DEF HeldInvariant, Holds, TypeOK
  <2>3. Chained(held.slice, ledger, records, None)
    BY <1>1, <2>2 DEF Chained
  <2>4. \A s \in Slices : intent'[s] = IF s = held.slice THEN None ELSE intent[s]
    BY <2>1, <2>2 DEF TypeOK
  <2>5. \A s \in Slices : Chained(s, ledger, records, intent'[s])
    BY <1>1, <2>3, <2>4
  <2>6. QED
    BY <2>1, <2>5 DEF ChainInvariant
<1>10. ASSUME NEW t \in Slices, StartChecks(t) PROVE ChainInvariant'
  <2>1. ledger' = ledger /\ records' = records /\ intent' = intent
    BY <1>10 DEF StartChecks
  <2>2. QED
    BY <1>1, <2>1 DEF ChainInvariant
<1>11. ASSUME NEW t \in Slices, StartPublish(t) PROVE ChainInvariant'
  <2>1. ledger' = ledger /\ records' = records
    BY <1>11 DEF StartPublish
  <2>2. CASE intent' = intent
    BY <1>1, <2>1, <2>2 DEF ChainInvariant
  <2>3. CASE intent' # intent
    <3> DEFINE e == [intent[t].event EXCEPT !.sequence = Len(ledger) + 1]
    <3>1. ~Published(t) /\ intent' = [intent EXCEPT ![t].event = e]
      BY <1>11, <2>3 DEF StartPublish, Resequenced
    <3>2. ASSUME NEW i \in Pos(t, ledger) PROVE ledger[i] # intent[t].event
      <4>1. i \in DOMAIN ledger /\ ledger[i].sequence = i
        BY <1>1, PlacesFacts, ChainedFinal
      <4>2. QED
        BY <3>1, <4>1 DEF Published
    <3>3. \A x : Chained(t, ledger, records, x)
      BY <1>1, <3>2 DEF Chained
    <3> HIDE DEF e
    <3>4. \A s \in Slices : s # t => intent'[s] = intent[s]
      BY <3>1 DEF TypeOK
    <3>5. \A s \in Slices : Chained(s, ledger, records, intent'[s])
      BY <1>1, <3>3, <3>4
    <3>6. QED
      BY <2>1, <3>5 DEF ChainInvariant
  <2>4. QED
    BY <2>2, <2>3
<1>12. ASSUME NEW t \in Slices, PrepareRevision(t) PROVE ChainInvariant'
  <2>1. ledger' = ledger /\ records' = records
    BY <1>12 DEF PrepareRevision
  <2>2. CASE intent' = intent
    BY <1>1, <2>1, <2>2 DEF ChainInvariant
  <2>3. CASE intent' # intent
    <3>1. intent[t] = None /\ \E x : intent' = [intent EXCEPT ![t] = x]
      BY <1>12, <2>3 DEF PrepareRevision
    <3>2. \A x : Chained(t, ledger, records, x)
      BY <1>1, <3>1 DEF Chained
    <3>3. \A s \in Slices : s # t => intent'[s] = intent[s]
      BY <3>1 DEF TypeOK
    <3>4. \A s \in Slices : Chained(s, ledger, records, intent'[s])
      BY <1>1, <3>2, <3>3
    <3>5. QED
      BY <2>1, <3>4 DEF ChainInvariant
  <2>4. QED
    BY <2>2, <2>3
<1>13. QED
  BY <1>2, <1>3, <1>4, <1>5, <1>6, <1>7, <1>8, <1>9, <1>10, <1>11, <1>12 DEF Steps

LEMMA IntentStep ==
  ASSUME TypeOK, ChainInvariant, IntentInvariant, WorkInvariant, HeldInvariant, Steps
  PROVE  IntentInvariant'
<1>1. ledger \in Seq(Events) /\ \A s \in Slices : intent[s] # None => Pending(s, intent[s].event, ledger)
  BY DEF TypeOK, IntentInvariant
<1>2. ASSUME ledger' = ledger, intent' = intent PROVE IntentInvariant'
  BY <1>1, <1>2 DEF IntentInvariant
<1>3. CASE Aside
  <2>1. ledger' = ledger /\ intent' = intent
    BY <1>3 DEF Aside
  <2>2. QED
    BY <1>2, <2>1
<1>4. CASE Drops
  BY <1>2, <1>4 DEF Drops
<1>5. ASSUME NEW e, Writes(e) PROVE IntentInvariant'
  BY <1>2, <1>5 DEF Writes
<1>6. CASE AppendEvent
  <2>1. /\ held.event \in Events /\ Fits(held.event, ledger, Len(ledger) + 1)
        /\ held.event.type # "operator-revision"
        /\ ledger' = Append(ledger, held.event) /\ intent' = intent
    BY <1>6, AppendEffect
  <2>2. \A s \in Slices : intent[s] # None => Pending(s, intent[s].event, Append(ledger, held.event))
    BY <1>1, <2>1, PendingAppend
  <2>3. QED
    BY <2>1, <2>2 DEF IntentInvariant
<1>7. CASE Interrupt
  BY <1>2, <1>7 DEF Interrupt
<1>8. CASE PublishEvent
  <2> DEFINE e == held.event
             M == Append(ledger, e)
  <2>1. /\ e \in Events /\ e.slice = held.slice /\ held.slice \in Slices
        /\ intent[held.slice].event = e /\ Pending(held.slice, e, ledger)
        /\ e.sequence = Len(ledger) + 1
        /\ ledger' = M /\ intent' = intent
    BY <1>8, PublishEffect
  <2>2. /\ DOMAIN M = 1..Len(ledger) + 1 /\ M[Len(ledger) + 1] = e /\ Len(ledger) \in Nat
        /\ \A i \in 1..Len(ledger) : M[i] = ledger[i]
    BY <1>1, <2>1, AppendFacts, PlacesFacts
  <2>3. \A s \in Slices : /\ Pos(s, M) = IF e.slice = s THEN Pos(s, ledger) \cup {Len(ledger) + 1} ELSE Pos(s, ledger)
                          /\ Pos(s, ledger) \subseteq 1..Len(ledger)
                          /\ s # held.slice => Final(s, M) = Final(s, ledger)
    <3> SUFFICES ASSUME NEW s \in Slices
                 PROVE  /\ Pos(s, M) = IF e.slice = s THEN Pos(s, ledger) \cup {Len(ledger) + 1} ELSE Pos(s, ledger)
                        /\ Pos(s, ledger) \subseteq 1..Len(ledger)
                        /\ s # held.slice => Final(s, M) = Final(s, ledger)
      OBVIOUS
    <3>1. Pos(s, M) = IF e.slice = s THEN Pos(s, ledger) \cup {Len(ledger) + 1} ELSE Pos(s, ledger)
      BY <1>1, <2>1, AppendFacts
    <3>2. Final(s, M) = IF e.slice = s THEN Len(ledger) + 1 ELSE Final(s, ledger)
      BY <1>1, <2>1, AppendFinal
    <3>3. Pos(s, ledger) \subseteq 1..Len(ledger)
      BY <1>1, PlacesFacts
    <3>4. QED
      BY <2>1, <3>1, <3>2, <3>3
  <2> HIDE DEF e, M
  <2>4. Pending(held.slice, e, M)
    <3>1. e.prev \in Pos(held.slice, M) /\ M[e.prev] = ledger[e.prev]
      BY <2>1, <2>2, <2>3 DEF Pending
    <3>2. Standing(e, M)
      BY <2>1, <2>2 DEF Standing
    <3>3. QED
      BY <2>1, <3>1, <3>2 DEF Pending
  <2>5. ASSUME NEW s \in Slices, s # held.slice, intent[s] # None PROVE Pending(s, intent[s].event, M)
    <3> DEFINE f == intent[s].event
    <3>1. Pending(s, f, ledger)
      BY <1>1, <2>5
    <3> HIDE DEF f
    <3>2. f.prev \in Pos(s, M) /\ M[f.prev] = ledger[f.prev]
      BY <2>2, <2>3, <3>1 DEF Pending
    <3>3. Standing(f, ledger) => Standing(f, M)
      BY <1>1, <2>2, PlacesFacts DEF Standing
    <3>4. Final(s, M) = Final(s, ledger)
      BY <2>3, <2>5
    <3>5. QED
      BY <3>1, <3>2, <3>3, <3>4 DEF Pending, f
  <2>6. QED
    BY <2>1, <2>4, <2>5 DEF IntentInvariant
<1>9. CASE LinkRecord
  BY <1>2, <1>9 DEF LinkRecord
<1>10. CASE ClearIntent
  <2>1. ledger' = ledger /\ \A s \in Slices : intent'[s] \in {intent[s], None}
    BY <1>10 DEF ClearIntent, TypeOK
  <2>2. QED
    BY <1>1, <2>1 DEF IntentInvariant
<1>11. ASSUME NEW t \in Slices, StartChecks(t) PROVE IntentInvariant'
  BY <1>2, <1>11 DEF StartChecks
<1>12. ASSUME NEW t \in Slices, StartPublish(t) PROVE IntentInvariant'
  <2>1. ledger' = ledger /\ intent[t] # None /\ intent[t] \in Intents
    BY <1>12 DEF StartPublish, TypeOK
  <2>2. CASE intent' = intent
    BY <1>2, <2>1, <2>2
  <2>3. CASE intent' # intent
    <3> DEFINE f == intent[t].event
               e == [f EXCEPT !.sequence = Len(ledger) + 1]
    <3>1. Last(t) = f.prev /\ intent' = [intent EXCEPT ![t].event = e]
      BY <1>12, <2>3 DEF StartPublish, Resequenced
    <3>2. f \in Events /\ Pending(t, f, ledger) /\ Final(t, ledger) = f.prev
      BY <1>1, <2>1, <3>1, LastFacts DEF Intents
    <3>3. intent'[t].event = e /\ \A s \in Slices : s # t => intent'[s] = intent[s]
      BY <2>1, <3>1 DEF TypeOK, Intents
    <3> HIDE DEF f
    <3>4. /\ e.slice = f.slice /\ e.type = f.type /\ e.prev = f.prev /\ e.policy = f.policy
          /\ e.envelope = f.envelope /\ e.revision = f.revision /\ e.assessment = f.assessment
          /\ e.route = f.route /\ e.fromProject = f.fromProject
      BY <3>2 DEF Events
    <3> HIDE DEF e
    <3>5. BudgetRoute(e) = BudgetRoute(f)
      BY <3>2, <3>4, BudgetRoutes
    <3>6. Pending(t, e, ledger)
      BY <3>2, <3>4, <3>5 DEF Pending
    <3>7. \A s \in Slices : intent'[s] # None => Pending(s, intent'[s].event, ledger)
      BY <1>1, <3>3, <3>6
    <3>8. QED
      BY <2>1, <3>7 DEF IntentInvariant
  <2>4. QED
    BY <2>2, <2>3
<1>13. ASSUME NEW t \in Slices, PrepareRevision(t) PROVE IntentInvariant'
  <2>1. ledger' = ledger
    BY <1>13 DEF PrepareRevision
  <2>2. CASE intent' = intent
    BY <1>2, <2>1, <2>2
  <2>3. CASE intent' # intent
    <3> DEFINE h == LastEvent(t)
               g == Follow(h, "operator-revision", BudgetRoute(h))
               e == [g EXCEPT !.fromProject = TRUE]
    <3>1. /\ Acceptable(t, ReviewedRun(t), ReviewedRun(t))
          /\ intent' = [intent EXCEPT ![t] = [run |-> ReviewedRun(t), event |-> e]]
      BY <1>13, <2>3 DEF PrepareRevision
    <3>2. Last(t) # 0 /\ h.type = "strong-review" /\ h.route = "operator-acceptance"
      BY <3>1 DEF Acceptable
    <3>3. /\ Final(t, ledger) \in Pos(t, ledger) /\ h = ledger[Final(t, ledger)] /\ h \in Events /\ h.slice = t
      BY <3>2, LastFacts
    <3>4. h.sequence = Final(t, ledger)
      BY <3>3, LastChained
    <3>5. BudgetRoute(h) \in Routes /\ "operator-revision" \in Types
      BY <3>3, BudgetRoutes DEF Routes, Types
    <3>6. /\ g \in Events /\ g.slice = t /\ g.type = "operator-revision" /\ g.route = BudgetRoute(h)
          /\ g.revision = h.revision /\ g.prev = h.sequence /\ g.envelope = h.envelope
          /\ g.policy = h.policy /\ g.assessment = h.assessment
      BY <3>3, <3>5, FollowFacts
    <3> HIDE DEF g, h
    <3>7. /\ e.slice = t /\ e.type = "operator-revision" /\ e.route = BudgetRoute(h)
          /\ e.revision = h.revision /\ e.prev = h.sequence /\ e.envelope = h.envelope
          /\ e.policy = h.policy /\ e.assessment = h.assessment /\ e.fromProject
      BY <3>6 DEF Events
    <3> HIDE DEF e
    <3>8. BudgetRoute(e) = BudgetRoute(h)
      BY <3>3, <3>7, BudgetRoutes
    <3>9. Pending(t, e, ledger)
      BY <3>2, <3>3, <3>4, <3>7, <3>8 DEF Pending
    <3>10. intent'[t].event = e /\ \A s \in Slices : s # t => intent'[s] = intent[s]
      BY <3>1 DEF TypeOK
    <3>11. \A s \in Slices : intent'[s] # None => Pending(s, intent'[s].event, ledger)
      BY <1>1, <3>9, <3>10
    <3>12. QED
      BY <2>1, <3>11 DEF IntentInvariant
  <2>4. QED
    BY <2>2, <2>3
<1>14. QED
  BY <1>3, <1>4, <1>5, <1>6, <1>7, <1>8, <1>9, <1>10, <1>11, <1>12, <1>13 DEF Steps

LEMMA WorkStep ==
  ASSUME TypeOK, ChainInvariant, IntentInvariant, WorkInvariant, HeldInvariant, Steps
  PROVE  WorkInvariant'
<1>1. ledger \in Seq(Events) /\ \A s \in Slices : working[s] # None => Dispatched(s, working[s], ledger)
  BY DEF TypeOK, WorkInvariant
<1>2. ASSUME ledger' = ledger, \A s \in Slices : working'[s] \in {working[s], None} PROVE WorkInvariant'
  BY <1>1, <1>2 DEF WorkInvariant
<1>3. CASE Aside
  <2>1. ledger' = ledger /\ working' = working
    BY <1>3 DEF Aside
  <2>2. QED
    BY <1>2, <2>1
<1>4. CASE Drops
  <2>1. ledger' = ledger /\ \A s \in Slices : working'[s] \in {working[s], None}
    BY <1>4 DEF Drops
  <2>2. QED
    BY <1>2, <2>1
<1>5. ASSUME NEW e, Writes(e) PROVE WorkInvariant'
  <2>1. ledger' = ledger /\ \A s \in Slices : working'[s] \in {working[s], None}
    BY <1>5 DEF Writes
  <2>2. QED
    BY <1>2, <2>1
<1>6. CASE AppendEvent
  <2> DEFINE e == held.event
             M == Append(ledger, e)
             job == [dispatched |-> e.sequence, start |-> project[e.slice], approval |-> held.packet]
  <2>1. /\ e \in Events /\ e.slice = held.slice /\ Fits(e, ledger, Len(ledger) + 1)
        /\ e.type = "revision-candidate" => working[held.slice] = None
        /\ ledger' = M
    BY <1>6, AppendEffect
  <2>2. working' = IF e.type # "revision-dispatched" THEN working ELSE [working EXCEPT ![e.slice] = job]
    BY <1>6 DEF AppendEvent
  <2>3. ASSUME NEW s \in Slices, working[s] # None PROVE Dispatched(s, working[s], M)
    <3>1. e.slice = s => e.type # "revision-candidate"
      BY <2>1, <2>3
    <3>2. QED
      BY <1>1, <2>1, <2>3, <3>1, DispatchedAppend
  <2>4. ASSUME e.type = "revision-dispatched" PROVE Dispatched(e.slice, job, M)
    <3>1. /\ M[Len(ledger) + 1] = e /\ Len(ledger) + 1 \in Pos(e.slice, M)
          /\ Final(e.slice, M) = Len(ledger) + 1
      BY <1>1, <2>1, AppendFacts, AppendFinal
    <3>2. e.sequence = Len(ledger) + 1
      BY <2>1 DEF Fits
    <3>3. e.route = "dispatch-pending"
      <4>1. PICK q \in Pos(e.slice, ledger) : Linked(e, ledger[q], ledger, Len(ledger) + 1)
        BY <1>1, <2>1, <2>4, FitsLinked
      <4>2. QED
        BY <2>4, <4>1 DEF Linked
    <3> HIDE DEF e, M
    <3>4. job.dispatched = e.sequence
      OBVIOUS
    <3> HIDE DEF job
    <3>5. QED
      BY <2>4, <3>1, <3>2, <3>3, <3>4 DEF Dispatched
  <2> HIDE DEF M, job
  <2>5. \A s \in Slices : working'[s] # None => Dispatched(s, working'[s], M)
    <3>1. CASE e.type # "revision-dispatched"
      BY <2>2, <2>3, <3>1
    <3>2. CASE e.type = "revision-dispatched"
      <4>1. \A s \in Slices : working'[s] = IF s = e.slice THEN job ELSE working[s]
        BY <2>2, <3>2 DEF TypeOK
      <4>2. QED
        BY <2>3, <2>4, <3>2, <4>1
    <3>3. QED
      BY <3>1, <3>2
  <2>6. QED
    BY <2>1, <2>5 DEF WorkInvariant
<1>7. CASE Interrupt
  BY <1>2, <1>7 DEF Interrupt
<1>8. CASE PublishEvent
  <2>1. /\ held.event \in Events /\ Fits(held.event, ledger, Len(ledger) + 1)
        /\ held.event.type = "operator-revision"
        /\ ledger' = Append(ledger, held.event) /\ working' = working
    BY <1>8, PublishEffect
  <2>2. \A s \in Slices : working[s] # None => Dispatched(s, working[s], Append(ledger, held.event))
    BY <1>1, <2>1, DispatchedAppend
  <2>3. QED
    BY <2>1, <2>2 DEF WorkInvariant
<1>9. CASE LinkRecord
  BY <1>2, <1>9 DEF LinkRecord
<1>10. CASE ClearIntent
  BY <1>2, <1>10 DEF ClearIntent
<1>11. ASSUME NEW t \in Slices, StartChecks(t) PROVE WorkInvariant'
  BY <1>2, <1>11 DEF StartChecks
<1>12. ASSUME NEW t \in Slices, StartPublish(t) PROVE WorkInvariant'
  BY <1>2, <1>12 DEF StartPublish
<1>13. ASSUME NEW t \in Slices, PrepareRevision(t) PROVE WorkInvariant'
  BY <1>2, <1>13 DEF PrepareRevision
<1>14. QED
  BY <1>3, <1>4, <1>5, <1>6, <1>7, <1>8, <1>9, <1>10, <1>11, <1>12, <1>13 DEF Steps

LEMMA HeldStep ==
  ASSUME TypeOK, ChainInvariant, IntentInvariant, WorkInvariant, HeldInvariant, Steps
  PROVE  HeldInvariant'
<1>1. /\ ledger \in Seq(Events)
      /\ held # None => /\ held.slice \in Slices /\ held.event \in Events
                        /\ Holds(held, ledger, records, intent[held.slice], working[held.slice])
  BY DEF TypeOK, HeldInvariant
<1>2. ASSUME held' = None PROVE HeldInvariant'
  BY <1>2 DEF HeldInvariant
<1>3. CASE Aside
  <2>1. ledger' = ledger /\ records' = records /\ intent' = intent /\ working' = working /\ held' = held
    BY <1>3 DEF Aside
  <2>2. QED
    BY <1>1, <2>1 DEF HeldInvariant
<1>4. CASE Drops
  <2>1. /\ ledger' = ledger /\ records' = records /\ intent' = intent /\ held' = held
        /\ \A s \in Slices : working'[s] \in {working[s], None}
    BY <1>4 DEF Drops
  <2>2. held # None => Holds(held, ledger, records, intent[held.slice], working'[held.slice])
    BY <1>1, <2>1 DEF Holds
  <2>3. QED
    BY <2>1, <2>2 DEF HeldInvariant
<1>5. ASSUME NEW e, Writes(e) PROVE HeldInvariant'
  <2> DEFINE h == [slice |-> e.slice, stage |-> "append", event |-> e, packet |-> approval[e.slice]]
  <2>1. /\ ledger' = ledger /\ records' = records \cup {e} /\ held' = h
        /\ Fits(e, ledger, Len(ledger) + 1) /\ e.type # "operator-revision"
        /\ e.type = "revision-candidate" => working'[e.slice] = None
    BY <1>5 DEF Writes
  <2>2. h.slice = e.slice /\ h.event = e /\ h.stage = "append"
    OBVIOUS
  <2> HIDE DEF h
  <2>3. \A pending : Holds(h, ledger, records', pending, working'[h.slice])
    BY <2>1, <2>2 DEF Holds
  <2>4. QED
    BY <2>1, <2>3 DEF HeldInvariant
<1>6. CASE AppendEvent
  <2> DEFINE e == held.event
             M == Append(ledger, e)
             h == [held EXCEPT !.stage = "provider"]
  <2>1. /\ held # None /\ e \in Events /\ e.slice = held.slice
        /\ ledger' = M /\ held' = IF e.type = "assessment-started" THEN h ELSE None
    BY <1>6, AppendEffect DEF AppendEvent
  <2>2. M[Len(ledger) + 1] = e /\ Len(ledger) + 1 \in Pos(e.slice, M) /\ Final(e.slice, M) = Len(ledger) + 1
    BY <1>1, <2>1, AppendFacts, AppendFinal
  <2>3. h.slice = e.slice /\ h.event = e /\ h.stage = "provider"
    BY <2>1 DEF TypeOK
  <2> HIDE DEF e, M, h
  <2>4. ASSUME e.type = "assessment-started" PROVE \A R, pending, job : Holds(h, M, R, pending, job)
    BY <2>2, <2>3, <2>4 DEF Holds
  <2>5. QED
    BY <2>1, <2>4 DEF HeldInvariant
<1>7. CASE Interrupt
  BY <1>2, <1>7 DEF Interrupt
<1>8. CASE PublishEvent
  <2> DEFINE e == held.event
             M == Append(ledger, e)
             h == [held EXCEPT !.stage = "link"]
  <2>1. /\ held # None /\ e \in Events /\ e.slice = held.slice /\ e.sequence = Len(ledger) + 1
        /\ intent[held.slice] # None /\ intent[held.slice].event = e
        /\ ledger' = M /\ intent' = intent /\ held' = h
    BY <1>8, PublishEffect
  <2>2. M[Len(ledger) + 1] = e /\ DOMAIN M = 1..Len(ledger) + 1 /\ Len(ledger) \in Nat
    BY <1>1, <2>1, AppendFacts, PlacesFacts
  <2>3. h.slice = e.slice /\ h.event = e /\ h.stage = "link" /\ h.slice = held.slice
    BY <2>1 DEF TypeOK
  <2> HIDE DEF e, M, h
  <2>4. Standing(e, M)
    BY <2>1, <2>2 DEF Standing
  <2>5. \A R, job : Holds(h, M, R, intent[h.slice], job)
    BY <2>1, <2>3, <2>4 DEF Holds
  <2>6. QED
    BY <2>1, <2>5 DEF HeldInvariant
<1>9. CASE LinkRecord
  <2> DEFINE h == [held EXCEPT !.stage = "clear"]
  <2>1. /\ held # None /\ held.stage = "link" /\ ledger' = ledger /\ intent' = intent
        /\ records' = records \cup {held.event} /\ held' = h
    BY <1>9 DEF LinkRecord
  <2>2. h.slice = held.slice /\ h.event = held.event /\ h.stage = "clear"
    BY <2>1 DEF TypeOK
  <2> HIDE DEF h
  <2>3. \A job : Holds(h, ledger, records', intent[h.slice], job)
    BY <1>1, <2>1, <2>2 DEF Holds
  <2>4. QED
    BY <2>1, <2>3 DEF HeldInvariant
<1>10. CASE ClearIntent
  BY <1>2, <1>10 DEF ClearIntent
<1>11. ASSUME NEW t \in Slices, StartChecks(t) PROVE HeldInvariant'
  <2> DEFINE e == LastEvent(t)
             h == [slice |-> t, stage |-> "checking", event |-> e, packet |-> approval[t]]
  <2>1. ledger' = ledger /\ held' = h /\ LastRoute(t) \in {"independent-review", "escalation"}
    BY <1>11 DEF StartChecks, AwaitsReview
  <2>2. Last(t) # 0
    BY <2>1 DEF LastRoute
  <2>3. /\ Final(t, ledger) \in Pos(t, ledger) /\ e = ledger[Final(t, ledger)] /\ e.slice = t
        /\ e.route \in {"independent-review", "escalation"}
    BY <2>1, <2>2, LastFacts
  <2>4. h.slice = t /\ h.event = e /\ h.stage = "checking"
    OBVIOUS
  <2> HIDE DEF e, h
  <2>5. \A R, pending, job : Holds(h, ledger, R, pending, job)
    BY <2>3, <2>4 DEF Holds
  <2>6. QED
    BY <2>1, <2>5 DEF HeldInvariant
<1>12. ASSUME NEW t \in Slices, StartPublish(t) PROVE HeldInvariant'
  <2>1. /\ ledger' = ledger /\ records' = records /\ intent[t] # None /\ intent[t] \in Intents
        /\ Pending(t, intent[t].event, ledger)
    BY <1>12 DEF StartPublish, TypeOK, IntentInvariant
  <2>2. CASE Published(t) /\ intent' = intent
             /\ held' = [slice |-> t, stage |-> "link", event |-> intent[t].event, packet |-> approval[t]]
    <3> DEFINE e == intent[t].event
               h == [slice |-> t, stage |-> "link", event |-> e, packet |-> approval[t]]
    <3>1. h.slice = t /\ h.event = e /\ h.stage = "link" /\ held' = h
      BY <2>2
    <3>2. e.slice = t /\ Standing(e, ledger)
      BY <2>1, <2>2 DEF Pending, Published, Standing
    <3> HIDE DEF h
    <3>3. \A job : Holds(h, ledger, records, intent[t], job)
      BY <2>1, <3>1, <3>2 DEF Holds
    <3>4. QED
      BY <2>1, <2>2, <3>1, <3>3 DEF HeldInvariant
  <2>3. ASSUME ~(Published(t) /\ intent' = intent
             /\ held' = [slice |-> t, stage |-> "link", event |-> intent[t].event, packet |-> approval[t]])
        PROVE  HeldInvariant'
    <3> DEFINE f == intent[t].event
               n == Len(ledger) + 1
               e == [f EXCEPT !.sequence = n]
               h == [slice |-> t, stage |-> "publish", event |-> e, packet |-> approval[t]]
    <3>1. Last(t) = f.prev /\ intent' = [intent EXCEPT ![t].event = e] /\ held' = h
      BY <1>12, <2>3 DEF StartPublish, Resequenced
    <3>2. f \in Events /\ f.slice = t /\ Final(t, ledger) = f.prev
      BY <2>1, <3>1, LastFacts DEF Intents, Pending
    <3>3. intent'[t] = [intent[t] EXCEPT !.event = e]
      BY <3>1 DEF TypeOK
    <3>9. n \in Nat
      BY <1>1
    <3> HIDE DEF f, n
    <3>4. e \in Events /\ e.slice = t /\ e.sequence = n /\ e.prev = f.prev
      BY <3>2, <3>9 DEF Events
    <3> HIDE DEF e
    <3>5. intent'[t] # None /\ intent'[t].event = e
      <4>1. [intent[t] EXCEPT !.event = e] \in Intents /\ [intent[t] EXCEPT !.event = e].event = e
        BY <2>1, <3>4 DEF Intents
      <4>2. QED
        BY <3>3, <4>1, IntentAssumption
    <3>6. h.slice = t /\ h.event = e /\ h.stage = "publish"
      OBVIOUS
    <3> HIDE DEF h
    <3>7. \A R, job : Holds(h, ledger, R, intent'[t], job)
      BY <3>2, <3>4, <3>5, <3>6 DEF Holds, n
    <3>8. QED
      BY <2>1, <3>1, <3>6, <3>7 DEF HeldInvariant
  <2>4. QED
    BY <2>2, <2>3
<1>13. ASSUME NEW t \in Slices, PrepareRevision(t) PROVE HeldInvariant'
  <2>1. /\ ledger' = ledger /\ records' = records /\ held' = held /\ working' = working
        /\ intent' = intent \/ held = None
    BY <1>13 DEF PrepareRevision
  <2>2. QED
    BY <1>1, <2>1 DEF HeldInvariant
<1>14. QED
  BY <1>3, <1>4, <1>5, <1>6, <1>7, <1>8, <1>9, <1>10, <1>11, <1>12, <1>13 DEF Steps

(* Types.  What a step writes to the ledger, the records and the lock, and *)
(* what it writes elsewhere.                                               *)
LEMMA ReviewTypes ==
  ASSUME TypeOK, ChainInvariant, IntentInvariant, HeldInvariant, Steps
  PROVE  /\ ledger' \in Seq(Events) /\ records' \subseteq Events
         /\ intent' \in [Slices -> Intents \cup {None}]
         /\ held' \in [slice : Slices, stage : Stages, event : Events, packet : Nat] \cup {None}
         /\ working' \in [Slices -> Jobs \cup {None}]
<1> DEFINE Holders == [slice : Slices, stage : Stages, event : Events, packet : Nat]
           Typed == /\ ledger' \in Seq(Events) /\ records' \subseteq Events
                    /\ intent' \in [Slices -> Intents \cup {None}]
                    /\ held' \in Holders \cup {None}
                    /\ working' \in [Slices -> Jobs \cup {None}]
<1>1. /\ ledger \in Seq(Events) /\ records \subseteq Events
      /\ intent \in [Slices -> Intents \cup {None}]
      /\ held \in Holders \cup {None}
      /\ working \in [Slices -> Jobs \cup {None}]
      /\ approval \in [Slices -> Nat] /\ project \in [Slices -> Nat]
  BY DEF TypeOK, Jobs
<1>2. {"append", "provider", "checking", "publish", "link", "clear"} = Stages
  BY DEF Stages
<1>3. \A s \in Slices, stage \in Stages, e \in Events :
        [slice |-> s, stage |-> stage, event |-> e, packet |-> approval[s]] \in Holders
  BY <1>1
<1>4. held # None => /\ [held EXCEPT !.stage = "provider"] \in Holders
                     /\ [held EXCEPT !.stage = "link"] \in Holders
                     /\ [held EXCEPT !.stage = "clear"] \in Holders
  BY <1>1, <1>2
<1> SUFFICES Typed
  OBVIOUS
<1> HIDE DEF Holders
<1>5. CASE Aside
  <2>1. ledger' = ledger /\ records' = records /\ intent' = intent /\ working' = working /\ held' = held
    BY <1>5 DEF Aside
  <2>2. QED
    BY <1>1, <2>1
<1>6. CASE Drops
  BY <1>1, <1>6 DEF Drops
<1>7. ASSUME NEW e, Writes(e) PROVE Typed
  BY <1>1, <1>2, <1>3, <1>7, EventFields DEF Writes
<1>8. CASE AppendEvent
  <2> DEFINE e == held.event
             job == [dispatched |-> e.sequence, start |-> project[e.slice], approval |-> held.packet]
  <2>1. /\ held # None /\ e \in Events /\ ledger' = Append(ledger, e) /\ records' = records /\ intent' = intent
    BY <1>8, AppendEffect
  <2>2. held' \in {[held EXCEPT !.stage = "provider"], None}
    BY <1>8 DEF AppendEvent
  <2>3. working' \in {working, [working EXCEPT ![e.slice] = job]}
    BY <1>8 DEF AppendEvent
  <2>4. job \in Jobs
    <3>1. held.packet \in Nat
      BY <1>1, <2>1 DEF Holders
    <3>2. QED
      BY <1>1, <2>1, <3>1, EventFields DEF Jobs
  <2> HIDE DEF e, job
  <2>5. Append(ledger, e) \in Seq(Events)
    BY <1>1, <2>1
  <2>6. held' \in Holders \cup {None}
    BY <1>4, <2>1, <2>2
  <2>7. working' \in [Slices -> Jobs \cup {None}]
    BY <1>1, <2>3, <2>4
  <2>8. QED
    BY <1>1, <2>1, <2>5, <2>6, <2>7
<1>9. CASE Interrupt
  BY <1>1, <1>9 DEF Interrupt
<1>10. CASE PublishEvent
  <2>1. /\ held # None /\ held.event \in Events /\ ledger' = Append(ledger, held.event)
        /\ records' = records /\ intent' = intent /\ working' = working /\ held' = [held EXCEPT !.stage = "link"]
    BY <1>10, PublishEffect
  <2>2. Append(ledger, held.event) \in Seq(Events)
    BY <1>1, <2>1
  <2>3. QED
    BY <1>1, <1>4, <2>1, <2>2
<1>11. CASE LinkRecord
  <2>1. /\ held # None /\ ledger' = ledger /\ intent' = intent /\ working' = working
        /\ records' = records \cup {held.event} /\ held' = [held EXCEPT !.stage = "clear"]
    BY <1>11 DEF LinkRecord
  <2>2. held.event \in Events
    BY <1>1, <2>1 DEF Holders
  <2>3. QED
    BY <1>1, <1>4, <2>1, <2>2
<1>12. CASE ClearIntent
  BY <1>1, <1>12 DEF ClearIntent
<1>13. ASSUME NEW t \in Slices, StartChecks(t) PROVE Typed
  <2>1. /\ ledger' = ledger /\ records' = records /\ intent' = intent /\ working' = working
        /\ held' = [slice |-> t, stage |-> "checking", event |-> LastEvent(t), packet |-> approval[t]]
        /\ LastRoute(t) \in {"independent-review", "escalation"}
    BY <1>13 DEF StartChecks, AwaitsReview
  <2>2. Last(t) # 0
    BY <2>1 DEF LastRoute
  <2>3. LastEvent(t) \in Events
    BY <2>2, LastFacts
  <2>4. QED
    BY <1>1, <1>2, <1>3, <2>1, <2>3
<1>14. ASSUME NEW t \in Slices, StartPublish(t) PROVE Typed
  <2> DEFINE f == intent[t].event
             n == Len(ledger) + 1
             e == [f EXCEPT !.sequence = n]
  <2>1. ledger' = ledger /\ records' = records /\ working' = working /\ intent[t] # None
    BY <1>14 DEF StartPublish
  <2>2. \/ /\ held' = [slice |-> t, stage |-> "link", event |-> f, packet |-> approval[t]]
           /\ intent' = intent
        \/ /\ held' = [slice |-> t, stage |-> "publish", event |-> e, packet |-> approval[t]]
           /\ intent' = [intent EXCEPT ![t].event = e]
    BY <1>14 DEF StartPublish, Resequenced
  <2>3. f \in Events /\ intent[t] \in Intents
    BY <1>1, <2>1 DEF Intents
  <2>7. n \in Nat
    BY <1>1
  <2> HIDE DEF f, n
  <2>4. e \in Events
    BY <2>3, <2>7 DEF Events
  <2> HIDE DEF e
  <2>5. [intent EXCEPT ![t].event = e] \in [Slices -> Intents \cup {None}]
    <3>1. [intent[t] EXCEPT !.event = e] \in Intents
      BY <2>3, <2>4 DEF Intents
    <3>2. QED
      BY <1>1, <3>1
  <2>6. held' \in Holders
    BY <1>2, <1>3, <2>2, <2>3, <2>4
  <2>8. intent' \in [Slices -> Intents \cup {None}]
    BY <1>1, <2>2, <2>5
  <2>9. QED
    BY <1>1, <2>1, <2>6, <2>8
<1>15. ASSUME NEW t \in Slices, PrepareRevision(t) PROVE Typed
  <2>1. ledger' = ledger /\ records' = records /\ working' = working /\ held' = held
    BY <1>15 DEF PrepareRevision
  <2>2. CASE intent' = intent
    BY <1>1, <2>1, <2>2
  <2>3. CASE intent' # intent
    <3> DEFINE h == LastEvent(t)
               g == Follow(h, "operator-revision", BudgetRoute(h))
               e == [g EXCEPT !.fromProject = TRUE]
               r == ReviewedRun(t)
    <3>1. /\ Acceptable(t, r, r) /\ r # None
          /\ intent' = [intent EXCEPT ![t] = [run |-> r, event |-> e]]
      BY <1>15, <2>3 DEF PrepareRevision
    <3>2. h \in Events
      BY <3>1, LastFacts DEF Acceptable
    <3>3. g \in Events
      <4>1. BudgetRoute(h) \in Routes /\ "operator-revision" \in Types
        BY <3>2, BudgetRoutes DEF Routes, Types
      <4>2. QED
        BY <3>2, <4>1, FollowFacts
    <3>4. r \in Nat
      BY <3>1 DEF ReviewedRun, TypeOK, Reviews
    <3> HIDE DEF g, h, r
    <3>5. e \in Events
      BY <3>3 DEF Events
    <3> HIDE DEF e
    <3>6. [run |-> r, event |-> e] \in Intents
      BY <3>4, <3>5 DEF Intents
    <3>7. QED
      BY <1>1, <2>1, <3>1, <3>6
  <2>4. QED
    BY <2>2, <2>3
<1>16. QED
  BY <1>5, <1>6, <1>7, <1>8, <1>9, <1>10, <1>11, <1>12, <1>13, <1>14, <1>15 DEF Steps

(* A worker's run starts from the candidate its dispatch is about.         *)
LEMMA RunTypes ==
  ASSUME TypeOK, WorkInvariant, [Next]_vars
  PROVE  runs' \in Seq(Runs)
<1>1. runs \in Seq(Runs) /\ ledger \in Seq(Events)
  BY DEF TypeOK
<1>2. ASSUME NEW s \in Slices, NEW base \in Nat, NEW start \in Nat, NEW given \in Nat
      PROVE  Run(s, base, start, given) \in Seq(Runs)
  <2> DEFINE r == [slice |-> s, base |-> base, start |-> start, approval |-> given]
  <2>1. r \in Runs
    BY DEF Runs
  <2> HIDE DEF r
  <2>2. Append(runs, r) \in Seq(Runs)
    BY <1>1, <2>1
  <2>3. QED
    BY <2>2 DEF Run, r
<1>3. ASSUME NEW s \in Slices, working[s] # None PROVE CandidateOf(s) \in Seq(Runs)
  <2>1. working[s] \in Jobs /\ working[s].dispatched \in Pos(s, ledger)
    BY <1>3 DEF TypeOK, Jobs, WorkInvariant, Dispatched
  <2>2. ledger[working[s].dispatched] \in Events
    BY <1>1, <2>1, PlacesFacts
  <2>3. ledger[working[s].dispatched].envelope.run \in Nat
    BY <2>2, EventFields DEF Envelopes
  <2>4. working[s].start \in Nat /\ working[s].approval \in Nat
    BY <2>1 DEF Jobs
  <2> DEFINE base == IF ledger[working[s].dispatched].fromProject THEN 0
                     ELSE ledger[working[s].dispatched].envelope.run
  <2>5. base \in Nat /\ CandidateOf(s) = Run(s, base, working[s].start, working[s].approval)
    BY <2>3 DEF CandidateOf
  <2> HIDE DEF base
  <2>6. QED
    BY <1>2, <2>4, <2>5
<1>4. ASSUME NEW s \in Slices, NEW x \in {0} \cup DOMAIN runs, RunWorker(s, x) PROVE runs' \in Seq(Runs)
  <2>1. runs' = Run(s, x, project[s], approval[s]) /\ project[s] \in Nat /\ approval[s] \in Nat
    BY <1>4 DEF RunWorker, TypeOK
  <2>2. x \in Nat
    BY <1>1, <1>4
  <2>3. QED
    BY <1>2, <2>1, <2>2
<1>5. ASSUME NEW s \in Slices, ReturnUnrecorded(s) PROVE runs' \in Seq(Runs)
  BY <1>3, <1>5 DEF ReturnUnrecorded
<1>6. ASSUME NEW s \in Slices, NEW complete \in BOOLEAN, ReturnCandidate(s, complete)
      PROVE  runs' \in Seq(Runs)
  BY <1>1, <1>3, <1>6 DEF ReturnCandidate
<1>7. CASE runs' = runs
  BY <1>1, <1>7
<1>8. QED
  <2>1. \/ runs' = runs
        \/ \E s \in Slices : \/ ReturnUnrecorded(s)
                             \/ \E complete \in BOOLEAN : ReturnCandidate(s, complete)
                             \/ \E x \in {0} \cup DOMAIN runs : RunWorker(s, x)
    <3>1. CASE UNCHANGED vars
      BY <3>1 DEF vars
    <3>2. ASSUME \/ AppendEvent \/ Interrupt \/ LoseAssessment \/ StaleAssessment \/ SaveRevision
                 \/ AbandonRevision \/ PublishEvent \/ LinkRecord \/ ClearIntent
                 \/ \E verdict \in {"positive", "negative", "uncertain"} : FinishAssessment(verdict)
                 \/ \E passed \in BOOLEAN : FinishChecks(passed)
                 \/ \E p \in Policies : EditPolicy(p)
          PROVE  runs' = runs
      BY <3>2 DEF AppendEvent, Interrupt, LoseAssessment, StaleAssessment, FinishAssessment, FinishChecks,
                  Complete, SaveRevision, AbandonRevision, PublishEvent, LinkRecord, ClearIntent, EditPolicy
    <3>3. ASSUME NEW s \in Slices,
                 \/ StartChecks(s) \/ DispatchRevision(s) \/ LoseWorker(s) \/ ApproveTask(s) \/ AcceptTask(s)
                 \/ BlockTask(s) \/ PrepareRevision(s) \/ StartPublish(s)
                 \/ \E r \in DOMAIN runs : StartAssessment(s, r) \/ ApplyTask(s, r)
                 \/ \E verdict \in {"accepted", "rejected"} : StrongReview(s, verdict)
                 \/ \E x \in {0} \cup DOMAIN runs : EditProject(s, x)
          PROVE  runs' = runs
      BY <3>3 DEF StartChecks, DispatchRevision, LoseWorker, ApproveTask, AcceptTask, BlockTask, PrepareRevision,
                  StartPublish, StartAssessment, ApplyTask, StrongReview, EditProject
    <3>4. QED
      BY <3>1, <3>2, <3>3 DEF Next
  <2>2. QED
    BY <1>4, <1>5, <1>6, <1>7, <2>1

(* What the steps that are not the controller's leave alone.               *)
LEMMA ControllerKinds ==
  ASSUME [Next]_vars
  PROVE  \/ UNCHANGED <<policy, controller>> \/ SaveRevision \/ AbandonRevision
         \/ \E s \in Slices :
              \/ ApproveTask(s) \/ AcceptTask(s) \/ BlockTask(s) \/ PrepareRevision(s)
              \/ \E r \in DOMAIN runs : ApplyTask(s, r)
              \/ \E x \in {0} \cup DOMAIN runs : EditProject(s, x)
         \/ \E p \in Policies : EditPolicy(p)
<1>1. CASE UNCHANGED vars
  BY <1>1 DEF vars
<1>2. ASSUME \/ AppendEvent \/ Interrupt \/ PublishEvent \/ LinkRecord \/ ClearIntent
             \/ LoseAssessment \/ StaleAssessment
             \/ \E verdict \in {"positive", "negative", "uncertain"} : FinishAssessment(verdict)
             \/ \E passed \in BOOLEAN : FinishChecks(passed)
      PROVE  UNCHANGED <<policy, controller>>
  <2>1. CASE AppendEvent \/ Interrupt \/ PublishEvent \/ LinkRecord \/ ClearIntent
    BY <2>1 DEF AppendEvent, Interrupt, PublishEvent, LinkRecord, ClearIntent
  <2>2. CASE \/ LoseAssessment \/ StaleAssessment
             \/ \E verdict \in {"positive", "negative", "uncertain"} : FinishAssessment(verdict)
             \/ \E passed \in BOOLEAN : FinishChecks(passed)
    BY <2>2 DEF LoseAssessment, StaleAssessment, FinishAssessment, FinishChecks, Complete
  <2>3. QED
    BY <1>2, <2>1, <2>2
<1>3. ASSUME NEW s \in Slices,
             \/ StartChecks(s) \/ DispatchRevision(s) \/ ReturnUnrecorded(s) \/ LoseWorker(s)
             \/ StartPublish(s)
             \/ \E r \in DOMAIN runs : StartAssessment(s, r)
             \/ \E verdict \in {"accepted", "rejected"} : StrongReview(s, verdict)
             \/ \E complete \in BOOLEAN : ReturnCandidate(s, complete)
             \/ \E x \in {0} \cup DOMAIN runs : RunWorker(s, x)
      PROVE  UNCHANGED <<policy, controller>>
  BY <1>3 DEF StartChecks, DispatchRevision, ReturnUnrecorded, LoseWorker, StartPublish, StartAssessment,
              StrongReview, ReturnCandidate, RunWorker
<1>4. QED
  BY <1>1, <1>2, <1>3 DEF Next

(* The controller's variables, and the policy.                             *)
ControllerTypes ==
  /\ saving \in [slice : Slices, run : Nat \cup {None}] \cup {None}
  /\ approval \in [Slices -> Nat]
  /\ review \in [Slices -> Reviews]
  /\ applied \in [Slices -> Nat \cup {None}]
  /\ project \in [Slices -> Nat]

LEMMA ControllerTypesStep ==
  ASSUME TypeOK, [Next]_vars
  PROVE  ControllerTypes' /\ policy' \in PolicyType \cup {None}
<1>1. ControllerTypes /\ runs \in Seq(Runs) /\ ledger \in Seq(Events) /\ policy \in PolicyType \cup {None}
  BY DEF TypeOK, ControllerTypes
<1>2. ASSUME NEW s \in Slices, ApproveTask(s) PROVE ControllerTypes' /\ policy' = policy
  BY <1>1, <1>2 DEF ApproveTask, ControllerTypes
<1>3. ASSUME NEW s \in Slices, NEW r \in DOMAIN runs, ApplyTask(s, r) PROVE ControllerTypes' /\ policy' = policy
  <2>1. r \in Nat
    BY <1>1, <1>3
  <2>2. QED
    BY <1>1, <1>3, <2>1 DEF ApplyTask, ControllerTypes
<1>4. ASSUME NEW s \in Slices, AcceptTask(s) PROVE ControllerTypes' /\ policy' = policy
  <2> DEFINE new == [verdict |-> "accepted", approval |-> approval[s], appliedFrom |-> applied[s],
                     proof |-> IF policy = None THEN 0 ELSE Last(s), content |-> project[s]]
  <2>1. Last(s) \in Nat
    BY <1>1, LastFacts, FinalFacts
  <2>2. new \in Reviews
    BY <1>1, <2>1 DEF Reviews, ControllerTypes
  <2>3. review' = [review EXCEPT ![s] = new] /\ UNCHANGED <<saving, approval, applied, project, policy>>
    BY <1>4 DEF AcceptTask
  <2> HIDE DEF new
  <2>4. QED
    BY <1>1, <2>2, <2>3 DEF ControllerTypes
<1>5. ASSUME NEW s \in Slices, BlockTask(s) PROVE ControllerTypes' /\ policy' = policy
  <2> DEFINE new == [verdict |-> "blocked", approval |-> approval[s], appliedFrom |-> None,
                     proof |-> 0, content |-> 0]
  <2>1. new \in Reviews
    BY <1>1 DEF Reviews, ControllerTypes
  <2>2. review' = [review EXCEPT ![s] = new] /\ UNCHANGED <<saving, approval, applied, project, policy>>
    BY <1>5 DEF BlockTask
  <2> HIDE DEF new
  <2>3. QED
    BY <1>1, <2>1, <2>2 DEF ControllerTypes
<1>6. ASSUME NEW s \in Slices, PrepareRevision(s) PROVE ControllerTypes' /\ policy' = policy
  <2>1. ReviewedRun(s) \in Nat \cup {None}
    BY <1>1 DEF ReviewedRun, ControllerTypes, Reviews
  <2>2. saving' = [slice |-> s, run |-> ReviewedRun(s)] /\ UNCHANGED <<approval, review, applied, project, policy>>
    BY <1>6 DEF PrepareRevision
  <2>3. QED
    BY <1>1, <2>1, <2>2 DEF ControllerTypes
<1>7. ASSUME SaveRevision PROVE ControllerTypes' /\ policy' = policy
  <2> DEFINE s == saving.slice
             new == [verdict |-> "revision", approval |-> approval[s], appliedFrom |-> saving.run,
                     proof |-> 0, content |-> 0]
  <2>1. saving # None
    BY <1>7 DEF SaveRevision
  <2>2. s \in Slices /\ saving.run \in Nat \cup {None}
    BY <1>1, <2>1 DEF ControllerTypes
  <2>3. new \in Reviews
    BY <1>1, <2>2 DEF Reviews, ControllerTypes
  <2>4. /\ review' = [review EXCEPT ![s] = new] /\ applied' = [applied EXCEPT ![s] = None]
        /\ saving' = None /\ UNCHANGED <<approval, project, policy>>
    BY <1>7 DEF SaveRevision
  <2> HIDE DEF new, s
  <2>5. QED
    BY <1>1, <2>2, <2>3, <2>4 DEF ControllerTypes
<1>8. ASSUME AbandonRevision PROVE ControllerTypes' /\ policy' = policy
  BY <1>1, <1>8 DEF AbandonRevision, ControllerTypes
<1>9. ASSUME NEW s \in Slices, NEW x \in {0} \cup DOMAIN runs, EditProject(s, x)
      PROVE  ControllerTypes' /\ policy' = policy
  <2>1. x \in Nat
    BY <1>1, <1>9
  <2>2. QED
    BY <1>1, <1>9, <2>1 DEF EditProject, ControllerTypes
<1>10. ASSUME NEW p \in Policies, EditPolicy(p) PROVE ControllerTypes' /\ policy' \in PolicyType \cup {None}
  <2>1. UNCHANGED controller /\ policy' = p
    BY <1>10 DEF EditPolicy
  <2>2. QED
    BY <1>1, <2>1, PoliciesAssumption DEF controller, ControllerTypes
<1>11. ASSUME UNCHANGED <<policy, controller>> PROVE ControllerTypes' /\ policy' = policy
  BY <1>1, <1>11 DEF controller, ControllerTypes
<1>12. QED
  BY <1>1, <1>2, <1>3, <1>4, <1>5, <1>6, <1>7, <1>8, <1>9, <1>10, <1>11, ControllerKinds

LEMMA TypeStep ==
  ASSUME ReviewInvariant, [Next]_vars, Steps
  PROVE  TypeOK'
<1>1. /\ ledger' \in Seq(Events) /\ records' \subseteq Events
      /\ intent' \in [Slices -> Intents \cup {None}]
      /\ held' \in [slice : Slices, stage : Stages, event : Events, packet : Nat] \cup {None}
      /\ working' \in [Slices -> Jobs \cup {None}]
  BY ReviewTypes DEF ReviewInvariant
<1>2. runs' \in Seq(Runs)
  BY RunTypes DEF ReviewInvariant
<1>3. ControllerTypes' /\ policy' \in PolicyType \cup {None}
  BY ControllerTypesStep DEF ReviewInvariant
<1>4. QED
  BY <1>1, <1>2, <1>3 DEF TypeOK, ControllerTypes, Jobs

LEMMA InvariantInit == Init => ReviewInvariant
<1> SUFFICES ASSUME Init PROVE ReviewInvariant
  OBVIOUS
<1>1. /\ ledger = <<>> /\ records = {} /\ held = None /\ saving = None /\ runs = <<>> /\ policy \in Policies
      /\ intent = [s \in Slices |-> None] /\ working = [s \in Slices |-> None]
      /\ approval = [s \in Slices |-> 0] /\ applied = [s \in Slices |-> None] /\ project = [s \in Slices |-> 0]
      /\ review = [s \in Slices |-> [verdict |-> "none", approval |-> 0, appliedFrom |-> None,
                                     proof |-> 0, content |-> 0]]
  BY DEF Init
<1>2. TypeOK
  <2>1. review \in [Slices -> Reviews]
    BY <1>1 DEF Reviews
  <2>2. policy \in PolicyType \cup {None}
    BY <1>1, PoliciesAssumption
  <2>3. QED
    BY <1>1, <2>1, <2>2 DEF TypeOK
<1>3. ChainInvariant
  BY <1>1 DEF ChainInvariant, Chained, Pos
<1>4. IntentInvariant /\ WorkInvariant /\ HeldInvariant
  BY <1>1 DEF IntentInvariant, WorkInvariant, HeldInvariant
<1>5. QED
  BY <1>2, <1>3, <1>4 DEF ReviewInvariant

LEMMA InvariantStep == ReviewInvariant /\ [Next]_vars => ReviewInvariant'
<1> SUFFICES ASSUME ReviewInvariant, [Next]_vars PROVE ReviewInvariant'
  OBVIOUS
<1>1. Steps
  BY StepKinds DEF ReviewInvariant
<1>2. TypeOK'
  BY <1>1, TypeStep
<1>3. ChainInvariant' /\ IntentInvariant' /\ WorkInvariant' /\ HeldInvariant'
  BY <1>1, ChainStep, IntentStep, WorkStep, HeldStep DEF ReviewInvariant
<1>4. QED
  BY <1>2, <1>3 DEF ReviewInvariant

-----------------------------------------------------------------------------
(* The theorems                                                            *)

(* The invariant holds of every state of the slice test review.            *)
THEOREM ReviewKeepsInvariant == Spec => []ReviewInvariant
<1>1. QED
  BY InvariantInit, InvariantStep, PTL DEF Spec

(* Every variable keeps its type.                                          *)
THEOREM ReviewTyped == Spec => []TypeOK
<1>1. ReviewInvariant => TypeOK
  BY DEF ReviewInvariant
<1>2. QED
  BY <1>1, ReviewKeepsInvariant, PTL

(* The events of a slice can be read back, but between the two writes of   *)
(* an operator revision and after a failed revision was checked or         *)
(* reviewed (slice-test-review.mjs validateHistory).                       *)
THEOREM HistoryStaysReadable == Spec => []HistoryReadable
<1>1. ReviewInvariant => HistoryReadable
  <2> SUFFICES ASSUME ReviewInvariant, NEW s \in Slices, ~Unlinked(s), ~FailedRevisionReviewed(s)
               PROVE  Readable(s)
    BY DEF HistoryReadable
  <2>1. /\ ledger \in Seq(Events) /\ Chained(s, ledger, records, intent[s])
        /\ Positions(s) = Pos(s, ledger)
    BY LastFacts DEF ReviewInvariant, ChainInvariant, TypeOK
  <2>2. SUFFICES ASSUME NEW i \in Pos(s, ledger)
                 PROVE  /\ ledger[i] \in records
                        /\ ledger[i].revision <= ledger[i].policy.limit
                        /\ IF Earlier(s, ledger, i) = {}
                           THEN ledger[i].type = "assessment-started" /\ ledger[i].revision = 0 /\ ledger[i].prev = 0
                           ELSE Succeeds(i, ledger[LastOf(Earlier(s, ledger, i))])
    BY <2>1 DEF Readable, Earlier
  <2> DEFINE e == ledger[i]
             p == ledger[LastOf(Earlier(s, ledger, i))]
  <2>3. e.slice = s /\ e.sequence = i /\ Fits(e, ledger, i) /\ i \in DOMAIN ledger
    BY <2>1, ChainedFinal, PlacesFacts
  <2>4. e \in records
    <3>1. e \in records \/ (intent[s] # None /\ intent[s].event = e)
      BY <2>1 DEF Chained
    <3>2. intent[s].event = e => Published(s)
      BY <2>3 DEF Published
    <3>3. QED
      BY <3>1, <3>2 DEF Unlinked
  <2>5. ASSUME Earlier(s, ledger, i) # {} PROVE Succeeds(i, p)
    <3>1. Linked(e, p, ledger, i)
      BY <2>3, <2>5 DEF Fits
    <3>2. LastOf({j \in Positions(e.slice) : j < i /\ ledger[j].type \in Completions}) = Parent(s, ledger, i)
      BY <2>1, <2>3 DEF Parent, Assessed
    <3>3. ASSUME e.type \in {"independent-checks", "strong-review"}
          PROVE  /\ Parent(s, ledger, i) # 0 /\ e.assessment = Parent(s, ledger, i)
                 /\ e.envelope = ledger[Parent(s, ledger, i)].envelope
      <4>1. OfAssessment(e, ledger, i)
        BY <3>1, <3>3 DEF Linked
      <4>2. ~Failed(s, ledger, i)
        <5>1. SUFFICES ASSUME NEW j \in Earlier(s, ledger, i), ledger[j].type = "revision-candidate",
                              ledger[j].route = "escalation"
                       PROVE  FALSE
          BY DEF Failed
        <5>2. j \in Positions(s) /\ i \in Positions(s) /\ j < i
          BY <2>1 DEF Earlier
        <5>3. QED
          BY <3>3, <5>1, <5>2 DEF FailedRevisionReviewed
      <4>3. QED
        BY <2>3, <4>1, <4>2 DEF OfAssessment
    <3> HIDE DEF p
    <3>4. QED
      BY <2>3, <3>1, <3>2, <3>3 DEF Succeeds, Linked, Spends
  <2>6. QED
    BY <2>3, <2>4, <2>5 DEF Fits
<1>2. QED
  BY <1>1, ReviewKeepsInvariant, PTL

(* No more workers are sent to revise a slice than its policy allows,      *)
(* whatever fails or is repeated (slice-test-review-workflow.mjs,          *)
(* dispatch).                                                              *)
THEOREM BudgetAlwaysHeld == Spec => []BudgetHeld
<1>1. ReviewInvariant => BudgetHeld
  <2> SUFFICES ASSUME ReviewInvariant, NEW s \in Slices, NEW i \in Positions(s)
               PROVE  Cardinality({j \in Positions(s) : j <= i /\ ledger[j].type = "revision-dispatched"})
                        <= ledger[i].policy.limit
    BY DEF BudgetHeld
  <2>1. /\ ledger \in Seq(Events) /\ Chained(s, ledger, records, intent[s])
        /\ Positions(s) = Pos(s, ledger)
    BY LastFacts DEF ReviewInvariant, ChainInvariant, TypeOK
  <2>2. /\ ledger[i] \in Events /\ ledger[i].revision <= ledger[i].policy.limit
        /\ Cardinality(Dispatches(s, ledger, i)) <= ledger[i].revision
    BY <2>1, ChainedFinal
  <2>3. ledger[i].revision \in Nat /\ ledger[i].policy.limit \in Nat
    BY <2>2, EventFields
  <2>4. Cardinality(Dispatches(s, ledger, i)) \in Nat
    BY <2>1, DispatchesFinite
  <2>5. Dispatches(s, ledger, i) = {j \in Positions(s) : j <= i /\ ledger[j].type = "revision-dispatched"}
    BY <2>1 DEF Dispatches
  <2>6. QED
    BY <2>2, <2>3, <2>4, <2>5
<1>2. QED
  BY <1>1, ReviewKeepsInvariant, PTL

(* A worker that revises a slice finds it at its own dispatch when it      *)
(* returns.                                                                *)
THEOREM DispatchesUndisturbed == Spec => []DispatchUndisturbed
<1>1. ReviewInvariant => DispatchUndisturbed
  BY LastFacts DEF ReviewInvariant, WorkInvariant, Dispatched, DispatchUndisturbed
<1>2. QED
  BY <1>1, ReviewKeepsInvariant, PTL

(* A pending operator revision is in the ledger or can still follow its    *)
(* strong review.                                                          *)
THEOREM IntentsPublishable == Spec => []IntentPublishable
<1>1. ReviewInvariant => IntentPublishable
  BY LastFacts DEF ReviewInvariant, IntentInvariant, Pending, Standing, Published, IntentPublishable
<1>2. QED
  BY <1>1, ReviewKeepsInvariant, PTL

(* What lets a candidate be applied is a chain of three events: a readable *)
(* history that ends with a strong review that accepted is of an           *)
(* assessment and of checks that passed, of the same candidate.            *)
LEMMA AcceptableVetted ==
  ASSUME TypeOK, NEW s \in Slices, NEW r, NEW reviewed, Acceptable(s, r, reviewed)
  PROVE  Vetted(s, r)
<1> DEFINE k == Last(s)
           e == ledger[k]
           before == Earlier(s, ledger, k)
           j == LastOf(before)
           p == ledger[j]
           i == Parent(s, ledger, k)
<1>1. /\ k # 0 /\ e.type = "strong-review" /\ e.route = "operator-acceptance" /\ e.envelope.run = r
      /\ e.envelope.approval = approval[s] /\ Readable(s)
  BY DEF Acceptable, LastEvent, Fresh
<1>2. /\ ledger \in Seq(Events) /\ Positions(s) = Pos(s, ledger) /\ k \in Positions(s)
      /\ e \in Events /\ e.slice = s
  BY <1>1, LastFacts DEF TypeOK, LastEvent
<1>3. before # {} /\ Succeeds(k, p)
  <2>1. before = {x \in Positions(s) : x < k}
    BY <1>2 DEF Earlier
  <2>2. IF before = {} THEN e.type = "assessment-started" ELSE Succeeds(k, p)
    BY <1>1, <1>2, <2>1 DEF Readable
  <2>3. QED
    BY <1>1, <2>2
<1>4. /\ j \in Positions(s) /\ j < k /\ \A x \in before : x <= j
      /\ p \in Events /\ j \in 1..Len(ledger) /\ k \in 1..Len(ledger) /\ Len(ledger) \in Nat
  <2>1. /\ Len(ledger) \in Nat /\ before \subseteq 1..Len(ledger) /\ Positions(s) \subseteq 1..Len(ledger)
        /\ \A x \in 1..Len(ledger) : ledger[x] \in Events
    BY <1>2, PlacesFacts
  <2>2. j \in before /\ \A x \in before : x <= j
    BY <1>3, <2>1, LastOfFacts
  <2>3. j \in Positions(s) /\ j < k
    BY <1>2, <2>2 DEF Earlier
  <2>4. QED
    BY <1>2, <2>1, <2>2, <2>3
<1>5. i = LastOf({x \in Positions(e.slice) : x < k /\ ledger[x].type \in Completions})
  BY <1>2 DEF Parent, Assessed
<1> HIDE DEF i, j, p, before, k
<1>6. /\ e.policy = p.policy /\ e.envelope = p.envelope
      /\ i # 0 /\ e.envelope = ledger[i].envelope
      /\ IF e.verdict = "accepted" THEN p.type = "independent-checks" /\ p.checks = "passed"
         ELSE e.route = BudgetRoute(e)
  BY <1>1, <1>3, <1>5 DEF Succeeds
<1>7. e.verdict = "accepted"
  <2>1. BudgetRoute(e) \in {"revision", "escalation"}
    BY <1>2, BudgetRoutes
  <2>2. QED
    BY <1>1, <1>6, <2>1
<1>8. i \in Positions(s) /\ i < k /\ ledger[i].type \in Completions /\ i \in Nat
  <2>1. Assessed(s, ledger, k) \subseteq 1..Len(ledger)
    BY <1>2, PlacesFacts
  <2>2. i \in Assessed(s, ledger, k)
    BY <1>4, <1>6, <2>1, LastOfFacts DEF i, Parent
  <2>3. QED
    BY <1>2, <1>4, <2>1, <2>2 DEF Assessed
<1>9. i < j
  <2>1. i <= j
    BY <1>2, <1>4, <1>8 DEF before, Earlier
  <2>2. i # j
    BY <1>6, <1>7, <1>8 DEF p, Completions
  <2>3. QED
    BY <1>4, <1>8, <2>1, <2>2
<1>10. ledger[i].envelope = [ledger[i].envelope EXCEPT !.run = r]
  <2>1. ledger[i].envelope.run = r /\ ledger[i].envelope \in Envelopes
    BY <1>1, <1>2, <1>6, EventFields
  <2>2. QED
    BY <2>1 DEF Envelopes
<1>11. \A x \in {i, j, k} : /\ ledger[x].envelope = [ledger[i].envelope EXCEPT !.run = r]
                            /\ ledger[x].envelope.approval = approval[s]
  BY <1>1, <1>6, <1>10 DEF p
<1>12. QED
  BY <1>1, <1>2, <1>4, <1>6, <1>7, <1>8, <1>9, <1>11 DEF Vetted, k, p

(* Under an active policy only a candidate that was assessed, passed its   *)
(* checks and was accepted by a strong reviewer is applied                 *)
(* (slice-test-review-workflow.mjs, the gate of apply).                    *)
THEOREM AppliedIsVetted == Spec => AppliedVetted
<1>1. ASSUME TypeOK, [Next]_vars, NEW s \in Slices, applied'[s] \notin {applied[s], None}, policy # None
      PROVE  Vetted(s, applied'[s])
  <2>1. \/ applied' = applied \/ SaveRevision
        \/ \E t \in Slices, r \in DOMAIN runs : ApplyTask(t, r)
    <3>1. ASSUME \/ UNCHANGED <<policy, controller>> \/ AbandonRevision
                 \/ \E t \in Slices : \/ ApproveTask(t) \/ AcceptTask(t) \/ BlockTask(t) \/ PrepareRevision(t)
                                      \/ \E x \in {0} \cup DOMAIN runs : EditProject(t, x)
                 \/ \E p \in Policies : EditPolicy(p)
          PROVE  applied' = applied
      BY <3>1 DEF controller, AbandonRevision, ApproveTask, AcceptTask, BlockTask, PrepareRevision, EditProject,
                  EditPolicy
    <3>2. QED
      BY <1>1, <3>1, ControllerKinds
  <2>2. ~SaveRevision
    <3>1. SUFFICES ASSUME SaveRevision PROVE FALSE
      OBVIOUS
    <3>2. applied' = [applied EXCEPT ![saving.slice] = None]
      BY <3>1 DEF SaveRevision
    <3>3. QED
      BY <1>1, <3>2 DEF TypeOK
  <2>3. PICK t \in Slices, r \in DOMAIN runs : ApplyTask(t, r)
    BY <1>1, <2>1, <2>2
  <2>4. applied' = [applied EXCEPT ![t] = r] /\ Acceptable(t, r, None)
    BY <1>1, <2>3 DEF ApplyTask
  <2>5. s = t /\ applied'[s] = r
    BY <1>1, <2>4 DEF TypeOK
  <2>6. QED
    BY <1>1, <2>4, <2>5, AcceptableVetted
<1>2. TypeOK /\ [Next]_vars =>
        [\A s \in Slices : applied'[s] \notin {applied[s], None} /\ policy # None => Vetted(s, applied'[s])]_vars
  BY <1>1
<1>3. QED
  BY <1>2, ReviewTyped, PTL DEF Spec, AppliedVetted

(* While an operator revision is published its candidate is neither        *)
(* applied nor accepted: the publication began after the review that sends *)
(* it back, and under an active policy every apply and every acceptance    *)
(* needs the lock it holds.  Without a policy they do not.                 *)
Back(s, a, rv) == a[s] = None /\ rv[s].verdict # "accepted"
Publishes(h, a, rv) == h # None /\ h.stage = "publish" => Back(h.slice, a, rv)
SentBack == policy # None /\ Publishes(held, applied, review)

LEMMA SentBackStep ==
  ASSUME None \notin Policies, ReviewInvariant, SentBack, [Next]_vars
  PROVE  SentBack'
<1>1. /\ TypeOK /\ policy # None /\ Publishes(held, applied, review)
      /\ held \in [slice : Slices, stage : Stages, event : Events, packet : Nat] \cup {None}
  BY DEF ReviewInvariant, SentBack, TypeOK
<1>2. policy' # None
  BY <1>1, ControllerKinds DEF controller, SaveRevision, AbandonRevision, ApproveTask, AcceptTask, BlockTask,
       PrepareRevision, ApplyTask, EditProject, EditPolicy
<1>3. ASSUME held' # None, held'.stage = "publish"
      PROVE  held' = held \/ \E s \in Slices : StartPublish(s)
  <2>1. CASE Aside \/ Drops
    BY <2>1 DEF Aside, Drops
  <2>2. ASSUME NEW e, Writes(e) PROVE FALSE
    BY <1>3, <2>2 DEF Writes
  <2>3. ASSUME AppendEvent \/ PublishEvent \/ LinkRecord PROVE FALSE
    BY <1>1, <1>3, <2>3 DEF AppendEvent, PublishEvent, LinkRecord
  <2>4. ASSUME Interrupt \/ ClearIntent PROVE FALSE
    BY <1>3, <2>4 DEF Interrupt, ClearIntent
  <2>5. ASSUME NEW s \in Slices, StartChecks(s) PROVE FALSE
    BY <1>3, <2>5 DEF StartChecks
  <2>6. ASSUME NEW s \in Slices, PrepareRevision(s) PROVE held' = held
    BY <2>6 DEF PrepareRevision
  <2>7. Steps
    BY StepKinds DEF ReviewInvariant
  <2>8. QED
    BY <2>1, <2>2, <2>3, <2>4, <2>5, <2>6, <2>7 DEF Steps
<1>4. ASSUME NEW s \in Slices, StartPublish(s), held' # None
      PROVE  Back(held'.slice, applied', review')
  <2>1. /\ Committed(s) /\ UNCHANGED controller
        /\ \/ held' = [slice |-> s, stage |-> "link", event |-> intent[s].event, packet |-> approval[s]]
           \/ \E e : held' = [slice |-> s, stage |-> "publish", event |-> e, packet |-> approval[s]]
    BY <1>4 DEF StartPublish
  <2>2. held'.slice = s /\ applied' = applied /\ review' = review
    BY <2>1 DEF controller
  <2>3. QED
    BY <2>1, <2>2 DEF Committed, Back
<1>5. ASSUME held # None, held' = held, held.stage = "publish"
      PROVE  Back(held.slice, applied', review')
  <2>1. Back(held.slice, applied, review) /\ held.slice \in Slices
    BY <1>1, <1>5 DEF Publishes
  <2>2. CASE UNCHANGED <<applied, review>>
    BY <2>1, <2>2
  <2>3. CASE SaveRevision
    <3> DEFINE new == [verdict |-> "revision", approval |-> approval[saving.slice],
                       appliedFrom |-> saving.run, proof |-> 0, content |-> 0]
    <3>1. new.verdict = "revision"
      OBVIOUS
    <3>2. review' = [review EXCEPT ![saving.slice] = new] /\ applied' = [applied EXCEPT ![saving.slice] = None]
      BY <2>3 DEF SaveRevision
    <3> HIDE DEF new
    <3>3. QED
      BY <1>1, <2>1, <3>1, <3>2 DEF Back, TypeOK
  <2>4. ASSUME NEW s \in Slices, BlockTask(s) PROVE Back(held.slice, applied', review')
    <3> DEFINE new == [verdict |-> "blocked", approval |-> approval[s], appliedFrom |-> None,
                       proof |-> 0, content |-> 0]
    <3>1. new.verdict = "blocked"
      OBVIOUS
    <3>2. review' = [review EXCEPT ![s] = new] /\ applied' = applied
      BY <2>4 DEF BlockTask
    <3> HIDE DEF new
    <3>3. QED
      BY <1>1, <2>1, <3>1, <3>2 DEF Back, TypeOK
  <2>5. ASSUME NEW s \in Slices, AcceptTask(s) \/ \E r \in DOMAIN runs : ApplyTask(s, r) PROVE FALSE
    BY <1>1, <1>5, <2>5 DEF AcceptTask, ApplyTask
  <2>6. ASSUME \/ UNCHANGED <<policy, controller>> \/ AbandonRevision
               \/ \E s \in Slices : \/ ApproveTask(s) \/ PrepareRevision(s)
                                    \/ \E x \in {0} \cup DOMAIN runs : EditProject(s, x)
               \/ \E p \in Policies : EditPolicy(p)
        PROVE  UNCHANGED <<applied, review>>
    BY <2>6 DEF controller, AbandonRevision, ApproveTask, PrepareRevision, EditProject, EditPolicy
  <2>7. QED
    BY <2>2, <2>3, <2>4, <2>5, <2>6, ControllerKinds
<1>6. Publishes(held', applied', review')
  BY <1>3, <1>4, <1>5 DEF Publishes
<1>7. QED
  BY <1>2, <1>6 DEF SentBack

(* A policy always being active, an operator revision reaches the ledger   *)
(* only while its candidate is neither applied nor accepted                *)
(* (publishSliceTestOperatorRevision, after isSliceTestReviewCommitted).   *)
THEOREM PublishedCommitted ==
  ASSUME None \notin Policies
  PROVE  Spec => PublishedOnceCommitted
<1>1. Init => SentBack
  BY DEF Init, SentBack, Publishes
<1>2. ReviewInvariant /\ SentBack /\ [Next]_vars => SentBack'
  BY SentBackStep
<1>3. ASSUME ReviewInvariant, SentBack, [Next]_vars, NEW i \in DOMAIN ledger' \ DOMAIN ledger,
             ledger'[i].type = "operator-revision"
      PROVE  applied[ledger'[i].slice] = None /\ review[ledger'[i].slice].verdict # "accepted"
  <2>1. Steps /\ TypeOK /\ ledger \in Seq(Events)
    BY <1>3, StepKinds DEF ReviewInvariant, TypeOK
  <2>2. ASSUME NEW e \in Events, ledger' = Append(ledger, e) PROVE ledger'[i] = e
    BY <1>3, <2>1, <2>2
  <2>3. CASE AppendEvent
    BY <1>3, <2>1, <2>2, <2>3, AppendEffect DEF ReviewInvariant
  <2>4. CASE PublishEvent
    <3>1. /\ held # None /\ held.event \in Events /\ held.event.slice = held.slice
          /\ ledger' = Append(ledger, held.event)
      BY <1>3, <2>4, PublishEffect DEF ReviewInvariant
    <3>2. held.stage = "publish"
      BY <2>4 DEF PublishEvent
    <3>3. QED
      BY <1>3, <2>2, <3>1, <3>2 DEF SentBack, Publishes, Back
  <2>5. ASSUME \/ Aside \/ Drops \/ \E e : Writes(e)
               \/ Interrupt \/ LinkRecord \/ ClearIntent
               \/ \E s \in Slices : StartChecks(s) \/ StartPublish(s) \/ PrepareRevision(s)
        PROVE  ledger' = ledger
    BY <2>5 DEF Aside, Drops, Writes, Interrupt, LinkRecord, ClearIntent, StartChecks, StartPublish,
                PrepareRevision
  <2>6. QED
    BY <1>3, <2>1, <2>3, <2>4, <2>5 DEF Steps
<1>4. ReviewInvariant /\ SentBack /\ [Next]_vars =>
        [\A i \in DOMAIN ledger' \ DOMAIN ledger :
           ledger'[i].type = "operator-revision" =>
             applied[ledger'[i].slice] = None /\ review[ledger'[i].slice].verdict # "accepted"]_vars
  BY <1>3
<1>5. QED
  BY <1>1, <1>2, <1>4, ReviewKeepsInvariant, PTL DEF Spec, PublishedOnceCommitted
=============================================================================
