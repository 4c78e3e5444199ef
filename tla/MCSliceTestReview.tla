------------------------- MODULE MCSliceTestReview -------------------------
(* Two beginnings.  One slice from its first worker on, whose policy and   *)
(* approval may change; and two slices, the first candidate of the first   *)
(* being applied after it was assessed, checked and accepted by the strong *)
(* reviewer, while the second waits for its first assessment.              *)
EXTENDS SliceTestReview

CONSTANTS a, b

Strict  == [limit |-> 1, unavailable |-> "escalation"]
Lenient == [limit |-> 1, unavailable |-> "revision"]
Switched == {Lenient, Strict}

Event(n, type, route) ==
  [slice |-> a, sequence |-> n, type |-> type, route |-> route, revision |-> 0,
   prev |-> n - 1, envelope |-> [run |-> 1, approval |-> 1, taken |-> 1],
   policy |-> Strict, assessment |-> IF n = 1 THEN 0 ELSE IF n = 2 THEN 1 ELSE 2,
   checks |-> IF n < 3 THEN "none" ELSE "passed",
   verdict |-> IF n < 4 THEN "none" ELSE "accepted", candidate |-> 0, fromProject |-> FALSE]

Reviewed ==
  << Event(1, "assessment-started", "assessment-pending"),
     Event(2, "initial-assessment", "independent-review"),
     Event(3, "independent-checks", "independent-review"),
     Event(4, "strong-review", "operator-acceptance") >>

AppliedInit ==
  /\ ledger = Reviewed
  /\ records = {Reviewed[i] : i \in DOMAIN Reviewed}
  /\ runs = << [slice |-> a, base |-> 0, start |-> 0, approval |-> 1],
               [slice |-> b, base |-> 0, start |-> 0, approval |-> 1] >>
  /\ approval = [s \in Slices |-> 1]
  /\ applied = [s \in Slices |-> IF s = a THEN 1 ELSE None]
  /\ project = [s \in Slices |-> IF s = a THEN 1 ELSE 0]
  /\ review = [s \in Slices |-> [verdict |-> "none", approval |-> 0, appliedFrom |-> None,
                                 proof |-> 0, content |-> 0]]
  /\ intent = [s \in Slices |-> None]
  /\ working = [s \in Slices |-> None]
  /\ held = None /\ saving = None
  /\ policy = Strict

Alone == \A i \in DOMAIN runs : runs[i].slice = a

(* A slice keeps the policy and the approval it began with for as many     *)
(* events as the bound allows; one for which either of the two changes, and*)
(* may change back, is followed for a few, written under the first policy. *)
(* Interrupted operations leave at most MaxOrphans records without a line. *)
CONSTANTS MaxSwitchedEvents, MaxOrphans
Reapproved == approval[a] > 1
FreshNext ==
  /\ Next
  /\ Alone' /\ Len(runs') <= 2 /\ approval'[b] = approval[b]
  /\ project' = project \/ applied' # applied
  /\ \A e \in records' : e.policy = Lenient
  /\ Cardinality(records') <= Len(ledger) + MaxOrphans + 1
  /\ policy' = Lenient \/ ~Reapproved'
  /\ policy' # Lenient \/ Reapproved' => Len(ledger') <= MaxSwitchedEvents

AppliedNext == Next /\ policy' = Strict /\ approval' = approval

ReviewSpec ==
  /\ Init \/ AppliedInit
  /\ [][IF Alone THEN FreshNext ELSE AppliedNext]_vars
=============================================================================
