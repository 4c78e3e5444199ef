---------------------------- MODULE SemanticGate ----------------------------
(* The semantic gate of `task review` (controller.mjs 1812-1990, jev.mjs,
   semantic-policy.mjs): before the controller lock is taken, a judge is asked
   about each acceptance criterion of the brief; under `enforce` a criterion
   below the reject threshold refuses the accepted verdict.  Operators edit the
   brief, the evidence, the approval and the configuration meanwhile.  One
   task, which needs nothing else for its review. *)
EXTENDS Integers, FiniteSets

CONSTANTS Reviewers,   \* concurrent `task review` calls
          Briefs, Evidences,  \* contents of the two files
          Criteria,    \* Criteria[b]: ids of the rows C<n> of a brief
          Checked,     \* the Evidences with a "## Checks" section
          Nouls, Accept, Reject,  \* the judge's answers and the thresholds: Reject <= Accept
          Absent,
          MaxEdits     \* bound: edits of the operators

VARIABLES
  brief, evidence,  \* the files
  approved,   \* the brief the approval binds
  mode,       \* semanticGate.mode of the configuration
  decisions,  \* .tinysdd/runs/decisions/<task>.jsonl
  review,     \* the review on record
  call,       \* each reviewer's call
  edits

gateVars == <<brief, evidence, approved, mode, decisions, review, call, edits>>
inputs == <<brief, evidence, approved, mode>>
-----------------------------------------------------------------------------
Modes == {"off", "shadow", "enforce", "unreadable"}
Verdicts == {"accepted", "revision", "blocked"}
Idle == [pc |-> "idle", verdict |-> Absent, evidence |-> Absent, brief |-> Absent,
         mode |-> "off", tries |-> 0, answers |-> <<>>]

GateInit ==
  /\ brief \in Briefs /\ evidence \in Evidences /\ mode \in Modes
  /\ approved \in {brief, Absent}
  /\ decisions = {} /\ review = Absent
  /\ call = [r \in Reviewers |-> Idle] /\ edits = 0

Band(noul) ==
  IF noul >= Accept THEN "allow" ELSE IF noul < Reject THEN "block" ELSE "confirm"

\* Any block blocks, any confirm confirms.
Action(answers) ==
  LET bands == {Band(answers[c]) : c \in DOMAIN answers} IN
  IF "block" \in bands THEN "block"
  ELSE IF "confirm" \in bands THEN "confirm" ELSE "allow"

Decision(c, question, band) ==
  [brief |-> c.brief, evidence |-> c.evidence, mode |-> c.mode,
   question |-> question, band |-> band]

Goes(r, pc) == call' = [call EXCEPT ![r].pc = pc]
-----------------------------------------------------------------------------
(* The evidence is read first; only an accepted verdict is judged. *)
Begin(r, verdict) ==
  /\ call[r].pc = "idle"
  /\ call' = [call EXCEPT ![r] = [Idle EXCEPT
       !.verdict = verdict, !.evidence = evidence,
       !.pc = IF verdict = "accepted" THEN "resolving" ELSE "locking"]]
  /\ UNCHANGED <<inputs, decisions, review, edits>>

\* A configuration that cannot be read counts as one without a gate.
Resolve(r) ==
  /\ call[r].pc = "resolving"
  /\ call' = [call EXCEPT ![r].mode = mode,
       ![r].pc = IF mode \in {"off", "unreadable"} \/ approved = Absent
                 THEN "locking" ELSE "reading"]
  /\ UNCHANGED <<inputs, decisions, review, edits>>

(* A brief without criteria or an evidence without checks is noted as      *)
(* `confirm`, without a question to the judge.                             *)
ReadBrief(r) ==
  /\ call[r].pc = "reading"
  /\ LET c == [call[r] EXCEPT !.brief = brief] IN
       IF Criteria[brief] = {} \/ c.evidence \notin Checked
       THEN /\ decisions' = decisions \cup {Decision(c, Absent, "confirm")}
            /\ call' = [call EXCEPT ![r] = [c EXCEPT !.pc = "locking"]]
       ELSE /\ call' = [call EXCEPT ![r] = [c EXCEPT !.pc = "asking"]]
            /\ UNCHANGED decisions
  /\ UNCHANGED <<inputs, review, edits>>

\* The judge answers every question.
Answered(r, answers) ==
  /\ call[r].pc = "asking"
  /\ call' = [call EXCEPT ![r].pc = "judged", ![r].answers = answers]
  /\ UNCHANGED <<inputs, decisions, review, edits>>

(* A network error or a 5xx is tried once more; after that, and for an     *)
(* answer without a use, the gate counts as off and says so in a record.   *)
Unanswered(r, again) ==
  /\ call[r].pc = "asking"
  /\ again => call[r].tries = 0
  /\ IF again
     THEN call' = [call EXCEPT ![r].tries = 1] /\ UNCHANGED decisions
     ELSE /\ decisions' = decisions \cup {Decision(call[r], Absent, "unavailable")}
          /\ Goes(r, "locking")
  /\ UNCHANGED <<inputs, review, edits>>

(* One record for each criterion; under `enforce` a block ends the call,   *)
(* under `shadow` the verdict goes on.                                     *)
Decide(r) ==
  LET c == call[r] IN
  /\ c.pc = "judged"
  /\ decisions' = decisions \cup
       {Decision(c, q, Band(c.answers[q])) : q \in DOMAIN c.answers}
  /\ Goes(r, IF c.mode = "enforce" /\ Action(c.answers) = "block"
             THEN "rejected" ELSE "locking")
  /\ UNCHANGED <<inputs, review, edits>>

(* Under the lock the approval must be current; the evidence is read again *)
(* and the review binds what it and the brief are now.                     *)
Review(r) ==
  /\ call[r].pc = "locking"
  /\ IF approved = brief
     THEN /\ review' = [by |-> r, verdict |-> call[r].verdict,
                        brief |-> brief, evidence |-> evidence]
          /\ Goes(r, "reviewed")
     ELSE Goes(r, "refused") /\ UNCHANGED review
  /\ UNCHANGED <<inputs, decisions, edits>>
-----------------------------------------------------------------------------
Edit ==
  /\ edits < MaxEdits /\ edits' = edits + 1
  /\ \/ brief' \in Briefs /\ UNCHANGED <<evidence, approved, mode>>
     \/ evidence' \in Evidences /\ UNCHANGED <<brief, approved, mode>>
     \/ mode' \in Modes /\ UNCHANGED <<brief, evidence, approved>>
     \/ approved' = brief /\ UNCHANGED <<brief, evidence, mode>>
  /\ UNCHANGED <<decisions, review, call>>

Judged(r) ==
  \/ \E answers \in [Criteria[call[r].brief] -> Nouls] : Answered(r, answers)
  \/ \E again \in BOOLEAN : Unanswered(r, again)

GateNext ==
  \/ \E r \in Reviewers :
       \/ \E verdict \in Verdicts : Begin(r, verdict)
       \/ Resolve(r) \/ ReadBrief(r) \/ Decide(r) \/ Review(r)
       \/ call[r].pc = "asking" /\ Judged(r)
  \/ Edit

GateSpec == GateInit /\ [][GateNext]_gateVars
-----------------------------------------------------------------------------
(* What lets a gated call go on: every criterion of the brief it read was  *)
(* answered, none below the reject threshold, and so recorded; or a record *)
(* says that there was nothing to ask, or that no answer could be had.     *)
LetThrough(c, made) ==
  IF Criteria[c.brief] = {} \/ c.evidence \notin Checked
  THEN Decision(c, Absent, "confirm") \in made
  ELSE \/ Decision(c, Absent, "unavailable") \in made /\ c.answers = <<>>
       \/ /\ c.answers \in [Criteria[c.brief] -> Nouls]
          /\ \A q \in Criteria[c.brief] :
               /\ Band(c.answers[q]) # "block"
               /\ Decision(c, q, Band(c.answers[q])) \in made

(* An acceptance made under `enforce` was let through for the brief and    *)
(* the evidence that it binds (docs/jev-implementation-context.md 72).     *)
(* The gate reads both, and whether there is an approval, before the lock; *)
(* the review reads them again inside it (controller.mjs 1928, 1946).      *)
EnforcedAcceptanceJudged ==
  review # Absent /\ review.verdict = "accepted" /\ call[review.by].mode = "enforce" =>
    /\ call[review.by].brief = review.brief /\ call[review.by].evidence = review.evidence
    /\ LetThrough(call[review.by], decisions)
=============================================================================
