---------------------------- MODULE UsageReport ----------------------------
(***************************************************************************)
(* The usage report of a feature (src/usage-report.mjs): the worker runs of*)
(* its tasks with the runs they revise, what each used as far as its kept  *)
(* artifacts tell, and the ledger's records, added up with what is missing.*)
(*                                                                         *)
(* One component of usage stands for all six, which are treated alike; a   *)
(* count that is not known is -1, and counts are bounded by safe. A total  *)
(* has the gaps of its own parts: that the report repeats a task's under   *)
(* both of its totals, and the counts of parts beside them, are left out.  *)
(*   text    [kind, ends, turns, malformed], a kept stdout: the messages   *)
(*           of its message_end and turn_end events, each [id, tokens]     *)
(*   result  [kind, task, messages, tokens, elapsed, base]                 *)
(*   run     [packet, result, text], packet the task its packet names      *)
(***************************************************************************)
EXTENDS Integers, Sequences, FiniteSets, FiniteSetsExt, Functions

Unknown == -1
NoRun == "no run"
NoTask == "no task"

(* safeAdd, safeSum: one unknown, or a sum out of range, makes the sum so. *)
SafeSum(values, keys, safe) ==
    IF \E k \in keys : values[k] = Unknown THEN Unknown
    ELSE LET sum == MapThenSumSet(LAMBDA k : values[k], keys) IN IF sum > safe THEN Unknown ELSE sum

(* parseWorkerStdout: message_end events when there are any; a repeated id *)
(* counts once.                                                            *)
MessagesOf(text) == IF text.ends # <<>> THEN text.ends ELSE text.turns
Responses(text, most) ==
    {i \in DOMAIN MessagesOf(text) :
        i <= most /\ (MessagesOf(text)[i].id # "" => \A j \in 1..i - 1 : MessagesOf(text)[j].id # MessagesOf(text)[i].id)}
Partial(text, most) == text.malformed > 0 \/ Len(text.ends) + Len(text.turns) > most

(* resultCumulative: the number of responses the worker counted, if it did.*)
Expected(result, text, most) ==
    IF result.messages # Unknown THEN result.messages
    ELSE IF text.kind = "text" THEN Cardinality(Responses(text, most)) ELSE Unknown

(* summarizeRunUsage: what keeps a run's usage from being whole.           *)
RunGaps(result, text, most) ==
    LET expected == Expected(result, text, most) IN
    {gap \in {"stdout", "malformed", "coverage", "no response"} :
        \/ gap = "stdout" /\ text.kind # "text"
        \/ gap = "malformed" /\ text.kind = "text" /\ Partial(text, most)
        \/ gap = "coverage" /\ expected \notin {Unknown, IF text.kind = "text" THEN Cardinality(Responses(text, most)) ELSE 0}
        \/ gap = "no response" /\ text.kind = "text" /\ expected = 0 /\ Responses(text, most) = {}}

Metric(value, known, gaps) == [value |-> value, known |-> known, gaps |-> gaps]

(* metricFromObservations: a component is known when every response told it*)
(* and their sum is what the worker itself counted.                        *)
RunMetric(result, text, most, safe) ==
    LET told == IF text.kind = "text" THEN {i \in Responses(text, most) : MessagesOf(text)[i].tokens # Unknown} ELSE {}
        sum == SafeSum([i \in told |-> MessagesOf(text)[i].tokens], told, safe)
        expected == Expected(result, text, most)
        counted == IF result.tokens > 0 THEN result.tokens ELSE Unknown
        gaps == RunGaps(result, text, most)
        mismatch == counted # Unknown /\ Cardinality(told) = expected /\ told # {} /\ sum # counted
        whole == expected > 0 /\ Cardinality(told) = expected /\ gaps = {} /\ ~mismatch /\ sum # Unknown
    IN  Metric(IF whole THEN sum ELSE Unknown,
               IF counted # Unknown THEN counted ELSE IF told # {} THEN sum ELSE Unknown,
               IF whole THEN {}
               ELSE gaps \cup (IF sum = Unknown THEN {"overflow"} ELSE {}) \cup (IF mismatch THEN {"mismatch"} ELSE {})
                    \cup (IF gaps = {} /\ ~mismatch /\ sum # Unknown THEN {"component"} ELSE {}))

(* loadRun, readBoundedFile: without a readable result nothing is known.   *)
RunUsage(run, most, safe) ==
    IF run.result.kind # "object" THEN Metric(Unknown, Unknown, {"result"})
    ELSE RunMetric(run.result, run.text, most, safe)

RunElapsed(run) ==
    IF run.result.kind = "object" /\ run.result.elapsed # Unknown
      THEN Metric(run.result.elapsed, run.result.elapsed, {})
      ELSE Metric(Unknown, Unknown, {"duration"})

(* aggregateMetrics, aggregateSimpleMetrics: a total is known when every   *)
(* part is; the tokens' total reads an unknown part as an overflow too.    *)
Aggregate(metrics, keys, safe, tokens) ==
    LET total == SafeSum([k \in keys |-> metrics[k].value], keys, safe)
        parts == {k \in keys : metrics[k].known # Unknown}
        known == SafeSum([k \in parts |-> metrics[k].known], parts, safe)
        parted == \A k \in keys : metrics[k].value # Unknown
    IN  IF keys = {} THEN Metric(Unknown, Unknown, {"no usage"})
        ELSE Metric(total, IF parts = {} THEN Unknown ELSE known,
                    UNION {metrics[k].gaps : k \in keys}
                      \cup (IF total = Unknown /\ (tokens \/ parted) THEN {"overflow"} ELSE {})
                      \cup (IF parts # {} /\ known = Unknown THEN {"overflow"} ELSE {}))

(* discoverWorkerRuns: the task a run's packet or result names.            *)
ResultTask(run) == IF run.result.kind = "object" THEN run.result.task ELSE NoTask
Disagree(run) == run.packet # NoTask /\ ResultTask(run) # NoTask /\ run.packet # ResultTask(run)
Attributed(run) == IF run.packet # NoTask THEN run.packet ELSE ResultTask(run)
Discovered(disk, tasks) == {<<r, Attributed(disk[r])>> : r \in {x \in DOMAIN disk : Attributed(disk[x]) \in tasks}}

(* A run's directory may be gone: it is then read as a run without result. *)
Lost == [packet |-> NoTask, text |-> [kind |-> "missing", ends |-> <<>>, turns |-> <<>>, malformed |-> 0],
         result |-> [kind |-> "missing", task |-> NoTask, messages |-> Unknown, tokens |-> Unknown,
                     elapsed |-> Unknown, base |-> NoRun]]
RunAt(disk, r) == IF r \in DOMAIN disk THEN disk[r] ELSE Lost

(* collectRuns: the runs discovered and the runs they revise, each for the *)
(* task it was reached from; the controller lists no runs of its own.      *)
Collected(disk, tasks) ==
    LET reached[n \in 0..Cardinality(DOMAIN disk)] ==
            IF n = 0 THEN Discovered(disk, tasks)
            ELSE reached[n - 1] \cup {<<RunAt(disk, a[1]).result.base, a[2]>> :
                                         a \in {b \in reached[n - 1] : RunAt(disk, b[1]).result.base # NoRun}}
    IN  reached[Cardinality(DOMAIN disk)]

(* The report is refused when a run's task cannot be told for sure.        *)
Refused(disk, tasks) ==
    \/ \E r \in DOMAIN disk : Disagree(disk[r])
    \/ \E a, b \in Collected(disk, tasks) : a[1] = b[1] /\ a[2] # b[2]
    \/ \E a \in Collected(disk, tasks) : ResultTask(RunAt(disk, a[1])) \notin {NoTask, a[2]}

(* Runs nobody can be charged with are named, not counted.                 *)
Unattributed(disk) == {r \in DOMAIN disk : Attributed(disk[r]) = NoTask}

(* localSummary                                                            *)
TaskRuns(collected, task) == {a[1] : a \in {b \in collected : b[2] = task}}
TaskUsage(disk, collected, task, most, safe) ==
    LET runs == TaskRuns(collected, task)
    IN  Aggregate([r \in runs |-> RunUsage(RunAt(disk, r), most, safe)], runs, safe, TRUE)
TaskElapsed(disk, collected, task, safe) ==
    LET runs == TaskRuns(collected, task)
    IN  Aggregate([r \in runs |-> RunElapsed(RunAt(disk, r))], runs, safe, FALSE)
LocalUsage(disk, collected, tasks, most, safe) ==
    Aggregate([t \in tasks |-> TaskUsage(disk, collected, t, most, safe)], tasks, safe, TRUE)
LocalElapsed(disk, collected, tasks, safe) ==
    Aggregate([t \in tasks |-> TaskElapsed(disk, collected, t, safe)], tasks, safe, FALSE)

(* selectUsageRecords: a record of the feature, or of one of its tasks when*)
(* it names no feature; one that names the feature and a foreign task is   *)
(* reported as missing.                                                    *)
Selected(records, feature, tasks) ==
    {r \in records : \/ r.feature = feature /\ r.task \in tasks \cup {NoTask}
                     \/ r.feature = "none" /\ r.task \in tasks}
LeftOut(records, feature, tasks) ==
    {r \in records : \/ r.feature = "none" /\ r.task = NoTask
                     \/ r.feature = feature /\ r.task \notin tasks \cup {NoTask}}

(* frontierSummary: a phase without a record is not known to be nothing.   *)
PhaseUsage(selected, phase, safe) ==
    LET records == {r \in selected : r.phase = phase}
    IN  Aggregate([r \in records |-> Metric(r.tokens, r.tokens, IF r.tokens = Unknown THEN {"component"} ELSE {})],
                  records, safe, TRUE)
FrontierUsage(selected, phases, safe) ==
    Aggregate([p \in phases |-> PhaseUsage(selected, p, safe)], phases, safe, TRUE)
=============================================================================
