--------------------------- MODULE MCUsageReport ---------------------------
(***************************************************************************)
(* The usage report held against what its runs really used: one run under  *)
(* every loss its artifacts can suffer, and three runs of two tasks, one   *)
(* of which may revise another.                                            *)
(***************************************************************************)
EXTENDS UsageReport, SequencesExt

Most == 3
Safe == 6

(* A worker wrote an event of each kind for every response; lines may be   *)
(* missing, unreadable or written twice by the time the report reads them. *)
Used == {<<>>} \cup {<<x>> : x \in 1..2} \cup {<<x, y>> : x, y \in 1..2}
Ids == <<"first", "second">>
EventsOf(used) == [i \in DOMAIN used |-> [id |-> Ids[i], tokens |-> used[i]]]
SumOf(used) == FoldSeq(LAMBDA x, y : x + y, 0, used)
LinesKept(used) ==
    {SelectSeq(EventsOf(used), LAMBDA e : e.id \in kept) : kept \in SUBSET Range(Ids)} \cup {e \o e : e \in {EventsOf(used)}}
    \cup {[i \in DOMAIN used |-> [EventsOf(used)[i] EXCEPT !.tokens = Unknown]]}
Texts(used) ==
    {[kind |-> "text", ends |-> e, turns |-> t, malformed |-> m] :
        e \in LinesKept(used), t \in {<<>>, EventsOf(used)}, m \in 0..1}
    \cup {Lost.text}
Results(used) ==
    {[kind |-> "object", task |-> "t", messages |-> m, tokens |-> c, elapsed |-> 1, base |-> NoRun] :
        m \in {Unknown, Len(used)}, c \in {Unknown, SumOf(used)}} \cup {Lost.result}

(* A run's stated usage is what it used, whatever was lost of its output,  *)
(* when the worker counted its responses; and a run with an unreadable     *)
(* line, without output or without a result never states any               *)
(* (usage-report.mjs:96-120, 203-273).                                     *)
ASSUME UsageIsWhole ==
    \A used \in Used : \A text \in Texts(used), result \in Results(used) :
        LET usage == RunUsage([packet |-> "t", result |-> result, text |-> text], Most, Safe) IN
        /\ usage.value # Unknown =>
              /\ result.kind = "object" /\ text.kind = "text" /\ text.malformed = 0
              /\ result.messages # Unknown => usage.value = SumOf(used)
        /\ usage.known # Unknown => usage.known <= SumOf(used)
        /\ usage.value = Unknown <=> usage.gaps # {}

(* Three runs, each with all of its artifacts, without a result, without a *)
(* count of its responses or with none.                                    *)
Runs == {"q", "r", "s"}
Uses == ("q" :> <<2>>) @@ ("r" :> <<1, 2>>) @@ ("s" :> <<1>>)
Tasks == {"t", "u"}
RunOf(used, task, base, kept) ==
    LET text == [kind |-> "text", ends |-> EventsOf(used), turns |-> EventsOf(used), malformed |-> 0] IN
    IF kept = "result" THEN [packet |-> task, text |-> text,
                             result |-> [kind |-> "object", task |-> task, messages |-> Len(used), tokens |-> SumOf(used),
                                         elapsed |-> 1, base |-> base]]
    ELSE [packet |-> task, text |-> text, result |-> Lost.result]
Disks == UNION {{[r \in there |-> RunOf(Uses[r], task[r], IF r = "s" THEN base ELSE NoRun, kept[r])] :
                    task \in [there -> Tasks \cup {NoTask}], base \in {NoRun, "r"}, kept \in [there -> {"result", "nothing"}]} :
                there \in SUBSET Runs}
Chargeable(disk, collected) == {a[1] : a \in collected} \cap DOMAIN disk

(* Every run of a task of the feature is charged, with those it revises,   *)
(* to that task alone; a total that is stated is what they used, and one   *)
(* that is not has its reasons (usage-report.mjs:122-181, 319-369,         *)
(* 487-558, 628-692).                                                      *)
ASSUME EveryRunIsCharged ==
    \A disk \in Disks, tasks \in {{"t"}, Tasks} :
        LET collected == Collected(disk, tasks)
            usage == LocalUsage(disk, collected, tasks, Most, Safe)
            elapsed == LocalElapsed(disk, collected, tasks, Safe)
        IN  ~Refused(disk, tasks) =>
            /\ \A r \in DOMAIN disk :
                  \/ disk[r].packet \notin tasks \cup {NoTask}
                  \/ disk[r].packet = NoTask /\ r \in Unattributed(disk)
                  \/ <<r, disk[r].packet>> \in collected
            /\ usage.value # Unknown =>
                  /\ {a[1] : a \in collected} \subseteq DOMAIN disk
                  /\ usage.value = MapThenSumSet(LAMBDA r : SumOf(Uses[r]), Chargeable(disk, collected))
                  /\ elapsed.value = Cardinality(Chargeable(disk, collected))
            /\ usage.value = Unknown => usage.gaps # {}
            /\ usage.known # Unknown =>
                  usage.known <= MapThenSumSet(LAMBDA r : SumOf(Uses[r]), Chargeable(disk, collected))

(* No record that counts for the feature counts for a second one, and one  *)
(* that names the feature and yet does not count is named as left out      *)
(* (usage-report.mjs:560-582); a phase is known only by its records.       *)
Records == [feature : {"f", "g", "none"}, task : {"t", "u", "v", NoTask}, phase : {"plan"}, tokens : {Unknown, 2}]
ASSUME RecordsCountOnce ==
    \A records \in {R \in SUBSET Records : Cardinality(R) <= 2} :
        /\ Selected(records, "f", {"t"}) \cap Selected(records, "g", {"u"}) = {}
        /\ \A r \in records : r.feature = "f" => r \in Selected(records, "f", {"t"}) \cup LeftOut(records, "f", {"t"})
        /\ LET usage == FrontierUsage(Selected(records, "f", {"t"}), {"plan", "review"}, Safe) IN
           /\ usage.value = Unknown /\ usage.gaps # {}
           /\ usage.known # Unknown => usage.known = 2 * Cardinality({r \in Selected(records, "f", {"t"}) : r.tokens = 2})
=============================================================================
