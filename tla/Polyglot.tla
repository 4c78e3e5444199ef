------------------------------ MODULE Polyglot ------------------------------
(* The polyglot benchmark (bench/polyglot): a queue of (model, profile,
   exercise, repeat) entries in a run directory, processes of the command
   `run` - one per host - that work through it, several entries of one model
   at a time, plan commands that append to the queue while they run, the
   triage of the failures, and the infrastructure (gateway, model server,
   Docker) that comes and goes.  An exercise has one solution file. *)
EXTENDS Integers, Sequences, FiniteSets, Functions

CONSTANTS Order,          \* the entries that plans may name, as plans sort them
          ModelOf, ProfileOf, ExerciseOf,  \* what an entry names
          Exercises, Holdout,  \* the dataset, and its split
          StubPasses, ReferencePasses,  \* what the tests say of stub and reference
          Hosts,          \* processes of `run`
          Served,         \* the models a host's process runs
          Parallel,       \* how many entries of a model run at once
          Contents,       \* contents of solution files
          SolutionsOf,    \* those that an entry's workers may produce
          Absent,         \* no such file
          HarnessRetries, MaxConsecutiveSkips,
          MaxStops        \* bound: crashes and interrupts

Entries == Range(Order)

ASSUME PolyglotAssumption ==
  /\ Holdout \cup StubPasses \cup ReferencePasses \subseteq Exercises
  /\ Absent \notin Contents /\ SolutionsOf \in [Entries -> SUBSET Contents]
  /\ HarnessRetries \in Nat /\ MaxConsecutiveSkips \in Nat \ {0}
  /\ MaxStops \in Nat
  /\ \A e \in Entries : Parallel[ModelOf[e]] \in Nat \ {0}
  \* one process per host, each with the models of its host
  /\ \A g, h \in Hosts : g # h => Served[g] \cap Served[h] = {}

VARIABLES
  queue,    \* queue.jsonl
  resultLines,  \* results.jsonl: the lines of each entry
  torn,     \* a line of it was cut off by a crash
  cases,    \* cases/<entry>/attempt-<n>/solution
  leftover, \* the solution found there when the entry was last begun (for ShownAsRecorded)
  labels,   \* triage/<entry>.json: what Jev was shown
  run,      \* the process of each host
  up,       \* the infrastructure works
  stops

polyglotVars == <<queue, resultLines, torn, cases, leftover, labels, run, up, stops>>
disk == <<queue, resultLines, torn, cases, leftover, labels>>
-----------------------------------------------------------------------------
Attempts == {1, 2}
Candidates == Contents \cup {Absent}
Down == [on |-> FALSE, todo |-> {}, group |-> Absent, agentDir |-> Absent,
         stop |-> Absent, skips |-> 0, flight |-> <<>>]
Flying(h) == DOMAIN run[h].flight
Done == {e \in Entries : resultLines[e] # <<>>}

(* An exercise whose stub passes, or whose reference fails, says nothing.  *)
Telling(exercise) == exercise \notin StubPasses /\ exercise \in ReferencePasses

Excluded == {exercise \in Exercises : ~Telling(exercise)}

\* What is queued for the models of a process.
Queued(h) ==
  {e \in Entries : /\ e \in Range(queue) /\ ModelOf[e] \in Served[h]
                   /\ ExerciseOf[e] \notin Excluded}

\* (mutants of Todo)
TodoAgain(h) == Queued(h)
TodoUnstarted(h) == {e \in Queued(h) \ Done : cases[e][1] = Absent}

\* The entries a process has to run, read once when it starts.
Todo(h) == Queued(h) \ Done

OfGroup(h) == {e \in run[h].todo : ModelOf[e] = run[h].group}

\* Of those entries, e is the first one in the queue, which only grows.
First(e, entries) ==
  /\ e \in entries
  /\ \E i \in DOMAIN queue : queue[i] = e /\ \A j \in 1..(i - 1) : queue[j] \notin entries

(* The plans: the baseline on every exercise; a candidate on the holdout,  *)
(* for one model.                                                          *)
Picked(profile, exercises) ==
  SelectSeq(Order, LAMBDA e : ProfileOf[e] = profile /\ ExerciseOf[e] \in exercises)

BaselinePlan == Picked("baseline", Exercises \ Excluded)

ConfirmPlan(model) ==
  SelectSeq(Picked("candidate", Holdout \ Excluded), LAMBDA e : ModelOf[e] = model)

\* What a plan adds to the queue.
Fresh(plan) == SelectSeq(plan, LAMBDA e : e \notin Range(queue))

Launched == [n |-> 1, tries |-> 0, pc |-> "call", previous |-> Absent, attempts |-> <<>>]

With(f, e, record) == [x \in DOMAIN f \cup {e} |-> IF x = e THEN record ELSE f[x]]
Without(f, e) == [x \in DOMAIN f \ {e} |-> f[x]]

\* An entry is over: recorded, left unrecorded, or the reason for a stop.
Landed(h, e) == [run EXCEPT ![h].flight = Without(@, e)]
Onwards(h, e, record) == [run EXCEPT ![h].flight[e] = record]

PolyglotInit ==
  /\ queue = <<>>
  /\ resultLines = [e \in Entries |-> <<>>] /\ torn = FALSE
  /\ cases = [e \in Entries |-> [n \in Attempts |-> Absent]]
  /\ leftover = [e \in Entries |-> Absent]
  /\ labels = [e \in Entries |-> <<>>]
  /\ run = [h \in Hosts |-> Down]
  /\ up = TRUE /\ stops = 0
-----------------------------------------------------------------------------
Queue(plan) ==
  /\ Fresh(plan) # <<>>
  /\ queue' = queue \o Fresh(plan)
  /\ UNCHANGED <<resultLines, torn, cases, leftover, labels, run, up, stops>>

PlanBaseline == Queue(BaselinePlan)

(* Bound: the confirmation is planned after the baseline, as the runbook   *)
(* has it (RUNBOOK.md 114-115).                                            *)
PlanConfirm(model) ==
  /\ Range(BaselinePlan) \subseteq Range(queue)
  /\ Queue(ConfirmPlan(model))

(* A cut-off line makes every reader of the results throw. *)
StartRun(h) ==
  /\ ~run[h].on /\ ~torn /\ Todo(h) # {}
  /\ run' = [run EXCEPT ![h] = [Down EXCEPT !.on = TRUE, !.todo = Todo(h)]]
  /\ UNCHANGED <<disk, up, stops>>

(* Models run one after the other: a group begins when the lanes of the    *)
(* one before it have ended.                                               *)
GroupOver(h) == OfGroup(h) = {} /\ Flying(h) = {}

NextGroup(h) ==
  /\ run[h].on /\ run[h].stop = Absent
  /\ GroupOver(h)
  /\ \E e \in run[h].todo :
       /\ First(e, run[h].todo)
       /\ run' = [run EXCEPT ![h].group = ModelOf[e], ![h].agentDir = ModelOf[e]]
  /\ UNCHANGED <<disk, up, stops>>

\* A lane takes the next entry of the group.
Take(h) ==
  /\ run[h].on /\ run[h].stop = Absent
  /\ \E e \in OfGroup(h) :
       /\ First(e, OfGroup(h))
       /\ Cardinality(Flying(h)) < Parallel[run[h].group]
       /\ run' = [run EXCEPT ![h].todo = @ \ {e}, ![h].flight = With(@, e, Launched)]
       /\ leftover' = [leftover EXCEPT ![e] = cases[e][1]]
  /\ UNCHANGED <<queue, resultLines, torn, cases, labels, up, stops>>

\* The worker of an attempt is started with the agent dir of its model.
StartWorker(h, e) ==
  /\ run[h].flight[e].pc = "call"
  /\ run' = [run EXCEPT ![h].flight[e].pc = "working", ![h].agentDir = ModelOf[e]]
  /\ UNCHANGED <<disk, up, stops>>

(* The worker and the tests of its candidate are done: the attempt's files *)
(* are saved, over those of an earlier attempt of the same number, and the *)
(* next attempt gets the solution that lies there.                         *)
Saved(old, candidate) == IF candidate = Absent THEN old ELSE candidate

\* What the tests may say of a candidate; without one they run on the stub.
Verdicts(candidate) == IF candidate = Absent THEN {FALSE} ELSE BOOLEAN

Answer(h, e, candidate, passed) ==
  LET f == run[h].flight[e]
      attempts == Append(f.attempts, [candidate |-> candidate, passed |-> passed])
      solution == Saved(cases[e][f.n], candidate)
  IN /\ f.pc = "working" /\ up
     /\ cases' = [cases EXCEPT ![e][f.n] = solution]
     /\ IF passed \/ f.n = 2
        THEN run' = Onwards(h, e, [f EXCEPT !.attempts = attempts, !.pc = "append"])
        ELSE run' = Onwards(h, e, [f EXCEPT !.attempts = attempts, !.n = 2, !.tries = 0,
                                          !.previous = solution, !.pc = "call"])
     /\ UNCHANGED <<queue, resultLines, torn, leftover, labels, up, stops>>

(* An infrastructure error is no result: the attempt is repeated after a   *)
(* pause; after too many the entry is left for the next run, and after     *)
(* several such entries in a row the run stops.                            *)
HarnessError(h, e) ==
  LET f == run[h].flight[e]
      skips == run[h].skips + 1
  IN /\ f.pc = "working" /\ ~up
     /\ \/ /\ f.tries < HarnessRetries
           /\ run' = Onwards(h, e, [f EXCEPT !.tries = @ + 1, !.pc = "asleep"])
        \/ /\ f.tries = HarnessRetries
           /\ run' = [Landed(h, e) EXCEPT
                        ![h].skips = skips,
                        ![h].stop = IF @ = Absent /\ skips >= MaxConsecutiveSkips
                                    THEN "harness" ELSE @]
     /\ UNCHANGED <<disk, up, stops>>

\* After the pause a run that is to stop leaves the entry unrecorded.
Wake(h, e) ==
  LET f == run[h].flight[e] IN
  /\ f.pc = "asleep"
  /\ run' = IF run[h].stop # Absent THEN Landed(h, e)
            ELSE Onwards(h, e, [f EXCEPT !.pc = "call"])
  /\ UNCHANGED <<disk, up, stops>>

AppendResult(h, e) ==
  /\ run[h].flight[e].pc = "append"
  /\ resultLines' = [resultLines EXCEPT ![e] = Append(@, run[h].flight[e].attempts)]
  /\ run' = [Landed(h, e) EXCEPT ![h].skips = 0]
  /\ UNCHANGED <<queue, torn, cases, leftover, labels, up, stops>>

End(h) ==
  /\ run[h].on /\ Flying(h) = {}
  /\ run[h].stop # Absent \/ run[h].todo = {}
  /\ run' = [run EXCEPT ![h] = Down]
  /\ UNCHANGED <<disk, up, stops>>
-----------------------------------------------------------------------------
(* The first interrupt lets the entries in flight finish; the second ends  *)
(* the process, as a crash does.                                           *)
Interrupt(h) ==
  /\ run[h].on /\ run[h].stop = Absent /\ stops < MaxStops
  /\ run' = [run EXCEPT ![h].stop = "sigint"]
  /\ stops' = stops + 1
  /\ UNCHANGED <<disk, up>>

(* Any other error of an entry ends the run: the entry is left unrecorded, *)
(* though what was saved of it stays, and the others in flight finish. An  *)
(* append that fails may have cut its line off; one that fails after the   *)
(* whole line is AppendResult followed by an Interrupt.                    *)
EntryFails(h, e) ==
  LET f == run[h].flight[e] IN
  /\ f.pc # "asleep" /\ stops < MaxStops
  /\ run' = [Landed(h, e) EXCEPT ![h].stop = IF @ = Absent THEN "harness" ELSE @]
  /\ torn' \in IF f.pc = "append" THEN {torn, TRUE} ELSE {torn}
  /\ stops' = stops + 1
  /\ UNCHANGED <<queue, resultLines, cases, leftover, labels, up>>

\* A line that was being appended may be left cut off.
Kill(h) ==
  /\ run[h].on /\ stops < MaxStops
  /\ run' = [run EXCEPT ![h] = Down]
  /\ torn' \in {torn} \cup {TRUE : e \in {x \in Flying(h) : run[h].flight[x].pc = "append"}}
  /\ stops' = stops + 1
  /\ UNCHANGED <<queue, resultLines, cases, leftover, labels, up>>

(* Triage asks Jev about each failed result of the discovery exercises     *)
(* that it has no answer for, and shows it the solution retained from the  *)
(* first attempt.                                                          *)
Failed(e) ==
  /\ resultLines[e] # <<>> /\ ExerciseOf[e] \notin Holdout
  /\ ~resultLines[e][1][1].passed

\* (mutant of Shown)
ShownLast(e) == cases[e][2]

Shown(e) == cases[e][1]

Triage(e) ==
  /\ ~torn /\ up /\ Failed(e) /\ labels[e] = <<>>
  /\ labels' = [labels EXCEPT ![e] = <<Shown(e)>>]
  /\ UNCHANGED <<queue, resultLines, torn, cases, leftover, run, up, stops>>

Switch == up' = ~up /\ UNCHANGED <<disk, run, stops>>

Fly(h, e) ==
  \/ StartWorker(h, e) \/ HarnessError(h, e) \/ Wake(h, e) \/ AppendResult(h, e)
  \/ \E c \in SolutionsOf[e] \cup {Absent} :
       \E passed \in Verdicts(c) : Answer(h, e, c, passed)

Work(h) == NextGroup(h) \/ Take(h) \/ End(h)

PolyglotNext ==
  \/ PlanBaseline
  \/ \E model \in Range(ModelOf) : PlanConfirm(model)
  \/ \E h \in Hosts : StartRun(h) \/ Work(h) \/ Interrupt(h) \/ Kill(h)
  \/ \E h \in Hosts : \E e \in Flying(h) : Fly(h, e) \/ EntryFails(h, e)
  \/ \E e \in Entries : Triage(e)
  \/ Switch

PolyglotSpec == PolyglotInit /\ [][PolyglotNext]_polyglotVars

(* The processes run, their calls return, and a process that ended is      *)
(* started again (RUNBOOK.md 43-46).                                       *)
PolyglotFairSpec ==
  /\ PolyglotSpec
  /\ \A h \in Hosts :
       /\ WF_polyglotVars(StartRun(h)) /\ WF_polyglotVars(Work(h))
       /\ \A e \in Entries : WF_polyglotVars(e \in Flying(h) /\ Fly(h, e))
-----------------------------------------------------------------------------
(* However often runs stop, crash and start again, on several hosts, and   *)
(* while plans extend the queue, no entry is recorded twice, none of an    *)
(* excluded exercise is, and a second attempt was made only after a first  *)
(* that failed (SPEC.md 186-189).                                          *)
RecordedOnce ==
  \A e \in Entries :
    /\ Len(resultLines[e]) <= 1 /\ (ExerciseOf[e] \in Excluded => resultLines[e] = <<>>)
    /\ \A i \in DOMAIN resultLines[e] :
         Len(resultLines[e][i]) = IF resultLines[e][i][1].passed THEN 1 ELSE 2

(* What Jev is shown of a failure is the solution of the recorded attempt, *)
(* and a second attempt starts from that of the first of the same run,     *)
(* although earlier runs left files of attempts that were never recorded.  *)
(* Only a candidate without the file changes nothing: what is shown then,  *)
(* and given to the second attempt, is the solution that lay there when    *)
(* this run of the entry began (worker-run.mjs 91-103).                    *)
FirstSolution(attempts) == attempts[1].candidate

ShownAsRecorded ==
  /\ \A e \in Entries : labels[e] # <<>> =>
       labels[e][1] = Saved(leftover[e], FirstSolution(resultLines[e][1]))
  /\ \A h \in Hosts : \A e \in Flying(h) : LET f == run[h].flight[e] IN
       f.n = 2 => f.previous = Saved(leftover[e], FirstSolution(f.attempts))

(* Once the infrastructure works for good, every entry of the queue gets a *)
(* result, however many runs were stopped before (RUNBOOK.md 43-46) - as   *)
(* long as no crash cut off a line of the results.                         *)
QueueFinishes ==
  up ~> ((\A e \in Range(queue) : resultLines[e] # <<>>) \/ torn \/ ~up)
=============================================================================
