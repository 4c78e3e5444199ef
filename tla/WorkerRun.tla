----------------------------- MODULE WorkerRun -----------------------------
(* One launch of a worker (bin/tinysdd.mjs, worker-launcher.mjs, worker.mjs),
   the checks it may ask for (check-channel.mjs, check-runner.mjs) and the
   operators who stop it.  The launcher is one process whose timers, callbacks
   and awaits interleave; the worker, a running check and the operators are
   others.  On Linux, where a launch can be stopped, a sandbox dies with the
   launcher. *)
EXTENDS Integers, FiniteSets, TLC

CONSTANTS Outputs,          \* the files of the project the worker may write
          Requests,       \* names of check requests
          Operators,      \* who stops the launch
          Checks,         \* the checks the task declares
          MaxToolCalls, MaxCheckRuns, MaxRequests,  \* limits of the run
          MaxWrites       \* bound: writes of the worker

ASSUME WorkerRunAssumption ==
  /\ IsFiniteSet(Outputs) /\ IsFiniteSet(Requests) /\ IsFiniteSet(Checks)
  /\ {MaxToolCalls, MaxCheckRuns, MaxRequests} \subseteq Nat \ {0}
  /\ MaxWrites \in Nat

VARIABLES
  launcher,   \* how far the launcher is
  signalled,  \* its handler took the one signal it takes
  stopFile,   \* stop.json of the launch
  workspace, after,  \* the worker's copy, and the candidate retained from it
  child,      \* the worker's process
  tools,      \* tool calls its output shows
  fault,      \* "lacking": it announced fewer tools than the contract names
  clock,
  forced,     \* the reason of a stop; SIGKILL follows its SIGTERM by 250 ms
  channel,    \* the check channel's flags
  asked, seen,  \* request files: 1 written, 2 written again; what the scan saw
  handling,   \* the request being answered
  count, log,
  result,     \* result.json of the run
  operator    \* where each operator's worker stop is

doing == <<tools, fault, workspace>>
checks == <<channel, asked, seen, handling, count, log>>
launchVars == <<launcher, signalled, stopFile, after, child, doing, clock, forced,
          checks, result, operator>>

-----------------------------------------------------------------------------
Unset == "none"
LauncherSteps == {"loading", "copying", "capturing", "closing",
          "draining", "measuring", "recorded"}
Alive == launcher \in LauncherSteps
Over == launcher \in {"exited", "killed"}
\* A content is the number of times the worker wrote the file.
Trees == [Outputs -> 0..MaxWrites]
Baseline == [f \in Outputs |-> 0]
Reasons == {"stopped", "timeout", "tool_limit",
            "no_progress", "failed"}
\* clock: 0 early, 1 past the first-write limit, 2 within a second of the
\* deadline or past it
Late == 2
NoRequest == [request |-> Unset, left |-> {}, stage |-> "idle", copy |-> <<>>]

LaunchInit ==
  /\ launcher = "loading" /\ signalled = FALSE
  /\ stopFile = FALSE
  /\ workspace = <<>> /\ after = <<>>
  /\ child = Unset /\ tools = 0 /\ fault = Unset /\ clock = 0
  /\ forced = Unset
  /\ channel = [scanning |-> FALSE, closed |-> FALSE, aborted |-> FALSE,
                failed |-> FALSE]
  /\ asked = [r \in Requests |-> 0] /\ seen = [r \in Requests |-> 0]
  /\ handling = NoRequest /\ count = 0 /\ log = {}
  /\ result = <<>>
  /\ operator = [o \in Operators |-> "idle"]

-----------------------------------------------------------------------------
\* Until its imports are loaded and its handlers set, a signal kills it.
SetHandlers ==
  /\ launcher = "loading" /\ launcher' = "copying"
  /\ UNCHANGED <<signalled, stopFile, after, child, doing, clock, forced, checks,
                 result, operator>>

\* The project is copied; the run works on, and is measured from, the copy.
Prepare ==
  /\ launcher = "copying" /\ workspace = <<>> /\ workspace' = Baseline
  /\ UNCHANGED <<launcher, signalled, stopFile, after, child, tools, fault, clock,
                 forced, checks, result, operator>>

\* captureProcess: a launch already asked to stop spawns nothing.
Spawn ==
  /\ launcher = "copying" /\ workspace # <<>>
  /\ IF signalled
     THEN /\ launcher' = "closing" /\ forced' = "stopped"
          /\ channel' = [channel EXCEPT !.closed = TRUE, !.aborted = TRUE]
          /\ UNCHANGED <<child, fault>>
     ELSE /\ launcher' = "capturing" /\ child' = "live"
          /\ fault' \in {Unset, "lacking"}
          /\ UNCHANGED <<forced, channel>>
  /\ UNCHANGED <<signalled, stopFile, after, tools, workspace, clock, asked, seen,
                 handling, count, log, result, operator>>

\* Anything runWorker refuses on the way ends the launch with an error.
Refuse ==
  /\ launcher \in {"copying", "measuring"}
  /\ launcher' = "exited"
  /\ UNCHANGED <<signalled, stopFile, after, child, doing, clock, forced, checks,
                 result, operator>>

-----------------------------------------------------------------------------
(* The worker: each write and each request is a tool call.  It may end, or
   never; after SIGTERM it may still go on, after SIGKILL it may not. *)
Working == child = "live" /\ tools <= MaxToolCalls

Write(f) ==
  /\ Working
  /\ workspace[f] < MaxWrites
  /\ workspace' = [workspace EXCEPT ![f] = @ + 1]
  /\ tools' = tools + 1
  /\ UNCHANGED <<launcher, signalled, stopFile, after, child, fault, clock,
                 forced, checks, result, operator>>

\* A request may be written again under the name it had.
Ask(r) ==
  /\ Working /\ asked[r] < 2
  /\ asked' = [asked EXCEPT ![r] = @ + 1]
  /\ tools' = tools + 1
  /\ UNCHANGED <<launcher, signalled, stopFile, after, child, fault, workspace,
                 clock, forced, channel, seen, handling, count, log, result,
                 operator>>

Ended(how) ==
  /\ child = "live" /\ child' = how
  /\ UNCHANGED <<launcher, signalled, stopFile, after, doing, clock, forced,
                 checks, result, operator>>
Exit == \E how \in {"completed", "error"} : Ended(how)
TimersOnlyMark == forced = "stopped" /\ Ended("killed")
Terminated == forced # Unset /\ Ended("killed")

-----------------------------------------------------------------------------
(* Stopping it: the first reason stays; the channel is cancelled, the process
   gets SIGTERM, and SIGKILL a quarter of a second later. *)
Cancelled(ch) == [ch EXCEPT !.closed = TRUE, !.aborted = TRUE]

Stop(reason, ch) ==
  IF forced = Unset
  THEN /\ forced' = reason /\ channel' = Cancelled(ch)
  ELSE UNCHANGED forced /\ channel' = ch

Tick ==
  /\ launcher = "capturing" /\ clock < Late
  /\ clock' = clock + 1
  /\ UNCHANGED <<launcher, signalled, stopFile, after, child, doing, forced,
                 checks, result, operator>>

Timeout ==
  /\ launcher = "capturing" /\ clock = Late /\ forced = Unset
  /\ Stop("timeout", channel)
  /\ UNCHANGED <<launcher, signalled, stopFile, after, child, doing, clock, asked,
                 seen, handling, count, log, result, operator>>

\* What the output shows, in the order the poll looks at it.
Limit ==
  IF tools >= MaxToolCalls THEN "tool_limit"
  ELSE IF fault = "lacking" THEN "failed" ELSE Unset
Written == workspace # Baseline
LimitSeen == IF Limit = Unset /\ launcher = "capturing" /\ clock >= 1 /\ ~Written
             THEN "no_progress" ELSE Limit

\* Every 100 ms: first the channel, then what the output shows.
Scan(ch) == [ch EXCEPT !.scanning = @ \/ ~ch.closed]
Poll ==
  /\ launcher = "capturing" /\ child # Unset
  /\ IF channel.failed THEN Stop("failed", channel)
     ELSE IF LimitSeen = Unset THEN channel' = Scan(channel) /\ UNCHANGED forced
     ELSE Stop(LimitSeen, Scan(channel))
  /\ UNCHANGED <<launcher, signalled, stopFile, after, child, doing, clock, asked,
                 seen, handling, count, log, result, operator>>

-----------------------------------------------------------------------------
(* The check channel: one scan at a time, one request at a time, one check at a
   time; what a check runs on is copied from the workspace as the worker goes on. *)
Line(r, n, copy, end) == [request |-> r, run |-> n, copy |-> copy, end |-> end]
Replay(r) == Line(r, 0, <<>>, "replayed")
New(r) == asked[r] > 0 /\ seen[r] = 0
Rewritten(r) == asked[r] > 0 /\ seen[r] \notin {0, asked[r]} /\ Replay(r) \notin log
Serving == Alive /\ channel.scanning

\* A request names one check, none that is declared, or by default all.
Wanted == {{}, Checks} \cup {{c} : c \in Checks}

TakeRequest(r) ==
  /\ Serving /\ handling = NoRequest /\ New(r)
  /\ IF Cardinality({q \in Requests : seen[q] > 0}) >= MaxRequests
     THEN /\ channel' = [channel EXCEPT !.scanning = FALSE, !.failed = TRUE,
                                         !.aborted = TRUE]
          /\ UNCHANGED <<seen, handling>>
     ELSE /\ seen' = [seen EXCEPT ![r] = asked[r]]
          /\ IF channel.closed
             THEN channel' = [channel EXCEPT !.scanning = FALSE] /\ UNCHANGED handling
             ELSE /\ UNCHANGED channel
                  /\ \E want \in Wanted :
                       handling' = [NoRequest EXCEPT !.request = r, !.left = want,
                                    !.stage = IF want = {} THEN "answer" ELSE "next"]
  /\ UNCHANGED <<launcher, signalled, stopFile, after, child, doing, clock,
                 forced, asked, count, log, result, operator>>

\* One written again is logged once and not handled again.
NoteReplay(r) ==
  /\ Serving /\ handling = NoRequest /\ Rewritten(r)
  /\ log' = log \cup {Replay(r)}
  /\ UNCHANGED <<launcher, signalled, stopFile, after, child, doing, clock,
                 forced, channel, asked, seen, handling, count, result, operator>>

EndScan ==
  /\ Serving /\ handling = NoRequest
  /\ \A r \in Requests : ~New(r) /\ ~Rewritten(r)
  /\ channel' = [channel EXCEPT !.scanning = FALSE]
  /\ UNCHANGED <<launcher, signalled, stopFile, after, child, doing, clock,
                 forced, asked, seen, handling, count, log, result, operator>>

Handling(stage) == Serving /\ handling.stage = stage
Spent == count >= MaxCheckRuns
TooLate == clock >= Late \/ channel.aborted

\* An error is logged and ends the request; its answer follows.
Fails(n, end) ==
  /\ log' = log \cup {Line(handling.request, n, <<>>, end)}
  /\ handling' = [handling EXCEPT !.stage = "answer"]

NextCheck ==
  /\ Handling("next")
  /\ IF handling.left = {}
     THEN handling' = [handling EXCEPT !.stage = "answer"] /\ UNCHANGED <<count,
                                                                          log>>
     ELSE IF Spent \/ TooLate THEN Fails(0, "refused") /\ UNCHANGED count
     ELSE /\ count' = count + 1
          /\ \E c \in handling.left :
               handling' = [handling EXCEPT !.left = @ \ {c}, !.stage = "freezing",
                                            !.copy = <<>>]
          /\ UNCHANGED log
  /\ UNCHANGED <<launcher, signalled, stopFile, after, child, doing, clock,
                 forced, channel, asked, seen, result, operator>>

\* freezeCandidate, a file at a time; the record's digests are of the copy.
Freeze(f) ==
  /\ Handling("freezing") /\ f \notin DOMAIN handling.copy
  /\ \/ TooLate /\ Fails(count, "error")
     \/ /\ ~channel.aborted /\ UNCHANGED log
        /\ handling' = [handling EXCEPT !.copy = (f :> workspace[f]) @@ @]
  /\ UNCHANGED <<launcher, signalled, stopFile, after, child, doing, clock,
                 forced, channel, asked, seen, count, result, operator>>

RunCheck ==
  /\ Handling("freezing") /\ DOMAIN handling.copy = Outputs
  /\ \/ ~TooLate /\ handling' = [handling EXCEPT !.stage = "running"] /\ UNCHANGED log
     \/ Fails(count, "error")  \* too late, or the sandbox cannot be set up
  /\ UNCHANGED <<launcher, signalled, stopFile, after, child, doing, clock,
                 forced, channel, asked, seen, count, result, operator>>

\* It ends by itself, at its time limit, or killed when the channel is cancelled.
EndCheck ==
  /\ Handling("running")
  /\ \E end \in {"ended"} \cup (IF channel.aborted THEN {"cancelled"} ELSE {}) :
       log' = log \cup {Line(handling.request, count, handling.copy, end)}
  /\ handling' = [handling EXCEPT !.stage = "next"]
  /\ UNCHANGED <<launcher, signalled, stopFile, after, child, doing, clock,
                 forced, channel, asked, seen, count, result, operator>>

Answer ==
  /\ Handling("answer")
  /\ handling' = NoRequest
  /\ UNCHANGED <<launcher, signalled, stopFile, after, child, doing, clock,
                 forced, channel, asked, seen, count, log, result, operator>>

-----------------------------------------------------------------------------
(* The end of the run. *)
Close ==
  /\ launcher = "capturing" /\ child # "live" /\ launcher' = "closing"
  /\ channel' = Cancelled(channel)
  /\ UNCHANGED <<signalled, stopFile, after, child, doing, clock, forced, asked,
                 seen, handling, count, log, result, operator>>

\* One last poll; one that is still reading makes it return at once.
FinalPoll ==
  /\ launcher = "closing" /\ launcher' = "draining"
  /\ \/ UNCHANGED <<forced, channel>>
     \/ /\ child # Unset
        /\ \/ channel.failed /\ Stop("failed", channel)
           \/ ~channel.failed /\ Limit # Unset /\ Stop(Limit, channel)
  /\ UNCHANGED <<signalled, stopFile, after, child, doing, clock, asked, seen,
                 handling, count, log, result, operator>>

\* The queue is awaited: a check that was running ends and is logged.
NotAwaited == TRUE
Drained == ~channel.scanning
Drain ==
  /\ launcher = "draining" /\ Drained /\ launcher' = "measuring"
  /\ UNCHANGED <<signalled, stopFile, after, child, doing, clock, forced, checks,
                 result, operator>>

Reason == IF forced # Unset THEN forced ELSE Limit
Outcome == IF Reason # Unset THEN Reason
           ELSE IF child \in {"killed", Unset} THEN "failed" ELSE child

\* The candidate is the workspace as it is then; result.json follows.
Record ==
  /\ launcher = "measuring" /\ launcher' = "recorded"
  /\ after' = workspace
  /\ result' = [outcome |-> Outcome, checks |-> log]
  /\ UNCHANGED <<signalled, stopFile, child, doing, clock, forced, checks,
                 operator>>

\* The launch's result.json is the launcher's last act.
Finish ==
  /\ launcher = "recorded" /\ launcher' = "exited"
  /\ UNCHANGED <<signalled, stopFile, after, child, doing, clock, forced, checks,
                 result, operator>>

-----------------------------------------------------------------------------
(* worker stop; worker status reads the same files and changes nothing. *)
OperatorAt(o, pc) == operator[o] = pc
Goes(o, pc) == operator' = [operator EXCEPT ![o] = pc]
launchAside == <<after, doing, clock, asked, seen, count, log, result>>

\* It stops only a launch without a result whose launcher it can verify, and
\* only when no stop was requested.
FindLauncher(o) ==
  /\ OperatorAt(o, "idle")
  /\ Goes(o, IF Over \/ stopFile THEN "done" ELSE "marking")
  /\ UNCHANGED <<launcher, signalled, stopFile, child, forced, channel, handling,
                 launchAside>>

WriteStop(o) ==
  /\ OperatorAt(o, "marking") /\ Goes(o, "marked") /\ stopFile' = TRUE
  /\ UNCHANGED <<launcher, signalled, child, forced, channel, handling, launchAside>>

\* The handler takes one signal and stops the run; before it is set, and after
\* it was used, a signal kills the launcher, and what it started dies with it.
Handled == launcher # "loading" /\ ~signalled
Deliver ==
  IF Handled
  THEN /\ signalled' = TRUE
       /\ IF launcher = "capturing" THEN Stop("stopped", channel)
          ELSE UNCHANGED <<forced, channel>>
       /\ UNCHANGED <<launcher, child, handling>>
  ELSE /\ launcher' = "killed"
       /\ child' = IF child = "live" THEN "killed" ELSE child
       /\ channel' = [channel EXCEPT !.scanning = FALSE]
       /\ handling' = NoRequest
            /\ UNCHANGED <<signalled, forced>>

Signal(o) ==
  /\ OperatorAt(o, "marked") /\ Goes(o, "done")
  /\ IF ~Over THEN Deliver /\ UNCHANGED stopFile
     ELSE /\ stopFile' = FALSE
          /\ UNCHANGED <<launcher, signalled, child, forced, channel, handling>>
  /\ UNCHANGED launchAside

-----------------------------------------------------------------------------
Begin == SetHandlers \/ Prepare \/ Spawn
Work == (\E f \in Outputs : Write(f)) \/ (\E r \in Requests : Ask(r)) \/ Exit
Serve == \/ \E r \in Requests : TakeRequest(r) \/ NoteReplay(r)
         \/ EndScan \/ NextCheck \/ (\E f \in Outputs : Freeze(f)) \/ RunCheck
         \/ EndCheck \/ Answer
Conclude == Close \/ FinalPoll \/ Drain \/ Record \/ Finish
Command == \E o \in Operators : FindLauncher(o) \/ WriteStop(o) \/ Signal(o)
LaunchNext ==
  \/ Begin \/ Refuse \/ Work \/ Terminated
  \/ Tick \/ Timeout \/ Poll \/ Serve \/ Conclude
  \/ Command

\* Timers run, a killed process ends, a check ends at its own limit, and the
\* launcher takes its next step.  Nothing is asked of the worker, of the
\* operators or of editors, and no poll has to come.
LaunchSpec ==
  /\ LaunchInit /\ [][LaunchNext]_launchVars
  /\ WF_launchVars(Begin) /\ WF_launchVars(Tick) /\ WF_launchVars(Timeout)
  /\ WF_launchVars(Terminated) /\ WF_launchVars(Serve) /\ WF_launchVars(Conclude)

-----------------------------------------------------------------------------
LaunchTypeOK ==
  /\ launcher \in LauncherSteps \cup {"exited", "killed"}
  /\ {signalled, stopFile} \subseteq BOOLEAN
  /\ {workspace, after} \subseteq Trees \cup {<<>>}
  /\ child \in {Unset, "live", "killed", "completed", "error"}
  /\ tools \in 0..(MaxToolCalls + 1) /\ fault \in {Unset, "lacking"}
  /\ clock \in 0..Late /\ forced \in Reasons \cup {Unset}
  /\ channel \in [scanning : BOOLEAN, closed : BOOLEAN, aborted : BOOLEAN,
                   failed : BOOLEAN]
  /\ {asked, seen} \subseteq [Requests -> 0..2] /\ count \in 0..MaxCheckRuns
  /\ operator \in [Operators -> {"idle", "marking", "marked", "done"}]

Recorded == DOMAIN result # {}

\* Once result.json of a run is written nothing of that run goes on: its process
\* is gone, no check runs, the candidate stays what was
\* measured, and no check is logged that the result does not list (worker.mjs
\* waits for the close, the last poll and the queue before it measures).
CandidateSettled ==
  Recorded => /\ child # "live" /\ handling = NoRequest /\ ~channel.scanning
              /\ after = workspace /\ result.checks = log

\* Every launch ends: a worker that neither ends nor heeds SIGTERM, or a check
\* that is running, holds it no longer than the timers allow.
LaunchEnds == <>Over
=============================================================================
