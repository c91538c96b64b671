----------------------------- MODULE Installer -----------------------------
(***************************************************************************)
(* The installer daemon and the page that uses it.  The daemon runs npm in *)
(* a goroutine for every POST /install and keeps the status of its jobs in *)
(* memory; a click on a button of the page asks for an installation and    *)
(* polls its status.  Every fetch may fail and the daemon may stop.        *)
(***************************************************************************)
EXTENDS Naturals

CONSTANTS
    Buttons,
    MaxClicks,    \* bound on the clicks of the user
    MaxAttempts,  \* polls before the page gives up
    MaxStops,     \* bound on the stops of the daemon
    Ids,          \* the nanoseconds that its clock shows, of which IDs are made
    None

ASSUME InstallerAssumption ==
    /\ MaxClicks \in Nat \ {0}
    /\ MaxAttempts \in Nat
    /\ MaxStops \in Nat
    /\ None \notin Nat \cup Ids \cup {"pending", "running", "completed", "failed"}

Clicks == 1..MaxClicks
Final == {"completed", "failed"}
JobStatus == {"pending", "running"} \cup Final

VARIABLES
    up,        \* whether the daemon runs
    stops,
    jobs,      \* the map of jobs: the status by job ID
    writing,   \* the click whose goroutine is inside updateJob, with jobsMu
    run,       \* where the goroutine of a click's request is
    npm,       \* how the command of that goroutine does
    pc,        \* where the handler of a click is
    job,       \* the job ID of its request
    attempts,  \* its polls
    button,    \* the button that was clicked
    shown,     \* the outcome that the handler has shown
    enabled    \* the buttons that can be clicked

daemon == <<up, stops>>
page == <<pc, attempts, button, shown, enabled>>
vars == <<daemon, jobs, writing, run, npm, job, page>>

TypeOK ==
    /\ up \in BOOLEAN
    /\ stops \in 0..MaxStops
    /\ jobs \in [Ids -> JobStatus \cup {None}]
    /\ writing \in Clicks \cup {None}
    /\ run \in [Clicks -> {"none", "started", "command", "exited", "ended", "lost"}]
    /\ npm \in [Clicks -> {"none", "running", "ok", "error"}]
    /\ pc \in [Clicks -> {"none", "health", "post", "answer", "poll", "lookup",
                          "encode", "reset", "ended"}]
    /\ job \in [Clicks -> Ids \cup {None}]
    /\ attempts \in [Clicks -> 0..MaxAttempts]
    /\ button \in [Clicks -> Buttons \cup {None}]
    /\ shown \in [Clicks -> Final \cup {"notRunning", "unknown", "timeout", None}]
    /\ enabled \in [Buttons -> BOOLEAN]

Init ==
    /\ up = TRUE
    /\ stops = 0
    /\ jobs = [id \in Ids |-> None]
    /\ writing = None
    /\ run = [c \in Clicks |-> "none"]
    /\ npm = [c \in Clicks |-> "none"]
    /\ pc = [c \in Clicks |-> "none"]
    /\ job = [c \in Clicks |-> None]
    /\ attempts = [c \in Clicks |-> 0]
    /\ button = [c \in Clicks |-> None]
    /\ shown = [c \in Clicks |-> None]
    /\ enabled = [b \in Buttons |-> TRUE]

Goto(c, from, to) ==
    /\ pc[c] = from
    /\ pc' = [pc EXCEPT ![c] = to]

-----------------------------------------------------------------------------
\* The daemon.

\* handleInstall: the job enters the map and its goroutine starts.  The clock may
\* be coarse or set back: two requests may read one nanosecond.
HandleInstall(c) ==
    /\ Goto(c, "post", "answer")
    /\ up
    /\ writing = None
    /\ \E id \in Ids :
          /\ job' = [job EXCEPT ![c] = id]
          /\ jobs' = [jobs EXCEPT ![id] = "pending"]
    /\ run' = [run EXCEPT ![c] = "started"]
    /\ UNCHANGED <<daemon, writing, npm, attempts, button, shown, enabled>>

\* What the goroutine of c writes, at the place where it is.
NewStatus(c) ==
    IF run[c] = "started" THEN "running"
    ELSE IF npm[c] = "ok" THEN "completed" ELSE "failed"

\* updateJob, from Lock to Unlock: the status changes in between, and a reader
\* that does not hold the lock may see it change.
BeginUpdate(c) ==
    /\ run[c] \in {"started", "exited"}
    /\ writing = None
    /\ writing' = c
    /\ UNCHANGED <<daemon, jobs, run, npm, job, page>>

\* Slip: after a failure the function does not return.
WrittenAndOn(c) ==
    /\ writing = c
    /\ IF run[c] = "started"
       THEN /\ jobs' = [jobs EXCEPT ![job[c]] = "running"]
            /\ run' = [run EXCEPT ![c] = "command"]
            /\ npm' = [npm EXCEPT ![c] = "running"]
       ELSE LET failing == npm[c] = "error" /\ jobs[job[c]] # "failed"
            IN  /\ jobs' = [jobs EXCEPT ![job[c]] = IF failing THEN "failed" ELSE "completed"]
                /\ run' = IF failing THEN run ELSE [run EXCEPT ![c] = "ended"]
                /\ npm' = npm
    /\ UNCHANGED <<daemon, job, page>>

Written(c) ==
    /\ writing = c
    /\ jobs' = [jobs EXCEPT ![job[c]] = NewStatus(c)]
    /\ IF run[c] = "started"
       THEN /\ run' = [run EXCEPT ![c] = "command"]
            /\ npm' = [npm EXCEPT ![c] = "running"]
       ELSE /\ run' = [run EXCEPT ![c] = "ended"]
            /\ npm' = npm
    /\ UNCHANGED <<daemon, job, page>>

\* Slip: the lock is kept after the last update.
EndUpdateKeepingLock(c) ==
    /\ Written(c)
    /\ writing' = IF run[c] = "started" THEN None ELSE c

EndUpdate(c) ==
    /\ Written(c)
    /\ writing' = None

\* cmd.CombinedOutput returns, if npm ever ends.
CommandExits(c) ==
    /\ run[c] = "command"
    /\ run' = [run EXCEPT ![c] = "exited"]
    /\ \E result \in {"ok", "error"} : npm' = [npm EXCEPT ![c] = result]
    /\ UNCHANGED <<daemon, jobs, writing, job, page>>

\* Shutdown waits for handlers, not for goroutines; the map is lost.
Stop ==
    /\ up
    /\ stops < MaxStops
    /\ up' = FALSE
    /\ stops' = stops + 1
    /\ jobs' = [id \in Ids |-> None]
    /\ writing' = None
    /\ run' = [c \in Clicks |-> IF run[c] \in {"none", "ended"} THEN run[c] ELSE "lost"]
    /\ UNCHANGED <<npm, job, page>>

StartDaemon ==
    /\ ~up
    /\ up' = TRUE
    /\ UNCHANGED <<stops, jobs, writing, run, npm, job, page>>

-----------------------------------------------------------------------------
\* The page.

\* installPackage begins; it disables the button after the health check only.
Click(c, b) ==
    /\ enabled[b]
    /\ \A d \in Clicks : d < c => pc[d] # "none"
    /\ Goto(c, "none", "health")
    /\ button' = [button EXCEPT ![c] = b]
    /\ UNCHANGED <<daemon, jobs, writing, run, npm, job, attempts, shown, enabled>>

Healthy(c) ==
    /\ up
    /\ Goto(c, "health", "post")
    /\ enabled' = [enabled EXCEPT ![button[c]] = FALSE]
    /\ UNCHANGED <<daemon, jobs, writing, run, npm, job, attempts, button, shown>>

NotRunning(c) ==
    /\ Goto(c, "health", "ended")
    /\ shown' = [shown EXCEPT ![c] = "notRunning"]
    /\ UNCHANGED <<daemon, jobs, writing, run, npm, job, attempts, button, enabled>>

InstallAnswered(c) ==
    /\ Goto(c, "answer", "poll")
    /\ UNCHANGED <<daemon, jobs, writing, run, npm, job, attempts, button, shown, enabled>>

\* Slip: the button stays disabled when a poll fails.
EndWithEnabledUnless(c, outcome) ==
    /\ pc' = [pc EXCEPT ![c] = "ended"]
    /\ shown' = [shown EXCEPT ![c] = outcome]
    /\ enabled' = IF pc[c] \in {"lookup", "encode"} THEN enabled
                  ELSE [enabled EXCEPT ![button[c]] = TRUE]

\* The handler ends, shows the outcome and enables its button.
EndWith(c, outcome) ==
    /\ pc' = [pc EXCEPT ![c] = "ended"]
    /\ shown' = [shown EXCEPT ![c] = outcome]
    /\ enabled' = [enabled EXCEPT ![button[c]] = TRUE]

\* A fetch fails or its request is refused: the daemon is down, or the answer
\* is lost.  Of a POST the page says "Installation failed", also when the daemon
\* has the job; of a poll it says that it could not check.
FetchFails(c) ==
    /\ \/ pc[c] \in {"post", "answer"} /\ EndWith(c, "failed")
       \/ pc[c] \in {"lookup", "encode"} /\ EndWith(c, "unknown")
    /\ UNCHANGED <<daemon, jobs, writing, run, npm, job, attempts, button>>

Send(c) ==
    /\ Goto(c, "poll", "lookup")
    /\ attempts' = [attempts EXCEPT ![c] = @ + 1]
    /\ UNCHANGED <<daemon, jobs, writing, run, npm, job, button, shown, enabled>>

\* Slip: one poll too many.
SendOnceMore(c) == attempts[c] <= MaxAttempts /\ Send(c)

SendStatus(c) == attempts[c] < MaxAttempts /\ Send(c)

GiveUp(c) ==
    /\ pc[c] = "poll"
    /\ attempts[c] >= MaxAttempts
    /\ EndWith(c, "timeout")
    /\ UNCHANGED <<daemon, jobs, writing, run, npm, job, attempts, button>>

\* handleStatus, up to RUnlock.  A job that is not there has no status, which
\* the page takes for a job that is not finished.
HandleStatus(c) ==
    /\ up
    /\ writing = None
    /\ Goto(c, "lookup", IF jobs[job[c]] = None THEN "poll" ELSE "encode")
    /\ UNCHANGED <<daemon, jobs, writing, run, npm, job, attempts, button, shown, enabled>>

\* What Encode may read without the lock: while updateJob writes the status,
\* the one before, the one after or a mixture of the two.
Readable(id) ==
    {jobs[id]} \cup
    (IF writing # None /\ job[writing] = id THEN {NewStatus(writing), "torn"} ELSE {})

Encode(c) ==
    /\ pc[c] = "encode"
    /\ jobs[job[c]] # None
    /\ \E status \in Readable(job[c]) :
         CASE status = "failed" -> EndWith(c, "failed")
           [] status = "completed" ->
                /\ pc' = [pc EXCEPT ![c] = "reset"]
                /\ shown' = [shown EXCEPT ![c] = "completed"]
                /\ enabled' = enabled
           [] OTHER -> Goto(c, "encode", "poll") /\ UNCHANGED <<shown, enabled>>
    /\ UNCHANGED <<daemon, jobs, writing, run, npm, job, attempts, button>>

\* Three seconds after a success.
Reset(c) ==
    /\ Goto(c, "reset", "ended")
    /\ enabled' = [enabled EXCEPT ![button[c]] = TRUE]
    /\ UNCHANGED <<daemon, jobs, writing, run, npm, job, attempts, button, shown>>

-----------------------------------------------------------------------------
InstallPackage(c) ==
    \/ Healthy(c) \/ NotRunning(c) \/ InstallAnswered(c) \/ FetchFails(c)
    \/ SendStatus(c) \/ GiveUp(c) \/ Encode(c) \/ Reset(c)
    \/ HandleInstall(c) \/ HandleStatus(c)

RunInstallation(c) == BeginUpdate(c) \/ EndUpdate(c)

Next ==
    \/ \E c \in Clicks :
          \/ \E b \in Buttons : Click(c, b)
          \/ InstallPackage(c)
          \/ RunInstallation(c)
          \/ CommandExits(c)
    \/ Stop
    \/ StartDaemon

\* A fetch is answered or fails, timers expire and goroutines run on; npm may
\* hang and the user may do nothing.
Fairness ==
    \A c \in Clicks : WF_vars(InstallPackage(c)) /\ WF_vars(RunInstallation(c))

Spec == Init /\ [][Next]_vars /\ Fairness

-----------------------------------------------------------------------------
\* No other request has read the nanosecond of c's.
Own(c) == \A d \in Clicks : job[d] = job[c] => d = c

\* What the page shows of an installation is how its own npm ended, although
\* the status is read while it is written, jobs share a map and pages outlive
\* daemons; unless two jobs have one ID or the page says "failed" before it has
\* polled at all, because of a POST without an answer.
OutcomeShown ==
    \A c \in Clicks : Own(c) =>
        /\ shown[c] = "completed" => npm[c] = "ok"
        /\ shown[c] = "failed" => npm[c] = "error" \/ attempts[c] = 0

\* A job with an ID of its own keeps its outcome as long as the daemon runs.
OutcomeStays ==
    [][\A c \in Clicks :
         (job[c] # None /\ jobs[job[c]] \in Final /\ up' /\ Own(c)')
             => jobs'[job[c]] = jobs[job[c]]]_vars

\* A button that was disabled can be clicked again, whatever fails.
ButtonComesBack == \A b \in Buttons : ~enabled[b] ~> enabled[b]

\* Every npm that ends gives its job an outcome, unless the daemon stops.
EveryJobEnds ==
    \A c \in Clicks :
        run[c] = "exited" ~>
            (run[c] = "lost" \/ (job[c] # None /\ jobs[job[c]] \in Final))
=============================================================================
