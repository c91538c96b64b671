-------------------------- MODULE InstallerProofs --------------------------
(***************************************************************************)
(* What the page shows of an installation is how its own npm ended, for    *)
(* any number of clicks, buttons, polls and stops of the daemon, unless    *)
(* its ID is not its own or the page gave up on the POST.                  *)
(***************************************************************************)
EXTENDS Installer, TLAPS

\* A click that has not been accepted has no job, no goroutine, no npm and no poll,
\* and a handler shows nothing before its end.
Fresh(c) ==
    /\ pc[c] \in {"none", "health", "post"} =>
        job[c] = None /\ run[c] = "none" /\ npm[c] = "none"
    /\ pc[c] \in {"answer", "poll", "lookup", "encode"} => job[c] # None
    /\ pc[c] \notin {"reset", "ended"} => shown[c] = None
    /\ pc[c] \in {"lookup", "encode"} => attempts[c] # 0
    /\ job[c] = None \/ pc[c] = "answer" => attempts[c] = 0 /\ shown[c] # "completed"

\* The goroutine, its command and the lock go together.
Consistent(c) ==
    /\ run[c] \notin {"none", "lost"} => job[c] # None
    /\ run[c] = "started" => npm[c] = "none"
    /\ run[c] = "command" => npm[c] = "running"
    /\ run[c] = "exited" => npm[c] \in {"ok", "error"}
    /\ writing = c => run[c] \in {"started", "exited"}

\* The map says of a job with an ID of its own how its npm ended.
OutcomeKept(c) ==
    job[c] # None /\ Own(c) =>
        /\ jobs[job[c]] = "completed" => npm[c] = "ok"
        /\ jobs[job[c]] = "failed" => npm[c] = "error"

IInv ==
    /\ TypeOK
    /\ \A c \in Clicks : Fresh(c) /\ Consistent(c) /\ OutcomeKept(c)
    /\ OutcomeShown

-----------------------------------------------------------------------------
THEOREM InitIInv == Init => IInv
<1> SUFFICES ASSUME Init PROVE IInv
  OBVIOUS
<1> USE InstallerAssumption DEF Init, Clicks, Final, JobStatus
<1>1. TypeOK
  BY DEF TypeOK
<1>3. \A c \in Clicks : Fresh(c) /\ Consistent(c) /\ OutcomeKept(c)
  BY DEF Fresh, Consistent, OutcomeKept, Own
<1>4. OutcomeShown
  BY DEF OutcomeShown, Own
<1> QED
  BY <1>1, <1>3, <1>4 DEF IInv

\* A new job takes the entry of those that have its ID: they are no longer the only
\* ones that have it.
LEMMA HandleInstallKeeps == ASSUME IInv, NEW c \in Clicks, HandleInstall(c) PROVE IInv'
<1> USE InstallerAssumption DEF IInv, Clicks, Final, JobStatus, daemon, page, Goto
<1>1. PICK id \in Ids :
        /\ job' = [job EXCEPT ![c] = id]
        /\ jobs' = [jobs EXCEPT ![id] = "pending"]
        /\ run' = [run EXCEPT ![c] = "started"]
        /\ pc[c] = "post" /\ pc' = [pc EXCEPT ![c] = "answer"]
        /\ writing = None
        /\ UNCHANGED <<up, stops, writing, npm, attempts, button, shown, enabled>>
  BY DEF HandleInstall
<1>2. job[c] = None /\ npm[c] = "none" /\ shown[c] = None /\ attempts[c] = 0
  BY <1>1 DEF Fresh
<1>3. ASSUME NEW d \in Clicks \ {c}, job[d] # None, Own(d)'
      PROVE  Own(d) /\ jobs'[job'[d]] = jobs[job[d]]
  <2>1. job'[d] = job[d] /\ job[d] \in Ids /\ job[d] # id
    BY <1>1, <1>3 DEF TypeOK, Own
  <2>2. Own(d)
    BY <1>1, <1>2, <1>3, <2>1 DEF TypeOK, Own
  <2> QED
    BY <1>1, <2>1, <2>2 DEF TypeOK
<1>4. TypeOK'
  BY <1>1 DEF TypeOK
<1>5. (\A d \in Clicks : Fresh(d) /\ Consistent(d))'
  BY <1>1, <1>2 DEF TypeOK, Fresh, Consistent
<1>6. (\A d \in Clicks : OutcomeKept(d))'
  <2> SUFFICES ASSUME NEW d \in Clicks PROVE OutcomeKept(d)'
    OBVIOUS
  <2>1. CASE d = c
    BY <1>1, <2>1 DEF TypeOK, OutcomeKept, Own
  <2>2. CASE d # c
    BY <1>1, <1>3, <2>2 DEF TypeOK, OutcomeKept, Own
  <2> QED
    BY <2>1, <2>2
<1>7. OutcomeShown'
  <2> SUFFICES ASSUME NEW d \in Clicks, Own(d)'
               PROVE  /\ shown[d] = "completed" => npm[d] = "ok"
                      /\ shown[d] = "failed" => npm[d] = "error" \/ attempts[d] = 0
    BY <1>1 DEF OutcomeShown, Own
  <2>1. CASE job[d] = None
    BY <2>1 DEF Fresh
  <2>2. CASE job[d] # None
    BY <1>2, <1>3, <2>2 DEF OutcomeShown, Own
  <2> QED
    BY <2>1, <2>2
<1> QED
  BY <1>4, <1>5, <1>6, <1>7

\* A goroutine enters updateJob.
LEMMA BeginUpdateKeeps == ASSUME IInv, NEW c \in Clicks, BeginUpdate(c) PROVE IInv'
<1> USE InstallerAssumption DEF IInv, Clicks, Final, JobStatus, daemon, page, BeginUpdate
<1>1. TypeOK'
  BY DEF TypeOK
<1>3. (\A d \in Clicks : Fresh(d))'
  BY DEF TypeOK, Fresh, Consistent
<1>4. (\A d \in Clicks : Consistent(d))'
  BY DEF TypeOK, Fresh, Consistent
<1>5. (\A d \in Clicks : OutcomeKept(d))'
  BY DEF TypeOK, Fresh, Consistent, OutcomeKept, Own
<1>6. OutcomeShown'
  BY DEF TypeOK, Fresh, Consistent, OutcomeKept, OutcomeShown, Own
<1> QED
  BY <1>1, <1>3, <1>4, <1>5, <1>6

\* What a goroutine writes is the outcome of its own command, into its own job.
LEMMA EndUpdateKeeps == ASSUME IInv, NEW c \in Clicks, EndUpdate(c) PROVE IInv'
<1> USE InstallerAssumption DEF IInv, Clicks, Final, JobStatus, daemon, page, EndUpdate, Written, NewStatus
<1>1. TypeOK'
  BY DEF TypeOK
<1>3. (\A d \in Clicks : Fresh(d))'
  BY DEF TypeOK, Fresh, Consistent
<1>4. (\A d \in Clicks : Consistent(d))'
  <2> SUFFICES ASSUME NEW d \in Clicks PROVE Consistent(d)'
    OBVIOUS
  <2>1. Consistent(d) /\ Consistent(c) /\ writing' = None
    OBVIOUS
  <2>2. CASE d = c
    BY <2>1, <2>2 DEF TypeOK, Consistent
  <2>3. CASE d # c
    BY <2>1, <2>3 DEF TypeOK, Consistent
  <2> QED
    BY <2>2, <2>3
<1>5. (\A d \in Clicks : OutcomeKept(d))'
  BY DEF TypeOK, Fresh, Consistent, OutcomeKept, Own
<1>6. OutcomeShown'
  BY DEF TypeOK, Fresh, Consistent, OutcomeKept, OutcomeShown, Own
<1> QED
  BY <1>1, <1>3, <1>4, <1>5, <1>6

\* The command of a goroutine ends; its job has no outcome yet.
LEMMA CommandExitsKeeps == ASSUME IInv, NEW c \in Clicks, CommandExits(c) PROVE IInv'
<1> USE InstallerAssumption DEF IInv, Clicks, Final, JobStatus, daemon, page, CommandExits
<1>1. TypeOK'
  BY DEF TypeOK
<1>3. (\A d \in Clicks : Fresh(d))'
  BY DEF TypeOK, Fresh, Consistent
<1>4. (\A d \in Clicks : Consistent(d))'
  BY DEF TypeOK, Fresh, Consistent
<1>5. (\A d \in Clicks : OutcomeKept(d))'
  BY DEF TypeOK, Fresh, Consistent, OutcomeKept, Own
<1>6. OutcomeShown'
  BY DEF TypeOK, Fresh, Consistent, OutcomeKept, OutcomeShown, Own
<1> QED
  BY <1>1, <1>3, <1>4, <1>5, <1>6

\* The page's other steps leave the jobs, the goroutines and npm alone.
LEMMA PageKeeps ==
    ASSUME IInv, NEW c \in Clicks,
           \/ Healthy(c) \/ NotRunning(c) \/ InstallAnswered(c) \/ FetchFails(c)
           \/ SendStatus(c) \/ GiveUp(c) \/ HandleStatus(c) \/ Reset(c)
    PROVE  IInv'
<1> USE InstallerAssumption DEF IInv, Clicks, Final, JobStatus, daemon
<1>1. UNCHANGED <<daemon, jobs, writing, run, npm, job>>
  BY DEF Healthy, NotRunning, InstallAnswered, FetchFails, SendStatus, GiveUp, HandleStatus,
         Reset, Send
<1>2. TypeOK'
  <2>1. CASE Healthy(c)
    BY <1>1, <2>1 DEF TypeOK, Fresh, Healthy, Goto
  <2>2. CASE NotRunning(c)
    BY <1>1, <2>2 DEF TypeOK, Fresh, NotRunning, Goto
  <2>3. CASE InstallAnswered(c)
    BY <1>1, <2>3 DEF TypeOK, Fresh, InstallAnswered, Goto
  <2>4. CASE FetchFails(c)
    BY <1>1, <2>4 DEF TypeOK, Fresh, FetchFails, EndWith
  <2>5. CASE SendStatus(c)
    BY <1>1, <2>5 DEF TypeOK, Fresh, SendStatus, Send, Goto
  <2>6. CASE GiveUp(c)
    BY <1>1, <2>6 DEF TypeOK, Fresh, GiveUp, EndWith
  <2>7. CASE HandleStatus(c)
    BY <1>1, <2>7 DEF TypeOK, Fresh, HandleStatus, Goto
  <2>8. CASE Reset(c)
    BY <1>1, <2>8 DEF TypeOK, Fresh, Reset, Goto
  <2> QED
    BY <2>1, <2>2, <2>3, <2>4, <2>5, <2>6, <2>7, <2>8
<1>3. (\A d \in Clicks : Consistent(d) /\ OutcomeKept(d))'
  BY <1>1 DEF Consistent, OutcomeKept, Own
<1>4. (\A d \in Clicks : Fresh(d))' /\ OutcomeShown'
  <2>1. CASE Healthy(c)
    <3>1. /\ shown' = shown /\ attempts' = attempts /\ pc[c] = "health"
          /\ pc' = [pc EXCEPT ![c] = "post"]
      BY <2>1 DEF Healthy, Goto
    <3>2. (\A d \in Clicks : Fresh(d))'
      BY <1>1, <3>1 DEF TypeOK, Fresh
    <3>3. OutcomeShown'
      BY <1>1, <3>1 DEF TypeOK, OutcomeShown, Own
    <3> QED
      BY <3>2, <3>3
  <2>2. CASE NotRunning(c)
    <3>1. /\ shown' = [shown EXCEPT ![c] = "notRunning"] /\ attempts' = attempts
          /\ pc[c] = "health" /\ pc' = [pc EXCEPT ![c] = "ended"]
      BY <2>2 DEF NotRunning, Goto
    <3>2. (\A d \in Clicks : Fresh(d))'
      BY <1>1, <3>1 DEF TypeOK, Fresh
    <3>3. OutcomeShown'
      BY <1>1, <3>1 DEF TypeOK, OutcomeShown, Own
    <3> QED
      BY <3>2, <3>3
  <2>3. CASE InstallAnswered(c)
    <3>1. /\ shown' = shown /\ attempts' = attempts /\ pc[c] = "answer"
          /\ pc' = [pc EXCEPT ![c] = "poll"]
      BY <2>3 DEF InstallAnswered, Goto
    <3>2. (\A d \in Clicks : Fresh(d))'
      BY <1>1, <3>1 DEF TypeOK, Fresh
    <3>3. OutcomeShown'
      BY <1>1, <3>1 DEF TypeOK, OutcomeShown, Own
    <3> QED
      BY <3>2, <3>3
  <2>4. CASE FetchFails(c)
    <3>1. PICK outcome \in {"failed", "unknown"} :
            /\ shown' = [shown EXCEPT ![c] = outcome] /\ pc' = [pc EXCEPT ![c] = "ended"]
            /\ pc[c] \in {"post", "answer", "lookup", "encode"}
            /\ outcome = "failed" => pc[c] \in {"post", "answer"}
            /\ attempts' = attempts
      BY <2>4 DEF FetchFails, EndWith
    <3>2. outcome = "failed" => attempts[c] = 0
      BY <3>1 DEF Fresh
    <3>3. (\A d \in Clicks : Fresh(d))'
      BY <1>1, <3>1 DEF TypeOK, Fresh
    <3>4. OutcomeShown'
      BY <1>1, <3>1, <3>2 DEF TypeOK, OutcomeShown, Own
    <3> QED
      BY <3>3, <3>4
  <2>5. CASE SendStatus(c)
    <3>0. attempts[c] + 1 # 0
      BY DEF TypeOK
    <3>1. /\ shown' = shown /\ pc[c] = "poll" /\ pc' = [pc EXCEPT ![c] = "lookup"]
          /\ attempts' = [attempts EXCEPT ![c] = attempts[c] + 1]
          /\ shown[c] = None /\ job[c] # None
      BY <2>5 DEF SendStatus, Send, Goto, Fresh
    <3>2. (\A d \in Clicks : Fresh(d))'
      BY <1>1, <3>0, <3>1 DEF TypeOK, Fresh
    <3>3. OutcomeShown'
      BY <1>1, <3>1 DEF TypeOK, OutcomeShown, Own
    <3> QED
      BY <3>2, <3>3
  <2>6. CASE GiveUp(c)
    <3>1. /\ shown' = [shown EXCEPT ![c] = "timeout"] /\ attempts' = attempts
          /\ pc[c] = "poll" /\ pc' = [pc EXCEPT ![c] = "ended"]
      BY <2>6 DEF GiveUp, EndWith
    <3>2. (\A d \in Clicks : Fresh(d))'
      BY <1>1, <3>1 DEF TypeOK, Fresh
    <3>3. OutcomeShown'
      BY <1>1, <3>1 DEF TypeOK, OutcomeShown, Own
    <3> QED
      BY <3>2, <3>3
  <2>7. CASE HandleStatus(c)
    <3>1. /\ shown' = shown /\ attempts' = attempts /\ pc[c] = "lookup"
          /\ \E to \in {"poll", "encode"} : pc' = [pc EXCEPT ![c] = to]
      BY <2>7 DEF HandleStatus, Goto
    <3>2. (\A d \in Clicks : Fresh(d))'
      BY <1>1, <3>1 DEF TypeOK, Fresh
    <3>3. OutcomeShown'
      BY <1>1, <3>1 DEF TypeOK, OutcomeShown, Own
    <3> QED
      BY <3>2, <3>3
  <2>8. CASE Reset(c)
    <3>1. /\ shown' = shown /\ attempts' = attempts /\ pc[c] = "reset"
          /\ pc' = [pc EXCEPT ![c] = "ended"]
      BY <2>8 DEF Reset, Goto
    <3>2. (\A d \in Clicks : Fresh(d))'
      BY <1>1, <3>1 DEF TypeOK, Fresh
    <3>3. OutcomeShown'
      BY <1>1, <3>1 DEF TypeOK, OutcomeShown, Own
    <3> QED
      BY <3>2, <3>3
  <2> QED
    BY <2>1, <2>2, <2>3, <2>4, <2>5, <2>6, <2>7, <2>8
<1> QED
  BY <1>2, <1>3, <1>4

\* A status that is read while it is written, torn or not, is one that the
\* job had, has or is about to have.
LEMMA EncodeKeeps == ASSUME IInv, NEW c \in Clicks, Encode(c) PROVE IInv'
<1> USE InstallerAssumption DEF IInv, Clicks, Final, JobStatus, daemon
<1>1. UNCHANGED <<daemon, jobs, writing, run, npm, job>> /\ job[c] # None /\ pc[c] = "encode"
  BY DEF Encode, Fresh
<1>2. PICK status \in Readable(job[c]) :
        \/ /\ status \in {"completed", "failed"}
           /\ shown' = [shown EXCEPT ![c] = status]
           /\ pc' = [pc EXCEPT ![c] = IF status = "failed" THEN "ended" ELSE "reset"]
           /\ enabled' \in {enabled, [enabled EXCEPT ![button[c]] = TRUE]}
        \/ shown' = shown /\ enabled' = enabled /\ pc' = [pc EXCEPT ![c] = "poll"]
  BY DEF Encode, EndWith, Goto
<1>3. Own(c) => /\ status = "completed" => npm[c] = "ok"
                /\ status = "failed" => npm[c] = "error"
  <2> SUFFICES ASSUME Own(c)
               PROVE  /\ status = "completed" => npm[c] = "ok"
                      /\ status = "failed" => npm[c] = "error"
    OBVIOUS
  <2>1. CASE status = jobs[job[c]]
    BY <1>1, <2>1 DEF OutcomeKept
  <2>2. CASE status = NewStatus(writing) /\ writing # None /\ job[writing] = job[c]
    <3>1. writing = c
      BY <1>1, <2>2 DEF TypeOK, Own
    <3> QED
      BY <2>2, <3>1 DEF Consistent, NewStatus
  <2>3. CASE status = "torn"
    BY <2>3
  <2> QED
    BY <2>1, <2>2, <2>3 DEF Readable
<1>4. attempts' = attempts /\ button' = button
  BY DEF Encode
<1>5. TypeOK'
  <2>1. pc' \in [Clicks -> {"none", "health", "post", "answer", "poll", "lookup",
                           "encode", "reset", "ended"}]
    <3>1. PICK place \in {"ended", "reset", "poll"} : pc' = [pc EXCEPT ![c] = place]
      BY <1>2
    <3> QED
      BY <3>1 DEF TypeOK
  <2>2. shown' \in [Clicks -> Final \cup {"notRunning", "unknown", "timeout", None}]
    BY <1>1, <1>2 DEF TypeOK
  <2>3. enabled' \in [Buttons -> BOOLEAN]
    BY <1>2 DEF TypeOK
  <2> QED
    BY <1>1, <1>4, <2>1, <2>2, <2>3 DEF TypeOK
<1>6. (\A d \in Clicks : Consistent(d) /\ OutcomeKept(d))'
  BY <1>1 DEF Consistent, OutcomeKept, Own
<1>7. (\A d \in Clicks : Fresh(d))'
  BY <1>1, <1>2, <1>4 DEF TypeOK, Fresh
<1>8. OutcomeShown'
  BY <1>1, <1>2, <1>3, <1>4 DEF TypeOK, OutcomeShown, Own
<1> QED
  BY <1>5, <1>6, <1>7, <1>8

LEMMA ClickKeeps ==
    ASSUME IInv, NEW c \in Clicks, NEW b \in Buttons, Click(c, b) PROVE IInv'
<1> USE InstallerAssumption DEF IInv, Clicks, Final, JobStatus, daemon, Click, Goto
<1>1. TypeOK'
  BY DEF TypeOK
<1>2. (\A d \in Clicks : Consistent(d) /\ OutcomeKept(d))'
  BY DEF Consistent, OutcomeKept, Own
<1>3. OutcomeShown'
  BY DEF OutcomeShown, Own
<1>4. (\A d \in Clicks : Fresh(d))'
  BY DEF TypeOK, Fresh
<1> QED
  BY <1>1, <1>2, <1>3, <1>4

\* A daemon that stops forgets its jobs; the page keeps what it has shown.
LEMMA StopKeeps == ASSUME IInv, Stop \/ StartDaemon PROVE IInv'
<1> USE InstallerAssumption DEF IInv, Clicks, Final, JobStatus, page
<1>1. CASE StartDaemon
  BY <1>1 DEF StartDaemon, TypeOK, Fresh, Consistent, OutcomeKept, OutcomeShown, Own
<1>2. CASE Stop
  <2> USE <1>2 DEF Stop
  <2>1. TypeOK'
    <3>1. run' \in [Clicks -> {"none", "started", "command", "exited", "ended", "lost"}]
      BY DEF TypeOK
    <3>2. up' = FALSE /\ stops' \in 0..MaxStops
      BY DEF TypeOK
    <3>3. jobs' \in [Ids -> JobStatus \cup {None}]
      OBVIOUS
    <3> QED
      BY <3>1, <3>2, <3>3 DEF TypeOK
  <2>3. (\A d \in Clicks : Fresh(d) /\ Consistent(d))'
    BY DEF TypeOK, Fresh, Consistent
  <2>4. (\A d \in Clicks : OutcomeKept(d))'
    BY DEF TypeOK, OutcomeKept, Own
  <2>5. OutcomeShown'
    BY DEF OutcomeShown, Own
  <2> QED
    BY <2>1, <2>3, <2>4, <2>5
<1> QED
  BY <1>1, <1>2

-----------------------------------------------------------------------------
\* Every step keeps the invariant.
THEOREM StepIInv == IInv /\ [Next]_vars => IInv'
<1> SUFFICES ASSUME IInv, [Next]_vars PROVE IInv'
  OBVIOUS
<1>1. CASE UNCHANGED vars
  BY <1>1 DEF vars, daemon, page, IInv, TypeOK, Fresh, Consistent, OutcomeKept, Own,
              OutcomeShown
<1>2. ASSUME NEW c \in Clicks, NEW b \in Buttons, Click(c, b) PROVE IInv'
  BY <1>2, ClickKeeps
<1>3. ASSUME NEW c \in Clicks, InstallPackage(c) PROVE IInv'
  BY <1>3, PageKeeps, EncodeKeeps, HandleInstallKeeps DEF InstallPackage
<1>4. ASSUME NEW c \in Clicks, RunInstallation(c) \/ CommandExits(c) PROVE IInv'
  BY <1>4, BeginUpdateKeeps, EndUpdateKeeps, CommandExitsKeeps DEF RunInstallation
<1>5. CASE Stop \/ StartDaemon
  BY <1>5, StopKeeps
<1> QED
  BY <1>1, <1>2, <1>3, <1>4, <1>5 DEF Next

\* The success or the failure that the page shows is the end of the click's own npm,
\* however its handler, its goroutine and the map are left by the others, if no job
\* has the same ID; a failure shown after a poll at least, since one shown for want of
\* the answer to the POST says nothing of npm.
THEOREM OutcomeTheorem == Spec => []OutcomeShown
<1>1. IInv => OutcomeShown
  BY DEF IInv
<1> QED
  BY <1>1, InitIInv, StepIInv, PTL DEF Spec

\* The map of jobs, the polls and the button keep their types for any number of
\* clicks, whenever the daemon stops.
THEOREM TypeCorrect == Spec => []TypeOK
<1>1. IInv => TypeOK
  BY DEF IInv
<1> QED
  BY <1>1, InitIInv, StepIInv, PTL DEF Spec

\* A request that takes the ID of a job ends its being alone, and a goroutine writes
\* the same outcome again at most.
LEMMA OutcomeStep ==
    ASSUME IInv, [Next]_vars, NEW e \in Clicks, job[e] # None, jobs[job[e]] \in Final, up',
           Own(e)'
    PROVE  jobs'[job[e]] = jobs[job[e]]
<1> USE InstallerAssumption DEF Clicks, Final
<1> DEFINE id == job[e]
<1>1. id \in Ids /\ jobs[id] # None /\ jobs \in [Ids -> JobStatus \cup {None}]
  BY DEF IInv, TypeOK
<1>2. ASSUME NEW c \in Clicks, HandleInstall(c) PROVE jobs'[id] = jobs[id]
  <2>1. PICK i \in Ids : job' = [job EXCEPT ![c] = i] /\ jobs' = [jobs EXCEPT ![i] = "pending"]
    BY <1>2 DEF HandleInstall
  <2>2. c # e
    BY <1>2 DEF HandleInstall, Goto, IInv, Fresh
  <2>3. i # id
    BY <2>1, <2>2 DEF Own, IInv, TypeOK
  <2> QED
    BY <1>1, <2>1, <2>3
<1>3. ASSUME NEW c \in Clicks, EndUpdate(c) PROVE jobs'[id] = jobs[id]
  <2>1. /\ writing = c /\ run[c] \in {"started", "exited"} /\ job' = job
        /\ jobs' = [jobs EXCEPT ![job[c]] = NewStatus(c)]
    BY <1>3 DEF EndUpdate, Written, IInv, Consistent
  <2>2. CASE job[c] = id
    <3>1. c = e /\ Own(e)
      BY <2>1, <2>2 DEF Own
    <3>2. /\ jobs[id] = "completed" => npm[e] = "ok"
          /\ jobs[id] = "failed" => npm[e] = "error"
          /\ run[e] = "started" => npm[e] = "none"
      BY <2>1, <3>1 DEF IInv, OutcomeKept, Own, Consistent
    <3>3. NewStatus(c) = jobs[id]
      BY <1>1, <2>1, <3>1, <3>2 DEF NewStatus, IInv, TypeOK
    <3> QED BY <1>1, <2>1, <2>2, <3>3
  <2>3. CASE job[c] # id
    BY <1>1, <2>1, <2>3
  <2> QED BY <2>2, <2>3
<1>4. CASE Stop
  BY <1>4 DEF Stop
<1>5. CASE StartDaemon \/ UNCHANGED vars
  BY <1>5 DEF StartDaemon, vars
<1>6. ASSUME NEW c \in Clicks,
             \/ BeginUpdate(c) \/ CommandExits(c)
             \/ \E b \in Buttons : Click(c, b)
             \/ Healthy(c) \/ NotRunning(c) \/ InstallAnswered(c) \/ FetchFails(c)
             \/ SendStatus(c) \/ GiveUp(c) \/ Encode(c) \/ Reset(c) \/ HandleStatus(c)
      PROVE  jobs'[id] = jobs[id]
  BY <1>6 DEF BeginUpdate, CommandExits, Click, Healthy, NotRunning, InstallAnswered, FetchFails,
              SendStatus, Send, GiveUp, Encode, Reset, HandleStatus
<1> QED BY <1>2, <1>3, <1>4, <1>5, <1>6 DEF Next, InstallPackage, RunInstallation

\* The outcome of an installation with an ID of its own is written once, for any
\* number of clicks, as long as the daemon runs.
THEOREM StaysTheorem == Spec => OutcomeStays
<1>1. IInv /\ [Next]_vars =>
        [\A c \in Clicks :
           (job[c] # None /\ jobs[job[c]] \in Final /\ up' /\ Own(c)')
               => jobs'[job[c]] = jobs[job[c]]]_vars
  BY OutcomeStep
<1> QED
  BY <1>1, InitIInv, StepIInv, PTL DEF Spec, OutcomeStays

-----------------------------------------------------------------------------
(* What ButtonComesBack and EveryJobEnds rest on: somebody is at work.       *)

\* The handler of a click is past the health check and has not ended.
Working(c) == pc[c] \in {"post", "answer", "poll", "lookup", "encode", "reset"}

\* A button is disabled only while the handler of a click on it works.
DisabledForHandler ==
    \A b \in Buttons : ~enabled[b] => \E c \in Clicks : Working(c) /\ button[c] = b

\* The goroutine of c has yet to write the outcome of its command.
Running(c) == run[c] \in {"started", "command", "exited"}

\* A job without an outcome has a goroutine that runs, also when several share it, and
\* the job of one that has ended, and is the only one to have it, has the outcome of
\* its command, unless the daemon has forgotten it.
JobsAreRun ==
    /\ \A id \in Ids : jobs[id] \in {"pending", "running"} =>
          \E c \in Clicks : Running(c) /\ job[c] = id
    /\ \A c \in Clicks : run[c] = "ended" /\ Own(c) =>
          jobs[job[c]] \in {None, IF npm[c] = "ok" THEN "completed" ELSE "failed"}

\* A handler that ends enables its button, and no other step of it gives up one
\* that it has disabled.
LEMMA HandlerStep ==
    ASSUME TypeOK, NEW c \in Clicks, InstallPackage(c)
    PROVE  /\ button' = button
           /\ \A d \in Clicks \ {c} : pc'[d] = pc[d]
           /\ \/ enabled' = enabled /\ (Working(c) => Working(c)')
              \/ enabled' = [enabled EXCEPT ![button[c]] = FALSE] /\ Working(c)'
              \/ enabled' = [enabled EXCEPT ![button[c]] = TRUE]
<1> USE DEF TypeOK, Working, Goto
<1>1. CASE Healthy(c) \/ NotRunning(c) \/ InstallAnswered(c)
  BY <1>1 DEF Healthy, NotRunning, InstallAnswered
<1>2. CASE FetchFails(c) \/ GiveUp(c) \/ Reset(c)
  BY <1>2 DEF FetchFails, GiveUp, Reset, EndWith
<1>3. CASE SendStatus(c) \/ HandleStatus(c) \/ HandleInstall(c)
  BY <1>3 DEF SendStatus, Send, HandleStatus, HandleInstall
<1>4. CASE Encode(c)
  <2>1. /\ pc[c] = "encode" /\ button' = button
        /\ \/ EndWith(c, "failed")
           \/ pc' = [pc EXCEPT ![c] = "reset"] /\ enabled' = enabled
           \/ pc' = [pc EXCEPT ![c] = "poll"] /\ enabled' = enabled
    BY <1>4 DEF Encode
  <2> QED
    BY <2>1 DEF EndWith
<1> QED
  BY <1>1, <1>2, <1>3, <1>4 DEF InstallPackage

\* Every step leaves a disabled button its handler.
LEMMA DisabledStep ==
    IInv /\ DisabledForHandler /\ [Next]_vars => DisabledForHandler'
<1> SUFFICES ASSUME IInv, DisabledForHandler, [Next]_vars PROVE DisabledForHandler'
  OBVIOUS
<1> USE DEF IInv, TypeOK
<1>1. ASSUME NEW c \in Clicks, NEW b \in Buttons, Click(c, b) PROVE DisabledForHandler'
  BY <1>1 DEF Click, Goto, DisabledForHandler, Working
<1>2. ASSUME NEW c \in Clicks, InstallPackage(c) PROVE DisabledForHandler'
  <2> SUFFICES ASSUME NEW b \in Buttons, ~enabled'[b]
               PROVE  \E d \in Clicks : Working(d)' /\ button'[d] = b
    BY DEF DisabledForHandler
  <2>1. /\ button' = button
        /\ \A d \in Clicks \ {c} : Working(d) => Working(d)'
        /\ \/ enabled' = enabled /\ (Working(c) => Working(c)')
           \/ enabled' = [enabled EXCEPT ![button[c]] = FALSE] /\ Working(c)'
           \/ enabled' = [enabled EXCEPT ![button[c]] = TRUE]
    BY <1>2, HandlerStep DEF Working
  <2>2. CASE ~enabled[b]
    <3>1. PICK d \in Clicks : Working(d) /\ button[d] = b
      BY <2>2 DEF DisabledForHandler
    <3> QED
      BY <2>1, <3>1
  <2>3. CASE enabled[b]
    BY <2>1, <2>3
  <2> QED
    BY <2>2, <2>3
<1>3. ASSUME NEW c \in Clicks, RunInstallation(c) \/ CommandExits(c) PROVE DisabledForHandler'
  BY <1>3
  DEF RunInstallation, BeginUpdate, EndUpdate, Written, CommandExits, page,
      DisabledForHandler, Working
<1>4. CASE Stop \/ StartDaemon \/ UNCHANGED vars
  BY <1>4 DEF Stop, StartDaemon, vars, page, DisabledForHandler, Working
<1> QED
  BY <1>1, <1>2, <1>3, <1>4 DEF Next

\* Every step leaves a job that has no outcome its goroutine, and writes the outcome
\* when that one ends.
LEMMA RunStep == IInv /\ JobsAreRun /\ [Next]_vars => JobsAreRun'
<1> SUFFICES ASSUME IInv, JobsAreRun, [Next]_vars PROVE JobsAreRun'
  OBVIOUS
<1> USE DEF IInv, TypeOK
<1>1. ASSUME UNCHANGED <<jobs, run, npm, job>> PROVE JobsAreRun'
  BY <1>1 DEF JobsAreRun, Running, Own
<1>2. ASSUME NEW c \in Clicks, HandleInstall(c) PROVE JobsAreRun'
  <2>1. PICK i \in Ids :
          /\ job' = [job EXCEPT ![c] = i] /\ npm' = npm
          /\ jobs' = [jobs EXCEPT ![i] = "pending"] /\ run' = [run EXCEPT ![c] = "started"]
          /\ pc[c] = "post"
    BY <1>2 DEF HandleInstall, Goto
  <2>2. job[c] = None /\ run[c] = "none"
    BY <2>1 DEF Fresh
  <2>3. ASSUME NEW id \in Ids, jobs'[id] \in {"pending", "running"}
        PROVE  \E d \in Clicks : Running(d)' /\ job'[d] = id
    <3>1. CASE id = i
      BY <2>1, <3>1 DEF Running
    <3>2. CASE id # i
      <4>1. PICK d \in Clicks : Running(d) /\ job[d] = id
        BY <2>1, <2>3, <3>2 DEF JobsAreRun
      <4> QED
        BY <2>1, <2>2, <4>1 DEF Running
    <3> QED
      BY <3>1, <3>2
  <2>4. ASSUME NEW d \in Clicks, run'[d] = "ended", Own(d)'
        PROVE  jobs'[job'[d]] \in {None, IF npm'[d] = "ok" THEN "completed" ELSE "failed"}
    <3>1. d # c /\ job'[d] = job[d] /\ run[d] = "ended" /\ job[d] \in Ids
      BY <2>1, <2>4 DEF Consistent
    <3>2. job[d] # i
      BY <2>1, <2>4, <3>1 DEF Own
    <3>3. Own(d)
      BY <2>1, <2>2, <2>4, <3>1, InstallerAssumption DEF Own
    <3> QED
      BY <2>1, <3>1, <3>2, <3>3 DEF JobsAreRun
  <2> QED
    BY <2>3, <2>4 DEF JobsAreRun
<1>3. ASSUME NEW c \in Clicks, EndUpdate(c) PROVE JobsAreRun'
  <2>1. /\ writing = c /\ run[c] \in {"started", "exited"} /\ job' = job
        /\ job[c] \in Ids
        /\ jobs' = [jobs EXCEPT ![job[c]] = NewStatus(c)]
        /\ \A d \in Clicks \ {c} : run'[d] = run[d] /\ npm'[d] = npm[d]
        /\ \/ run[c] = "started" /\ run'[c] = "command" /\ NewStatus(c) = "running"
           \/ run[c] = "exited" /\ run'[c] = "ended" /\ npm'[c] = npm[c]
    BY <1>3, InstallerAssumption DEF EndUpdate, Written, Consistent, NewStatus
  <2>3. ASSUME NEW id \in Ids, jobs'[id] \in {"pending", "running"}
        PROVE  \E d \in Clicks : Running(d)' /\ job'[d] = id
    <3>1. CASE id = job[c]
      BY <2>1, <2>3, <3>1 DEF NewStatus, Running
    <3>2. CASE id # job[c]
      <4>1. PICK d \in Clicks : Running(d) /\ job[d] = id
        BY <2>1, <2>3, <3>2 DEF JobsAreRun
      <4> QED
        BY <2>1, <3>2, <4>1 DEF Running
    <3> QED
      BY <3>1, <3>2
  <2>4. ASSUME NEW d \in Clicks, run'[d] = "ended", Own(d)'
        PROVE  jobs'[job'[d]] \in {None, IF npm'[d] = "ok" THEN "completed" ELSE "failed"}
    <3>1. CASE d = c
      BY <2>1, <2>4, <3>1 DEF NewStatus
    <3>2. CASE d # c
      <4>1. Own(d) /\ job[d] # job[c] /\ run[d] = "ended"
        BY <2>1, <2>4, <3>2 DEF Own
      <4> QED
        BY <2>1, <3>2, <4>1 DEF JobsAreRun
    <3> QED
      BY <3>1, <3>2
  <2> QED
    BY <2>3, <2>4 DEF JobsAreRun
<1>4. ASSUME NEW c \in Clicks, CommandExits(c) PROVE JobsAreRun'
  BY <1>4 DEF CommandExits, JobsAreRun, Running, Own
<1>5. CASE Stop
  <2>1. /\ job' = job /\ npm' = npm /\ jobs' = [id \in Ids |-> None]
        /\ \A c \in Clicks : run'[c] = "ended" => run[c] = "ended"
    BY <1>5 DEF Stop
  <2>2. \A c \in Clicks : run'[c] = "ended" => job[c] \in Ids
    BY <2>1 DEF Consistent
  <2>3. None \notin {"pending", "running"}
    BY InstallerAssumption
  <2> QED
    BY <2>1, <2>2, <2>3 DEF JobsAreRun, Own
<1>6. ASSUME NEW c \in Clicks, InstallPackage(c), ~HandleInstall(c)
      PROVE  UNCHANGED <<jobs, run, npm, job>>
  BY <1>6
  DEF InstallPackage, Healthy, NotRunning, InstallAnswered, FetchFails, SendStatus, Send,
      GiveUp, Encode, Reset, HandleStatus
<1>7. ASSUME NEW c \in Clicks, (\E b \in Buttons : Click(c, b)) \/ BeginUpdate(c)
      PROVE  UNCHANGED <<jobs, run, npm, job>>
  BY <1>7 DEF Click, BeginUpdate
<1>8. CASE StartDaemon \/ UNCHANGED vars
  BY <1>1, <1>8 DEF StartDaemon, vars
<1> QED
  BY <1>1, <1>2, <1>3, <1>4, <1>5, <1>6, <1>7, <1>8 DEF Next, RunInstallation

\* No button stays disabled behind a handler that is gone, whatever fails and however
\* often the same button was clicked before the page disabled it.
THEOREM DisabledTheorem == Spec => []DisabledForHandler
<1>1. Init => DisabledForHandler
  BY DEF Init, DisabledForHandler
<1> QED
  BY <1>1, InitIInv, StepIInv, DisabledStep, PTL DEF Spec

\* No job is "pending" or "running" in the map of the daemon without a goroutine of its
\* own, whoever shares its ID, and none that has it alone and ended is without its
\* outcome: no update is lost or undone by another.
THEOREM JobsTheorem == Spec => []JobsAreRun
<1>1. Init => JobsAreRun
  BY InstallerAssumption DEF Init, JobsAreRun
<1> QED
  BY <1>1, InitIInv, StepIInv, RunStep, PTL DEF Spec
=============================================================================
