------------------------------- MODULE SliceJobs -------------------------------
(***************************************************************************)
(* Slicing in the background: the dispatcher in the server's memory, and   *)
(* in the browser the tracker that polls each job and shows its toast.     *)
(*                                                                         *)
(* A poll walks over the tracked jobs one request at a time; polls overlap *)
(* when one takes longer than the interval. React applies an update of the *)
(* job list at the next render: the list that the timers read lags behind. *)
(***************************************************************************)
EXTENDS Naturals, FiniteSets, Sequences

CONSTANTS
    Slices,         \* what the user slices, each enqueued once
    Archives,       \* those of kind archive: their result is a toast with a link
    Polls,          \* poll callbacks that may overlap
    NoSlice,
    MaxFailures,    \* bound: poll requests that fail
    MaxOutages,     \* bound: half hours for which the browser cannot poll
    MaxRestarts     \* bound: restarts of the server process

ASSUME SliceConstants ==
    /\ IsFiniteSet(Slices) /\ Archives \subseteq Slices /\ NoSlice \notin Slices
    /\ {MaxFailures, MaxOutages, MaxRestarts} \subseteq Nat

Ids == 1..Cardinality(Slices)
Outcomes == {"completed", "failed"}
Statuses == {"running"} \cup Outcomes       \* pending differs in the toast's wording only
\* What a request for a job brings; "missing" is a 404.
Answers == Statuses \cup {"none", "missing", "error"}
TrackedJob == [id : Ids, slice : Slices]

VARIABLES
    slot, status, old,  \* _jobs: the slice under an id, its status; finished for
                        \* longer than _RETENTION_SECONDS
    nextId, waiting,    \* _next_id; slices the user has not asked for yet
    posted,             \* enqueue responses on their way
    jobs, rendered,     \* activeJobs with its pending updates; activeJobsRef
    started,            \* keys of startedAtRef
    toast, timers,      \* the toast slice-job-{id}; pending dismissals of it
    modal,              \* sliceError: the slice whose failure the modal shows
    todo, answer,       \* of a poll: jobs left to ask for, the answer to the first
    outcome, told,      \* history: how a slice ended, what its user was told
    failures, outages, restarts

registry == <<slot, status, old, nextId>>
tracker  == <<jobs, rendered, started>>
shown    == <<toast, timers, modal, told>>
polling  == <<todo, answer>>
bounds   == <<failures, outages, restarts>>
vars == <<registry, waiting, posted, tracker, shown, polling, outcome, bounds>>

Init ==
    /\ slot = [i \in Ids |-> NoSlice] /\ status = [i \in Ids |-> "running"]
    /\ old = [i \in Ids |-> FALSE] /\ nextId = 1 /\ waiting = Slices
    /\ posted = {} /\ jobs = <<>> /\ rendered = <<>> /\ started = {}
    /\ toast = [i \in Ids |-> "none"] /\ timers = [i \in Ids |-> 0] /\ modal = NoSlice
    /\ todo = [p \in Polls |-> <<>>] /\ answer = [p \in Polls |-> "none"]
    /\ outcome = [s \in Slices |-> "none"] /\ told = [s \in Slices |-> {}]
    /\ failures = 0 /\ outages = 0 /\ restarts = 0

ListOf(seq) == {seq[k] : k \in DOMAIN seq}
IdsOf(seq) == {j.id : j \in ListOf(seq)}

------------------------------------------------------------------------------
\* _sweep_locked: finished jobs past their retention.
ExpiredAtOnce == {i \in Ids : slot[i] # NoSlice /\ status[i] \in Outcomes}      \* mutant
Expired == {i \in Ids : slot[i] # NoSlice /\ status[i] \in Outcomes /\ old[i]}

Enqueue(s) ==
    /\ s \in waiting
    /\ waiting' = waiting \ {s}
    /\ slot' = [i \in Ids |-> IF i = nextId THEN s ELSE IF i \in Expired THEN NoSlice ELSE slot[i]]
    /\ status' = [i \in Ids |-> IF i \in Expired \cup {nextId} THEN "running" ELSE status[i]]
    /\ old' = [i \in Ids |-> old[i] /\ i \notin Expired \cup {nextId}]
    /\ nextId' = nextId + 1
    /\ posted' = posted \cup {[id |-> nextId, slice |-> s]}
    /\ UNCHANGED <<tracker, shown, polling, outcome, bounds>>

\* _run_job ends: the slicer's result or its error.
Finish(i) ==
    /\ slot[i] # NoSlice /\ status[i] = "running"
    /\ \E o \in Outcomes :
        /\ status' = [status EXCEPT ![i] = o]
        /\ outcome' = [outcome EXCEPT ![slot[i]] = o]
    /\ UNCHANGED <<slot, old, nextId, waiting, posted, tracker, shown, polling, bounds>>

\* Half an hour passes after the end of a job. A page that tracks it has asked for
\* it many times by then, unless it was suspended or cut off.
Watched(i) == \E j \in posted \cup ListOf(jobs) : j.id = i

Age(i) ==
    /\ slot[i] # NoSlice /\ status[i] \in Outcomes /\ ~old[i]
    /\ Watched(i) => outages < MaxOutages
    /\ outages' = IF Watched(i) THEN outages + 1 ELSE outages
    /\ old' = [old EXCEPT ![i] = TRUE]
    /\ UNCHANGED <<slot, status, nextId, waiting, posted, tracker, shown, polling, outcome,
                   failures, restarts>>

\* The process is down for seconds: what it had answered has been handled, and
\* polls under way run out on refused connections.
Restart ==
    /\ restarts < MaxRestarts
    /\ posted = {} /\ rendered = jobs /\ \A p \in Polls : todo[p] = <<>>
    /\ restarts' = restarts + 1
    /\ slot' = [i \in Ids |-> NoSlice] /\ status' = [i \in Ids |-> "running"]
    /\ old' = [i \in Ids |-> FALSE] /\ nextId' = 1
    /\ UNCHANGED <<waiting, posted, tracker, shown, polling, outcome, failures, outages>>

------------------------------------------------------------------------------
\* The mutation of SliceModal succeeds: trackJob. An id that is already tracked is
\* not added again.
AlwaysNew(id) == TRUE       \* mutant
IsNew(id) == id \notin IdsOf(jobs)

Track(j) ==
    /\ j \in posted
    /\ posted' = posted \ {j}
    /\ jobs' = IF IsNew(j.id) THEN Append(jobs, j) ELSE jobs
    /\ started' = started \cup {j.id}
    /\ toast' = [toast EXCEPT ![j.id] = "loading"]
    /\ UNCHANGED <<registry, waiting, rendered, timers, modal, told, polling, outcome, bounds>>

\* The response is lost: the user sees the modal's error, the job runs on untracked.
ResponseLost(j) ==
    /\ j \in posted /\ failures < MaxFailures
    /\ posted' = posted \ {j} /\ failures' = failures + 1
    /\ UNCHANGED <<registry, waiting, tracker, shown, polling, outcome, outages, restarts>>

Render ==
    /\ rendered # jobs
    /\ rendered' = jobs
    /\ UNCHANGED <<registry, waiting, posted, jobs, started, shown, polling, outcome, bounds>>

\* renderProgressToast returns when the job has no start time.
ShowsAnyway(id) == TRUE     \* mutant
Shows(id) == id \in started

\* The tick of each second: the progress toast of every rendered job.
Tick ==
    /\ rendered # <<>>
    /\ toast' = [i \in Ids |-> IF i \in IdsOf(rendered) /\ Shows(i) THEN "loading" ELSE toast[i]]
    /\ UNCHANGED <<registry, waiting, posted, tracker, timers, modal, told, polling, outcome, bounds>>

------------------------------------------------------------------------------
\* The interval fires; updates of the list are rendered long before the next time.
StartPoll(p) ==
    /\ todo[p] = <<>> /\ rendered # <<>> /\ rendered = jobs
    /\ todo' = [todo EXCEPT ![p] = rendered]
    /\ UNCHANGED <<registry, waiting, posted, tracker, shown, answer, outcome, bounds>>

\* The server answers from its registry, or the request fails.
Answer(p) ==
    /\ todo[p] # <<>> /\ answer[p] = "none"
    /\ LET i == Head(todo[p]).id IN
       \/ /\ answer' = [answer EXCEPT ![p] = IF slot[i] = NoSlice THEN "missing" ELSE status[i]]
          /\ UNCHANGED failures
       \/ /\ failures < MaxFailures
          /\ failures' = failures + 1
          /\ answer' = [answer EXCEPT ![p] = "error"]
    /\ UNCHANGED <<registry, waiting, posted, tracker, shown, todo, outcome, outages, restarts>>

\* The job an answer is applied to is the one of the poll's own snapshot.
SubjectNow(p) == IF rendered # <<>> THEN Head(rendered) ELSE Head(todo[p])      \* mutant
Subject(p) == Head(todo[p])

\* A list without the job of an id; no list names one twice, see Listed.
Without(seq, id) ==
    IF id \in IdsOf(seq)
    THEN LET at == CHOOSE k \in DOMAIN seq : seq[k].id = id
         IN  SubSeq(seq, 1, at - 1) \o SubSeq(seq, at + 1, Len(seq))
    ELSE seq

\* completeJob: a success of an archive is a toast that lingers, another success a
\* toast of its own, a failure a modal.
Complete(j, result) ==
    LET lingers == result = "completed" /\ j.slice \in Archives IN
    /\ jobs' = Without(jobs, j.id)
    /\ started' = started \ {j.id}
    /\ toast' = [toast EXCEPT ![j.id] = IF lingers THEN "done" ELSE "none"]
    /\ timers' = [timers EXCEPT ![j.id] = IF lingers THEN @ + 1 ELSE @]
    /\ modal' = IF result = "failed" THEN j.slice ELSE modal
    /\ told' = [told EXCEPT ![j.slice] = @ \cup {result}]

OnlySuccess(a) == a = "completed"       \* mutant
Terminal(a) == a \in Outcomes

\* The poll goes on with its next job; an error or a 404 leaves the job tracked.
Handle(p) ==
    /\ answer[p] # "none"
    /\ IF Terminal(answer[p])
       THEN Complete(Subject(p), answer[p])
       ELSE UNCHANGED <<jobs, started, shown>>
    /\ todo' = [todo EXCEPT ![p] = Tail(@)] /\ answer' = [answer EXCEPT ![p] = "none"]
    /\ UNCHANGED <<registry, waiting, posted, rendered, outcome, bounds>>

\* The timeout of a success toast; it is never cleared.
Dismiss(i) ==
    /\ timers[i] > 0
    /\ timers' = [timers EXCEPT ![i] = @ - 1]
    /\ toast' = [toast EXCEPT ![i] = "none"]
    /\ UNCHANGED <<registry, waiting, posted, tracker, modal, told, polling, outcome, bounds>>

Acknowledge ==
    /\ modal # NoSlice /\ modal' = NoSlice
    /\ UNCHANGED <<registry, waiting, posted, tracker, toast, timers, told, polling, outcome, bounds>>

Next ==
    \/ \E s \in Slices : Enqueue(s)
    \/ \E i \in Ids : Finish(i) \/ Age(i) \/ Dismiss(i)
    \/ \E j \in posted : Track(j) \/ ResponseLost(j)
    \/ \E p \in Polls : StartPoll(p) \/ Answer(p) \/ Handle(p)
    \/ Restart \/ Render \/ Tick \/ Acknowledge

Spec == Init /\ [][Next]_vars

\* The slicer's call ends (the client has a timeout), React renders, timers fire
\* and requests are answered. Users and outages are not bound to come.
Fairness ==
    /\ \A i \in Ids : WF_vars(Finish(i)) /\ WF_vars(Dismiss(i))
    /\ \A p \in Polls : WF_vars(StartPoll(p) \/ Answer(p) \/ Handle(p))
    /\ WF_vars(Render)

FairSpec == Spec /\ Fairness

------------------------------------------------------------------------------
\* The types; a list never names an id twice.
Listed(seq) ==
    /\ seq \in Seq(TrackedJob)
    /\ \A k, l \in DOMAIN seq : seq[k].id = seq[l].id => k = l

TypeOK ==
    /\ slot \in [Ids -> Slices \cup {NoSlice}] /\ status \in [Ids -> Statuses]
    /\ old \in [Ids -> BOOLEAN] /\ nextId \in 1..Cardinality(Slices) + 1
    /\ waiting \subseteq Slices /\ posted \subseteq TrackedJob
    /\ Listed(jobs) /\ Listed(rendered)
    /\ todo \in [Polls -> Seq(TrackedJob)] /\ \A p \in Polls : Listed(todo[p])
    /\ started \subseteq Ids /\ toast \in [Ids -> {"none", "loading", "done"}]
    /\ timers \in [Ids -> Nat] /\ modal \in Slices \cup {NoSlice}
    /\ answer \in [Polls -> Answers]
    /\ outcome \in [Slices -> Outcomes \cup {"none"}] /\ told \in [Slices -> SUBSET Outcomes]
    /\ failures \in 0..MaxFailures /\ outages \in 0..MaxOutages /\ restarts \in 0..MaxRestarts

\* A spinner belongs to a tracked job: neither the tick, which reads a list of the
\* last render, nor a poll that began before brings it back after the job's end.
SpinnerIsTracked == \A i \in Ids : toast[i] = "loading" => i \in IdsOf(jobs)

\* A job stays on the server until its page has seen how it ended, as the retention
\* promises, if the page is up and the server has not restarted.
KeptUntilReported ==
    outages = 0 /\ restarts = 0 => \A j \in posted \cup ListOf(jobs) : slot[j.id] = j.slice

\* Users are told what became of their slice: answers that overlap or come late are
\* never applied to another job, until a restart deals out the ids again.
Truthful == restarts = 0 => \A s \in Slices : told[s] \subseteq {outcome[s]}

\* A tracked job is reported in the end, whatever other polls and jobs do, or the
\* server has lost it: swept during an outage, or forgotten by a restart.
EveryJobReported ==
    \A j \in TrackedJob :
        j \in ListOf(jobs) ~> (told[j.slice] # {} \/ slot[j.id] # j.slice \/ restarts > 0)
=============================================================================
