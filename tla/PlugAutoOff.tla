----------------------------- MODULE PlugAutoOff -----------------------------
(***************************************************************************)
(* The automatic switching-off of one smart plug that feeds one printer:   *)
(* timers that a finished print, a queue job or a drying cycle starts, a   *)
(* print start that calls them off, the pending mark in the database that  *)
(* is to survive a restart, and what a restart makes of it.                *)
(*                                                                         *)
(* One event loop: a step is what happens between two suspensions. The     *)
(* settings of the plug are choices, except "enabled"; so is whether the   *)
(* nozzle has cooled when a timer looks.                                   *)
(***************************************************************************)
EXTENDS Naturals

CONSTANTS
    MaxTasks,       \* bound: timers started in all
    MaxPrints,      \* bound: prints the printer begins
    MaxDryings,     \* bound: drying cycles that end
    MaxChanges      \* bound: edits, switchings by hand, disconnections and crashes together

ASSUME PlugConstants == {MaxTasks, MaxPrints, MaxDryings, MaxChanges} \subseteq Nat

Tasks == 1..MaxTasks
NoTask == 0
Notices == {"start", "on", "ended", "drying"}
\* What is written by: _mark_auto_off_pending of a new timer, of a cancellation and
\* of a timer that finds a print; _mark_auto_off_executed.
MarkKinds == {"set", "clear", "skip", "executed"}
Marks == [task : Tasks \cup {NoTask}, kind : MarkKinds]

VARIABLES
    up, resume,         \* the process; how far resume_pending_auto_offs is
    used, pc, mode,     \* of timers: how many there were, where each is, off_delay_mode
    cancelled,          \* cancel() was called and the timer has not seen it
    registered,         \* _pending_off[plug]
    marks, pending,     \* writes under way; the row's auto_off_pending
    enabled,            \* the row's enabled
    notices,            \* callbacks that have not come to the plug yet
    seen,               \* cached state of the printer
    printing, power,    \* the printer prints; the plug is on
    called, stray,      \* history: live timers a print start met; those another one unregistered
    wanted,             \* history: an off was scheduled and is not settled yet
    prints, dryings, changes

timer   == <<used, pc, mode, cancelled, registered, called, stray>>
row     == <<marks, pending>>
printer == <<printing, power>>
bounds  == <<prints, dryings, changes>>
vars == <<up, resume, timer, row, enabled, notices, seen, printer, wanted, bounds>>

Init ==
    /\ up = TRUE /\ resume = "idle"
    /\ used = 0 /\ pc = [t \in Tasks |-> "none"] /\ mode = [t \in Tasks |-> "time"]
    /\ cancelled = [t \in Tasks |-> FALSE] /\ registered = NoTask
    /\ marks = {} /\ pending = FALSE
    /\ enabled = TRUE
    /\ notices = [n \in Notices |-> 0]
    /\ seen = "unknown"
    /\ printing = FALSE /\ power = TRUE
    /\ called = {} /\ stray = {} /\ wanted = FALSE
    /\ prints = 0 /\ dryings = 0 /\ changes = 0

------------------------------------------------------------------------------
Live(t) == pc[t] \notin {"none", "done"}
Mark(t, k) == [task |-> t, kind |-> k]

\* is_print_active: a printer that is not connected counts as idle.
IsPrintActive == seen = "active"

\* _cancel_pending_off: the registered timer is cancelled and forgotten, and a write
\* that takes its mark back is started.
ClearOf(t) == IF t = NoTask THEN {} ELSE {Mark(t, "clear")}
Cancel(t) == [u \in Tasks |-> cancelled[u] \/ u = t]

\* _schedule_off_per_mode: the timer registered so far is replaced by a new one.
ReplacedLate == used + 1        \* mutant
Replaced == registered

Schedule(m) ==
    LET t == used + 1 IN
    /\ t \in Tasks
    /\ used' = t /\ pc' = [pc EXCEPT ![t] = "new"] /\ mode' = [mode EXCEPT ![t] = m]
    /\ cancelled' = Cancel(Replaced)
    /\ registered' = t
    /\ marks' = marks \cup ClearOf(registered) \cup {Mark(t, "set")}
    /\ wanted' = TRUE
    /\ UNCHANGED <<called, stray>>

\* The timer's finally: it pops the plug's entry, whichever timer that is.
LeavesEntry(t) == registered        \* mutant
Popped(t) == NoTask

Finish(t) ==
    /\ pc' = [pc EXCEPT ![t] = "done"] /\ cancelled' = [cancelled EXCEPT ![t] = FALSE]
    /\ mode' = [mode EXCEPT ![t] = "time"]
    /\ registered' = Popped(t)
    /\ stray' = (stray \cup ({registered} \ {NoTask})) \ {t}
    /\ called' = called \ {t}
    /\ UNCHANGED used

\* Its first step; a timer cancelled before it never enters its try.
Begin(t) ==
    /\ pc[t] = "new"
    /\ pc' = [pc EXCEPT ![t] = IF cancelled[t] THEN "done" ELSE "waiting"]
    /\ mode' = [mode EXCEPT ![t] = IF cancelled[t] THEN "time" ELSE @]
    /\ cancelled' = [cancelled EXCEPT ![t] = FALSE]
    /\ called' = IF cancelled[t] THEN called \ {t} ELSE called
    /\ UNCHANGED <<up, resume, used, registered, stray, row, enabled, notices, seen, printer, wanted, bounds>>

\* The delay is over, or the nozzle has cooled: off, unless a print is loaded. A delayed
\* off is given up then; one that waits for the temperature goes on waiting.
Expire(t) ==
    /\ pc[t] = "waiting" /\ ~cancelled[t]
    /\ IF IsPrintActive
       THEN /\ mode[t] = "time"
            /\ pc' = [pc EXCEPT ![t] = "skipping"] /\ marks' = marks \cup {Mark(t, "skip")}
            /\ wanted' = FALSE
       ELSE pc' = [pc EXCEPT ![t] = "switching"] /\ UNCHANGED <<marks, wanted>>
    /\ UNCHANGED <<up, resume, used, mode, cancelled, registered, stray, pending, enabled, notices, seen, printer,
                   called, bounds>>

\* An hour has passed and the nozzle was never seen below the threshold.
TimeOut(t) ==
    /\ pc[t] = "waiting" /\ ~cancelled[t] /\ mode[t] = "temperature"
    /\ Finish(t) /\ wanted' = FALSE
    /\ UNCHANGED <<up, resume, row, enabled, notices, seen, printer, bounds>>

\* The plug goes off; a print on the printer is lost.
CutPower == power' = FALSE /\ printing' = FALSE

\* turn_off reaches the plug and its driver says so, or fails: then the plug may
\* have been reached all the same.
TurnOff(t) ==
    /\ pc[t] = "switching" /\ ~cancelled[t] /\ wanted' = FALSE
    /\ \/ /\ CutPower /\ pc' = [pc EXCEPT ![t] = "marking"]
          /\ marks' = marks \cup {Mark(t, "executed")}
          /\ UNCHANGED <<used, mode, cancelled, registered, called, stray>>
       \/ Finish(t) /\ UNCHANGED marks /\ (CutPower \/ UNCHANGED printer)
    /\ UNCHANGED <<up, resume, pending, enabled, notices, seen, bounds>>

\* The write a timer waited for is done; after an off, the printer is presumed offline.
Marked(t) ==
    /\ ~cancelled[t]
    /\ \/ pc[t] = "skipping" /\ seen' = seen
       \/ pc[t] = "marking" /\ seen' = "unknown"
    /\ \A m \in marks : m.task = t => m.kind \notin {"skip", "executed"}
    /\ Finish(t)
    /\ UNCHANGED <<up, resume, row, enabled, notices, printer, wanted, bounds>>

\* A cancelled timer ends wherever it waits, and with it the write it waited for; a
\* command under way may have reached the plug.
Interrupted(t) ==
    /\ cancelled[t] /\ pc[t] \in {"waiting", "skipping", "switching", "marking"}
    /\ Finish(t)
    /\ marks' = {m \in marks : m.task = t => m.kind \in {"set", "clear"}}
    /\ \/ UNCHANGED printer
       \/ pc[t] = "switching" /\ CutPower
    /\ UNCHANGED <<up, resume, pending, enabled, notices, seen, wanted, bounds>>

------------------------------------------------------------------------------
\* A session reads the row and writes it, if the column differs from what was read: at
\* the read or at the write it takes effect in one step, in whatever order.
Write(m) ==
    /\ marks' = marks \ {m} /\ pending' = (m.kind = "set")
    /\ UNCHANGED <<up, resume, timer, enabled, notices, seen, printer, wanted, bounds>>

\* PATCH of the plug: no timer is told.
Edit ==
    /\ up /\ changes < MaxChanges /\ changes' = changes + 1
    /\ enabled' = ~enabled
    /\ UNCHANGED <<up, resume, timer, row, notices, seen, printer, wanted, prints, dryings>>

------------------------------------------------------------------------------
\* on_print_start: any timer is called off before "enabled" is looked at; then the plug
\* is switched on if the settings say so.
CalledOffIfEnabled == IF enabled THEN registered ELSE NoTask      \* mutant
CalledOff == registered

PrintStarted ==
    /\ notices["start"] > 0
    /\ registered' = NoTask
    /\ cancelled' = Cancel(CalledOff)
    /\ marks' = marks \cup ClearOf(CalledOff)
    /\ called' = called \cup {t \in Tasks : Live(t)}
    /\ wanted' = FALSE
    /\ \E on \in {0, 1} : /\ on = 1 => enabled
                          /\ notices' = [notices EXCEPT !["start"] = @ - 1, !["on"] = @ + on]
    /\ UNCHANGED <<up, resume, used, pc, mode, stray, pending, enabled, seen, printer, bounds>>

TurnOn ==
    /\ notices["on"] > 0
    /\ notices' = [notices EXCEPT !["on"] = @ - 1]
    /\ power' \in {power, TRUE}
    /\ UNCHANGED <<up, resume, timer, row, enabled, seen, printing, wanted, bounds>>

\* on_print_complete, schedule_off_after_queue_job and on_drying_complete: for a plug that
\* is enabled and whose settings ask for it; after a drying by delay only.
OffRequested(n) ==
    /\ notices[n] > 0
    /\ notices' = [notices EXCEPT ![n] = @ - 1]
    /\ \/ UNCHANGED <<timer, marks, wanted>>
       \/ enabled /\ \E m \in {"time", "temperature"} : (n = "drying" => m = "time") /\ Schedule(m)
    /\ UNCHANGED <<up, resume, pending, enabled, seen, printer, bounds>>

\* A telemetry report: the edges of the state start the callbacks. What a report after
\* a connection without state says of the time before is a choice.
Report ==
    /\ up /\ power
    /\ seen' = (IF printing THEN "active" ELSE "idle") /\ seen' # seen
    /\ \E start \in {0, 1}, ended \in 0..2 :
        /\ start = 1 => printing
        /\ ended > 0 => ~printing /\ prints > 0
        /\ seen = "idle" => start = 1
        /\ notices' = [notices EXCEPT !["start"] = @ + start, !["ended"] = @ + ended]
    /\ UNCHANGED <<up, resume, timer, row, enabled, printer, wanted, bounds>>

DryingEnds ==
    /\ up /\ power /\ dryings < MaxDryings /\ dryings' = dryings + 1
    /\ notices' = [notices EXCEPT !["drying"] = @ + 1]
    /\ UNCHANGED <<up, resume, timer, row, enabled, seen, printer, wanted, prints, changes>>

PrintBegins ==
    /\ power /\ ~printing /\ prints < MaxPrints /\ prints' = prints + 1
    /\ printing' = TRUE
    /\ UNCHANGED <<up, resume, timer, row, enabled, notices, seen, power, wanted, dryings, changes>>

PrintEnds ==
    /\ printing /\ printing' = FALSE
    /\ UNCHANGED <<up, resume, timer, row, enabled, notices, seen, power, wanted, bounds>>

\* The control route and the plug's own timetable switch it by hand: no timer is told.
SwitchByHand ==
    /\ up /\ changes < MaxChanges /\ changes' = changes + 1
    /\ \/ ~power /\ power' = TRUE /\ UNCHANGED <<printing, seen>>
       \/ power /\ CutPower /\ seen' \in {seen, "unknown"}
    /\ UNCHANGED <<up, resume, timer, row, enabled, notices, wanted, prints, dryings>>

Disconnect ==
    /\ up /\ seen # "unknown" /\ changes < MaxChanges /\ changes' = changes + 1
    /\ seen' = "unknown"
    /\ UNCHANGED <<up, resume, timer, row, enabled, notices, printer, wanted, prints, dryings>>

------------------------------------------------------------------------------
\* The process ends with its timers, callbacks and open writes. An off without a mark is lost.
Crash ==
    /\ up /\ changes < MaxChanges /\ changes' = changes + 1
    /\ up' = FALSE /\ resume' = "idle"
    /\ pc' = [t \in Tasks |-> IF Live(t) THEN "done" ELSE pc[t]]
    /\ mode' = [t \in Tasks |-> "time"]
    /\ cancelled' = [t \in Tasks |-> FALSE] /\ registered' = NoTask /\ called' = {} /\ stray' = {}
    /\ marks' = {} /\ notices' = [n \in Notices |-> 0] /\ seen' = "unknown"
    /\ wanted' = (wanted /\ pending)
    /\ UNCHANGED <<used, pending, enabled, printer, prints, dryings>>

\* The connections were begun; their first reports may come before or after the rest.
Boot ==
    /\ ~up /\ up' = TRUE /\ resume' = "due"
    /\ UNCHANGED <<timer, row, enabled, notices, seen, printer, wanted, bounds>>

\* resume_pending_auto_offs: nothing is marked; or the mark is dropped, because it is two
\* hours old or a print is seen; or the off is taken up, one by delay at once.
Resume ==
    /\ resume = "due"
    /\ \/ /\ ~pending /\ resume' = "idle" /\ UNCHANGED <<timer, row, wanted>>
       \/ /\ pending /\ resume' = "idle" /\ pending' = FALSE /\ wanted' = FALSE /\ UNCHANGED <<timer, marks>>
       \/ /\ pending /\ ~IsPrintActive /\ resume' = "idle" /\ Schedule("temperature") /\ UNCHANGED pending
       \/ /\ pending /\ ~IsPrintActive /\ resume' = "switching" /\ UNCHANGED <<timer, row, wanted>>
    /\ UNCHANGED <<up, enabled, notices, seen, printer, bounds>>

ResumedOff ==
    /\ resume = "switching"
    /\ \/ /\ CutPower /\ resume' = "marking" /\ marks' = marks \cup {Mark(NoTask, "executed")}
       \/ resume' = "idle" /\ UNCHANGED marks /\ (CutPower \/ UNCHANGED printer)
    /\ wanted' = FALSE
    /\ UNCHANGED <<up, timer, pending, enabled, notices, seen, bounds>>

ResumedMarked ==
    /\ resume = "marking" /\ \A m \in marks : m.task # NoTask
    /\ resume' = "idle" /\ seen' = "unknown"
    /\ UNCHANGED <<up, timer, row, enabled, notices, printer, wanted, bounds>>

Timer(t) == Begin(t) \/ Expire(t) \/ TimeOut(t) \/ TurnOff(t) \/ Marked(t) \/ Interrupted(t)

Next ==
    \/ \E t \in Tasks : Timer(t)
    \/ \E m \in marks : Write(m)
    \/ Edit \/ PrintStarted \/ TurnOn \/ \E n \in {"ended", "drying"} : OffRequested(n)
    \/ Report \/ DryingEnds \/ PrintBegins \/ PrintEnds \/ SwitchByHand \/ Disconnect
    \/ Crash \/ Boot \/ Resume \/ ResumedOff \/ ResumedMarked

Spec == Init /\ [][Next]_vars

\* The loop runs what is ready, delays end, plugs answer or time out, writes are made and
\* the process is started again. Nothing is assumed of the printer.
Fairness ==
    /\ \A t \in Tasks : WF_vars(Timer(t))
    /\ WF_vars(\E m \in marks : Write(m))
    /\ WF_vars(Boot) /\ WF_vars(Resume \/ ResumedOff \/ ResumedMarked)

FairSpec == Spec /\ Fairness

------------------------------------------------------------------------------
\* The domain of every variable; a registered timer runs and is not cancelled.
TypeOK ==
    /\ up \in BOOLEAN /\ resume \in {"idle", "due", "switching", "marking"}
    /\ used \in 0..MaxTasks
    /\ pc \in [Tasks -> {"none", "new", "waiting", "skipping", "switching", "marking", "done"}]
    /\ mode \in [Tasks -> {"time", "temperature"}] /\ cancelled \in [Tasks -> BOOLEAN]
    /\ registered \in Tasks \cup {NoTask}
    /\ registered # NoTask => Live(registered) /\ ~cancelled[registered]
    /\ marks \subseteq Marks /\ pending \in BOOLEAN /\ enabled \in BOOLEAN
    /\ notices \in [Notices -> Nat]
    /\ seen \in {"unknown", "idle", "active"}
    /\ printing \in BOOLEAN /\ power \in BOOLEAN
    /\ called \subseteq Tasks /\ stray \subseteq Tasks /\ wanted \in BOOLEAN
    /\ prints \in 0..MaxPrints /\ dryings \in 0..MaxDryings /\ changes \in 0..MaxChanges

\* A print start calls off every timer that runs when it is handled, whatever the
\* settings have become, unless another timer's end took it from the registry: no such
\* timer decides to switch the plug off any more.
StartCallsOff ==
    [][\A t \in called : pc[t] = "waiting" /\ pc'[t] = "switching" => t \in stray]_vars

\* An off that was asked for is settled: carried out, refused by the plug, dropped for a
\* print, called off or timed out, by its own timer, the one that replaced it or, after a
\* crash that found it marked, by the resumption.
OffSettled == wanted ~> ~wanted

\* What on_drying_complete relies on: repeated requests collapse to one timer.
OneTimer == \A t, u \in Tasks : Live(t) /\ Live(u) /\ ~cancelled[t] /\ ~cancelled[u] => t = u
=============================================================================
