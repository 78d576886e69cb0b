------------------------- MODULE PlugAutoOffProofs --------------------------
(***************************************************************************)
(* For any number of timers, prints, drying cycles and changes: the        *)
(* types of PlugAutoOff, and that a print start calls off every running    *)
(* timer the registry still knows or whose replacement it has ordered.     *)
(*                                                                         *)
(* The invariant: a running timer that nobody has cancelled is the         *)
(* registered one or was unregistered by another timer's end; and one that *)
(* a print start met is cancelled or was unregistered that way.            *)
(***************************************************************************)
EXTENDS PlugAutoOff, TLAPS

\* Timers are numbered in the order in which they start.
Fresh == \A t \in Tasks : t > used => pc[t] = "none" /\ ~cancelled[t]

\* Who may still switch the plug off, and what became of those a print start met.
Owned == \A t \in Tasks : Live(t) /\ ~cancelled[t] => registered = t \/ t \in stray
Met == \A t \in called : cancelled[t] \/ t \in stray

IInv == TypeOK /\ Fresh /\ Owned /\ Met

------------------------------------------------------------------------------
\* The part of the invariant that is about timers, and the types of everything else.
TimersOK ==
    /\ used \in 0..MaxTasks
    /\ pc \in [Tasks -> {"none", "new", "waiting", "skipping", "switching", "marking", "done"}]
    /\ mode \in [Tasks -> {"time", "temperature"}] /\ cancelled \in [Tasks -> BOOLEAN]
    /\ registered \in Tasks \cup {NoTask}
    /\ registered # NoTask => Live(registered) /\ ~cancelled[registered]
    /\ called \subseteq Tasks /\ stray \subseteq Tasks
    /\ Fresh /\ Owned /\ Met

RestOK ==
    /\ up \in BOOLEAN /\ resume \in {"idle", "due", "switching", "marking"}
    /\ marks \subseteq Marks /\ pending \in BOOLEAN /\ enabled \in BOOLEAN
    /\ notices \in [Notices -> Nat]
    /\ seen \in {"unknown", "idle", "active"}
    /\ printing \in BOOLEAN /\ power \in BOOLEAN
    /\ wanted \in BOOLEAN
    /\ prints \in 0..MaxPrints /\ dryings \in 0..MaxDryings /\ changes \in 0..MaxChanges

\* The invariant is the timers' part and the rest.
LEMMA Parts == IInv <=> TimersOK /\ RestOK
BY DEF IInv, TypeOK, TimersOK, RestOK

\* What a write is.
LEMMA MarkTyped ==
    ASSUME NEW t \in Tasks \cup {NoTask}, NEW k \in MarkKinds
    PROVE  Mark(t, k) \in Marks
BY DEF Mark, Marks

\* The timers' part depends on the timers alone.
LEMMA TimersUnchanged == TimersOK /\ UNCHANGED timer => TimersOK'
BY DEF TimersOK, timer, Fresh, Owned, Met, Live

\* A timer's end unregisters whoever is registered, and a successor becomes stray.
LEMMA FinishKeeps ==
    ASSUME TimersOK, NEW t \in Tasks, Live(t), Finish(t)
    PROVE  TimersOK'
<1>1. t <= used
  BY PlugConstants DEF TimersOK, Fresh, Live, Tasks
<1>2. /\ used' \in 0..MaxTasks
      /\ pc' \in [Tasks -> {"none", "new", "waiting", "skipping", "switching", "marking", "done"}]
      /\ mode' \in [Tasks -> {"time", "temperature"}] /\ cancelled' \in [Tasks -> BOOLEAN]
      /\ registered' = NoTask
      /\ called' \subseteq Tasks /\ stray' \subseteq Tasks
  BY DEF TimersOK, Finish, Popped
<1>3. Fresh'
  BY <1>1, PlugConstants DEF TimersOK, Fresh, Finish, Tasks
<1>4. Owned'
  BY PlugConstants DEF TimersOK, Owned, Finish, Popped, Live, Tasks, NoTask
<1>5. Met'
  BY DEF TimersOK, Met, Finish, Popped
<1> QED BY <1>2, <1>3, <1>4, <1>5 DEF TimersOK

\* The new timer is the registered one, the old one is cancelled.
LEMMA ScheduleKeeps ==
    ASSUME TimersOK, NEW m \in {"time", "temperature"}, Schedule(m)
    PROVE  TimersOK'
<1> DEFINE t == used + 1
<1>1. t \in Tasks /\ t > used /\ pc[t] = "none" /\ ~cancelled[t] /\ t # registered /\ t # NoTask
  BY PlugConstants DEF TimersOK, Fresh, Schedule, Tasks, Live, NoTask
<1>2. /\ used' = t /\ pc' = [pc EXCEPT ![t] = "new"] /\ mode' = [mode EXCEPT ![t] = m]
      /\ cancelled' = [u \in Tasks |-> cancelled[u] \/ u = registered]
      /\ registered' = t /\ called' = called /\ stray' = stray
  BY DEF Schedule, Cancel, Replaced
<1> HIDE DEF t
<1>3. /\ used' \in 0..MaxTasks
      /\ pc' \in [Tasks -> {"none", "new", "waiting", "skipping", "switching", "marking", "done"}]
      /\ mode' \in [Tasks -> {"time", "temperature"}] /\ cancelled' \in [Tasks -> BOOLEAN]
      /\ registered' \in Tasks \cup {NoTask}
      /\ called' \subseteq Tasks /\ stray' \subseteq Tasks
  BY <1>1, <1>2, PlugConstants DEF TimersOK, Tasks
<1>4. Fresh'
  <2> SUFFICES ASSUME NEW u \in Tasks, u > used'
               PROVE  pc'[u] = "none" /\ ~cancelled'[u]
    BY DEF Fresh
  <2>1. u > used /\ u # t
    BY <1>1, <1>2, PlugConstants DEF TimersOK, Tasks, t
  <2>2. u # registered
    BY <2>1 DEF TimersOK, Fresh, Live, Tasks, NoTask
  <2> QED BY <1>1, <1>2, <2>1, <2>2 DEF TimersOK, Fresh
<1>5. Owned'
  BY <1>1, <1>2 DEF TimersOK, Owned, Live
<1>6. Met'
  BY <1>1, <1>2 DEF TimersOK, Met
<1>7. Live(registered)' /\ ~cancelled'[registered']
  BY <1>1, <1>2 DEF TimersOK, Live
<1> QED BY <1>3, <1>4, <1>5, <1>6, <1>7 DEF TimersOK

------------------------------------------------------------------------------
\* The steps of a timer.
LEMMA TimerKeeps ==
    ASSUME IInv, NEW t \in Tasks, Timer(t)
    PROVE  IInv'
<1> USE PlugConstants
<1>0. TimersOK /\ RestOK
  BY Parts
<1>1. CASE Begin(t)
  <2>1. Fresh'
    BY <1>0, <1>1 DEF Begin, TimersOK, Fresh
  <2>2. Owned'
    BY <1>0, <1>1 DEF Begin, TimersOK, Owned, Live
  <2>3. Met'
    BY <1>0, <1>1 DEF Begin, TimersOK, Met
  <2>4. TimersOK'
    BY <1>0, <1>1, <2>1, <2>2, <2>3 DEF Begin, TimersOK, Live
  <2>5. RestOK'
    BY <1>0, <1>1 DEF Begin, RestOK, row, printer, bounds
  <2> QED BY <2>4, <2>5 DEF IInv, TypeOK, TimersOK, RestOK
<1>2. CASE Expire(t)
  <2>1. Fresh'
    BY <1>0, <1>2 DEF Expire, TimersOK, Fresh
  <2>2. Owned' /\ Met'
    BY <1>0, <1>2 DEF Expire, TimersOK, Owned, Met, Live
  <2>3. TimersOK'
    BY <1>0, <1>2, <2>1, <2>2 DEF Expire, TimersOK, Live
  <2>4. Mark(t, "skip") \in Marks
    BY MarkTyped DEF MarkKinds
  <2>5. RestOK'
    BY <1>0, <1>2, <2>4 DEF Expire, RestOK, printer, bounds
  <2> QED BY <2>3, <2>5 DEF IInv, TypeOK, TimersOK, RestOK
<1>3. CASE TimeOut(t)
  <2>1. TimersOK'
    BY <1>0, <1>3, FinishKeeps DEF TimeOut, Live
  <2>2. RestOK'
    BY <1>0, <1>3 DEF TimeOut, RestOK, row, printer, bounds
  <2> QED BY <2>1, <2>2 DEF IInv, TypeOK, TimersOK, RestOK
<1>4. CASE TurnOff(t)
  <2>1. CASE Finish(t) /\ UNCHANGED marks /\ (CutPower \/ UNCHANGED printer)
    <3>1. TimersOK'
      BY <1>0, <1>4, <2>1, FinishKeeps DEF TurnOff, Live
    <3>2. RestOK'
      BY <1>0, <1>4, <2>1 DEF TurnOff, CutPower, RestOK, printer, bounds
    <3> QED BY <3>1, <3>2 DEF IInv, TypeOK, TimersOK, RestOK
  <2>2. CASE /\ CutPower /\ pc' = [pc EXCEPT ![t] = "marking"]
             /\ marks' = marks \cup {Mark(t, "executed")}
             /\ UNCHANGED <<used, mode, cancelled, registered, called, stray>>
    <3>1. pc[t] = "switching" /\ t \in Tasks
      BY <1>4 DEF TurnOff
    <3>2. Fresh'
      BY <1>0, <2>2, <3>1 DEF TimersOK, Fresh
    <3>3. Owned' /\ Met'
      BY <1>0, <2>2, <3>1 DEF TimersOK, Owned, Met, Live
    <3>4. registered' # NoTask => Live(registered)' /\ ~cancelled'[registered']
      BY <1>0, <2>2, <3>1 DEF TimersOK, Live
    <3>5. TimersOK'
      BY <1>0, <2>2, <3>1, <3>2, <3>3, <3>4 DEF TimersOK
    <3>6. Mark(t, "executed") \in Marks
      BY MarkTyped DEF MarkKinds
    <3>7. RestOK'
      BY <1>0, <1>4, <2>2, <3>6 DEF TurnOff, CutPower, RestOK, bounds
    <3> QED BY <3>5, <3>7 DEF IInv, TypeOK, TimersOK, RestOK
  <2> QED BY <1>4, <2>1, <2>2 DEF TurnOff
<1>5. CASE Marked(t)
  <2>1. TimersOK'
    BY <1>0, <1>5, FinishKeeps DEF Marked, Live
  <2>2. RestOK'
    BY <1>0, <1>5 DEF Marked, RestOK, row, printer, bounds
  <2> QED BY <2>1, <2>2 DEF IInv, TypeOK, TimersOK, RestOK
<1>6. CASE Interrupted(t)
  <2>1. TimersOK'
    BY <1>0, <1>6, FinishKeeps DEF Interrupted, Live
  <2>2. RestOK'
    BY <1>0, <1>6 DEF Interrupted, CutPower, RestOK, printer, bounds
  <2> QED BY <2>1, <2>2 DEF IInv, TypeOK, TimersOK, RestOK
<1> QED BY <1>1, <1>2, <1>3, <1>4, <1>5, <1>6 DEF Timer

------------------------------------------------------------------------------
\* The steps that leave the timers alone.
Surroundings ==
    \/ \E m \in marks : Write(m)
    \/ Edit \/ TurnOn \/ Report \/ DryingEnds \/ PrintBegins \/ PrintEnds \/ SwitchByHand \/ Disconnect
    \/ Boot \/ ResumedOff \/ ResumedMarked

LEMMA SurroundingsKeep ==
    ASSUME IInv, Surroundings
    PROVE  IInv'
<1> USE PlugConstants
<1>0. TimersOK /\ RestOK
  BY Parts
<1>1. TimersOK'
  <2>1. UNCHANGED timer
    BY DEF Surroundings, Write, Edit, TurnOn, Report, DryingEnds, PrintBegins, PrintEnds, SwitchByHand,
           Disconnect, Boot, ResumedOff, ResumedMarked
  <2> QED BY <1>0, <2>1, TimersUnchanged
<1>2. RestOK'
  <2>1. ASSUME NEW m \in marks, Write(m) PROVE RestOK'
    BY <1>0, <2>1 DEF Write, RestOK, printer, bounds
  <2>2. CASE Edit
    BY <1>0, <2>2 DEF Edit, RestOK, row, printer
  <2>3. CASE TurnOn
    <3>1. notices' \in [Notices -> Nat]
      BY <1>0, <2>3 DEF TurnOn, RestOK, Notices
    <3> QED BY <1>0, <2>3, <3>1 DEF TurnOn, RestOK, row, bounds
  <2>4. CASE Report
    <3> PICK start \in {0, 1}, ended \in 0..2 :
          notices' = [notices EXCEPT !["start"] = @ + start, !["ended"] = @ + ended]
      BY <2>4 DEF Report
    <3>1. notices' \in [Notices -> Nat]
      BY <1>0 DEF RestOK, Notices
    <3> QED BY <1>0, <2>4, <3>1 DEF Report, RestOK, row, printer, bounds
  <2>5. CASE DryingEnds
    BY <1>0, <2>5 DEF DryingEnds, RestOK, row, printer, Notices
  <2>6. CASE PrintBegins \/ PrintEnds
    <3>1. printing' \in BOOLEAN
      BY <1>0, <2>6 DEF PrintBegins, PrintEnds, RestOK
    <3>2. prints' \in 0..MaxPrints
      BY <1>0, <2>6 DEF PrintBegins, PrintEnds, RestOK, bounds
    <3> QED BY <1>0, <2>6, <3>1, <3>2 DEF PrintBegins, PrintEnds, RestOK, row, bounds
  <2>7. CASE SwitchByHand \/ Disconnect
    <3>1. printing' \in BOOLEAN /\ power' \in BOOLEAN
      BY <1>0, <2>7 DEF SwitchByHand, Disconnect, CutPower, RestOK, printer
    <3>2. changes' \in 0..MaxChanges
      BY <1>0, <2>7 DEF SwitchByHand, Disconnect, RestOK
    <3> QED BY <1>0, <2>7, <3>1, <3>2 DEF SwitchByHand, Disconnect, CutPower, RestOK, row, printer
  <2>8. CASE Boot \/ ResumedMarked
    BY <1>0, <2>8 DEF Boot, ResumedMarked, RestOK, row, printer, bounds
  <2>9. CASE ResumedOff
    <3>1. Mark(NoTask, "executed") \in Marks
      BY MarkTyped DEF MarkKinds
    <3> QED BY <1>0, <2>9, <3>1 DEF ResumedOff, CutPower, RestOK, printer, bounds
  <2> QED BY <2>1, <2>2, <2>3, <2>4, <2>5, <2>6, <2>7, <2>8, <2>9 DEF Surroundings
<1> QED BY <1>1, <1>2 DEF IInv, TypeOK, TimersOK, RestOK

\* The writes that a cancellation and a new timer start.
LEMMA MarksOfSchedule ==
    ASSUME TimersOK, RestOK, NEW m \in {"time", "temperature"}, Schedule(m)
    PROVE  marks' \subseteq Marks
<1>1. ClearOf(registered) \subseteq Marks
  BY MarkTyped DEF ClearOf, MarkKinds, TimersOK
<1>2. Mark(used + 1, "set") \in Marks
  BY MarkTyped DEF MarkKinds, Schedule
<1> QED BY <1>1, <1>2 DEF Schedule, RestOK

\* A print start cancels the registered timer; every other live one that is not
\* cancelled yet is stray, as the invariant says.
LEMMA PrintStartedKeeps ==
    ASSUME IInv, PrintStarted
    PROVE  IInv'
<1>0. TimersOK /\ RestOK
  BY Parts
<1>1. /\ registered' = NoTask /\ UNCHANGED <<used, pc, mode, stray>>
      /\ cancelled' = [u \in Tasks |-> cancelled[u] \/ u = registered]
      /\ called' = called \cup {t \in Tasks : Live(t)}
  BY DEF PrintStarted, Cancel, CalledOff
<1>2. Fresh'
  <2> SUFFICES ASSUME NEW u \in Tasks, u > used
               PROVE  pc[u] = "none" /\ ~cancelled'[u]
    BY <1>1 DEF Fresh
  <2>1. pc[u] = "none" /\ ~cancelled[u] /\ u # registered
    BY <1>0, PlugConstants DEF TimersOK, Fresh, Live, Tasks, NoTask
  <2> QED BY <1>1, <2>1
<1>3. Owned'
  BY <1>0, <1>1 DEF TimersOK, Owned, Live
<1>4. Met'
  BY <1>0, <1>1 DEF TimersOK, Owned, Met
<1>5. TimersOK'
  BY <1>0, <1>1, <1>2, <1>3, <1>4 DEF TimersOK
<1>6. ClearOf(CalledOff) \subseteq Marks
  BY <1>0, MarkTyped DEF ClearOf, CalledOff, MarkKinds, TimersOK
<1>7. notices' \in [Notices -> Nat]
  <2> PICK on \in {0, 1} : notices' = [notices EXCEPT !["start"] = @ - 1, !["on"] = @ + on]
    BY DEF PrintStarted
  <2> QED BY <1>0 DEF RestOK, Notices, PrintStarted
<1>8. RestOK'
  BY <1>0, <1>6, <1>7 DEF PrintStarted, RestOK, printer, bounds
<1> QED BY <1>5, <1>8 DEF IInv, TypeOK, TimersOK, RestOK

\* A request for an off does nothing or starts a timer.
LEMMA OffRequestedKeeps ==
    ASSUME IInv, NEW n \in {"ended", "drying"}, OffRequested(n)
    PROVE  IInv'
<1>0. TimersOK /\ RestOK
  BY Parts
<1>1. notices' \in [Notices -> Nat]
  BY <1>0 DEF OffRequested, RestOK, Notices
<1>2. CASE UNCHANGED <<timer, marks, wanted>>
  <2>1. TimersOK'
    BY <1>0, <1>2, TimersUnchanged
  <2>2. RestOK'
    BY <1>0, <1>1, <1>2 DEF OffRequested, RestOK, printer, bounds
  <2> QED BY <2>1, <2>2 DEF IInv, TypeOK, TimersOK, RestOK
<1>3. ASSUME NEW m \in {"time", "temperature"}, Schedule(m) PROVE IInv'
  <2>1. TimersOK' /\ marks' \subseteq Marks /\ wanted' = TRUE
    BY <1>0, <1>3, ScheduleKeeps, MarksOfSchedule DEF Schedule
  <2>2. RestOK'
    BY <1>0, <1>1, <2>1 DEF OffRequested, RestOK, printer, bounds
  <2> QED BY <2>1, <2>2 DEF IInv, TypeOK, TimersOK, RestOK
<1> QED BY <1>2, <1>3 DEF OffRequested

\* So does the resumption after a restart.
LEMMA ResumeKeeps ==
    ASSUME IInv, Resume
    PROVE  IInv'
<1>0. TimersOK /\ RestOK
  BY Parts
<1>1. CASE UNCHANGED timer
  <2>1. TimersOK'
    BY <1>0, <1>1, TimersUnchanged
  <2>2. CASE Schedule("temperature")
    BY <1>0, <1>1, <2>2, PlugConstants DEF Schedule, timer, TimersOK
  <2>3. CASE ~Schedule("temperature")
    BY <1>0, <2>1, <2>3 DEF Resume, IInv, TypeOK, TimersOK, RestOK, row, printer, bounds
  <2> QED BY <2>2, <2>3
<1>2. CASE Schedule("temperature") /\ resume' = "idle" /\ UNCHANGED pending
  <2>1. TimersOK' /\ marks' \subseteq Marks /\ wanted' = TRUE
    BY <1>0, <1>2, ScheduleKeeps, MarksOfSchedule DEF Schedule
  <2>2. RestOK'
    BY <1>0, <1>2, <2>1 DEF Resume, RestOK, printer, bounds
  <2> QED BY <2>1, <2>2 DEF IInv, TypeOK, TimersOK, RestOK
<1> QED BY <1>1, <1>2 DEF Resume

\* A crash ends every timer.
LEMMA CrashKeeps ==
    ASSUME IInv, Crash
    PROVE  IInv'
<1>0. TimersOK /\ RestOK
  BY Parts
<1>1. TimersOK'
  BY <1>0 DEF Crash, TimersOK, Fresh, Owned, Met, Live
<1>2. RestOK'
  <2>1. wanted' \in BOOLEAN
    BY <1>0 DEF Crash, RestOK
  <2>2. changes' \in 0..MaxChanges /\ notices' \in [Notices -> Nat]
    BY <1>0, PlugConstants DEF Crash, RestOK
  <2> QED BY <1>0, <2>1, <2>2 DEF Crash, RestOK, printer
<1> QED BY <1>1, <1>2 DEF IInv, TypeOK, TimersOK, RestOK

------------------------------------------------------------------------------
\* Initially no timer runs.
LEMMA InitInv == Init => IInv
<1> SUFFICES ASSUME Init PROVE IInv
  OBVIOUS
<1>1. TimersOK
  BY PlugConstants DEF Init, TimersOK, Fresh, Owned, Met, Live, Tasks, NoTask
<1>2. RestOK
  <2>1. notices \in [Notices -> Nat]
    BY DEF Init
  <2>2. prints \in 0..MaxPrints /\ dryings \in 0..MaxDryings /\ changes \in 0..MaxChanges
    BY PlugConstants DEF Init
  <2> QED BY <2>1, <2>2 DEF Init, RestOK
<1> QED BY <1>1, <1>2, Parts

\* Every step keeps the invariant.
LEMMA NextInv == IInv /\ [Next]_vars => IInv'
<1> SUFFICES ASSUME IInv, [Next]_vars PROVE IInv'
  OBVIOUS
<1>1. CASE UNCHANGED vars
  BY <1>1 DEF IInv, TypeOK, Fresh, Owned, Met, Live, vars, timer, row, printer, bounds
<1>2. ASSUME NEW t \in Tasks, Timer(t) PROVE IInv'
  BY <1>2, TimerKeeps
<1>3. CASE Surroundings
  BY <1>3, SurroundingsKeep
<1>4. CASE PrintStarted
  BY <1>4, PrintStartedKeeps
<1>5. ASSUME NEW n \in {"ended", "drying"}, OffRequested(n) PROVE IInv'
  BY <1>5, OffRequestedKeeps
<1>6. CASE Resume
  BY <1>6, ResumeKeeps
<1>7. CASE Crash
  BY <1>7, CrashKeeps
<1> QED BY <1>1, <1>2, <1>3, <1>4, <1>5, <1>6, <1>7 DEF Next, Surroundings

\* The invariant holds throughout, for any number of timers, prints, drying cycles
\* and changes.
THEOREM Invariance == Spec => []IInv
BY InitInv, NextInv, PTL DEF Spec

\* Type correctness of the model of smart_plug_manager.py's automatic off.
THEOREM PlugType == Spec => []TypeOK
<1>1. IInv => TypeOK
  BY DEF IInv
<1> QED BY <1>1, Invariance, PTL

\* A print start calls off every timer it meets, except those that another timer's
\* finally has taken from _pending_off: none of the others decides to switch off.
THEOREM CallsOff == Spec => StartCallsOff
<1>1. IInv /\ [Next]_vars =>
        [\A t \in called : pc[t] = "waiting" /\ pc'[t] = "switching" => t \in stray]_vars
  <2> SUFFICES ASSUME IInv, Next, NEW t \in called, pc[t] = "waiting", pc'[t] = "switching"
               PROVE  t \in stray
    BY DEF vars
  <2>1. /\ t \in Tasks /\ (cancelled[t] \/ t \in stray)
        /\ pc \in [Tasks -> {"none", "new", "waiting", "skipping", "switching", "marking", "done"}]
    BY DEF IInv, TypeOK, Met
  <2>2. ASSUME NEW u \in Tasks, Timer(u) PROVE t \in stray
    BY <2>1, <2>2 DEF Timer, Begin, Expire, TimeOut, TurnOff, Marked, Interrupted, Finish
  <2>3. CASE Surroundings
    BY <2>1, <2>3 DEF Surroundings, Write, Edit, TurnOn, Report, DryingEnds, PrintBegins, PrintEnds,
                      SwitchByHand, Disconnect, Boot, ResumedOff, ResumedMarked, timer
  <2>4. ASSUME NEW m \in {"time", "temperature"}, Schedule(m) PROVE FALSE
    BY <2>1, <2>4 DEF Schedule
  <2>5. CASE PrintStarted \/ Crash
    BY <2>1, <2>5 DEF PrintStarted, Crash, Live
  <2>6. CASE Resume \/ \E n \in {"ended", "drying"} : OffRequested(n)
    BY <2>1, <2>4, <2>6 DEF Resume, OffRequested, timer
  <2> QED BY <2>2, <2>3, <2>5, <2>6 DEF Next, Surroundings
<1> QED BY <1>1, Invariance, PTL DEF Spec, StartCallsOff
=============================================================================
