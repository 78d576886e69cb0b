------------------------ MODULE QueueDispatchProofs ------------------------
(***************************************************************************)
(* Safety of the queue dispatch for every number of jobs, printers, upload *)
(* slots and every bound. The inductive invariant Inv says who may hold a  *)
(* printer: it ties the claims, the reservations of the in-flight workers, *)
(* the active rows and the snapshot of the pass in progress together.      *)
(***************************************************************************)
EXTENDS QueueDispatch, TLAPS, FiniteSetTheorems

\* A worker has a printer; from its claim on, its row is pinned to it.
WorkerInv == \A j \in Jobs :
    /\ pc[j] # "none" => reserved[j] \in Printers
    /\ pc[j] = "none" => reserved[j] = NoPrinter
    /\ pc[j] \in {"uploading", "command"} => claimed[j] /\ target[j] = reserved[j]
    /\ pc[j] = "command" => sid[j] # NoSid /\ status[j] \notin {"pending", "skipped"}

\* Workers, active rows, and the two together, are one to a printer.
ApartInv == \A j, k \in Jobs : j # k =>
    /\ pc[j] # "none" => reserved[k] # reserved[j]
    /\ status[j] \in Active => target[k] # target[j] \/ status[k] \notin Active
    /\ status[j] \in Active => reserved[k] # target[j]

\* What a pass took for free stays free until its launch.
PassInv ==
    /\ pass = "idle" => todo = {} /\ \A j \in Jobs : picks[j] = NoPrinter
    /\ pass = "scan" => \A j \in Jobs : /\ status[j] \in Active => target[j] \in taken
                                        /\ pc[j] # "none" => reserved[j] \in taken
    /\ \A j \in todo : pc[j] = "none" /\ status[j] \notin Active /\ pub[j] = NoSid
    /\ \A j \in Jobs : picks[j] # NoPrinter =>
            /\ picks[j] \in taken
            /\ \A k \in Jobs : /\ k # j => picks[k] # picks[j]
                               /\ reserved[k] # picks[j]
                               /\ status[k] \in Active => target[k] # picks[j]

\* A job whose command went out never waits again.
SentInv == \A j \in Jobs :
    /\ pub[j] # NoSid => /\ status[j] \notin {"pending", "skipped"}
                         /\ pc[j] \notin {"uploading", "command"}
                         /\ target[j] \in Printers
    /\ watch[j] # "none" => pub[j] # NoSid

\* Active rows name a printer.
RowInv == \A j \in Jobs : status[j] \in Active => target[j] \in Printers

Inv == TypeOK /\ WorkerInv /\ ApartInv /\ PassInv /\ SentInv /\ RowInv

\* What the assumptions on the constants give.
LEMMA SidFacts == NoPrinter \notin Printers /\ MaxSid \in Nat /\ NoSid \in Sids /\ MaxEvents \in Nat /\ UploadLimit \in Nat
BY ConstantsOK DEF NoSid, Sids

USE DEF NoSid, StopCmd, Active, Finished, Status, MachineState, Busy, Terminal, Sids, Targets

(***************************************************************************)
(* Type correctness                                                        *)
(***************************************************************************)
\* The pool's free slots.
LEMMA FreeType == ASSUME TypeOK PROVE Free \in 0..UploadLimit
<1>1. IsFiniteSet(Inflight)
  BY ConstantsOK, FS_Subset DEF Inflight
<1>2. Cardinality(Inflight) \in Nat
  BY <1>1, FS_CardinalityType
<1> QED
  BY <1>2, SidFacts DEF Free

\* The initial values are in their domains.
LEMMA InitType == Init => TypeOK
BY ConstantsOK, SidFacts DEF Init, TypeOK, RowType, WorkerType, PassType, EventType, ViewType, MachineType, BoundType

\* No step leaves the domains: each action of Next on its own.
LEMMA TypeStep ==
  ASSUME Inv, Next
  PROVE  TypeOK'
<1> USE SidFacts DEF Inv, TypeOK, RowType, WorkerType, PassType, EventType, ViewType, MachineType, BoundType
<1>1. ASSUME NEW j \in Jobs, PassHold(j) PROVE TypeOK'
  BY <1>1 DEF PassHold, PassRest, rowVars, workerVars, passVars, eventVars, viewVars, machineVars, boundVars
<1>2. ASSUME NEW j \in Jobs, PassAssignHold(j) PROVE TypeOK'
  BY <1>2 DEF PassAssignHold, PassRest, rowVars, workerVars, passVars, eventVars, viewVars, machineVars, boundVars
<1>3. ASSUME NEW j \in Jobs, PassSkip(j) PROVE TypeOK'
  BY <1>3 DEF PassSkip, PassRest, rowVars, workerVars, passVars, eventVars, viewVars, machineVars, boundVars
<1>4. ASSUME NEW j \in Jobs, PassBlock(j) PROVE TypeOK'
  BY <1>4 DEF PassBlock, PassRest, rowVars, workerVars, passVars, eventVars, viewVars, machineVars, boundVars
<1>5. ASSUME NEW j \in Jobs, PassPick(j) PROVE TypeOK'
  BY <1>5 DEF PassPick, PassRest, rowVars, workerVars, passVars, eventVars, viewVars, machineVars, boundVars
<1>6. ASSUME NEW j \in Jobs, PassAborts(j) PROVE TypeOK'
  BY <1>6 DEF PassAborts, PassOver, rowVars, workerVars, passVars, eventVars, viewVars, machineVars, boundVars
<1>7. ASSUME NEW j \in Jobs, Claim(j) PROVE TypeOK'
  BY <1>7 DEF Claim, WorkerRest, rowVars, workerVars, passVars, eventVars, viewVars, machineVars, boundVars
<1>8. ASSUME NEW j \in Jobs, UploadFails(j) PROVE TypeOK'
  BY <1>8 DEF UploadFails, WorkerRest, Overwrite, rowVars, workerVars, passVars, eventVars, viewVars, machineVars, boundVars
<1>9. ASSUME NEW j \in Jobs, UploadDeferred(j) PROVE TypeOK'
  BY <1>9 DEF UploadDeferred, WorkerRest, rowVars, workerVars, passVars, eventVars, viewVars, machineVars, boundVars
<1>10. ASSUME NEW j \in Jobs, Reserve(j) PROVE TypeOK'
  BY <1>10 DEF Reserve, WorkerRest, rowVars, workerVars, passVars, eventVars, viewVars, machineVars, boundVars
<1>10a. ASSUME NEW j \in Jobs, ReserveLost(j) PROVE TypeOK'
  BY <1>10a DEF ReserveLost, WorkerRest, rowVars, workerVars, passVars, eventVars, viewVars, machineVars, boundVars
<1>11. ASSUME NEW j \in Jobs, Publish(j) PROVE TypeOK'
  <2>1. \A q \in Printers : Append(inbox[q], sid[j]) \in Seq(Sids)
    OBVIOUS
  <2>2. inbox' \in [Printers -> Seq(Sids)]
    BY <1>11, <2>1 DEF Publish
  <2> QED
    BY <1>11, <2>2 DEF Publish, Command, WorkerRest, rowVars, workerVars, passVars, eventVars, viewVars, machineVars, boundVars
<1>12a. ASSUME NEW j \in Jobs, RefusalFails(j) PROVE TypeOK'
  BY <1>12a DEF RefusalFails, WorkerRest, Overwrite, rowVars, workerVars, passVars, eventVars, viewVars, machineVars, boundVars
<1>12. ASSUME NEW j \in Jobs, CommandRefused(j) PROVE TypeOK'
  BY <1>12 DEF CommandRefused, Command, WorkerRest, rowVars, workerVars, passVars, eventVars, viewVars, machineVars, boundVars
<1>13. ASSUME NEW j \in Jobs, ReleaseReservation(j) PROVE TypeOK'
  BY <1>13 DEF ReleaseReservation, Command, WorkerRest, Overwrite, rowVars, workerVars, passVars, eventVars, viewVars, machineVars, boundVars
<1>14. ASSUME NEW j \in Jobs, ClearClaim(j) PROVE TypeOK'
  BY <1>14 DEF ClearClaim, WorkerRest, rowVars, workerVars, passVars, eventVars, viewVars, machineVars, boundVars
<1>15. ASSUME NEW j \in Jobs, CancelInflight(j) PROVE TypeOK'
  BY <1>15 DEF CancelInflight, WorkerRest, rowVars, workerVars, passVars, eventVars, viewVars, machineVars, boundVars
<1>16. ASSUME NEW j \in Jobs, WatchLands(j) PROVE TypeOK'
  BY <1>16 DEF WatchLands, WatchRest, rowVars, workerVars, passVars, eventVars, viewVars, machineVars, boundVars
<1>17. ASSUME NEW j \in Jobs, WatchPromotes(j) PROVE TypeOK'
  BY <1>17 DEF WatchPromotes, WatchRest, rowVars, workerVars, passVars, eventVars, viewVars, machineVars, boundVars
<1>18. ASSUME NEW j \in Jobs, WatchHolds(j) PROVE TypeOK'
  BY <1>18 DEF WatchHolds, WatchRest, rowVars, workerVars, passVars, eventVars, viewVars, machineVars, boundVars
<1>19. ASSUME NEW j \in Jobs, Cancel(j) PROVE TypeOK'
  BY <1>19 DEF Cancel, RouteRest, rowVars, workerVars, passVars, eventVars, viewVars, machineVars, boundVars
<1>20. ASSUME NEW j \in Jobs, Delete(j) PROVE TypeOK'
  BY <1>20 DEF Delete, RouteRest, rowVars, workerVars, passVars, eventVars, viewVars, machineVars, boundVars
<1>21. ASSUME NEW j \in Jobs, Edit(j) PROVE TypeOK'
  BY <1>21 DEF Edit, RouteRest, rowVars, workerVars, passVars, eventVars, viewVars, machineVars, boundVars
<1>22. ASSUME NEW j \in Jobs, Start(j) PROVE TypeOK'
  BY <1>22 DEF Start, RouteRest, rowVars, workerVars, passVars, eventVars, viewVars, machineVars, boundVars
<1>23. ASSUME NEW j \in Jobs, Stop(j) PROVE TypeOK'
  <2>1. \A q \in Printers : Append(inbox[q], NoSid) \in Seq(Sids)
    OBVIOUS
  <2>2. inbox' \in [Printers -> Seq(Sids)]
    BY <1>23, <2>1 DEF Stop
  <2> QED
    BY <1>23, <2>2 DEF Stop, RouteRest, RowInv, rowVars, workerVars, passVars, eventVars, viewVars, machineVars, boundVars
<1>24. ASSUME NEW p \in Printers, Resume(p) PROVE TypeOK'
  BY <1>24 DEF Resume, RouteRest, rowVars, workerVars, passVars, eventVars, viewVars, machineVars, boundVars
<1>25. ASSUME NEW p \in Printers, ClearPlate(p) PROVE TypeOK'
  BY <1>25 DEF ClearPlate, rowVars, workerVars, passVars, eventVars, viewVars, machineVars, boundVars
<1>25a. ASSUME NEW p \in Printers, PushSubtask(p) PROVE TypeOK'
  BY <1>25a DEF PushSubtask, ClientRest, rowVars, workerVars, passVars, eventVars, viewVars, machineVars, boundVars
<1>26. ASSUME NEW p \in Printers, Push(p) PROVE TypeOK'
  <2>1. NewEvent(p, "completed", msid[p]) \in Event /\ NewEvent(p, "failed", msid[p]) \in Event
        /\ NewEvent(p, "aborted", msid[p]) \in Event
    BY DEF NewEvent, Event
  <2>2. EndSeen(p) \subseteq Event
    BY <2>1 DEF EndSeen
  <2> QED
    BY <1>26, <2>2 DEF Push, ClientRest, rowVars, workerVars, passVars, eventVars, viewVars, machineVars, boundVars
<1>27. ASSUME NEW p \in Printers, Disconnect(p) PROVE TypeOK'
  <2>1. <<>> \in Seq(Sids)
    OBVIOUS
  <2>2. inbox' \in [Printers -> Seq(Sids)]
    BY <1>27, <2>1 DEF Disconnect
  <2>3. UNCHANGED <<machineVars, pub, nextSid, requests, foreign, restarts>> /\ drops' = drops + 1
    BY <1>27 DEF Disconnect, ClientRest
  <2>4. MachineType' /\ BoundType'
    BY <2>2, <2>3 DEF machineVars
  <2>5. RowType' /\ WorkerType' /\ PassType' /\ EventType' /\ ViewType'
    BY <1>27 DEF Disconnect, ClientRest, rowVars, workerVars, passVars, eventVars
  <2> QED
    BY <2>4, <2>5
<1>28. ASSUME NEW p \in Printers, Reconnect(p) PROVE TypeOK'
  BY <1>28 DEF Reconnect, ClientRest, rowVars, workerVars, passVars, eventVars, viewVars, machineVars, boundVars
<1>29. ASSUME NEW p \in Printers, Reconcile(p) PROVE TypeOK'
  <2>1. \A j \in Jobs : NewEvent(p, "aborted", sid[j]) \in Event
    BY DEF NewEvent, Event
  <2>2. events' \subseteq Event
    BY <1>29, <2>1 DEF Reconcile, PrintingOn
  <2> QED
    BY <1>29, <2>2 DEF Reconcile, ClientRest, rowVars, workerVars, passVars, eventVars, viewVars, machineVars, boundVars
<1>30. ASSUME NEW p \in Printers, MachineStarts(p) PROVE TypeOK'
  <2>1. inbox[p] \in Seq(Sids) /\ inbox[p] # <<>>
    BY <1>30 DEF MachineStarts
  <2>2. Head(inbox[p]) \in Sids /\ Tail(inbox[p]) \in Seq(Sids)
    BY <2>1
  <2>3. inbox' \in [Printers -> Seq(Sids)] /\ msid' \in [Printers -> Sids]
    BY <1>30, <2>2 DEF MachineStarts
  <2> QED
    BY <1>30, <2>3 DEF MachineStarts, MachineRest, rowVars, workerVars, passVars, eventVars, viewVars, machineVars, boundVars
<1>31. ASSUME NEW p \in Printers, MachineStops(p) PROVE TypeOK'
  BY <1>31 DEF MachineStops, MachineRest, Remains, rowVars, workerVars, passVars, eventVars, viewVars, machineVars, boundVars
<1>32. ASSUME NEW p \in Printers, MachineRuns(p) PROVE TypeOK'
  BY <1>32 DEF MachineRuns, MachineRest, rowVars, workerVars, passVars, eventVars, viewVars, machineVars, boundVars
<1>33. ASSUME NEW p \in Printers, MachineEnds(p) PROVE TypeOK'
  BY <1>33 DEF MachineEnds, MachineRest, Remains, rowVars, workerVars, passVars, eventVars, viewVars, machineVars, boundVars
<1>34. ASSUME NEW p \in Printers, ForeignPrint(p) PROVE TypeOK'
  BY <1>34 DEF ForeignPrint, MachineRest, rowVars, workerVars, passVars, eventVars, viewVars, machineVars, boundVars
<1>35. ASSUME NEW e \in events, CompletionEnters(e) PROVE TypeOK'
  <2>1. e \in Event
    OBVIOUS
  <2>2. [e EXCEPT !.stage = "notify"] \in Event
    BY <2>1 DEF Event
  <2>3. events' \subseteq Event /\ gate' \subseteq Printers
    BY <1>35, <2>2 DEF CompletionEnters
  <2> QED
    BY <1>35, <2>3 DEF CompletionEnters, CallbackRest, rowVars, workerVars, passVars, eventVars, viewVars, machineVars, boundVars
<1>36. ASSUME NEW e \in events, CompletionGates(e) PROVE TypeOK'
  <2>1. e \in Event /\ FinalStatus(e) \in {"completed", "failed", "aborted", "cancelled"}
    BY DEF FinalStatus, Event
  <2>2. [e EXCEPT !.stage = "cleanup", !.status = FinalStatus(e)] \in Event
    BY <2>1 DEF Event
  <2>3. events' \subseteq Event /\ gate' \subseteq Printers
    BY <1>36, <2>1, <2>2 DEF CompletionGates, Event
  <2> QED
    BY <1>36, <2>3 DEF CompletionGates, CallbackRest, rowVars, workerVars, passVars, eventVars, viewVars, machineVars, boundVars
<1>37. ASSUME NEW e \in events, CompletionBooks(e) PROVE TypeOK'
  <2>1. e.status \in {"completed", "failed", "aborted", "cancelled"}
    BY DEF Event
  <2>2. PICK named \in {{}, Expected} :
          status' = [j \in Jobs |-> IF j \in Booked(e, named)
                                   THEN IF e.status = "aborted" THEN "cancelled" ELSE e.status
                                   ELSE status[j]]
    BY <1>37 DEF CompletionBooks
  <2>3. RowType' /\ EventType'
    BY <1>37, <2>1, <2>2 DEF CompletionBooks, CallbackRest
  <2> QED
    BY <1>37, <2>3 DEF CompletionBooks, CallbackRest, rowVars, workerVars, passVars, eventVars, viewVars, machineVars, boundVars
<1>38. ASSUME PassStart PROVE TypeOK'
  <2>1. PICK stale \in SUBSET Orphans : Recover(stale)
    BY <1>38 DEF PassStart
  <2>2. \A j \in Jobs : Recovered(j) \in Status
    BY DEF Recovered, Ended, Alive, Orphans, OrphanTelemetry, Telemetry
  <2>3. \A j \in Ended : [printer |-> target[j], sid |-> sid[j], stage |-> "entry",
                         status |-> OrphanTelemetry(j), recovered |-> TRUE] \in Event
    BY DEF RowInv, Ended, Orphans, Event
  <2>4. RowType' /\ EventType'
    BY <1>38, <2>1, <2>2, <2>3 DEF Recover, PassStart
  <2>5. slots' \in 0..UploadLimit
    BY <1>38, FreeType DEF PassStart
  <2>6. PassType'
    BY <1>38, <2>5 DEF PassStart
  <2>7. WorkerType' /\ ViewType' /\ BoundType'
    BY <1>38 DEF PassStart, rowVars, workerVars, passVars, eventVars, viewVars, boundVars
  <2>8. MachineType'
    BY <1>38, <2>1 DEF PassStart, Recover
  <2> QED
    BY <2>4, <2>6, <2>7, <2>8
<1>39. ASSUME PassLaunch PROVE TypeOK'
  BY <1>39 DEF PassLaunch, PassOver, Picked, rowVars, workerVars, passVars, eventVars, viewVars, machineVars, boundVars
<1>40. ASSUME Restart PROVE TypeOK'
  <2>1. <<>> \in Seq(Sids)
    OBVIOUS
  <2>2. inbox' \in [Printers -> Seq(Sids)]
    <3>1. CASE inbox' = inbox
      BY <3>1
    <3>2. CASE inbox' = [p \in Printers |-> <<>>]
      BY <2>1, <3>2
    <3> QED
      BY <1>40, <3>1, <3>2 DEF Restart
  <2>3. RowType' /\ WorkerType' /\ PassType' /\ EventType' /\ ViewType'
    BY <1>40 DEF Restart, PassOver
  <2>4. UNCHANGED <<machineVars, pub, nextSid, requests, foreign, drops>> /\ restarts' = restarts + 1
    BY <1>40 DEF Restart
  <2>5. MachineType' /\ BoundType'
    BY <2>2, <2>4 DEF machineVars
  <2> QED
    BY <2>3, <2>5
<1> QED
  BY <1>1, <1>2, <1>3, <1>4, <1>5, <1>6, <1>7, <1>8, <1>9, <1>10, <1>10a, <1>11, <1>12, <1>12a, <1>13, <1>14,
     <1>15, <1>16, <1>17, <1>18, <1>19, <1>20, <1>21, <1>22, <1>23, <1>24, <1>25, <1>25a, <1>26, <1>27,
     <1>28, <1>29, <1>30, <1>31, <1>32, <1>33, <1>34, <1>35, <1>36, <1>37, <1>38, <1>39, <1>40
     DEF Next, SchedulerStep, WorkerStep, WatchStep, RouteStep, CallbackStep, ClientStep, MachineStep

(***************************************************************************)
(* The holders of a printer                                                *)
(***************************************************************************)
Holding == WorkerInv /\ ApartInv /\ PassInv /\ SentInv /\ RowInv

\* Initially nobody holds a printer.
LEMMA InitHolding == Init => Holding
BY ConstantsOK DEF Init, Holding, WorkerInv, ApartInv, PassInv, SentInv, RowInv

\* A step that gives nobody a printer: no row becomes active, no worker
\* starts, the snapshot only shrinks, and no sent row goes back to waiting.
Calm ==
    /\ UNCHANGED <<target, claimed, reserved, pass, picks, pub>>
    /\ todo' \subseteq todo /\ taken \subseteq taken'
    /\ \A j \in Jobs :
        /\ pc'[j] = pc[j] \/ (pc[j] # "none" /\ pc'[j] \in {"refused", "unwind"})
        /\ pc'[j] = "command" => sid'[j] = sid[j]
        /\ watch'[j] # "none" => watch[j] # "none"
        /\ status'[j] \in Active => status[j] \in Active
        /\ status'[j] \in {"pending", "skipped"} =>
                status[j] \in {"pending", "skipped"} \/ (pub[j] = NoSid /\ pc'[j] # "command")

\* A step that gives nobody a printer keeps the invariant, whatever else it does.
LEMMA CalmStep == ASSUME Inv, Calm PROVE Holding'
<1> USE DEF Inv, Calm
<1>1. WorkerInv'
  BY DEF WorkerInv
<1>2. ApartInv'
  BY DEF ApartInv
<1>3. PassInv'
  <2>1. todo \subseteq Jobs
    BY DEF TypeOK, PassType
  <2>2. \A j \in todo' : pc'[j] = "none" /\ status'[j] \notin Active /\ pub'[j] = NoSid
    BY <2>1 DEF PassInv
  <2>3. pass' = "idle" => todo' = {} /\ \A j \in Jobs : picks'[j] = NoPrinter
    BY DEF PassInv
  <2>4. pass' = "scan" => \A j \in Jobs : /\ status'[j] \in Active => target'[j] \in taken'
                                          /\ pc'[j] # "none" => reserved'[j] \in taken'
    BY DEF PassInv
  <2>5. \A j \in Jobs : picks'[j] # NoPrinter =>
            /\ picks'[j] \in taken'
            /\ \A k \in Jobs : /\ k # j => picks'[k] # picks'[j]
                               /\ reserved'[k] # picks'[j]
                               /\ status'[k] \in Active => target'[k] # picks'[j]
    BY DEF PassInv
  <2> QED
    BY <2>2, <2>3, <2>4, <2>5 DEF PassInv
<1>4. SentInv'
  BY DEF SentInv
<1>5. RowInv'
  BY DEF RowInv
<1> QED
  BY <1>1, <1>2, <1>3, <1>4, <1>5 DEF Holding

\* The steps that are calm.
CalmAction ==
    \/ \E j \in Jobs : \/ PassHold(j) \/ PassSkip(j) \/ UploadFails(j) \/ UploadDeferred(j) \/ ReserveLost(j)
                       \/ CommandRefused(j) \/ RefusalFails(j) \/ ReleaseReservation(j)
                       \/ WatchStep(j)
                       \/ Cancel(j) \/ Delete(j) \/ Start(j) \/ Stop(j)
    \/ \E p \in Printers : Resume(p) \/ ClearPlate(p) \/ ClientStep(p) \/ MachineStep(p)
    \/ \E e \in events : CallbackStep(e)

\* Most actions are such steps.
LEMMA CalmActions == ASSUME Inv, CalmAction PROVE Calm
<1> USE DEF Inv, Calm, TypeOK, RowType, WorkerType, PassType
<1>1. ASSUME NEW j \in Jobs, PassHold(j) PROVE Calm
  BY <1>1 DEF PassHold, PassRest, workerVars
<1>2. ASSUME NEW j \in Jobs, PassSkip(j) PROVE Calm
  <2>1. pub[j] = NoSid /\ pc[j] = "none"
    BY <1>2 DEF PassSkip, Eligible, PassInv
  <2> QED
    BY <1>2, <2>1 DEF PassSkip, PassRest, workerVars
<1>3. ASSUME NEW j \in Jobs, UploadFails(j) PROVE Calm
  BY <1>3 DEF UploadFails, WorkerRest, passVars, Overwrite
<1>4. ASSUME NEW j \in Jobs, UploadDeferred(j) PROVE Calm
  BY <1>4 DEF UploadDeferred, WorkerRest, passVars
<1>5. ASSUME NEW j \in Jobs, ReserveLost(j) PROVE Calm
  BY <1>5 DEF ReserveLost, WorkerRest, passVars
<1>6. ASSUME NEW j \in Jobs, CommandRefused(j) PROVE Calm
  BY <1>6 DEF CommandRefused, Command, WorkerRest, passVars
<1>6a. ASSUME NEW j \in Jobs, RefusalFails(j) PROVE Calm
  BY <1>6a DEF RefusalFails, WorkerRest, passVars, Overwrite
<1>7. ASSUME NEW j \in Jobs, ReleaseReservation(j) PROVE Calm
  <2>1. pub[j] = NoSid
    BY <1>7 DEF ReleaseReservation, Command, SentInv
  <2> QED
    BY <1>7, <2>1 DEF ReleaseReservation, Command, WorkerRest, passVars, Overwrite
<1>9. ASSUME NEW j \in Jobs, WatchLands(j) PROVE Calm
  BY <1>9 DEF WatchLands, WatchRest, workerVars, passVars
<1>10. ASSUME NEW j \in Jobs, WatchPromotes(j) PROVE Calm
  BY <1>10 DEF WatchPromotes, WatchRest, workerVars, passVars
<1>11. ASSUME NEW j \in Jobs, WatchHolds(j) PROVE Calm
  BY <1>11 DEF WatchHolds, WatchRest, workerVars, passVars
<1>12. ASSUME NEW j \in Jobs, Cancel(j) PROVE Calm
  BY <1>12 DEF Cancel, RouteRest, passVars
<1>13. ASSUME NEW j \in Jobs, Delete(j) PROVE Calm
  BY <1>13 DEF Delete, RouteRest, passVars
<1>14. ASSUME NEW j \in Jobs, Start(j) PROVE Calm
  BY <1>14 DEF Start, RouteRest, passVars
<1>15. ASSUME NEW j \in Jobs, Stop(j) PROVE Calm
  BY <1>15 DEF Stop, RouteRest, passVars
<1>16. ASSUME NEW p \in Printers, Resume(p) PROVE Calm
  BY <1>16 DEF Resume, RouteRest, passVars
<1>17. ASSUME NEW p \in Printers, ClearPlate(p) PROVE Calm
  BY <1>17 DEF ClearPlate, rowVars, workerVars, passVars
<1>18. ASSUME NEW e \in events, CompletionEnters(e) PROVE Calm
  BY <1>18 DEF CompletionEnters, CallbackRest, workerVars, passVars
<1>19. ASSUME NEW e \in events, CompletionGates(e) PROVE Calm
  BY <1>19 DEF CompletionGates, CallbackRest, workerVars, passVars
<1>20. ASSUME NEW e \in events, CompletionBooks(e) PROVE Calm
  <2>1. e.status \in {"completed", "failed", "aborted", "cancelled"}
    BY DEF EventType, Event
  <2>2. \A j \in Jobs : status'[j] \in {status[j], "cancelled", "completed", "failed"}
    BY <1>20, <2>1 DEF CompletionBooks
  <2> QED
    BY <1>20, <2>2 DEF CompletionBooks, CallbackRest, workerVars, passVars
<1>21. ASSUME NEW p \in Printers, Push(p) PROVE Calm
  BY <1>21 DEF Push, ClientRest, rowVars, workerVars, passVars
<1>21a. ASSUME NEW p \in Printers, PushSubtask(p) PROVE Calm
  BY <1>21a DEF PushSubtask, ClientRest, rowVars, workerVars, passVars
<1>22. ASSUME NEW p \in Printers, Disconnect(p) PROVE Calm
  BY <1>22 DEF Disconnect, ClientRest, rowVars, workerVars, passVars
<1>23. ASSUME NEW p \in Printers, Reconnect(p) PROVE Calm
  BY <1>23 DEF Reconnect, ClientRest, rowVars, workerVars, passVars
<1>24. ASSUME NEW p \in Printers, Reconcile(p) PROVE Calm
  BY <1>24 DEF Reconcile, ClientRest, rowVars, workerVars, passVars
<1>25. ASSUME NEW p \in Printers, MachineStarts(p) PROVE Calm
  BY <1>25 DEF MachineStarts, MachineRest, rowVars, workerVars, passVars
<1>26. ASSUME NEW p \in Printers, MachineStops(p) PROVE Calm
  BY <1>26 DEF MachineStops, MachineRest, rowVars, workerVars, passVars
<1>27. ASSUME NEW p \in Printers, MachineRuns(p) PROVE Calm
  BY <1>27 DEF MachineRuns, MachineRest, rowVars, workerVars, passVars
<1>28. ASSUME NEW p \in Printers, MachineEnds(p) PROVE Calm
  BY <1>28 DEF MachineEnds, MachineRest, rowVars, workerVars, passVars
<1>29. ASSUME NEW p \in Printers, ForeignPrint(p) PROVE Calm
  BY <1>29 DEF ForeignPrint, MachineRest, rowVars, workerVars, passVars
<1> QED
  BY <1>1, <1>2, <1>3, <1>4, <1>5, <1>6, <1>6a, <1>7, <1>9, <1>10, <1>11, <1>12, <1>13, <1>14, <1>15, <1>16,
     <1>17, <1>18, <1>19, <1>20, <1>21, <1>21a, <1>22, <1>23, <1>24, <1>25, <1>26,
     <1>27, <1>28, <1>29
     DEF CalmAction, WatchStep, CallbackStep, ClientStep, MachineStep

\* The pass names a printer for an Any Machine row and holds the row.
LEMMA PassAssignHoldHolding == ASSUME Inv, NEW j \in Jobs, PassAssignHold(j) PROVE Holding'
<1> USE DEF Inv
<1>1. PICK p \in Printers : Eligible(j, p) /\ target' = [target EXCEPT ![j] = IF seen[j] = NoPrinter THEN p ELSE @]
                          /\ taken' \in {taken, taken \cup {p}} /\ picks' = picks
  BY DEF PassAssignHold
<1>2. /\ pass = "scan" /\ j \in todo /\ p \notin taken /\ todo' = todo \ {j}
      /\ pc[j] = "none" /\ status[j] \notin Active /\ pub[j] = NoSid
  BY <1>1 DEF PassAssignHold, Eligible, PassInv
<1>3. UNCHANGED <<status, claimed, sid, pc, reserved, pass, pub, watch>>
  BY DEF PassAssignHold, PassRest, workerVars
<1>4. \A k \in Jobs : k # j => target'[k] = target[k]
  BY <1>1 DEF TypeOK, RowType
<1> HIDE DEF Inv
<1> USE <1>1, <1>2, <1>3, <1>4 DEF Inv
<1>5. WorkerInv'
  BY DEF WorkerInv
<1>6. ApartInv'
  BY DEF ApartInv
<1>7. PassInv'
  BY SidFacts DEF PassInv, TypeOK, PassType
<1>8. SentInv'
  BY DEF SentInv
<1>9. RowInv'
  BY DEF RowInv
<1> QED
  BY <1>5, <1>6, <1>7, <1>8, <1>9 DEF Holding

\* The pass puts a row up for an explicit start, perhaps with a printer.
LEMMA PassBlockHolding == ASSUME Inv, NEW j \in Jobs, PassBlock(j) PROVE Holding'
<1> USE DEF Inv
<1>1. PICK p \in Printers : Eligible(j, p) /\ target' = [target EXCEPT ![j] = IF seen[j] = NoPrinter THEN p ELSE @]
                          /\ taken' = taken /\ picks' = picks
  BY DEF PassBlock
<1>2. /\ pass = "scan" /\ j \in todo /\ p \notin taken /\ todo' = todo \ {j}
      /\ pc[j] = "none" /\ status[j] \notin Active /\ pub[j] = NoSid
  BY <1>1 DEF PassBlock, Eligible, PassInv
<1>3. UNCHANGED <<status, claimed, sid, pc, reserved, pass, pub, watch>>
  BY DEF PassBlock, PassRest, workerVars
<1>4. \A k \in Jobs : k # j => target'[k] = target[k]
  BY <1>1 DEF TypeOK, RowType
<1> HIDE DEF Inv
<1> USE <1>1, <1>2, <1>3, <1>4 DEF Inv
<1>5. WorkerInv'
  BY DEF WorkerInv
<1>6. ApartInv'
  BY DEF ApartInv
<1>7. PassInv'
  BY SidFacts DEF PassInv, TypeOK, PassType
<1>8. SentInv'
  BY DEF SentInv
<1>9. RowInv'
  BY DEF RowInv
<1> QED
  BY <1>5, <1>6, <1>7, <1>8, <1>9 DEF Holding

\* The picked printer was not taken, so no worker, active row or other pick has it.
LEMMA PassPickHolding == ASSUME Inv, NEW j \in Jobs, PassPick(j) PROVE Holding'
<1> USE DEF Inv
<1>1. PICK p \in Printers : Eligible(j, p) /\ target' = [target EXCEPT ![j] = IF seen[j] = NoPrinter THEN p ELSE @]
                          /\ taken' = taken \cup {p} /\ picks' = [picks EXCEPT ![j] = p]
  BY DEF PassPick
<1>2. /\ pass = "scan" /\ j \in todo /\ p \notin taken /\ todo' = todo \ {j}
      /\ pc[j] = "none" /\ status[j] \notin Active /\ pub[j] = NoSid
  BY <1>1 DEF PassPick, Eligible, PassInv
<1>3. UNCHANGED <<status, claimed, sid, pc, reserved, pass, pub, watch>>
  BY DEF PassPick, PassRest, workerVars
<1>4. \A k \in Jobs : k # j => target'[k] = target[k]
  BY <1>1 DEF TypeOK, RowType
<1> HIDE DEF Inv
<1> USE <1>1, <1>2, <1>3, <1>4 DEF Inv
<1>5. WorkerInv'
  BY DEF WorkerInv
<1>6. ApartInv'
  BY DEF ApartInv
<1>7. PassInv'
  <2>1. \A k \in Jobs : /\ picks[k] # p /\ reserved[k] # p
                        /\ status[k] \in Active => target[k] # p
    BY SidFacts DEF PassInv, WorkerInv
  <2>2. picks' \in [Jobs -> Targets] /\ picks'[j] = p /\ \A k \in Jobs : k # j => picks'[k] = picks[k]
    BY DEF TypeOK, PassType
  <2>3. /\ picks'[j] \in taken'
        /\ \A l \in Jobs : /\ l # j => picks'[l] # picks'[j]
                           /\ reserved'[l] # picks'[j]
                           /\ status'[l] \in Active => target'[l] # picks'[j]
    BY <2>1, <2>2
  <2>4. \A m \in Jobs \ {j} : picks'[m] # NoPrinter =>
            /\ picks'[m] \in taken'
            /\ \A l \in Jobs : /\ l # m => picks'[l] # picks'[m]
                               /\ reserved'[l] # picks'[m]
                               /\ status'[l] \in Active => target'[l] # picks'[m]
    BY <2>1, <2>2 DEF PassInv
  <2>5. \A k \in Jobs : /\ status'[k] \in Active => target'[k] \in taken'
                        /\ pc'[k] # "none" => reserved'[k] \in taken'
    BY DEF PassInv
  <2>6. \A k \in todo' : pc'[k] = "none" /\ status'[k] \notin Active /\ pub'[k] = NoSid
    BY DEF PassInv
  <2> QED
    BY <2>3, <2>4, <2>5, <2>6 DEF PassInv
<1>8. SentInv'
  BY DEF SentInv
<1>9. RowInv'
  BY DEF RowInv
<1> QED
  BY <1>5, <1>6, <1>7, <1>8, <1>9 DEF Holding

\* An aborted pass leaves no pick behind.
LEMMA PassAbortsHolding == ASSUME Inv, NEW j \in Jobs, PassAborts(j) PROVE Holding'
<1> USE DEF Inv, PassAborts, PassOver, rowVars, workerVars
<1>1. WorkerInv'
  BY DEF WorkerInv, TypeOK, RowType, WorkerType, PassType, BoundType
<1>2. ApartInv'
  BY DEF ApartInv, WorkerInv, TypeOK, RowType, WorkerType, PassType, BoundType
<1>3. PassInv'
  BY DEF PassInv, TypeOK, RowType, WorkerType, PassType, BoundType
<1>4. SentInv'
  BY DEF SentInv, TypeOK, RowType, WorkerType, PassType, BoundType
<1>5. RowInv'
  BY DEF RowInv, TypeOK, RowType, WorkerType, PassType, BoundType
<1> QED
  BY <1>1, <1>2, <1>3, <1>4, <1>5 DEF Holding

\* The claim's condition pins the row to the worker's printer.
LEMMA ClaimHolding == ASSUME Inv, NEW j \in Jobs, Claim(j) PROVE Holding'
<1> USE DEF Inv, Claim, Claimable, WorkerRest, passVars
<1>1. WorkerInv'
  BY DEF WorkerInv, TypeOK, RowType, WorkerType, PassType, BoundType
<1>2. ApartInv'
  BY SidFacts DEF ApartInv, WorkerInv, RowInv, TypeOK, RowType, WorkerType, PassType, BoundType
<1>3. PassInv'
  BY SidFacts DEF PassInv, TypeOK, RowType, WorkerType, PassType, BoundType
<1>4. SentInv'
  BY DEF SentInv, TypeOK, RowType, WorkerType, PassType, BoundType
<1>5. RowInv'
  BY DEF RowInv
<1> QED
  BY <1>1, <1>2, <1>3, <1>4, <1>5 DEF Holding

\* The row becomes active on the printer its worker holds; the unique index keeps
\* any other active row off it.
LEMMA ReserveHolding == ASSUME Inv, NEW j \in Jobs, Reserve(j) PROVE Holding'
<1> USE DEF Inv, Reserve, CanReserve, HoldsByRow, WorkerRest, passVars
<1>1. WorkerInv'
  BY SidFacts DEF WorkerInv, TypeOK, RowType, WorkerType, PassType, BoundType
<1>2. ApartInv'
  BY DEF ApartInv, WorkerInv, TypeOK, RowType, WorkerType, PassType, BoundType
<1>3. PassInv'
  BY DEF PassInv, WorkerInv, TypeOK, RowType, WorkerType, PassType, BoundType
<1>4. SentInv'
  BY DEF SentInv, TypeOK, RowType, WorkerType, PassType, BoundType
<1>5. RowInv'
  BY DEF RowInv, WorkerInv, TypeOK, RowType, WorkerType, PassType, BoundType
<1> QED
  BY <1>1, <1>2, <1>3, <1>4, <1>5 DEF Holding

\* The command leaves for a row that is no longer pending.
LEMMA PublishHolding == ASSUME Inv, NEW j \in Jobs, Publish(j) PROVE Holding'
<1> USE DEF Inv, Publish, Command, WorkerRest, passVars
<1>1. WorkerInv'
  BY DEF WorkerInv, TypeOK, RowType, WorkerType, PassType, BoundType
<1>2. ApartInv'
  BY DEF ApartInv, TypeOK, RowType, WorkerType, PassType, BoundType
<1>3. PassInv'
  BY DEF PassInv, WorkerInv, TypeOK, RowType, WorkerType, PassType, BoundType
<1>4. SentInv'
  BY DEF SentInv, WorkerInv, TypeOK, RowType, WorkerType, PassType, BoundType
<1>5. RowInv'
  BY DEF RowInv
<1> QED
  BY <1>1, <1>2, <1>3, <1>4, <1>5 DEF Holding

\* A worker that ends gives its printer up, with its claim or without.
WorkerEnds(j) ==
    /\ pc' = [pc EXCEPT ![j] = "none"] /\ reserved' = [reserved EXCEPT ![j] = NoPrinter]
    /\ \A k \in Jobs \ {j} : claimed'[k] = claimed[k]
    /\ UNCHANGED <<status, target, sid, watch, pub, passVars>>

\* That frees a printer and takes none.
LEMMA WorkerEndsHolding == ASSUME Inv, NEW j \in Jobs, WorkerEnds(j) PROVE Holding'
<1> USE DEF Inv, WorkerEnds, passVars
<1>1. WorkerInv'
  BY DEF WorkerInv, TypeOK, RowType, WorkerType, PassType, BoundType
<1>2. ApartInv'
  BY SidFacts DEF ApartInv, WorkerInv, RowInv, TypeOK, RowType, WorkerType, PassType, BoundType
<1>3. PassInv'
  BY SidFacts DEF PassInv, TypeOK, RowType, WorkerType, PassType, BoundType
<1>4. SentInv'
  BY DEF SentInv, TypeOK, RowType, WorkerType, PassType, BoundType
<1>5. RowInv'
  BY DEF RowInv
<1> QED
  BY <1>1, <1>2, <1>3, <1>4, <1>5 DEF Holding

\* A worker ends in its finally, or where a cancellation finds it; one that is
\* cancelled within its try goes to the finally, which is calm.
LEMMA WorkerEnding ==
  ASSUME Inv, NEW j \in Jobs, ClearClaim(j) \/ CancelInflight(j) PROVE Calm \/ WorkerEnds(j)
<1> USE DEF Inv, TypeOK, RowType, WorkerType
<1>1. CASE ClearClaim(j)
  BY <1>1 DEF ClearClaim, WorkerRest, WorkerEnds
<1>2. CASE CancelInflight(j)
  <2>1. CASE reserved' = reserved
    BY <1>2, <2>1 DEF CancelInflight, WorkerRest, WorkerEnds, Calm, passVars
  <2>2. CASE reserved' # reserved
    BY <1>2, <2>2 DEF CancelInflight, WorkerRest, WorkerEnds
  <2> QED
    BY <2>1, <2>2
<1> QED
  BY <1>1, <1>2

\* PATCH retargets only rows no worker has claimed, and no active row.
LEMMA EditHolding == ASSUME Inv, NEW j \in Jobs, Edit(j) PROVE Holding'
<1> USE DEF Inv, Edit, RouteRest, passVars
<1>1. WorkerInv'
  BY DEF WorkerInv, TypeOK, RowType, WorkerType, PassType, BoundType
<1>2. ApartInv'
  BY DEF ApartInv, WorkerInv, TypeOK, RowType, WorkerType, PassType, BoundType
<1>3. PassInv'
  BY DEF PassInv, TypeOK, RowType, WorkerType, PassType, BoundType
<1>4. SentInv'
  BY DEF SentInv, TypeOK, RowType, WorkerType, PassType, BoundType
<1>5. RowInv'
  BY DEF RowInv, TypeOK, RowType, WorkerType, PassType, BoundType
<1> QED
  BY <1>1, <1>2, <1>3, <1>4, <1>5 DEF Holding

\* Recovery makes rows active only when they already were; the snapshot takes
\* every held printer.
LEMMA PassStartHolding == ASSUME Inv, PassStart PROVE Holding'
<1> USE DEF Inv
<1>1. \A j \in Jobs : \/ status'[j] = status[j]
                      \/ status[j] = "dispatching" /\ status'[j] \in {"completed", "failed", "printing"}
  BY DEF PassStart, Recover, Recovered, Ended, Alive, Orphans, OrphanTelemetry, Telemetry
<1>2. UNCHANGED <<target, claimed, sid, pc, reserved, picks, pub, watch>> /\ pass = "idle"
  BY DEF PassStart, workerVars
<1>3. \/ UNCHANGED <<pass, todo, taken>>
      \/ /\ pass' = "scan"
         /\ todo' \subseteq {j \in Jobs : status[j] = "pending" /\ pc[j] = "none"}
         /\ taken' = {p \in Printers : \E j \in Jobs : (status'[j] \in Active /\ target[j] = p)
                                                         \/ HoldsByWorker(j, p)}
  BY DEF PassStart, Inflight, TakesPrinter
<1>4. WorkerInv'
  BY <1>1, <1>2 DEF WorkerInv
<1>5. ApartInv'
  BY <1>1, <1>2 DEF ApartInv
<1>6. PassInv'
  <2>1. CASE UNCHANGED <<pass, todo, taken>>
    BY <1>1, <1>2, <2>1 DEF PassInv
  <2>2. CASE pass' = "scan" /\ pass' # pass
    <3>1. \A j \in todo' : pc'[j] = "none" /\ status'[j] \notin Active /\ pub'[j] = NoSid
      BY <1>1, <1>2, <1>3, <2>2 DEF SentInv
    <3>2. \A j \in Jobs : /\ status'[j] \in Active => target'[j] \in taken'
                          /\ pc'[j] # "none" => reserved'[j] \in taken'
      BY <1>1, <1>2, <1>3, <2>2 DEF RowInv, WorkerInv, HoldsByWorker
    <3> QED
      BY <1>2, <2>2, <3>1, <3>2 DEF PassInv
  <2> QED
    BY <1>2, <1>3, <2>1, <2>2
<1>7. SentInv'
  BY <1>1, <1>2 DEF SentInv
<1>8. RowInv'
  BY <1>1, <1>2 DEF RowInv
<1> QED
  BY <1>4, <1>5, <1>6, <1>7, <1>8 DEF Holding

\* Only picks whose printer no worker holds become workers.
LEMMA PassLaunchHolding == ASSUME Inv, PassLaunch PROVE Holding'
<1> USE DEF Inv
<1>1. PICK launch \in SUBSET Jobs :
         /\ \A j \in launch : picks[j] # NoPrinter /\ pc[j] = "none"
         /\ pc' = [j \in Jobs |-> IF j \in launch THEN "launched" ELSE pc[j]]
         /\ reserved' = [j \in Jobs |-> IF j \in launch THEN picks[j] ELSE reserved[j]]
  BY DEF PassLaunch, Picked
<1>2. PassOver /\ UNCHANGED <<status, target, claimed, sid, pub, watch>>
  BY DEF PassLaunch, rowVars
<1>3. WorkerInv'
  BY <1>1, <1>2 DEF WorkerInv, PassInv, TypeOK, PassType
<1>4. ApartInv'
  <2>1. \A j \in Jobs : reserved'[j] = (IF j \in launch THEN picks[j] ELSE reserved[j])
    BY <1>1
  <2>2. \A j, k \in Jobs : j # k /\ pc'[j] # "none" => reserved'[k] # reserved'[j]
    BY <1>1, <2>1, SidFacts DEF ApartInv, PassInv, WorkerInv, TypeOK, PassType
  <2>3. \A j, k \in Jobs : j # k /\ status[j] \in Active => reserved'[k] # target[j]
    BY <1>1, <2>1 DEF ApartInv, PassInv
  <2> QED
    BY <1>2, <2>2, <2>3 DEF ApartInv
<1>5. PassInv'
  BY <1>2 DEF PassOver, PassInv
<1>6. SentInv'
  BY <1>1, <1>2 DEF SentInv
<1>7. RowInv'
  BY <1>2 DEF RowInv
<1> QED
  BY <1>3, <1>4, <1>5, <1>6, <1>7 DEF Holding

\* A restart drops every worker and every claim.
LEMMA RestartHolding == ASSUME Inv, Restart PROVE Holding'
<1> USE DEF Inv, Restart, PassOver
<1>1. WorkerInv'
  BY DEF WorkerInv
<1>2. ApartInv'
  BY SidFacts DEF ApartInv, RowInv, TypeOK, RowType, WorkerType, PassType, BoundType
<1>3. PassInv'
  BY SidFacts DEF PassInv, TypeOK, RowType, WorkerType, PassType, BoundType
<1>4. SentInv'
  BY DEF SentInv
<1>5. RowInv'
  BY DEF RowInv
<1> QED
  BY <1>1, <1>2, <1>3, <1>4, <1>5 DEF Holding

\* Every step keeps the holding invariant.
LEMMA HoldingStep == ASSUME Inv, Next PROVE Holding'
<1>1. CASE CalmAction
  BY <1>1, CalmActions, CalmStep
<1>2. CASE PassStart \/ PassLaunch \/ Restart
  BY <1>2, PassStartHolding, PassLaunchHolding, RestartHolding
<1>3. ASSUME NEW j \in Jobs,
             \/ PassAssignHold(j) \/ PassBlock(j) \/ PassPick(j) \/ PassAborts(j) \/ Claim(j)
             \/ Reserve(j) \/ Publish(j) \/ ClearClaim(j) \/ CancelInflight(j) \/ Edit(j)
      PROVE  Holding'
  BY <1>3, PassAssignHoldHolding, PassBlockHolding, PassPickHolding, PassAbortsHolding,
     ClaimHolding, ReserveHolding, PublishHolding, WorkerEnding, CalmStep, WorkerEndsHolding, EditHolding
<1> QED
  BY <1>1, <1>2, <1>3
     DEF Next, CalmAction, SchedulerStep, WorkerStep, RouteStep

\* What was published stays published.
LEMMA PublishedStays == ASSUME Inv, Next PROVE \A j \in Jobs : pub[j] # NoSid => pub'[j] # NoSid
<1>1. CASE CalmAction
  BY <1>1, CalmActions DEF Calm
<1>2. CASE PassStart \/ PassLaunch \/ Restart
  BY <1>2 DEF PassStart, PassLaunch, Restart
<1>3. ASSUME NEW j \in Jobs, Publish(j) PROVE \A k \in Jobs : pub[k] # NoSid => pub'[k] # NoSid
  BY <1>3 DEF Publish, Command, Inv, WorkerInv, TypeOK, BoundType
<1>4. ASSUME NEW j \in Jobs, \/ PassAssignHold(j) \/ PassBlock(j) \/ PassPick(j) \/ PassAborts(j)
                             \/ Claim(j) \/ Reserve(j) \/ ClearClaim(j) \/ CancelInflight(j) \/ Edit(j)
      PROVE  UNCHANGED pub
  BY <1>4 DEF PassAssignHold, PassBlock, PassPick, PassAborts, PassRest, Claim, Reserve, ClearClaim, CancelInflight,
     Edit, RouteRest
<1> QED
  BY <1>1, <1>2, <1>3, <1>4
     DEF Next, CalmAction, SchedulerStep, WorkerStep, RouteStep

(***************************************************************************)
(* Theorems                                                                *)
(***************************************************************************)
\* The invariant that ties claims, workers, active rows and the pass together.
THEOREM Invariance == Spec => []Inv
<1>1. Init => Inv
  BY InitType, InitHolding DEF Inv, Holding
<1>2. Inv /\ [Next]_vars => Inv'
  <2>1. ASSUME Inv, Next PROVE Inv'
    BY <2>1, TypeStep, HoldingStep DEF Inv, Holding
  <2>2. ASSUME Inv, UNCHANGED vars PROVE Inv'
    <3>1. TypeOK'
      BY <2>2 DEF Inv, vars, rowVars, workerVars, passVars, eventVars, viewVars, machineVars, boundVars,
         TypeOK, RowType, WorkerType, PassType, EventType, ViewType, MachineType, BoundType
    <3>2. Calm
      BY <2>2 DEF Calm, vars, rowVars, workerVars, passVars, boundVars
    <3> QED
      BY <2>2, <3>1, <3>2, CalmStep DEF Inv, Holding
  <2> QED
    BY <2>1, <2>2
<1> QED
  BY <1>1, <1>2, PTL DEF Spec

\* Every variable keeps its domain.
THEOREM TypeCorrect == Spec => []TypeOK
BY Invariance, PTL DEF Inv

\* Two jobs never hold the same printer: neither two uploads, nor an upload and
\* an active row, nor two active rows; a worker not yet past its claim is
\* included, so its upload cannot begin on a printer somebody else holds.
THEOREM MutualExclusion == Spec => []OneJobPerPrinter
<1>1. Inv => OneJobPerPrinter
  BY DEF Inv, ApartInv, WorkerInv, OneJobPerPrinter, ClaimedHolds, Holds, HoldsByRow
<1> QED
  BY <1>1, Invariance, PTL

\* The printer a worker uploads to is the printer of its row.
THEOREM ClaimPins == Spec => []ClaimPinsPrinter
<1>1. Inv => ClaimPinsPrinter
  BY DEF Inv, WorkerInv, ClaimPinsPrinter
<1> QED
  BY <1>1, Invariance, PTL

\* A job whose command was published is never pending again.
THEOREM NoSecondCommand == Spec => NeverRequeued
<1>1. Inv /\ Inv' /\ [Next]_vars => [\A j \in Jobs : pub[j] # NoSid => status'[j] # "pending"]_vars
  BY PublishedStays DEF Inv, SentInv
<1> QED
  BY <1>1, Invariance, PTL DEF Spec, NeverRequeued

(***************************************************************************)
(* The dispatch implements PrinterLease                                    *)
(***************************************************************************)
\* Jobs only give printers back.
Returns == UNCHANGED pub /\ \A j \in Jobs : Leased'[j] \in {Leased[j], NoPrinter}

\* Such a step is one of the lease.
LEMMA ReturnsStep == ASSUME Returns PROVE Lease!Next
<1> DEFINE done == {j \in Jobs : Leased'[j] = NoPrinter}
<1>1. Leased' = [j \in Jobs |-> IF j \in done THEN NoPrinter ELSE Leased[j]]
  BY DEF Returns, Leased
<1>2. Lease!Return(done)
  BY <1>1 DEF Returns, Lease!Return
<1> QED
  BY <1>2 DEF Lease!Next

\* A calm step, a recovery, a launch, an edit or a restart takes no printer.
LEMMA CalmReturns == ASSUME Inv, Calm PROVE Returns
BY DEF Inv, Calm, Returns, Leased, WorkerInv

\* A recovery at worst ends a row's hold.
LEMMA PassStartReturns == ASSUME Inv, PassStart PROVE Returns
<1>1. \A j \in Jobs : \/ status'[j] = status[j]
                      \/ status[j] = "dispatching" /\ status'[j] \in {"completed", "failed", "printing"}
  BY DEF Inv, PassStart, Recover, Recovered, Ended, Alive, Orphans, OrphanTelemetry, Telemetry
<1>2. UNCHANGED <<target, pc, reserved, pub>>
  BY DEF PassStart, workerVars
<1> QED
  BY <1>1, <1>2 DEF Returns, Leased

\* A launch creates workers that have not claimed yet.
LEMMA PassLaunchReturns == ASSUME Inv, PassLaunch PROVE Returns
<1>1. PICK launch \in SUBSET Jobs :
         /\ \A j \in launch : picks[j] # NoPrinter /\ pc[j] = "none"
         /\ pc' = [j \in Jobs |-> IF j \in launch THEN "launched" ELSE pc[j]]
         /\ reserved' = [j \in Jobs |-> IF j \in launch THEN picks[j] ELSE reserved[j]]
  BY DEF PassLaunch, Picked
<1>2. UNCHANGED <<status, target, pub>>
  BY DEF PassLaunch, rowVars
<1> QED
  BY <1>1, <1>2 DEF Returns, Leased

\* A restart forgets the workers; the rows keep what they hold.
LEMMA RestartReturns == ASSUME Inv, Restart PROVE Returns
BY DEF Inv, Restart, Returns, Leased, WorkerInv

\* Of a row whose printer changes nobody holds one.
LEMMA RetargetReturns ==
  ASSUME Inv, NEW j \in Jobs,
         \/ PassAssignHold(j) \/ PassBlock(j) \/ PassPick(j) \/ PassAborts(j) \/ Edit(j)
  PROVE  Returns
<1>1. \A k \in Jobs : target'[k] = target[k] \/ (pc[k] \notin {"uploading", "command"} /\ status[k] \notin Active)
  BY DEF Inv, WorkerInv, PassInv, TypeOK, RowType, PassAssignHold, PassBlock, PassPick, PassAborts, Edit, Eligible, rowVars
<1>2. UNCHANGED <<status, pc, reserved, pub>>
  BY DEF PassAssignHold, PassBlock, PassPick, PassAborts, PassRest, Edit, RouteRest, rowVars, workerVars
<1> QED
  BY <1>1, <1>2 DEF Returns, Leased

\* A worker that ends gives back what its row does not hold.
LEMMA WorkerEndsReturns == ASSUME Inv, NEW j \in Jobs, WorkerEnds(j) PROVE Returns
BY DEF Inv, WorkerEnds, WorkerInv, TypeOK, WorkerType, Returns, Leased

\* The compare-and-set keeps the printer: from the worker's to the row's hold.
LEMMA ReserveReturns == ASSUME Inv, NEW j \in Jobs, Reserve(j) PROVE Returns
BY DEF Inv, Reserve, WorkerRest, TypeOK, RowType, WorkerType, Returns, Leased

\* A claim takes the printer, which nobody else holds.
LEMMA ClaimTakes == ASSUME Inv, NEW j \in Jobs, Claim(j) PROVE Lease!Next
<1>1. CASE ~Claimable(j)
  <2>1. Returns
    BY <1>1 DEF Inv, Claim, TypeOK, WorkerType, Returns, Leased
  <2> QED
    BY <2>1, ReturnsStep
<1>2. CASE Claimable(j)
  <2>1. reserved[j] \in Printers /\ target[j] = reserved[j] /\ pub[j] = NoSid /\ status[j] = "pending"
    BY <1>2 DEF Inv, Claim, Claimable, WorkerInv, SentInv
  <2>2. Leased[j] = NoPrinter /\ \A k \in Jobs : Leased[k] # reserved[j]
    BY <2>1, SidFacts DEF Inv, Claim, Leased, ApartInv
  <2>3. Leased' = [Leased EXCEPT ![j] = reserved[j]] /\ pub' = pub
    BY <1>2, <2>1 DEF Inv, Claim, TypeOK, WorkerType, Leased
  <2>4. Lease!Take(j, reserved[j])
    BY <2>1, <2>2, <2>3 DEF Lease!Take
  <2> QED
    BY <2>1, <2>4 DEF Lease!Next
<1> QED
  BY <1>1, <1>2

\* The command goes out under the lease, with an id no row was sent before.
LEMMA PublishSends == ASSUME Inv, NEW j \in Jobs, Publish(j) PROVE Lease!Next
<1>1. sid[j] \in Sids \ {NoSid} /\ pub[j] = NoSid /\ target[j] = reserved[j] /\ reserved[j] \in Printers
  BY DEF Inv, Publish, Command, WorkerInv, SentInv, TypeOK, RowType
<1>2. Leased[j] # NoPrinter
  BY <1>1, SidFacts DEF Publish, Command, Leased
<1>3. Leased' \in {Leased, [Leased EXCEPT ![j] = NoPrinter]}
  <2>1. UNCHANGED <<status, target, reserved>> /\ pc' = [pc EXCEPT ![j] = "unwind"] /\ pc[j] = "command"
    BY DEF Publish, Command
  <2>2. CASE status[j] \in Active
    BY <1>1, <2>1, <2>2 DEF Inv, TypeOK, WorkerType, Leased
  <2>3. CASE status[j] \notin Active
    BY <1>1, <2>1, <2>3 DEF Inv, TypeOK, WorkerType, Leased
  <2> QED
    BY <2>2, <2>3
<1>4. Lease!Send(j, sid[j])
  BY <1>1, <1>2, <1>3 DEF Publish, Lease!Send
<1> QED
  BY <1>1, <1>4 DEF Lease!Next

\* Every behaviour of the dispatch is one of the lease: its initial states are
\* the lease's, and a step is a Take, a Send, a Return or a stutter.
THEOREM Refinement == Spec => ImplementsLease
<1>1. Init => Lease!Init
  BY DEF Init, Lease!Init, Leased
<1>2. Inv /\ [Next]_vars => [Lease!Next]_Lease!vars
  <2>1. ASSUME Inv, CalmAction PROVE Lease!Next
    BY <2>1, CalmActions, CalmReturns, ReturnsStep
  <2>2. ASSUME Inv, PassStart \/ PassLaunch \/ Restart PROVE Lease!Next
    BY <2>2, PassStartReturns, PassLaunchReturns, RestartReturns, ReturnsStep
  <2>3. ASSUME Inv, NEW j \in Jobs,
               \/ PassAssignHold(j) \/ PassBlock(j) \/ PassPick(j) \/ PassAborts(j) \/ Edit(j)
        PROVE  Lease!Next
    BY <2>3, RetargetReturns, ReturnsStep
  <2>4. ASSUME Inv, NEW j \in Jobs, Claim(j) \/ Reserve(j) \/ Publish(j) \/ ClearClaim(j) \/ CancelInflight(j)
        PROVE  Lease!Next
    BY <2>4, ClaimTakes, ReserveReturns, PublishSends, WorkerEnding, CalmReturns, WorkerEndsReturns, ReturnsStep
  <2>5. ASSUME UNCHANGED vars PROVE UNCHANGED Lease!vars
    BY <2>5 DEF vars, rowVars, workerVars, boundVars, Lease!vars, Leased
  <2> QED
    BY <2>1, <2>2, <2>3, <2>4, <2>5
       DEF Next, CalmAction, SchedulerStep, WorkerStep, RouteStep
<1> QED
  BY <1>1, <1>2, Invariance, PTL DEF Spec, ImplementsLease, Lease!Spec

(***************************************************************************)
(* The upload pool                                                         *)
(***************************************************************************)
\* A launch takes no more slots than are free.
LEMMA PoolLaunch == ASSUME Inv, PoolBounded, PassLaunch PROVE PoolBounded'
<1>1. PICK launch \in SUBSET Jobs :
         /\ Cardinality(launch) <= Free
         /\ pc' = [j \in Jobs |-> IF j \in launch THEN "launched" ELSE pc[j]]
  BY DEF PassLaunch, Picked
<1>2. Inflight' = Inflight \cup launch
  BY <1>1 DEF Inflight
<1>3. IsFiniteSet(Inflight) /\ IsFiniteSet(launch)
  BY <1>1, ConstantsOK, FS_Subset DEF Inflight
<1>4. IsFiniteSet(Inflight \cap launch)
  BY <1>3, FS_Subset
<1>5. /\ Cardinality(Inflight) \in Nat /\ Cardinality(launch) \in Nat
      /\ Cardinality(Inflight \cap launch) \in Nat
  BY <1>3, <1>4, FS_CardinalityType
<1>6. Cardinality(Inflight') = Cardinality(Inflight) + Cardinality(launch) - Cardinality(Inflight \cap launch)
  BY <1>2, <1>3, FS_Union
<1>7. Cardinality(launch) <= UploadLimit - Cardinality(Inflight)
  BY <1>1, <1>5, SidFacts DEF PoolBounded, Free
<1> QED
  BY <1>5, <1>6, <1>7, SidFacts DEF PoolBounded

\* No other step starts a worker.
LEMMA NoOtherStart == ASSUME Inv, Next, ~PassLaunch PROVE Inflight' \subseteq Inflight
<1>1. CASE CalmAction
  BY <1>1, CalmActions DEF Calm, Inflight
<1>2. CASE PassStart
  BY <1>2 DEF PassStart, workerVars, Inflight
<1>3. CASE Restart
  BY <1>3 DEF Restart, Inflight
<1>4. ASSUME NEW j \in Jobs, Publish(j) \/ Claim(j) \/ Reserve(j) \/ ClearClaim(j) \/ CancelInflight(j)
      PROVE  Inflight' \subseteq Inflight
  BY <1>4 DEF Publish, Command, Claim, Reserve, ClearClaim, CancelInflight, Inflight, Inv, TypeOK, WorkerType
<1>5. ASSUME NEW j \in Jobs, \/ PassAssignHold(j) \/ PassBlock(j) \/ PassPick(j)
                             \/ PassAborts(j) \/ Edit(j)
      PROVE  Inflight' \subseteq Inflight
  BY <1>5 DEF PassAssignHold, PassBlock, PassPick, PassAborts, PassRest, Edit, RouteRest, workerVars, Inflight
<1> QED
  BY <1>1, <1>2, <1>3, <1>4, <1>5
     DEF Next, CalmAction, SchedulerStep, WorkerStep, RouteStep

\* The workers in flight never outnumber queue_max_concurrent_uploads, at the
\* launch and after it, for every limit in 1..16.
THEOREM PoolLimit == Spec => []PoolBounded
<1>1. ASSUME Init PROVE PoolBounded
  <2>1. Inflight = {}
    BY <1>1 DEF Init, Inflight
  <2> QED
    BY <2>1, FS_EmptySet, SidFacts DEF PoolBounded
<1>2. ASSUME Inv, PoolBounded, [Next]_vars PROVE PoolBounded'
  <2>1. CASE PassLaunch
    BY <1>2, <2>1, PoolLaunch
  <2>2. CASE Next /\ ~PassLaunch
    <3>1. IsFiniteSet(Inflight) /\ Inflight' \subseteq Inflight
      BY <1>2, <2>2, NoOtherStart, ConstantsOK, FS_Subset DEF Inflight
    <3>2. Cardinality(Inflight') <= Cardinality(Inflight) /\ IsFiniteSet(Inflight')
      BY <3>1, FS_Subset
    <3>3. Cardinality(Inflight') \in Nat /\ Cardinality(Inflight) \in Nat
      BY <3>1, <3>2, FS_CardinalityType
    <3> QED
      BY <1>2, <3>2, <3>3, SidFacts DEF PoolBounded
  <2>3. CASE UNCHANGED vars
    BY <1>2, <2>3 DEF vars, workerVars, PoolBounded, Inflight
  <2> QED
    BY <1>2, <2>1, <2>2, <2>3
<1> QED
  BY <1>1, <1>2, Invariance, PTL DEF Spec

(***************************************************************************)
(* The id of a command survives in its row                                 *)
(***************************************************************************)
\* The submissions a printer has or is about to read.
Heard(p) == {msid[p]} \cup {inbox[p][i] : i \in DOMAIN inbox[p]}

\* A sent row carries its id until it is deleted, a refused worker sent nothing,
\* and a printer hears of no submission that was not sent. With Inv inductive.
CarriedInv ==
    /\ \A j \in Jobs : /\ pub[j] # NoSid => sid[j] = pub[j] \/ status[j] = "deleted"
                       /\ pc[j] = "refused" => pub[j] = NoSid
    /\ \A p \in Printers : \A s \in Heard(p) : s # NoSid => \E j \in Jobs : pub[j] = s

\* A step that writes no id, refuses no command and revives no row.
Quiet ==
    /\ UNCHANGED <<sid, pub>>
    /\ \A j \in Jobs : /\ pc'[j] = "refused" => pc[j] = "refused"
                       /\ status[j] = "deleted" => status'[j] = "deleted"

\* Such a step keeps the ids if the printers hear of nothing new.
LEMMA QuietCarries ==
  ASSUME CarriedInv, Quiet, \A p \in Printers : Heard(p)' \subseteq Heard(p) \cup {NoSid}
  PROVE  CarriedInv'
BY DEF CarriedInv, Quiet

\* In particular, if neither their print nor their messages change.
LEMMA DeafCarries == ASSUME CarriedInv, Quiet, UNCHANGED <<msid, inbox>> PROVE CarriedInv'
<1>1. \A p \in Printers : Heard(p)' = Heard(p)
  BY DEF Heard
<1> QED
  BY <1>1, QuietCarries

\* What a message at the end adds to what a printer hears.
LEMMA AppendHeard ==
  ASSUME TypeOK, NEW q \in Printers, NEW s \in Sids, msid' = msid,
         inbox' = [inbox EXCEPT ![q] = Append(@, s)]
  PROVE  \A p \in Printers : Heard(p)' \subseteq Heard(p) \cup {s}
<1>1. ASSUME NEW p \in Printers, NEW i \in DOMAIN inbox'[p]
      PROVE  inbox'[p][i] \in Heard(p) \cup {s}
  <2>1. inbox \in [Printers -> Seq(Sids)]
    BY DEF TypeOK, MachineType
  <2>2. CASE p = q
    <3>1. inbox'[p] = Append(inbox[p], s) /\ inbox[p] \in Seq(Sids)
      BY <2>1, <2>2
    <3>2. CASE i = Len(inbox[p]) + 1
      BY <3>1, <3>2
    <3>3. CASE i # Len(inbox[p]) + 1
      <4>1. i \in DOMAIN inbox[p] /\ inbox'[p][i] = inbox[p][i]
        BY <1>1, <3>1, <3>3
      <4> QED
        BY <4>1 DEF Heard
    <3> QED
      BY <3>2, <3>3
  <2>3. CASE p # q
    <3>1. inbox'[p] = inbox[p]
      BY <2>1, <2>3
    <3> QED
      BY <1>1, <3>1 DEF Heard
  <2> QED
    BY <2>2, <2>3
<1> QED
  BY <1>1 DEF Heard

\* A message read off the front was heard of before.
LEMMA TailHeard ==
  ASSUME TypeOK, NEW q \in Printers, inbox[q] # <<>>,
         inbox' = [inbox EXCEPT ![q] = Tail(@)],
         \A p \in Printers : msid'[p] \in {msid[p]} \/ (p = q /\ msid'[p] = Head(inbox[p]))
  PROVE  \A p \in Printers : Heard(p)' \subseteq Heard(p) \cup {NoSid}
<1>1. inbox \in [Printers -> Seq(Sids)]
  BY DEF TypeOK, MachineType
<1>2. inbox[q] \in Seq(Sids) /\ 1 \in DOMAIN inbox[q] /\ Head(inbox[q]) = inbox[q][1]
  BY <1>1
<1>3. ASSUME NEW p \in Printers PROVE msid'[p] \in Heard(p)
  BY <1>2, <1>3 DEF Heard
<1>4. ASSUME NEW p \in Printers, NEW i \in DOMAIN inbox'[p] PROVE inbox'[p][i] \in Heard(p)
  <2>1. CASE p = q
    <3>1. inbox'[p] = Tail(inbox[p])
      BY <1>1, <2>1
    <3>2. inbox[p] \in Seq(Sids) /\ inbox[p] # <<>> /\ i \in DOMAIN Tail(inbox[p])
      BY <1>2, <1>4, <2>1, <3>1
    <3>3. i + 1 \in DOMAIN inbox[p] /\ Tail(inbox[p])[i] = inbox[p][i + 1]
      BY <3>2
    <3> QED
      BY <3>1, <3>3 DEF Heard
  <2>2. CASE p # q
    <3>1. inbox'[p] = inbox[p]
      BY <1>1, <2>2
    <3> QED
      BY <1>4, <3>1 DEF Heard
  <2> QED
    BY <2>1, <2>2
<1> QED
  BY <1>3, <1>4 DEF Heard

\* Messages lost with a connection or a restart are heard of no more.
LEMMA LostHeard ==
  ASSUME TypeOK, msid' = msid, \A p \in Printers : inbox'[p] \in {inbox[p], <<>>}
  PROVE  \A p \in Printers : Heard(p)' \subseteq Heard(p) \cup {NoSid}
BY DEF Heard

\* The steps of a pass, of the workers up to their command, of the confirmation,
\* the routes but stop, and the callbacks write no id.
LEMMA QuietSteps ==
  ASSUME Inv, CarriedInv,
         \/ PassStart \/ PassLaunch
         \/ \E j \in Jobs : \/ SchedulerStep(j) \/ WatchStep(j) \/ CancelInflight(j)
                            \/ Claim(j) \/ UploadFails(j) \/ UploadDeferred(j) \/ ReserveLost(j) \/ ClearClaim(j)
                            \/ Cancel(j) \/ Delete(j) \/ Edit(j) \/ Start(j)
         \/ \E p \in Printers : Resume(p) \/ ClearPlate(p)
         \/ \E e \in events : CallbackStep(e)
  PROVE  CarriedInv'
<1> USE DEF Quiet, Inv, TypeOK, RowType, WorkerType
<1>1. ASSUME NEW j \in Jobs, PassHold(j) \/ PassAssignHold(j) \/ PassSkip(j) \/ PassBlock(j) \/ PassPick(j) \/ PassAborts(j)
      PROVE  Quiet /\ UNCHANGED <<msid, inbox>>
  BY <1>1 DEF PassHold, PassAssignHold, PassSkip, PassBlock, PassPick, PassAborts, PassRest, rowVars, workerVars, machineVars
<1>2. ASSUME NEW j \in Jobs, WatchStep(j) PROVE Quiet /\ UNCHANGED <<msid, inbox>>
  BY <1>2 DEF WatchStep, WatchLands, WatchPromotes, WatchHolds, WatchRest, workerVars, machineVars
<1>3. ASSUME NEW j \in Jobs,
             Claim(j) \/ UploadFails(j) \/ UploadDeferred(j) \/ ReserveLost(j) \/ ClearClaim(j) \/ CancelInflight(j)
      PROVE  Quiet /\ UNCHANGED <<msid, inbox>>
  BY <1>3 DEF Claim, UploadFails, UploadDeferred, ReserveLost, ClearClaim, CancelInflight, Overwrite, WorkerRest, machineVars
<1>4. ASSUME NEW j \in Jobs, Cancel(j) \/ Delete(j) \/ Edit(j) \/ Start(j)
      PROVE  Quiet /\ UNCHANGED <<msid, inbox>>
  BY <1>4 DEF Cancel, Delete, Edit, Start, RouteRest
<1>5. ASSUME NEW p \in Printers, Resume(p) \/ ClearPlate(p) PROVE Quiet /\ UNCHANGED <<msid, inbox>>
  BY <1>5 DEF Resume, ClearPlate, RouteRest, rowVars, workerVars
<1>6. ASSUME NEW e \in events, CallbackStep(e) PROVE Quiet /\ UNCHANGED <<msid, inbox>>
  BY <1>6 DEF CallbackStep, CompletionEnters, CompletionGates, CompletionBooks, Booked, PrintingOn, Matching,
     CallbackRest, workerVars, machineVars
<1>7. ASSUME PassStart PROVE Quiet /\ UNCHANGED <<msid, inbox>>
  BY <1>7 DEF PassStart, Recover, Recovered, Ended, Alive, Orphans, workerVars, machineVars
<1>8. ASSUME PassLaunch PROVE Quiet /\ UNCHANGED <<msid, inbox>>
  BY <1>8 DEF PassLaunch, rowVars, machineVars
<1> QED
  BY <1>1, <1>2, <1>3, <1>4, <1>5, <1>6, <1>7, <1>8, DeafCarries DEF SchedulerStep

\* A stop, the client, the printers and a restart send no submission.
LEMMA OutsideSteps ==
  ASSUME Inv, CarriedInv,
         \/ Restart
         \/ \E j \in Jobs : Stop(j)
         \/ \E p \in Printers : ClientStep(p) \/ MachineStep(p)
  PROVE  CarriedInv'
<1> USE DEF Quiet
<1>1. ASSUME Restart PROVE CarriedInv'
  <2>1. Quiet /\ msid' = msid /\ \A p \in Printers : inbox'[p] \in {inbox[p], <<>>}
    BY <1>1 DEF Restart, machineVars
  <2> QED
    BY <2>1, LostHeard, QuietCarries DEF Inv
<1>2. ASSUME NEW j \in Jobs, Stop(j) PROVE CarriedInv'
  <2>1. Quiet /\ msid' = msid /\ target[j] \in Printers
    BY <1>2 DEF Stop, RouteRest, Inv, TypeOK, RowType, RowInv
  <2>2. inbox' \in {inbox, [inbox EXCEPT ![target[j]] = Append(@, NoSid)]}
    BY <1>2, <2>1 DEF Stop, Inv, TypeOK, MachineType
  <2>3. CASE inbox' = inbox
    BY <2>1, <2>3, DeafCarries
  <2>4. CASE inbox' = [inbox EXCEPT ![target[j]] = Append(@, NoSid)]
    BY <2>1, <2>4, SidFacts, AppendHeard, QuietCarries DEF Inv
  <2> QED
    BY <2>2, <2>3, <2>4
<1>3. ASSUME NEW p \in Printers, Push(p) \/ PushSubtask(p) \/ Reconnect(p) \/ Reconcile(p) \/ MachineRuns(p) \/ MachineEnds(p)
      PROVE  CarriedInv'
  <2>1. Quiet /\ UNCHANGED <<msid, inbox>>
    BY <1>3 DEF Push, PushSubtask, Reconnect, Reconcile, MachineRuns, MachineEnds, ClientRest, MachineRest,
       rowVars, workerVars, machineVars
  <2> QED
    BY <2>1, DeafCarries
<1>4. ASSUME NEW p \in Printers, Disconnect(p) PROVE CarriedInv'
  <2>1. Quiet /\ msid' = msid /\ \A q \in Printers : inbox'[q] \in {inbox[q], <<>>}
    BY <1>4 DEF Disconnect, ClientRest, rowVars, workerVars, machineVars, Inv, TypeOK, MachineType
  <2> QED
    BY <2>1, LostHeard, QuietCarries DEF Inv
<1>5. ASSUME NEW p \in Printers, MachineStarts(p) \/ MachineStops(p) PROVE CarriedInv'
  <2>1. Quiet /\ inbox[p] # <<>> /\ inbox' = [inbox EXCEPT ![p] = Tail(@)]
    BY <1>5 DEF MachineStarts, MachineStops, MachineRest, rowVars, workerVars
  <2>2. \A q \in Printers : msid'[q] \in {msid[q]} \/ (q = p /\ msid'[q] = Head(inbox[q]))
    BY <1>5 DEF MachineStarts, MachineStops, Inv, TypeOK, MachineType
  <2> QED
    BY <2>1, <2>2, TailHeard, QuietCarries DEF Inv
<1>6. ASSUME NEW p \in Printers, ForeignPrint(p) PROVE CarriedInv'
  <2>1. Quiet /\ inbox' = inbox /\ \A q \in Printers : msid'[q] \in {msid[q], NoSid}
    BY <1>6 DEF ForeignPrint, MachineRest, rowVars, workerVars, Inv, TypeOK, MachineType
  <2>2. \A q \in Printers : Heard(q)' \subseteq Heard(q) \cup {NoSid}
    BY <2>1 DEF Heard
  <2> QED
    BY <2>1, <2>2, QuietCarries
<1> QED
  BY <1>1, <1>2, <1>3, <1>4, <1>5, <1>6 DEF ClientStep, MachineStep

\* The worker writes its row's id before the command and takes it back only if
\* no command went out.
LEMMA CommandSteps ==
  ASSUME Inv, CarriedInv, NEW j \in Jobs,
         Reserve(j) \/ Publish(j) \/ CommandRefused(j) \/ RefusalFails(j) \/ ReleaseReservation(j)
  PROVE  CarriedInv'
<1> USE DEF Inv, TypeOK, RowType, WorkerType, BoundType
<1>1. CASE Publish(j)
  <2>1. pub[j] = NoSid /\ sid[j] # NoSid /\ reserved[j] \in Printers /\ sid[j] \in Sids
    BY <1>1 DEF Publish, Command, WorkerInv, SentInv
  <2>2. /\ UNCHANGED <<sid, status, msid>> /\ pub' = [pub EXCEPT ![j] = sid[j]]
        /\ pc' = [pc EXCEPT ![j] = "unwind"]
        /\ inbox' = [inbox EXCEPT ![reserved[j]] = Append(@, sid[j])]
    BY <1>1 DEF Publish, Command, WorkerRest, machineVars
  <2>3. \A p \in Printers : Heard(p)' \subseteq Heard(p) \cup {sid[j]}
    BY <2>1, <2>2, AppendHeard
  <2>4. \A k \in Jobs : /\ pub'[k] # NoSid => sid'[k] = pub'[k] \/ status'[k] = "deleted"
                        /\ pc'[k] = "refused" => pub'[k] = NoSid
    BY <2>1, <2>2 DEF CarriedInv
  <2>5. \A k \in Jobs : pub[k] # NoSid => pub'[k] = pub[k]
    BY <2>1, <2>2
  <2>6. pub'[j] = sid[j]
    BY <2>2
  <2>7. \A p \in Printers : \A s \in Heard(p)' : s # NoSid => \E k \in Jobs : pub'[k] = s
    BY <2>3, <2>5, <2>6 DEF CarriedInv
  <2> QED
    BY <2>4, <2>7 DEF CarriedInv
<1>2. CASE ~Publish(j)
  <2>1. pub[j] = NoSid /\ UNCHANGED <<pub, msid, inbox>>
    BY <1>2 DEF Reserve, CommandRefused, RefusalFails, ReleaseReservation, Command, WorkerRest, machineVars,
       SentInv, CarriedInv
  <2>2. \A k \in Jobs \ {j} : sid'[k] = sid[k] /\ status'[k] = status[k] /\ pc'[k] = pc[k]
    BY <1>2 DEF Reserve, CommandRefused, RefusalFails, ReleaseReservation, Command
  <2>3. \A p \in Printers : Heard(p)' = Heard(p)
    BY <2>1 DEF Heard
  <2> QED
    BY <2>1, <2>2, <2>3 DEF CarriedInv
<1> QED
  BY <1>1, <1>2

\* So the invariant holds throughout.
LEMMA CarriedAlways == Spec => []CarriedInv
<1>1. Init => CarriedInv
  BY DEF Init, CarriedInv, Heard
<1>2. Inv /\ CarriedInv /\ [Next]_vars => CarriedInv'
  <2>1. ASSUME Inv, CarriedInv, Next PROVE CarriedInv'
    BY <2>1, QuietSteps, OutsideSteps, CommandSteps DEF Next, WorkerStep, RouteStep
  <2>2. ASSUME CarriedInv, UNCHANGED vars PROVE CarriedInv'
    BY <2>2, DeafCarries DEF vars, rowVars, workerVars, machineVars, Quiet
  <2> QED
    BY <2>1, <2>2
<1> QED
  BY <1>1, <1>2, Invariance, PTL DEF Spec

\* No printer runs a queue submission, or is about to, that no row answers for:
\* after any restart, loss, cancel or edit the row that sent it still carries
\* its id, unless it was deleted.
THEOREM Attribution == Spec => []Attributable
<1>1. CarriedInv => Attributable
  BY DEF CarriedInv, Heard, Attributable
<1> QED
  BY <1>1, CarriedAlways, PTL
=============================================================================
