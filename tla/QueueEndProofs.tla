--------------------------- MODULE QueueEndProofs ---------------------------
(***************************************************************************)
(* What the end of a print does to the queue, for every number of jobs and *)
(* printers and every bound: what a completion booked on a dispatching row *)
(* must carry, and that no command goes out onto a finished print of the   *)
(* queue whose row was not released before its gate.                       *)
(***************************************************************************)
EXTENDS QueueDispatchProofs

USE DEF NoSid, StopCmd, Active, Finished, Status, MachineState, Busy, Terminal, Sids, Targets

(***************************************************************************)
(* Whose completion ends a dispatching row                                 *)
(***************************************************************************)
\* The recovery completes a row of its own submission.
LEMMA RecoveryOwn ==
  ASSUME TypeOK, PassStart, NEW j \in Jobs, status[j] = "dispatching", status'[j] = "completed"
  PROVE  vsid[target[j]] = sid[j]
<1>1. status'[j] = Recovered(j)
  BY DEF PassStart, Recover
<1>2. j \in Ended
  BY <1>1 DEF Recovered
<1>3. Telemetry(target[j], sid[j]) # "none"
  BY <1>2 DEF Ended, OrphanTelemetry
<1> QED
  BY <1>3 DEF Telemetry

\* A callback books a dispatching row under the id of its event, or under a file
\* name that this process expects.
LEMMA CallbackOwn ==
  ASSUME TypeOK, NEW e \in events, CompletionBooks(e), NEW j \in Jobs,
         status[j] = "dispatching", status'[j] = "completed"
  PROVE  e.printer = target[j] /\ (e.sid = sid[j] \/ (e.sid = NoSid /\ j \in Expected))
<1>1. PICK named \in {{}, Expected} : status'[j] # status[j] => j \in Booked(e, named)
  BY DEF CompletionBooks, TypeOK, RowType
<1>2. j \in Matching(e, named)
  BY <1>1 DEF Booked, PrintingOn
<1>3. j \in named => j \in Expected
  BY <1>1
<1> QED
  BY <1>2, <1>3 DEF Matching

\* Nothing else completes one.
LEMMA NobodyElseCompletes ==
  ASSUME TypeOK, NEW j \in Jobs, status[j] = "dispatching", Next, ~PassStart,
         \A e \in events : ~CompletionBooks(e)
  PROVE  status'[j] # "completed"
<1> USE DEF TypeOK, RowType
<1>1. ASSUME NEW k \in Jobs, SchedulerStep(k) PROVE status'[j] # "completed"
  BY <1>1 DEF SchedulerStep, PassHold, PassAssignHold, PassSkip, PassBlock, PassPick, PassAborts, PassRest, rowVars
<1>2. ASSUME NEW k \in Jobs, WorkerStep(k) \/ CancelInflight(k) PROVE status'[j] # "completed"
  BY <1>2 DEF WorkerStep, Claim, UploadFails, UploadDeferred, Reserve, ReserveLost, Publish, CommandRefused,
     RefusalFails, ReleaseReservation, ClearClaim, CancelInflight, Overwrite
<1>3. ASSUME NEW k \in Jobs, WatchStep(k) PROVE status'[j] # "completed"
  BY <1>3 DEF WatchStep, WatchLands, WatchPromotes, WatchHolds
<1>4. ASSUME NEW k \in Jobs, RouteStep(k) PROVE status'[j] # "completed"
  BY <1>4 DEF RouteStep, Cancel, Delete, Edit, Start, Stop
<1>5. ASSUME NEW p \in Printers, Resume(p) \/ ClearPlate(p) PROVE status'[j] # "completed"
  BY <1>5 DEF Resume, ClearPlate, rowVars
<1>6. ASSUME NEW p \in Printers, ClientStep(p) \/ MachineStep(p) PROVE status' = status
  BY <1>6 DEF ClientStep, Push, PushSubtask, Disconnect, Reconnect, Reconcile, ClientRest,
     MachineStep, MachineStarts, MachineStops, MachineRuns, MachineEnds, ForeignPrint, MachineRest, rowVars
<1>7. ASSUME NEW e \in events, CompletionEnters(e) \/ CompletionGates(e) PROVE status' = status
  BY <1>7 DEF CompletionEnters, CompletionGates
<1>8. ASSUME PassLaunch \/ Restart PROVE status' = status
  BY <1>8 DEF PassLaunch, Restart, rowVars
<1> QED
  BY <1>1, <1>2, <1>3, <1>4, <1>5, <1>6, <1>7, <1>8 DEF Next, CallbackStep

\* A dispatching row is completed only by an event of its own submission, by one
\* without an id while this process expects the row's print, or by the recovery
\* that reads its submission in the telemetry.
THEOREM CompletionIsOwn == Spec => OwnCompletionOnly
<1>1. TypeOK /\ [Next]_vars =>
        [\A j \in Jobs : status[j] = "dispatching" /\ status'[j] = "completed" =>
            \/ \E e \in events : e.printer = target[j] /\ (e.sid = sid[j] \/ (e.sid = NoSid /\ j \in Expected))
            \/ vsid[target[j]] = sid[j]]_vars
  <2>1. ASSUME TypeOK, Next, NEW j \in Jobs, status[j] = "dispatching", status'[j] = "completed"
        PROVE  \/ \E e \in events : e.printer = target[j] /\ (e.sid = sid[j] \/ (e.sid = NoSid /\ j \in Expected))
               \/ vsid[target[j]] = sid[j]
    <3>1. CASE PassStart
      BY <2>1, <3>1, RecoveryOwn
    <3>2. CASE \E e \in events : CompletionBooks(e)
      BY <2>1, <3>2, CallbackOwn
    <3> QED
      BY <2>1, <3>1, <3>2, NobodyElseCompletes
  <2> QED
    BY <2>1
<1> QED
  BY <1>1, TypeCorrect, PTL DEF Spec, OwnCompletionOnly

(***************************************************************************)
(* The plate under a command                                               *)
(***************************************************************************)
\* A row stays its worker's own until the command, so nothing promotes it to
\* printing before; a picked row has no worker yet.
OwnerInv == \A j \in Jobs :
    /\ pc[j] \in {"launched", "uploading"} => status[j] \notin Active
    /\ pc[j] \in {"command", "refused"} => j \in own /\ status[j] # "printing"
    /\ picks[j] # NoPrinter => pc[j] = "none" /\ status[j] \notin Active

\* The rows that hold a printer for a print they sent there.
Sent(k) == status[k] \in Active /\ pub[k] # NoSid
Holders(p) == {k \in Jobs : Sent(k) /\ target[k] = p}

\* A finished queue print on the plate: the gate is up, or the row still holds
\* the printer and every callback that can release it has the gate before it.
GateInv == RequirePlateClear => \A p \in Printers : plate[p] = "queue" =>
    \/ p \in gate
    \/ Holders(p) # {} /\ \A e \in events : e.printer = p => e.stage # "cleanup"

\* Where a pass or a worker has its printer, no finished queue print lies.
FreshInv == RequirePlateClear => \A j \in Jobs :
    /\ picks[j] # NoPrinter => plate[picks[j]] # "queue"
    /\ pc[j] \in {"launched", "uploading", "command"} => plate[reserved[j]] # "queue"

PlateInv == OwnerInv /\ GateInv /\ FreshInv

\* The gates go with the plates as long as no queue print comes onto a plate, no
\* gate is lowered on one, no holder released and no callback taken past its gate.
LEMMA GateKept ==
  ASSUME GateInv,
         \A p \in Printers : plate'[p] = "queue" =>
             /\ plate[p] = "queue" /\ (p \in gate => p \in gate')
             /\ \A k \in Holders(p) : Sent(k)' /\ target'[k] = p,
         \A e \in events' : e.stage = "cleanup" => e \in events
  PROVE  GateInv'
<1>1. ASSUME NEW p \in Printers, plate'[p] = "queue", Holders(p) # {} PROVE Holders(p)' # {}
  BY <1>1 DEF Holders
<1> QED
  BY <1>1 DEF GateInv

\* What a step that starts no worker, releases no holder, lowers no gate and moves
\* nothing on a plate does. A queue print whose row is released leaves the plates
\* that count.
Tame ==
    /\ \A k \in Jobs :
        /\ pc'[k] # pc[k] => pc[k] # "none" /\ pc'[k] \in {"none", "unwind"}
        /\ picks'[k] \in {picks[k], NoPrinter}
        /\ reserved'[k] = reserved[k] \/ pc'[k] = "none"
        /\ k \in own => k \in own' \/ pc'[k] \notin {"command", "refused"}
        /\ status'[k] \in Active => status[k] \in Active
        /\ Sent(k) => target'[k] = target[k] /\ (Sent(k)' \/ plate'[target[k]] # "queue")
        /\ status'[k] = "printing" => status[k] = "printing" \/ pc[k] \notin {"command", "refused"}
    /\ \A p \in Printers : plate'[p] = "queue" => plate[p] = "queue"
    /\ gate \subseteq gate'
    /\ \A e \in events' : e.stage = "cleanup" => e \in events

\* Such a step keeps the plates under the gate.
LEMMA TameStep == ASSUME Inv, PlateInv, Tame PROVE PlateInv'
<1>1. OwnerInv'
  BY DEF PlateInv, OwnerInv, Tame
<1>2. GateInv'
  BY GateKept DEF PlateInv, Tame, Holders
<1>3. FreshInv'
  <2>1. \A j \in Jobs : /\ picks'[j] # NoPrinter => picks[j] = picks'[j] /\ picks[j] \in Printers
                        /\ pc'[j] \in {"launched", "uploading", "command"} =>
                              pc'[j] = pc[j] /\ reserved'[j] = reserved[j] /\ reserved[j] \in Printers
    BY DEF Tame, Inv, TypeOK, PassType, WorkerInv
  <2> QED
    BY <2>1 DEF PlateInv, FreshInv, Tame
<1> QED
  BY <1>1, <1>2, <1>3 DEF PlateInv

\* Most actions are tame.
LEMMA TameActions ==
  ASSUME Inv, CarriedInv, PlateInv,
         \/ PassStart \/ Restart
         \/ \E j \in Jobs : \/ PassHold(j) \/ PassAssignHold(j) \/ PassSkip(j) \/ PassBlock(j) \/ PassAborts(j)
                            \/ UploadFails(j) \/ UploadDeferred(j) \/ ReserveLost(j) \/ RefusalFails(j)
                            \/ ClearClaim(j) \/ CancelInflight(j) \/ WatchStep(j)
                            \/ Cancel(j) \/ Delete(j) \/ Edit(j) \/ Start(j)
         \/ \E p \in Printers : \/ Resume(p) \/ ClientStep(p)
                                \/ MachineStarts(p) \/ MachineRuns(p) \/ ForeignPrint(p)
         \/ \E e \in events : CompletionEnters(e)
  PROVE  Tame
<1> USE DEF Inv, TypeOK, RowType, WorkerType, PassType, Tame, Sent
<1>1. ASSUME NEW j \in Jobs, PassHold(j) \/ PassAssignHold(j) \/ PassSkip(j) \/ PassBlock(j) \/ PassAborts(j)
      PROVE  Tame
  <2>1. status[j] \notin Active
    BY <1>1 DEF PassHold, PassAssignHold, PassSkip, PassBlock, PassAborts, Eligible, PassInv
  <2>2. UNCHANGED <<pc, reserved, own, plate, gate, events, pub>>
    BY <1>1 DEF PassHold, PassAssignHold, PassSkip, PassBlock, PassAborts, PassRest, workerVars, eventVars, machineVars
  <2>3. \A k \in Jobs : picks'[k] \in {picks[k], NoPrinter}
    BY <1>1 DEF PassHold, PassAssignHold, PassSkip, PassBlock, PassAborts, PassOver
  <2>4. \A k \in Jobs : status'[k] # status[k] => k = j /\ status'[k] = "skipped"
    BY <1>1 DEF PassHold, PassAssignHold, PassSkip, PassBlock, PassAborts, rowVars
  <2>5. \A k \in Jobs : target'[k] # target[k] => k = j
    BY <1>1 DEF PassHold, PassAssignHold, PassSkip, PassBlock, PassAborts, rowVars
  <2> QED
    BY <2>1, <2>2, <2>3, <2>4, <2>5
<1>2. ASSUME NEW j \in Jobs, UploadFails(j) \/ RefusalFails(j) PROVE Tame
  <2>1. ~Sent(j) /\ status[j] # "printing"
    BY <1>2 DEF UploadFails, RefusalFails, PlateInv, OwnerInv, SentInv, CarriedInv
  <2> QED
    BY <1>2, <2>1 DEF UploadFails, RefusalFails, Overwrite, WorkerRest, passVars, eventVars, machineVars
<1>3. ASSUME NEW j \in Jobs, UploadDeferred(j) \/ ReserveLost(j) \/ ClearClaim(j) \/ CancelInflight(j) PROVE Tame
  BY <1>3 DEF UploadDeferred, ReserveLost, ClearClaim, CancelInflight, WorkerRest, passVars, eventVars, machineVars
<1>4. ASSUME NEW j \in Jobs, WatchStep(j) PROVE Tame
  <2>1. pc[j] \notin {"command", "refused"}
    BY <1>4 DEF WatchStep, WatchLands, WatchPromotes, WatchHolds, SentInv, CarriedInv
  <2> QED
    BY <1>4, <2>1 DEF WatchStep, WatchLands, WatchPromotes, WatchHolds, WatchRest, workerVars, passVars, eventVars, machineVars
<1>5. ASSUME NEW j \in Jobs, Cancel(j) \/ Delete(j) \/ Edit(j) \/ Start(j) PROVE Tame
  BY <1>5 DEF Cancel, Delete, Edit, Start, RouteRest, passVars
<1>6. ASSUME NEW p \in Printers, Resume(p) PROVE Tame
  BY <1>6 DEF Resume, RouteRest, passVars
<1>7. ASSUME NEW p \in Printers, ClientStep(p) PROVE Tame
  <2>1. UNCHANGED <<rowVars, gate, workerVars, passVars, machineVars, pub>>
    BY <1>7 DEF ClientStep, Push, PushSubtask, Disconnect, Reconnect, Reconcile, ClientRest
  <2>2. \A e \in events' : e \in events \/ e.stage = "notify"
    BY <1>7 DEF ClientStep, Push, PushSubtask, Disconnect, Reconnect, Reconcile, eventVars, EndSeen, NewEvent
  <2> QED
    BY <2>1, <2>2 DEF rowVars, workerVars, passVars, machineVars
<1>8. ASSUME NEW p \in Printers, MachineStarts(p) \/ MachineRuns(p) \/ ForeignPrint(p) PROVE Tame
  BY <1>8 DEF MachineStarts, MachineRuns, ForeignPrint, MachineRest, rowVars, workerVars, passVars, eventVars
<1>9. ASSUME NEW e \in events, CompletionEnters(e) PROVE Tame
  <2>1. UNCHANGED <<rowVars, gate, workerVars, passVars, machineVars, pub>>
    BY <1>9 DEF CompletionEnters, CallbackRest, rowVars
  <2>2. \A d \in events' : d \in events \/ d.stage = "notify"
    BY <1>9 DEF CompletionEnters, EventType, Event
  <2> QED
    BY <2>1, <2>2 DEF rowVars, workerVars, passVars, machineVars
<1>10. ASSUME PassStart PROVE Tame
  <2>1. UNCHANGED <<target, workerVars, picks, pub, gate>>
    BY <1>10 DEF PassStart
  <2>2. \A e \in events' : e \in events \/ e.stage = "entry"
    BY <1>10 DEF PassStart, Recover
  <2>3. \A k \in Jobs : \/ status'[k] = status[k]
                        \/ k \in Orphans /\ (k \in Ended \/ status'[k] = "printing")
                                        /\ status'[k] \in {"completed", "failed", "printing"}
    BY <1>10 DEF PassStart, Recover, Recovered, Ended, Alive
  <2>4. \A k \in Orphans : status[k] = "dispatching" /\ pc[k] \notin {"command", "refused"}
    BY DEF Orphans, PlateInv, OwnerInv
  <2>5. \A p \in Printers : plate'[p] = "queue" => plate[p] = "queue" /\ \A j \in Ended : target[j] # p
    BY <1>10 DEF PassStart, Recover
  <2>6. \A k \in Ended : target[k] \in Printers
    BY DEF Ended, Orphans, RowInv
  <2> QED
    BY <2>1, <2>2, <2>3, <2>4, <2>5, <2>6 DEF workerVars
<1>11. ASSUME Restart PROVE Tame
  BY <1>11 DEF Restart, PassOver, machineVars
<1> QED
  BY <1>1, <1>2, <1>3, <1>4, <1>5, <1>6, <1>7, <1>8, <1>9, <1>10, <1>11

\* A pass takes a printer whose gate is down and which no row holds: no finished
\* queue print lies there.
LEMMA PickPlate == ASSUME Inv, PlateInv, NEW j \in Jobs, PassPick(j) PROVE PlateInv'
<1> USE DEF Inv, TypeOK, RowType, WorkerType, PassType, PlateInv
<1>1. PICK p \in Printers : Eligible(j, p) /\ picks' = [picks EXCEPT ![j] = p]
  BY DEF PassPick
<1>2. /\ j \in todo /\ pc[j] = "none" /\ status[j] \notin Active
      /\ UNCHANGED <<status, pc, reserved, own, plate, gate, events, pub>>
      /\ \A k \in Jobs \ {j} : target'[k] = target[k]
  BY <1>1 DEF PassPick, PassRest, Eligible, PassInv, workerVars, eventVars, machineVars
<1>3. OwnerInv'
  BY <1>1, <1>2 DEF OwnerInv
<1>4. GateInv'
  BY <1>2, GateKept DEF Holders, Sent
<1>5. RequirePlateClear => plate[p] # "queue"
  <2>1. Holders(p) = {}
    BY <1>1 DEF Holders, Sent, Eligible, PassInv
  <2> QED
    BY <1>1, <2>1 DEF Eligible, PrinterIdle, GateInv
<1>6. FreshInv'
  BY <1>1, <1>2, <1>5 DEF FreshInv
<1> QED
  BY <1>3, <1>4, <1>6

\* The launched workers start at the printers their rows were picked for.
LEMMA LaunchPlate == ASSUME Inv, PlateInv, PassLaunch PROVE PlateInv'
<1> USE DEF Inv, TypeOK, RowType, WorkerType, PassType, PlateInv
<1>1. UNCHANGED <<status, target, own, plate, gate, events, pub>> /\ \A k \in Jobs : picks'[k] = NoPrinter
  BY DEF PassLaunch, PassOver, rowVars, eventVars, machineVars
<1>2. \A k \in Jobs : \/ pc'[k] = pc[k] /\ reserved'[k] = reserved[k]
                      \/ picks[k] # NoPrinter /\ pc'[k] = "launched" /\ reserved'[k] = picks[k]
  BY DEF PassLaunch, Picked
<1>3. OwnerInv'
  BY <1>1, <1>2 DEF OwnerInv
<1>4. GateInv'
  BY <1>1, GateKept DEF Holders, Sent
<1>5. FreshInv'
  BY <1>1, <1>2 DEF FreshInv
<1> QED
  BY <1>3, <1>4, <1>5

\* A worker that claims its row, or makes it dispatching, keeps its printer.
LEMMA AdvancePlate == ASSUME Inv, PlateInv, NEW j \in Jobs, Claim(j) \/ Reserve(j) PROVE PlateInv'
<1> USE DEF Inv, TypeOK, RowType, WorkerType, PassType, PlateInv
<1>1. UNCHANGED <<target, plate, gate, events, picks, pub>>
  BY DEF Claim, Reserve, WorkerRest, passVars, eventVars, machineVars
<1>2. \A k \in Jobs \ {j} : pc'[k] = pc[k] /\ reserved'[k] = reserved[k] /\ status'[k] = status[k] /\ (k \in own => k \in own')
  BY DEF Claim, Reserve
<1>3. picks[j] = NoPrinter
  BY DEF Claim, Reserve, OwnerInv
<1>4. CASE Claim(j)
  <2>1. status'[j] = status[j] /\ (pc'[j] = "none" \/ (pc[j] = "launched" /\ pc'[j] = "uploading" /\ reserved'[j] = reserved[j]))
    BY <1>4 DEF Claim
  <2> QED
    BY <1>1, <1>2, <1>3, <2>1, GateKept DEF OwnerInv, FreshInv, Holders, Sent
<1>5. CASE Reserve(j)
  <2>1. /\ pc[j] = "uploading" /\ pc'[j] = "command" /\ reserved'[j] = reserved[j]
        /\ status[j] = "pending" /\ status'[j] = "dispatching" /\ j \in own'
    BY <1>5 DEF Reserve, CanReserve
  <2> QED
    BY <1>1, <1>2, <1>3, <2>1, GateKept DEF OwnerInv, FreshInv, Holders, Sent
<1> QED
  BY <1>4, <1>5

\* The command lowers the gate of a plate without a finished queue print.
LEMMA CommandPlate ==
  ASSUME Inv, PlateInv, NEW j \in Jobs, Publish(j) \/ CommandRefused(j) \/ ReleaseReservation(j)
  PROVE  PlateInv'
<1> USE DEF Inv, TypeOK, RowType, WorkerType, PassType, PlateInv
<1>1. /\ pc[j] = "command" /\ gate' = gate \ {reserved[j]}
      /\ UNCHANGED <<target, plate, events, picks, reserved>>
      /\ pc'[j] \in {"refused", "unwind"} /\ status[j] # "printing" /\ pub[j] = NoSid
      /\ \A k \in Jobs \ {j} : pc'[k] = pc[k] /\ status'[k] = status[k] /\ pub'[k] = pub[k] /\ (k \in own => k \in own')
  BY DEF Publish, CommandRefused, ReleaseReservation, Command, WorkerRest, OwnerInv, SentInv, BoundType,
     passVars, eventVars, machineVars
<1>2. /\ status'[j] # "printing" /\ (pc'[j] = "refused" => j \in own')
      /\ picks[j] = NoPrinter
  BY <1>1 DEF Publish, CommandRefused, ReleaseReservation, Overwrite, OwnerInv
<1>3. OwnerInv'
  BY <1>1, <1>2 DEF OwnerInv
<1>4. ASSUME RequirePlateClear PROVE plate[reserved[j]] # "queue"
  BY <1>1, <1>4 DEF FreshInv
<1>5. GateInv'
  <2>1. CASE ~RequirePlateClear
    BY <2>1 DEF GateInv
  <2>2. CASE RequirePlateClear
    <3>1. \A p \in Printers : plate'[p] = "queue" => plate[p] = "queue" /\ (p \in gate => p \in gate')
      BY <1>1, <1>4, <2>2
    <3>2. \A p \in Printers : \A k \in Holders(p) : Sent(k)' /\ target'[k] = p
      BY <1>1 DEF Holders, Sent
    <3> QED
      BY <1>1, <3>1, <3>2, GateKept
  <2> QED
    BY <2>1, <2>2
<1>6. FreshInv'
  BY <1>1 DEF FreshInv
<1> QED
  BY <1>3, <1>5, <1>6

\* A stopped row leaves nothing of its own on the plate; a cleared plate is clear.
LEMMA UserPlate ==
  ASSUME Inv, PlateInv, (\E j \in Jobs : Stop(j)) \/ (\E p \in Printers : ClearPlate(p))
  PROVE  PlateInv'
<1> USE DEF Inv, TypeOK, RowType, WorkerType, PassType, MachineType, PlateInv
<1>1. PICK p \in Printers : /\ plate'[p] # "queue"
                            /\ \A q \in Printers \ {p} : plate'[q] = plate[q] /\ (q \in gate => q \in gate')
                            /\ \A k \in Jobs : status[k] \in Active => target[k] = p \/ status'[k] = status[k]
  <2>1. CASE \E j \in Jobs : Stop(j)
    <3>1. PICK j \in Jobs : Stop(j)
      BY <2>1
    <3>2. target[j] \in Printers
      BY <3>1 DEF Stop, RowInv
    <3>3. /\ plate'[target[j]] # "queue" /\ gate' = gate
          /\ \A q \in Printers \ {target[j]} : plate'[q] = plate[q]
          /\ \A k \in Jobs \ {j} : status'[k] = status[k]
      BY <3>1, <3>2 DEF Stop
    <3>4. \A k \in Jobs : status[k] \in Active => target[k] = target[j] \/ status'[k] = status[k]
      BY <3>3
    <3> WITNESS target[j] \in Printers
    <3> QED
      BY <3>3, <3>4
  <2>2. CASE \E q \in Printers : ClearPlate(q)
    <3>1. PICK q \in Printers : ClearPlate(q)
      BY <2>2
    <3>2. plate' = [plate EXCEPT ![q] = "clear"] /\ gate' = gate \ {q} /\ status' = status
      BY <3>1 DEF ClearPlate, rowVars
    <3> QED
      BY <3>2
  <2> QED
    BY <2>1, <2>2
<1>2. UNCHANGED <<target, pc, reserved, own, picks, events, pub>>
  BY DEF Stop, ClearPlate, RouteRest, rowVars, workerVars, passVars, eventVars
<1>3. \A k \in Jobs : status'[k] = status[k] \/ status'[k] = "cancelled"
  BY DEF Stop, ClearPlate, rowVars
<1>4. OwnerInv'
  BY <1>2, <1>3 DEF OwnerInv
<1>5. GateInv'
  <2>1. ASSUME NEW q \in Printers \ {p}, NEW k \in Holders(q) PROVE Sent(k)' /\ target'[k] = q
    BY <1>1, <1>2, <2>1 DEF Holders, Sent
  <2> QED
    BY <1>1, <1>2, <2>1, GateKept
<1>6. FreshInv'
  BY <1>1, <1>2, SidFacts DEF FreshInv, WorkerInv
<1> QED
  BY <1>4, <1>5, <1>6

\* A callback raises the gate before it may release a row.
LEMMA GatePlate == ASSUME Inv, PlateInv, NEW e \in events, CompletionGates(e) PROVE PlateInv'
<1>1. e.printer \in gate' /\ gate \subseteq gate'
  BY DEF CompletionGates, RaisesGate, FinalStatus, Inv, TypeOK, EventType, Event
<1>2. UNCHANGED <<status, target, pc, reserved, own, picks, plate, pub>>
  BY DEF CompletionGates, CallbackRest, workerVars, passVars, machineVars
<1>3. \A d \in events' : d \in events \/ d.printer = e.printer
  BY DEF CompletionGates, Inv, TypeOK, EventType, Event
<1>4. OwnerInv' /\ FreshInv'
  BY <1>2 DEF PlateInv, OwnerInv, FreshInv
<1>5. GateInv'
  <2>1. \A p \in Printers : Holders(p)' = Holders(p)
    BY <1>2 DEF Holders, Sent
  <2> QED
    BY <1>1, <1>2, <1>3, <2>1 DEF PlateInv, GateInv
<1> QED
  BY <1>4, <1>5 DEF PlateInv

\* The row it then releases stands on a plate under the gate, or on no queue print.
LEMMA BookPlate == ASSUME Inv, PlateInv, NEW e \in events, CompletionBooks(e) PROVE PlateInv'
<1>1. /\ e.stage = "cleanup" /\ events' \subseteq events
      /\ UNCHANGED <<gate, target, pc, reserved, own, picks, plate, pub>>
  BY DEF CompletionBooks, CallbackRest, workerVars, passVars, machineVars
<1>2. \A k \in Jobs : \/ status'[k] = status[k]
                      \/ target[k] = e.printer /\ status'[k] \in {"cancelled", "completed", "failed"}
  BY DEF CompletionBooks, Booked, PrintingOn, Matching, Inv, TypeOK, EventType, Event
<1>3. OwnerInv' /\ FreshInv'
  BY <1>1, <1>2 DEF PlateInv, OwnerInv, FreshInv
<1>4. GateInv'
  <2>1. ASSUME NEW p \in Printers, p # e.printer PROVE Holders(p)' = Holders(p)
    BY <1>1, <1>2, <2>1 DEF Holders, Sent
  <2> QED
    BY <1>1, <2>1 DEF PlateInv, GateInv
<1> QED
  BY <1>3, <1>4 DEF PlateInv

\* A print that ends leaves a queue print only where its row holds the printer, so
\* no pass or worker has it, and where no callback is past its gate.
LEMMA EndPlate ==
  ASSUME Inv, PlateInv, NEW p \in Printers, MachineStops(p) \/ MachineEnds(p)
  PROVE  PlateInv'
<1>1. UNCHANGED <<status, target, pc, reserved, own, picks, gate, events, pub>>
  BY DEF MachineStops, MachineEnds, MachineRest, rowVars, workerVars, passVars, eventVars
<1>2. \A q \in Printers : plate'[q] = plate[q] \/ (q = p /\ plate'[q] = Remains(p))
  BY DEF MachineStops, MachineEnds, Inv, TypeOK, MachineType
<1>3. Remains(p) = "queue" => Holders(p) # {} /\ \A e \in events : e.printer = p => e.stage # "cleanup"
  BY DEF Remains, HoldsByRow, Holders, Sent
<1>4. OwnerInv'
  BY <1>1 DEF PlateInv, OwnerInv
<1>5. GateInv'
  <2>1. \A q \in Printers : Holders(q)' = Holders(q)
    BY <1>1 DEF Holders, Sent
  <2> QED
    BY <1>1, <1>2, <1>3, <2>1 DEF PlateInv, GateInv
<1>6. FreshInv'
  <2>1. ASSUME Holders(p) # {}, NEW j \in Jobs
        PROVE  /\ picks[j] # p
               /\ pc[j] \in {"launched", "uploading", "command"} => reserved[j] # p
    <3>1. PICK k \in Jobs : status[k] \in Active /\ pub[k] # NoSid /\ target[k] = p
      BY <2>1 DEF Holders, Sent
    <3>2. picks[j] # p
      BY <3>1, SidFacts DEF Inv, PassInv
    <3>3. pc[j] \in {"launched", "uploading", "command"} => reserved[j] # p
      BY <3>1 DEF Inv, ApartInv, SentInv, PlateInv, OwnerInv
    <3> QED
      BY <3>2, <3>3
  <2>2. \A j \in Jobs : /\ picks[j] # NoPrinter => picks[j] \in Printers
                        /\ pc[j] # "none" => reserved[j] \in Printers
    BY DEF Inv, TypeOK, PassType, WorkerInv
  <2> QED
    BY <1>1, <1>2, <1>3, <2>1, <2>2 DEF PlateInv, FreshInv
<1> QED
  BY <1>4, <1>5, <1>6 DEF PlateInv

\* So the three hold throughout.
LEMMA PlateAlways == Spec => []PlateInv
<1>1. Init => PlateInv
  BY DEF Init, PlateInv, OwnerInv, GateInv, FreshInv
<1>2. Inv /\ CarriedInv /\ PlateInv /\ [Next]_vars => PlateInv'
  <2>1. ASSUME Inv, CarriedInv, PlateInv, Next PROVE PlateInv'
    BY <2>1, TameActions, TameStep, PickPlate, LaunchPlate, AdvancePlate, CommandPlate, UserPlate, GatePlate,
       BookPlate, EndPlate
       DEF Next, SchedulerStep, WorkerStep, RouteStep, CallbackStep, MachineStep
  <2>2. ASSUME Inv, PlateInv, UNCHANGED vars PROVE PlateInv'
    BY <2>2, TameStep DEF Tame, Sent, vars, rowVars, workerVars, passVars, eventVars, machineVars
  <2> QED
    BY <2>1, <2>2
<1> QED
  BY <1>1, <1>2, Invariance, CarriedAlways, PTL DEF Spec

\* Only a publishing worker adds a message that is no stop.
LEMMA OnlyPublishAdds ==
  ASSUME Inv, Next, \A j \in Jobs : ~Publish(j), NEW p \in Printers, Len(inbox'[p]) > Len(inbox[p])
  PROVE  inbox'[p][Len(inbox'[p])] = StopCmd
<1>1. inbox \in [Printers -> Seq(Sids)]
  BY DEF Inv, TypeOK, MachineType
<1>2. inbox' # inbox
  OBVIOUS
<1>3. ASSUME NEW j \in Jobs, Stop(j) PROVE inbox'[p][Len(inbox'[p])] = StopCmd
  <2>1. inbox'[p] = inbox[p] \/ inbox'[p] = Append(inbox[p], StopCmd)
    BY <1>1, <1>3 DEF Stop
  <2>2. inbox[p] \in Seq(Sids) /\ Len(inbox[p]) \in Nat
    BY <1>1
  <2> QED
    BY <2>1, <2>2
<1>4. ASSUME NEW q \in Printers, MachineStarts(q) \/ MachineStops(q) PROVE FALSE
  <2>1. inbox[q] # <<>> /\ inbox' = [inbox EXCEPT ![q] = Tail(@)]
    BY <1>4 DEF MachineStarts, MachineStops
  <2>2. p = q /\ inbox'[p] = Tail(inbox[p]) /\ inbox[p] \in Seq(Sids) /\ inbox[p] # <<>>
    BY <1>1, <2>1
  <2>3. Len(Tail(inbox[p])) = Len(inbox[p]) - 1 /\ Len(inbox[p]) \in Nat
    BY <2>2
  <2> QED
    BY <2>2, <2>3
<1>5. ASSUME Restart \/ \E q \in Printers : Disconnect(q) PROVE FALSE
  <2>1. inbox'[p] \in {inbox[p], <<>>}
    BY <1>1, <1>5 DEF Restart, Disconnect
  <2>2. Len(inbox[p]) \in Nat
    BY <1>1
  <2> QED
    BY <2>1, <2>2
<1>6. ASSUME NEW j \in Jobs, SchedulerStep(j) \/ WatchStep(j) \/ CancelInflight(j) \/ (WorkerStep(j) /\ ~Publish(j))
      PROVE  inbox' = inbox
  BY <1>6 DEF SchedulerStep, PassHold, PassAssignHold, PassSkip, PassBlock, PassPick, PassAborts, PassRest,
     WatchStep, WatchLands, WatchPromotes, WatchHolds, WatchRest, CancelInflight, WorkerStep, Claim, UploadFails,
     UploadDeferred, Reserve, ReserveLost, CommandRefused, RefusalFails, ReleaseReservation, ClearClaim
<1>7. ASSUME NEW j \in Jobs, RouteStep(j), ~Stop(j) PROVE inbox' = inbox
  BY <1>7 DEF RouteStep, Cancel, Delete, Edit, Start
<1>8. ASSUME NEW q \in Printers,
             \/ Resume(q) \/ ClearPlate(q) \/ Push(q) \/ PushSubtask(q) \/ Reconnect(q) \/ Reconcile(q)
             \/ MachineRuns(q) \/ MachineEnds(q) \/ ForeignPrint(q)
      PROVE  inbox' = inbox
  BY <1>8 DEF Resume, ClearPlate, Push, PushSubtask, Reconnect, Reconcile, MachineRuns, MachineEnds, ForeignPrint
<1>9. ASSUME NEW e \in events, CallbackStep(e) PROVE inbox' = inbox
  BY <1>9 DEF CallbackStep, CompletionEnters, CompletionGates, CompletionBooks, CallbackRest
<1>10. ASSUME PassStart \/ PassLaunch PROVE inbox' = inbox
  BY <1>10 DEF PassStart, PassLaunch
<1> QED
  BY <1>2, <1>3, <1>4, <1>5, <1>6, <1>7, <1>8, <1>9, <1>10 DEF Next, ClientStep, MachineStep

\* With the plate-clear setting on, no command goes out while a finished queue
\* print lies on the printer's plate, its row confirmed or still dispatching,
\* unless its row was released before the gate.
THEOREM PlateIsClear == Spec => QueuePrintCleared
<1>1. Inv /\ PlateInv /\ [Next]_vars => [~CommandOntoPrint]_vars
  <2>1. ASSUME Inv, PlateInv, Next, NEW p \in Printers, RequirePlateClear, Len(inbox'[p]) > Len(inbox[p]),
               inbox'[p][Len(inbox'[p])] # StopCmd
        PROVE  plate[p] # "queue"
    <3>1. PICK j \in Jobs : Publish(j)
      BY <2>1, OnlyPublishAdds
    <3>2. inbox' = [inbox EXCEPT ![reserved[j]] = Append(@, sid[j])] /\ pc[j] = "command"
      BY <3>1 DEF Publish, Command
    <3>3. Len(inbox[p]) \in Nat /\ inbox \in [Printers -> Seq(Sids)]
      BY <2>1 DEF Inv, TypeOK, MachineType
    <3>4. p = reserved[j]
      BY <2>1, <3>2, <3>3
    <3> QED
      BY <2>1, <3>2, <3>4 DEF PlateInv, FreshInv
  <2> QED
    BY <2>1 DEF CommandOntoPrint
<1> QED
  BY <1>1, Invariance, PlateAlways, PTL DEF Spec, QueuePrintCleared
=============================================================================
