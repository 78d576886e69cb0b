---------------------------- MODULE QueueDispatch ----------------------------
(***************************************************************************)
(* Print-queue dispatch of Grove Control at the grain of its suspension    *)
(* points: the scheduler pass, one upload worker per selected row, the     *)
(* background confirmation, the REST routes that race with them, the       *)
(* print-complete callback, restarts, and the printers themselves.         *)
(* An action is what runs between two awaits (or one locked transaction).  *)
(***************************************************************************)
EXTENDS Naturals, Sequences, FiniteSets

CONSTANTS
    Jobs,               \* rows of print_queue
    Printers,
    NoPrinter,          \* printer_id IS NULL: an Any Machine row
    UploadLimit,        \* queue_max_concurrent_uploads
    RequirePlateClear,  \* setting require_plate_clear
    MaxSid,             \* bound: dispatch attempts in all
    MaxRequests,        \* bound: REST requests that change a row
    MaxForeign,         \* bound: prints started at a printer, outside the queue
    MaxRestarts,        \* bound: restarts of the server process
    MaxDrops,           \* bound: MQTT disconnections
    MaxFaults,          \* bound: restarts and disconnections together
    MaxEvents           \* bound: completion callbacks in progress at once

ASSUME ConstantsOK ==
    /\ IsFiniteSet(Jobs)
    /\ NoPrinter \notin Printers
    /\ UploadLimit \in 1..16
    /\ RequirePlateClear \in BOOLEAN
    /\ {MaxSid, MaxRequests, MaxForeign, MaxRestarts, MaxDrops, MaxFaults, MaxEvents} \subseteq Nat

NoSid == 0      \* no submission id; also the id of every print foreign to the queue
StopCmd == 0    \* the stop message; a project_file message is its submission id

Active   == {"dispatching", "printing"}
Finished == {"completed", "failed", "cancelled", "skipped"}
Status   == {"pending", "deleted"} \cup Active \cup Finished

MachineState == {"IDLE", "PREPARE", "RUNNING", "FINISH", "FAILED"}
Busy         == {"PREPARE", "RUNNING"}
Terminal     == MachineState \ Busy
Sids         == NoSid..MaxSid
Targets      == Printers \cup {NoPrinter}

\* A terminal print event on its way through on_print_complete.
Event == [printer : Printers, sid : Sids, stage : {"entry", "notify", "cleanup"},
          status : {"completed", "failed", "aborted", "cancelled"}, recovered : BOOLEAN]

VARIABLES
    \* print_queue rows: durable
    status, target, manual, claimed, sid, review,
    \* durable plate-clear gates (PlateGate.tla has their persistence)
    gate,
    \* upload workers and the routes that are about to cancel them
    pc, reserved, cancelling, own,
    \* the scheduler pass in progress
    pass, todo, seen, taken, picks, slots,
    \* confirmation tasks, completion callbacks, printers a user stopped
    watch, events, userStopped,
    \* the client's cached telemetry and the messages on their way
    vstate, vsid, connected, edge, inbox,
    \* the printers
    mstate, msid,
    \* history: last submission published for a job, what lies on each plate;
    \* counters of the bounds
    pub, plate, nextSid, requests, foreign, restarts, drops

rowVars     == <<status, target, manual, claimed, sid, review>>
workerVars  == <<pc, reserved, cancelling, own>>
passVars    == <<pass, todo, seen, taken, picks, slots>>
eventVars   == <<events, userStopped>>
viewVars    == <<vstate, vsid, connected, edge>>
machineVars == <<mstate, msid, plate>>
boundVars   == <<nextSid, requests, foreign, restarts, drops>>
vars == <<rowVars, gate, workerVars, passVars, watch, eventVars, viewVars,
          inbox, machineVars, pub, boundVars>>

(***************************************************************************)
(* What the code reads                                                     *)
(***************************************************************************)
Inflight == {j \in Jobs : pc[j] # "none"}

\* The statuses that take a row's printer out of the pass: busy_result of check_queue.
TakesPrinterPrinting(st) == st = "printing"                             \* mutant
TakesPrinter(st) == st \in Active

\* Rows that hold their printer: the key of the partial unique index.
HoldsByRow(j, p) == status[j] \in Active /\ target[j] = p
HoldsByWorker(j, p) == pc[j] # "none" /\ reserved[j] = p

\* _is_printer_idle
PrinterIdle(p) ==
    /\ connected[p]
    /\ ~(RequirePlateClear /\ p \in gate)
    /\ vstate[p] \in {"IDLE", "FINISH", "FAILED"}

\* _queue_status_from_dispatch_telemetry ("none" for None)
Telemetry(p, s) ==
    IF s = NoSid \/ vsid[p] # s THEN "none"
    ELSE CASE vstate[p] \in Busy   -> "printing"
           [] vstate[p] = "FINISH" -> "completed"
           [] vstate[p] = "FAILED" -> "failed"
           [] OTHER                -> "dispatching"

\* An ORM write by primary key: it succeeds whatever the row's status has
\* become, and fails only when the row is gone.
Overwrite(j, st) == IF status[j] = "deleted" THEN "deleted" ELSE st

Init ==
    /\ status = [j \in Jobs |-> "pending"]
    /\ target \in [Jobs -> Targets]
    /\ manual = [j \in Jobs |-> FALSE]
    /\ claimed = [j \in Jobs |-> FALSE]
    /\ sid = [j \in Jobs |-> NoSid]
    /\ review = [j \in Jobs |-> FALSE]
    /\ gate = {}
    /\ pc = [j \in Jobs |-> "none"]
    /\ reserved = [j \in Jobs |-> NoPrinter]
    /\ cancelling = {} /\ own = {}
    /\ pass = "idle" /\ todo = {} /\ taken = {} /\ slots = 0
    /\ seen = [j \in Jobs |-> NoPrinter]
    /\ picks = [j \in Jobs |-> NoPrinter]
    /\ watch = [j \in Jobs |-> "none"]
    /\ events = {} /\ userStopped = {}
    /\ vstate = [p \in Printers |-> "IDLE"] /\ mstate = vstate
    /\ vsid = [p \in Printers |-> NoSid] /\ msid = vsid
    /\ connected = [p \in Printers |-> TRUE]
    /\ edge = {}
    /\ inbox = [p \in Printers |-> <<>>]
    /\ plate = [p \in Printers |-> "clear"]
    /\ pub = [j \in Jobs |-> NoSid]
    /\ nextSid = 1 /\ requests = 0 /\ foreign = 0 /\ restarts = 0 /\ drops = 0

(***************************************************************************)
(* The scheduler pass: check_queue                                         *)
(***************************************************************************)

\* What _recover_stale_dispatches does to the rows an earlier process left
\* dispatching (rows of this process belong to their confirmation task):
\* a correlated terminal state is committed before its callback is spawned,
\* a correlated active state promotes, and a row older than 270 s, the rows of
\* the set stale, is held for review. Nothing returns to pending. A row ended
\* here no longer holds its printer, and its gate comes only with that callback.
ConnectedOrphans == {j \in Jobs : status[j] = "dispatching" /\ j \notin own
                                  /\ target[j] \in Printers /\ connected[target[j]]}  \* mutant
Orphans == {j \in Jobs : status[j] = "dispatching" /\ j \notin own}
OrphanTelemetry(j) == Telemetry(target[j], sid[j])
Ended == {j \in Orphans : OrphanTelemetry(j) \in {"completed", "failed"}}
Alive == {j \in Orphans : OrphanTelemetry(j) = "printing"}

RecoveredForRetry(j) ==                                                 \* mutant
    IF j \in Ended \cup Alive THEN status[j] ELSE IF j \in Orphans THEN "pending" ELSE status[j]
Recovered(j) ==
    IF j \in Ended THEN OrphanTelemetry(j) ELSE IF j \in Alive THEN "printing" ELSE status[j]

Recover(stale) ==
    /\ stale \subseteq Orphans \ (Ended \cup Alive)
    /\ status' = [j \in Jobs |-> Recovered(j)]
    /\ review' = [j \in Jobs |-> (review[j] /\ j \notin Alive) \/ j \in stale]
    /\ events' = events \cup {[printer |-> target[j], sid |-> sid[j], stage |-> "entry",
                               status |-> OrphanTelemetry(j), recovered |-> TRUE] : j \in Ended}
    /\ Cardinality(events') <= MaxEvents
    /\ plate' = [p \in Printers |-> IF plate[p] = "queue" /\ \E j \in Ended : target[j] = p
                                    THEN "released" ELSE plate[p]]

\* Upload slots left in the pool.
FreeOffByOne ==                                                         \* mutant
    IF Cardinality(Inflight) > UploadLimit THEN 0 ELSE UploadLimit + 1 - Cardinality(Inflight)
FreeIgnoresInflight == UploadLimit                                      \* mutant
Free == IF Cardinality(Inflight) >= UploadLimit THEN 0 ELSE UploadLimit - Cardinality(Inflight)

\* Recovery, then one snapshot of the pending rows and of the busy printers;
\* everything later in the pass uses the snapshot.
PassStart ==
    /\ pass = "idle"
    /\ \E stale \in SUBSET Orphans : Recover(stale)
    /\ LET found == {j \in Jobs : status[j] = "pending" /\ ~claimed[j] /\ ~manual[j]} \ Inflight
           held  == {p \in Printers : \E j \in Jobs : (TakesPrinter(status'[j]) /\ target[j] = p)
                                                       \/ HoldsByWorker(j, p)}
       IN  IF found = {}
           THEN UNCHANGED <<pass, todo, seen, taken, slots>>
           ELSE /\ pass' = "scan"
                /\ todo' = found
                /\ seen' = [j \in Jobs |-> IF j \in found THEN target[j] ELSE NoPrinter]
                /\ taken' = held
                /\ slots' = Free
    /\ UNCHANGED <<target, manual, claimed, sid, gate, workerVars, picks, watch, userStopped,
                   viewVars, inbox, mstate, msid, pub, boundVars>>

Picked == {j \in Jobs : picks[j] # NoPrinter}
SlotFree == Cardinality(Picked) < slots

\* A row and the printer it may go to: its own, or any idle one of the model.
Eligible(j, p) ==
    /\ pass = "scan" /\ j \in todo
    /\ seen[j] \in {NoPrinter, p}
    /\ p \notin taken /\ PrinterIdle(p)

PassRest == UNCHANGED <<claimed, sid, review, gate, workerVars, pass, seen, slots, watch,
                        eventVars, viewVars, inbox, machineVars, pub, boundVars>>

\* Some gate keeps the row for a later pass: its schedule, an interlock, its
\* printer busy or away, materials, drying, a full pool, a shared source file.
\* Some of them close its printer to the rest of the pass.
PassHold(j) ==
    /\ pass = "scan" /\ j \in todo
    /\ todo' = todo \ {j}
    /\ taken' \in {taken, taken \cup ({seen[j]} \cap Printers)}
    /\ UNCHANGED <<status, target, manual, picks>> /\ PassRest

\* An Any Machine row held by a check that comes after its assignment (colour
\* mapping, drying, shared source file) keeps the printer.
PassAssignHold(j) ==
    /\ seen[j] = NoPrinter /\ SlotFree
    /\ status[j] # "deleted"
    /\ \E p \in Printers :
        /\ Eligible(j, p)
        /\ target' = [target EXCEPT ![j] = p]
        /\ taken' \in {taken, taken \cup {p}}
    /\ todo' = todo \ {j}
    /\ UNCHANGED <<status, manual, picks>> /\ PassRest

\* require_previous_success and a failed predecessor. The row is written by
\* primary key from the snapshot.
PassSkip(j) ==
    /\ \E p \in Printers : Eligible(j, p)
    /\ seen[j] = NoPrinter => SlotFree
    /\ status[j] # "deleted"
    /\ status' = [status EXCEPT ![j] = "skipped"]
    /\ todo' = todo \ {j}
    /\ UNCHANGED <<target, manual, taken, picks>> /\ PassRest

\* The assigned spool is short: the row needs an explicit start. An Any
\* Machine row keeps the printer it was just given.
PassBlock(j) ==
    /\ status[j] # "deleted"
    /\ seen[j] = NoPrinter => SlotFree
    /\ \E p \in Printers :
        /\ Eligible(j, p)
        /\ target' = [target EXCEPT ![j] = IF seen[j] = NoPrinter THEN p ELSE @]
    /\ manual' = [manual EXCEPT ![j] = TRUE]
    /\ todo' = todo \ {j}
    /\ UNCHANGED <<status, taken, picks>> /\ PassRest

\* Every gate passed: the printer and an upload slot go to the row.
PassPick(j) ==
    /\ SlotFree
    /\ \E p \in Printers :
        /\ Eligible(j, p)
        /\ seen[j] = NoPrinter => status[j] # "deleted"
        /\ target' = [target EXCEPT ![j] = IF seen[j] = NoPrinter THEN p ELSE @]
        /\ picks' = [picks EXCEPT ![j] = p]
        /\ taken' = taken \cup {p}
    /\ todo' = todo \ {j}
    /\ UNCHANGED <<status, manual>> /\ PassRest

PassOver == /\ pass' = "idle" /\ todo' = {} /\ taken' = {} /\ slots' = 0
            /\ seen' = [j \in Jobs |-> NoPrinter]
            /\ picks' = [j \in Jobs |-> NoPrinter]

\* Writing a row that was deleted since the snapshot raises, and the pass is
\* abandoned with everything it had picked.
PassAborts(j) ==
    /\ pass = "scan" /\ j \in todo
    /\ status[j] = "deleted"
    /\ PassOver
    /\ UNCHANGED <<rowVars, gate, workerVars, watch, eventVars, viewVars, inbox,
                   machineVars, pub, boundVars>>

\* _launch_uploads: one worker per picked row, within the pool.
PassLaunch ==
    /\ pass = "scan" /\ todo = {}
    /\ LET candidates == {j \in Picked : /\ pc[j] = "none"
                                         /\ \A k \in Jobs : ~HoldsByWorker(k, picks[j])}
       IN  \E launch \in SUBSET candidates :
               /\ Cardinality(launch) <= Free
               /\ launch # candidates => Cardinality(launch) = Free
               /\ pc' = [j \in Jobs |-> IF j \in launch THEN "launched" ELSE pc[j]]
               /\ reserved' = [j \in Jobs |-> IF j \in launch THEN picks[j] ELSE reserved[j]]
    /\ PassOver
    /\ UNCHANGED <<rowVars, gate, cancelling, own, watch, eventVars, viewVars, inbox,
                   machineVars, pub, boundVars>>

(***************************************************************************)
(* Upload workers: _dispatch_one and _start_print                          *)
(*   launched -> uploading -> command [-> refused] -> unwind -> none       *)
(***************************************************************************)
WorkerRest == UNCHANGED <<manual, passVars, eventVars, machineVars>>

\* _claim_for_dispatch: an UPDATE that matches only an unclaimed pending row
\* still targeted at the printer selected for it.
ClaimableAnywhere(j) == status[j] = "pending" /\ ~claimed[j]             \* mutant
Claimable(j) == status[j] = "pending" /\ ~claimed[j] /\ target[j] = reserved[j]

Claim(j) ==
    /\ pc[j] = "launched"
    /\ IF Claimable(j)
       THEN /\ claimed' = [claimed EXCEPT ![j] = TRUE]
            /\ pc' = [pc EXCEPT ![j] = "uploading"]
            /\ UNCHANGED reserved
       ELSE /\ pc' = [pc EXCEPT ![j] = "none"]
            /\ reserved' = [reserved EXCEPT ![j] = NoPrinter]
            /\ UNCHANGED claimed
    /\ WorkerRest
    /\ UNCHANGED <<status, target, sid, review, gate, cancelling, own, watch, viewVars, inbox, pub, boundVars>>

\* Printer gone or disconnected, source missing, nozzle mismatch, archive or
\* upload failed: the row is failed by primary key, whatever it has become.
UploadFails(j) ==
    /\ pc[j] = "uploading"
    /\ status' = [status EXCEPT ![j] = Overwrite(j, "failed")]
    /\ pc' = [pc EXCEPT ![j] = "unwind"]
    /\ WorkerRest
    /\ UNCHANGED <<target, claimed, sid, review, gate, reserved, cancelling, own, watch, viewVars, inbox, pub, boundVars>>

\* The printer's model changed, or its AMS is drying: the row stays pending.
UploadDeferred(j) ==
    /\ pc[j] = "uploading"
    /\ pc' = [pc EXCEPT ![j] = "unwind"]
    /\ WorkerRest
    /\ UNCHANGED <<status, target, claimed, sid, review, gate, reserved, cancelling, own, watch, viewVars, inbox, pub, boundVars>>

\* The file is on the printer. The compare-and-set makes the row dispatching
\* with a fresh submission id, unless another row of the printer is active
\* (the unique index).
CanReserve(j) ==
    /\ status[j] = "pending" /\ claimed[j]
    /\ \A k \in Jobs \ {j} : ~HoldsByRow(k, target[j])

Reserve(j) ==
    /\ pc[j] = "uploading"
    /\ nextSid <= MaxSid
    /\ CanReserve(j)
    /\ status' = [status EXCEPT ![j] = "dispatching"]
    /\ sid' = [sid EXCEPT ![j] = nextSid]
    /\ review' = [review EXCEPT ![j] = FALSE]
    /\ own' = own \cup {j}
    /\ nextSid' = nextSid + 1
    /\ pc' = [pc EXCEPT ![j] = "command"]
    /\ WorkerRest
    /\ UNCHANGED <<target, claimed, gate, reserved, cancelling, watch, viewVars, inbox, pub, requests, foreign, restarts, drops>>

\* Losing either ends the worker without a command.
ReserveLost(j) ==
    /\ pc[j] = "uploading"
    /\ ~CanReserve(j)
    /\ pc' = [pc EXCEPT ![j] = "unwind"]
    /\ WorkerRest
    /\ UNCHANGED <<status, target, claimed, sid, review, gate, reserved, cancelling, own, watch, viewVars, inbox, pub, boundVars>>

\* From the resumption after the reservation's commit to start_print nothing
\* awaits and nothing is read again: neither the row, nor the printer's state,
\* nor the plate-clear gate, which is lowered.
Command(j) ==
    /\ pc[j] = "command"
    /\ gate' = gate \ {reserved[j]}
    /\ WorkerRest
    /\ UNCHANGED <<target, claimed, reserved, cancelling, viewVars, boundVars>>

\* project_file goes out with the id the row carries; confirmation begins.
Publish(j) ==
    /\ Command(j)
    /\ connected[reserved[j]]
    /\ pc' = [pc EXCEPT ![j] = "unwind"]
    /\ inbox' = [inbox EXCEPT ![reserved[j]] = Append(@, sid[j])]
    /\ watch' = [watch EXCEPT ![j] = "sent"]
    /\ pub' = [pub EXCEPT ![j] = sid[j]]
    /\ UNCHANGED <<status, sid, review, own>>

\* Mutant: a command that did go out is taken for refused.
CommandRefusedAfterSend(j) ==
    /\ Command(j)
    /\ pc' = [pc EXCEPT ![j] = "refused"]
    /\ inbox' = [inbox EXCEPT ![reserved[j]] = Append(@, sid[j])]
    /\ pub' = [pub EXCEPT ![j] = sid[j]]
    /\ UNCHANGED <<status, sid, review, own, watch>>

\* start_print returned False: no connection. The uploaded file is removed
\* first, over FTP; only then is the row failed, by primary key.
CommandRefused(j) ==
    /\ Command(j)
    /\ ~connected[reserved[j]]
    /\ pc' = [pc EXCEPT ![j] = "refused"]
    /\ UNCHANGED <<status, sid, review, own, inbox, watch, pub>>

RefusalFails(j) ==
    /\ pc[j] = "refused"
    /\ status' = [status EXCEPT ![j] = Overwrite(j, "failed")]
    /\ sid' = [sid EXCEPT ![j] = NoSid]
    /\ own' = own \ {j}
    /\ pc' = [pc EXCEPT ![j] = "unwind"]
    /\ WorkerRest
    /\ UNCHANGED <<target, claimed, review, gate, reserved, cancelling, watch, viewVars, inbox, pub, boundVars>>

\* Drying began: _prepare_drying_for_dispatch(release_dispatch_reservation).
ReleaseReservation(j) ==
    /\ Command(j)
    /\ pc' = [pc EXCEPT ![j] = "unwind"]
    /\ status' = [status EXCEPT ![j] = Overwrite(j, "pending")]
    /\ sid' = [sid EXCEPT ![j] = NoSid]
    /\ own' = own \ {j}
    /\ UNCHANGED <<review, inbox, watch, pub>>

\* The finally of _dispatch_one, then the done callback frees the slot.
ClearClaimOfStarted(j) ==                                               \* mutant
    /\ pc[j] = "unwind"
    /\ claimed' = [claimed EXCEPT ![j] = @ /\ status[j] = "pending"]
    /\ pc' = [pc EXCEPT ![j] = "none"]
    /\ reserved' = [reserved EXCEPT ![j] = NoPrinter]
    /\ WorkerRest
    /\ UNCHANGED <<status, target, sid, review, gate, cancelling, own, watch, viewVars, inbox, pub, boundVars>>
ClearClaim(j) ==
    /\ pc[j] = "unwind"
    /\ claimed' = [claimed EXCEPT ![j] = FALSE]
    /\ pc' = [pc EXCEPT ![j] = "none"]
    /\ reserved' = [reserved EXCEPT ![j] = NoPrinter]
    /\ WorkerRest
    /\ UNCHANGED <<status, target, sid, review, gate, cancelling, own, watch, viewVars, inbox, pub, boundVars>>

\* cancel_inflight: CancelledError at the worker's current await. Inside the try it
\* reaches the finally; at the commit of the claim, before the try, or within the
\* finally's own write, the worker ends at once and a claim it holds stays.
CancelInflight(j) ==
    /\ j \in cancelling
    /\ cancelling' = cancelling \ {j}
    /\ \/ /\ pc[j] \in {"uploading", "command", "refused", "unwind"}
          /\ pc' = [pc EXCEPT ![j] = "unwind"] /\ UNCHANGED reserved
       \/ /\ pc[j] \in {"none", "launched", "uploading", "unwind"}
          /\ pc' = [pc EXCEPT ![j] = "none"] /\ reserved' = [reserved EXCEPT ![j] = NoPrinter]
    /\ WorkerRest
    /\ UNCHANGED <<status, target, claimed, sid, review, gate, own, watch, viewVars, inbox, pub, boundVars>>

(***************************************************************************)
(* Confirmation: _confirm_dispatch over _wait_for_print_start_ack          *)
(***************************************************************************)
WatchRest == UNCHANGED <<target, manual, claimed, sid, gate, workerVars, passVars, eventVars,
                         inbox, machineVars, pub, boundVars>>

\* Phase A sees the submission id without an active state: phase B begins.
WatchLands(j) ==
    /\ watch[j] = "sent"
    /\ Telemetry(target[j], pub[j]) \in {"dispatching", "completed", "failed"}
    /\ watch' = [watch EXCEPT ![j] = "landed"]
    /\ WatchRest /\ UNCHANGED <<status, review, viewVars>>

WatchPromotes(j) ==
    /\ watch[j] # "none"
    /\ Telemetry(target[j], pub[j]) = "printing"
    /\ IF status[j] = "dispatching"
       THEN /\ status' = [status EXCEPT ![j] = "printing"]
            /\ review' = [review EXCEPT ![j] = FALSE]
       ELSE UNCHANGED <<status, review>>
    /\ watch' = [watch EXCEPT ![j] = "none"]
    /\ WatchRest /\ UNCHANGED viewVars

\* The window closes: a row still dispatching is held for review, and a
\* printer that never showed the submission has its session reconnected.
WatchHolds(j) ==
    /\ watch[j] # "none"
    /\ review' = [review EXCEPT ![j] = @ \/ status[j] = "dispatching"]
    /\ connected' = [connected EXCEPT ![target[j]] =
                        @ /\ ~(watch[j] = "sent" /\ status[j] = "dispatching")]
    /\ watch' = [watch EXCEPT ![j] = "none"]
    /\ WatchRest /\ UNCHANGED <<status, vstate, vsid, edge>>

(***************************************************************************)
(* REST routes. lock_queue_item holds the row's write lock from the first  *)
(* read to the commit, so each route is one step up to its commit.         *)
(***************************************************************************)
RouteRest ==
    /\ requests < MaxRequests /\ requests' = requests + 1
    /\ UNCHANGED <<claimed, sid, review, pc, reserved, own, passVars, watch, events,
                   viewVars, mstate, msid, pub, nextSid, foreign, restarts, drops>>

\* cancel: commits, broadcasts, and only then reaches cancel_inflight.
Cancel(j) ==
    /\ status[j] = "pending"
    /\ status' = [status EXCEPT ![j] = "cancelled"]
    /\ cancelling' = cancelling \cup {j}
    /\ RouteRest /\ UNCHANGED <<target, manual, gate, userStopped, inbox, plate>>

Delete(j) ==
    /\ status[j] \notin Active \cup {"deleted"}
    /\ status' = [status EXCEPT ![j] = "deleted"]
    /\ cancelling' = cancelling \cup {j}
    /\ RouteRest /\ UNCHANGED <<target, manual, gate, userStopped, inbox, plate>>

\* PATCH: refused while a worker holds the claim.
Edit(j) ==
    /\ status[j] = "pending" /\ ~claimed[j]
    /\ \E t \in Targets \ {target[j]} : target' = [target EXCEPT ![j] = t]
    /\ RouteRest /\ UNCHANGED <<status, manual, cancelling, gate, userStopped, inbox, plate>>

Start(j) ==
    /\ status[j] = "pending" /\ manual[j]
    /\ manual' = [manual EXCEPT ![j] = FALSE]
    /\ RouteRest /\ UNCHANGED <<status, target, cancelling, gate, userStopped, inbox, plate>>

\* stop: the command if the printer is connected, the mark for the callback,
\* and the row is cancelled either way.
Stop(j) ==
    /\ status[j] \in Active
    /\ status' = [status EXCEPT ![j] = "cancelled"]
    /\ userStopped' = userStopped \cup {target[j]}
    /\ inbox' = [inbox EXCEPT ![target[j]] = IF connected[target[j]] THEN Append(@, StopCmd) ELSE @]
    /\ plate' = [plate EXCEPT ![target[j]] = IF @ = "queue" THEN "other" ELSE @]
    /\ RouteRest /\ UNCHANGED <<target, manual, cancelling, gate>>

\* resume: the rows of this printer the previous-success gate skipped.
Resume(p) ==
    /\ \E j \in Jobs : status[j] = "skipped" /\ target[j] = p
    /\ status' = [j \in Jobs |-> IF status[j] = "skipped" /\ target[j] = p THEN "pending" ELSE status[j]]
    /\ RouteRest /\ UNCHANGED <<target, manual, cancelling, gate, userStopped, inbox, plate>>

\* clear-plate: somebody emptied the plate and says so (nobody does while the
\* printer prints).
ClearPlate(p) ==
    /\ connected[p] /\ p \in gate
    /\ mstate[p] \notin Busy
    /\ gate' = gate \ {p}
    /\ plate' = [plate EXCEPT ![p] = "clear"]
    /\ UNCHANGED <<rowVars, workerVars, passVars, watch, eventVars, viewVars, inbox,
                   mstate, msid, pub, boundVars>>

(***************************************************************************)
(* on_print_complete, between its awaits                                   *)
(***************************************************************************)
CallbackRest == UNCHANGED <<target, manual, claimed, sid, review, workerVars, passVars, watch,
                            viewVars, inbox, machineVars, pub, boundVars>>

\* A recovered event is dropped while its printer is actively printing.
CompletionEnters(e) ==
    /\ e \in events /\ e.stage = "entry"
    /\ events' = (events \ {e}) \cup
                 IF connected[e.printer] /\ vstate[e.printer] \in Busy THEN {}
                 ELSE {[e EXCEPT !.stage = "notify"]}
    /\ CallbackRest /\ UNCHANGED <<status, gate, userStopped>>

\* The user's stop overrides a failure.
FinalStatus(e) == IF e.printer \in userStopped /\ e.status \in {"failed", "aborted"}
                  THEN "cancelled" ELSE e.status

FailureRaisesGate(st) == st \in {"completed", "failed"}                  \* mutant
RaisesGate(st) == st \in {"completed", "failed", "aborted", "cancelled"}

\* After the WebSocket broadcast, before the slow SD cleanup.
CompletionGates(e) ==
    /\ e \in events /\ e.stage = "notify"
    /\ gate' = gate \cup (IF RaisesGate(FinalStatus(e)) THEN {e.printer} ELSE {})
    /\ userStopped' = userStopped \ {e.printer}
    /\ events' = (events \ {e}) \cup {[e EXCEPT !.stage = "cleanup", !.status = FinalStatus(e)]}
    /\ CallbackRest /\ UNCHANGED status

\* The row the event is booked on: the printing row of the printer, whatever it
\* prints, else the dispatching row with the event's submission id. An event
\* without an id goes by its file name, to a row of this process whose expected
\* print (_expected_prints: made at the command, gone at a print start or in time)
\* has that name: "named". The recovery's own event also finds the row it ended.
PrintingOn(p) == {j \in Jobs : status[j] = "printing" /\ target[j] = p}
Expected == {j \in own : pc[j] # "command"}
MatchingPrinter(e, named) == {j \in Jobs : target[j] = e.printer /\ status[j] = "dispatching"}  \* mutant
Matching(e, named) ==
    {j \in Jobs : /\ target[j] = e.printer
                  /\ IF e.sid = NoSid THEN j \in named ELSE sid[j] = e.sid
                  /\ \/ status[j] = "dispatching"
                     \/ e.recovered /\ status[j] \in {"completed", "failed"} /\ status[j] = e.status}
Booked(e, named) == IF PrintingOn(e.printer) # {} THEN PrintingOn(e.printer) ELSE Matching(e, named)

\* After the SD-card cleanup: _update_queue_status.
CompletionBooks(e) ==
    /\ e \in events /\ e.stage = "cleanup"
    /\ \E named \in {{}, Expected} :
        status' = [j \in Jobs |->
                     IF j \in Booked(e, named)
                     THEN IF e.status = "aborted" THEN "cancelled" ELSE e.status
                     ELSE status[j]]
    /\ events' = events \ {e}
    /\ CallbackRest /\ UNCHANGED <<gate, userStopped>>

(***************************************************************************)
(* The MQTT client: telemetry as it arrives, connection, reconciliation    *)
(***************************************************************************)
ClientRest == UNCHANGED <<rowVars, gate, workerVars, passVars, watch, machineVars, pub,
                          nextSid, requests, foreign, restarts>>

NewEvent(p, st, s) == [printer |-> p, sid |-> s, stage |-> "notify", status |-> st, recovered |-> FALSE]

\* A print ended between two pushes: RUNNING before and a terminal state now,
\* or FAILED straight from PREPARE. IDLE after RUNNING is an abort.
EndSeen(p) ==
    IF \/ vstate[p] = "RUNNING" /\ mstate[p] \in Terminal
       \/ vstate[p] = "PREPARE" /\ mstate[p] = "FAILED"
    THEN {NewEvent(p, CASE mstate[p] = "FINISH" -> "completed"
                        [] mstate[p] = "FAILED" -> "failed"
                        [] OTHER -> "aborted", msid[p])}
    ELSE {}

\* PRINT START: RUNNING after anything but RUNNING, or with another file. It
\* clears the stop mark. The first push of a process starts nothing.
StartSeen(p) ==
    /\ mstate[p] = "RUNNING" /\ vstate[p] # "UNKNOWN"
    /\ vstate[p] = "RUNNING" => vsid[p] # msid[p]

Push(p) ==
    /\ connected[p]
    /\ <<vstate[p], vsid[p]>> # <<mstate[p], msid[p]>>
    /\ events' = events \cup EndSeen(p)
    /\ Cardinality(events') <= MaxEvents
    /\ userStopped' = IF StartSeen(p) THEN userStopped \ {p} ELSE userStopped
    /\ vstate' = [vstate EXCEPT ![p] = mstate[p]]
    /\ vsid' = [vsid EXCEPT ![p] = msid[p]]
    /\ ClientRest /\ UNCHANGED <<connected, edge, inbox, drops>>

\* A report is a set of changed fields: the submission id may arrive before the
\* state that belongs to it.
PushSubtask(p) ==
    /\ connected[p]
    /\ vsid[p] # msid[p] /\ vstate[p] # mstate[p]
    /\ vsid' = [vsid EXCEPT ![p] = msid[p]]
    /\ ClientRest /\ UNCHANGED <<vstate, connected, edge, inbox, eventVars, drops>>

\* Messages not yet delivered may be lost with the connection.
Disconnect(p) ==
    /\ connected[p] /\ drops < MaxDrops /\ restarts + drops < MaxFaults
    /\ connected' = [connected EXCEPT ![p] = FALSE]
    /\ inbox' \in {inbox, [inbox EXCEPT ![p] = <<>>]}
    /\ drops' = drops + 1
    /\ ClientRest /\ UNCHANGED <<vstate, vsid, edge, eventVars>>

Reconnect(p) ==
    /\ ~connected[p]
    /\ connected' = [connected EXCEPT ![p] = TRUE]
    /\ edge' = edge \cup {p}
    /\ ClientRest /\ UNCHANGED <<vstate, vsid, inbox, eventVars, drops>>

\* reconcile_stale_active_prints, once per connection: a job still recorded as
\* printing while its printer reports a terminal state gets an aborted event.
Reconcile(p) ==
    /\ p \in edge /\ connected[p] /\ vstate[p] # "UNKNOWN"
    /\ edge' = edge \ {p}
    /\ events' = events \cup
            {NewEvent(p, "aborted", sid[j]) : j \in {k \in PrintingOn(p) : vstate[p] \in Terminal}}
    /\ Cardinality(events') <= MaxEvents
    /\ ClientRest /\ UNCHANGED <<vstate, vsid, connected, userStopped, inbox, drops>>

(***************************************************************************)
(* The printers                                                            *)
(***************************************************************************)
MachineRest == UNCHANGED <<rowVars, gate, workerVars, passVars, watch, eventVars, viewVars,
                           pub, nextSid, requests, restarts, drops>>

\* Whose object the print that ends leaves on the plate: the queue's, if the row
\* that sent it still holds the printer. A callback of an earlier print that is past
\* its gate by then may release the row as its own: that counts as other.
Remains(p) == IF /\ \E j \in Jobs : pub[j] # NoSid /\ pub[j] = msid[p] /\ HoldsByRow(j, p)
                 /\ \A e \in events : e.printer = p => e.stage # "cleanup"
              THEN "queue" ELSE "other"

\* A project_file starts an idle printer and is refused by a busy one.
MachineStarts(p) ==
    /\ inbox[p] # <<>> /\ Head(inbox[p]) # StopCmd
    /\ IF mstate[p] \in Busy THEN UNCHANGED <<mstate, msid>>
       ELSE /\ mstate' = [mstate EXCEPT ![p] = "PREPARE"]
            /\ msid' = [msid EXCEPT ![p] = Head(inbox[p])]
    /\ inbox' = [inbox EXCEPT ![p] = Tail(@)]
    /\ MachineRest /\ UNCHANGED <<plate, foreign>>

MachineStops(p) ==
    /\ inbox[p] # <<>> /\ Head(inbox[p]) = StopCmd
    /\ mstate' = [mstate EXCEPT ![p] = IF @ \in Busy THEN "FAILED" ELSE @]
    /\ plate' = [plate EXCEPT ![p] = IF mstate[p] = "RUNNING" THEN Remains(p) ELSE @]
    /\ inbox' = [inbox EXCEPT ![p] = Tail(@)]
    /\ MachineRest /\ UNCHANGED <<msid, foreign>>

MachineRuns(p) ==
    /\ mstate[p] = "PREPARE"
    /\ mstate' = [mstate EXCEPT ![p] = "RUNNING"]
    /\ MachineRest /\ UNCHANGED <<msid, plate, inbox, foreign>>

\* It finishes, fails, or somebody stops it at the touchscreen (IDLE).
MachineEnds(p) ==
    /\ \/ mstate[p] = "RUNNING" /\ mstate' \in {[mstate EXCEPT ![p] = s] : s \in Terminal}
       \/ mstate[p] = "PREPARE" /\ mstate' = [mstate EXCEPT ![p] = "FAILED"]
    /\ plate' = [plate EXCEPT ![p] = IF mstate[p] = "RUNNING" THEN Remains(p) ELSE @]
    /\ MachineRest /\ UNCHANGED <<msid, inbox, foreign>>

\* A print started at the printer or from a slicer.
ForeignPrint(p) ==
    /\ mstate[p] \notin Busy /\ foreign < MaxForeign
    /\ mstate' = [mstate EXCEPT ![p] = "RUNNING"]
    /\ msid' = [msid EXCEPT ![p] = NoSid]
    /\ foreign' = foreign + 1
    /\ MachineRest /\ UNCHANGED <<plate, inbox>>

(***************************************************************************)
(* Restart: tasks, marks and telemetry are gone; run() clears the claims.  *)
(***************************************************************************)
Restart ==
    /\ restarts < MaxRestarts /\ restarts + drops < MaxFaults
    /\ restarts' = restarts + 1
    /\ claimed' = [j \in Jobs |-> FALSE]
    /\ pc' = [j \in Jobs |-> "none"]
    /\ reserved' = [j \in Jobs |-> NoPrinter]
    /\ cancelling' = {} /\ own' = {}
    /\ PassOver
    /\ watch' = [j \in Jobs |-> "none"]
    /\ events' = {} /\ userStopped' = {}
    /\ vstate' = [p \in Printers |-> "UNKNOWN"]
    /\ vsid' = [p \in Printers |-> NoSid]
    /\ connected' = [p \in Printers |-> FALSE]
    /\ edge' = {}
    /\ inbox' \in {inbox, [p \in Printers |-> <<>>]}
    /\ UNCHANGED <<status, target, manual, sid, review, gate, machineVars, pub, nextSid, requests, foreign, drops>>

(***************************************************************************)
(* Specification                                                           *)
(***************************************************************************)
SchedulerStep(j) == \/ PassHold(j) \/ PassAssignHold(j) \/ PassSkip(j) \/ PassBlock(j)
                    \/ PassPick(j) \/ PassAborts(j)
WorkerStep(j) == \/ Claim(j) \/ UploadFails(j) \/ UploadDeferred(j) \/ Reserve(j) \/ ReserveLost(j)
                 \/ Publish(j) \/ CommandRefused(j) \/ RefusalFails(j)
                 \/ ReleaseReservation(j) \/ ClearClaim(j)
WatchStep(j) == WatchLands(j) \/ WatchPromotes(j) \/ WatchHolds(j)
RouteStep(j) == Cancel(j) \/ Delete(j) \/ Edit(j) \/ Start(j) \/ Stop(j)
CallbackStep(e) == CompletionEnters(e) \/ CompletionGates(e) \/ CompletionBooks(e)
ClientStep(p) == Push(p) \/ PushSubtask(p) \/ Disconnect(p) \/ Reconnect(p) \/ Reconcile(p)
MachineStep(p) == \/ MachineStarts(p) \/ MachineStops(p) \/ MachineRuns(p)
                  \/ MachineEnds(p) \/ ForeignPrint(p)

Next ==
    \/ PassStart \/ PassLaunch \/ Restart
    \/ \E j \in Jobs : \/ SchedulerStep(j) \/ WorkerStep(j) \/ CancelInflight(j)
                       \/ WatchStep(j) \/ RouteStep(j)
    \/ \E p \in Printers : Resume(p) \/ ClearPlate(p) \/ ClientStep(p) \/ MachineStep(p)
    \/ \E e \in events : CallbackStep(e)

Spec == Init /\ [][Next]_vars

\* A pass that comes after every dispatch of an earlier process is 270 s old.
LatePass == PassStart /\ \A j \in Orphans : status'[j] # "dispatching" \/ review'[j]

\* Tasks on the event loop run: workers, the watches (they have deadlines), the
\* completion callbacks and the scheduler loop, and time goes by: passes come
\* late in the end. Users, printers and the network owe nothing.
FairSpec ==
    /\ Spec
    /\ WF_vars(PassStart) /\ SF_vars(LatePass) /\ WF_vars(PassLaunch)
    /\ WF_vars(\E e \in events : CallbackStep(e))
    /\ \A j \in Jobs : /\ WF_vars(SchedulerStep(j)) /\ WF_vars(WorkerStep(j))
                       /\ WF_vars(WatchStep(j)) /\ WF_vars(CancelInflight(j))
(***************************************************************************)
(* Properties                                                              *)
(***************************************************************************)

RowType ==
    /\ status \in [Jobs -> Status] /\ target \in [Jobs -> Targets]
    /\ manual \in [Jobs -> BOOLEAN] /\ claimed \in [Jobs -> BOOLEAN]
    /\ sid \in [Jobs -> Sids] /\ review \in [Jobs -> BOOLEAN]
WorkerType ==
    /\ pc \in [Jobs -> {"none", "launched", "uploading", "command", "refused", "unwind"}]
    /\ reserved \in [Jobs -> Targets]
    /\ cancelling \subseteq Jobs /\ own \subseteq Jobs
    /\ watch \in [Jobs -> {"none", "sent", "landed"}]
PassType ==
    /\ pass \in {"idle", "scan"} /\ todo \subseteq Jobs /\ taken \subseteq Printers
    /\ seen \in [Jobs -> Targets] /\ picks \in [Jobs -> Targets]
    /\ slots \in 0..UploadLimit
EventType == events \subseteq Event /\ userStopped \subseteq Printers /\ gate \subseteq Printers
ViewType ==
    /\ vstate \in [Printers -> MachineState \cup {"UNKNOWN"}] /\ vsid \in [Printers -> Sids]
    /\ connected \in [Printers -> BOOLEAN] /\ edge \subseteq Printers
MachineType ==
    /\ inbox \in [Printers -> Seq(Sids)]
    /\ mstate \in [Printers -> MachineState] /\ msid \in [Printers -> Sids]
    /\ plate \in [Printers -> {"clear", "queue", "released", "other"}]
BoundType ==
    /\ pub \in [Jobs -> Sids] /\ nextSid \in 1..MaxSid + 1
    /\ requests \in Nat /\ foreign \in Nat /\ restarts \in Nat /\ drops \in Nat

\* The domain of every variable.
TypeOK == /\ RowType /\ WorkerType /\ PassType /\ EventType
          /\ ViewType /\ MachineType /\ BoundType

\* A printer is held by one job at a time, whether through its row or through
\* its upload worker: selection, the busy set with the in-flight printers, the
\* printer in the claim's compare-and-set and the PATCH refusal together keep
\* two workers off one printer, with edits between selection and claim.
Holds(j, p) == HoldsByRow(j, p) \/ (pc[j] \in {"launched", "uploading", "command"} /\ reserved[j] = p)
ClaimedHolds(j, p) == HoldsByRow(j, p) \/ (pc[j] \in {"uploading", "command"} /\ reserved[j] = p)
OneJobPerPrinter ==
    \A p \in Printers : \A j, k \in Jobs : ClaimedHolds(j, p) /\ Holds(k, p) => j = k

\* The upload pool never exceeds queue_max_concurrent_uploads.
PoolBounded == Cardinality(Inflight) <= UploadLimit

\* "claimed rows cannot be reassigned": the printer a worker uploads to stays
\* the printer of its row.
ClaimPinsPrinter == \A j \in Jobs : pc[j] \in {"uploading", "command"} => target[j] = reserved[j]

\* Once project_file went out for a job, the job never becomes pending again,
\* not after a restart, a lost acknowledgement or a stopped print: nothing
\* sends its command a second time by itself.
NeverRequeued == [][\A j \in Jobs : pub[j] # NoSid => status'[j] # "pending"]_vars

\* The id is durable before the command: whatever queue submission a printer
\* is about to run or running, after any restart some row (unless deleted or
\* refused) still carries it.
Attributable ==
    \A p \in Printers : \A s \in {msid[p]} \cup {inbox[p][i] : i \in DOMAIN inbox[p]} :
        s # NoSid => \E j \in Jobs : pub[j] = s /\ (sid[j] = s \/ status[j] = "deleted")

\* A dispatching row is completed only by an event of its own submission, by the
\* recovery that reads its submission, or by an event that carries no id while this
\* process still expects the print it sent: a delayed completion of another print
\* passes it by, before its command went out and after a restart whatever it carries.
OwnCompletionOnly ==
    [][\A j \in Jobs : status[j] = "dispatching" /\ status'[j] = "completed" =>
            \/ \E e \in events : e.printer = target[j] /\ (e.sid = sid[j] \/ (e.sid = NoSid /\ j \in Expected))
            \/ vsid[target[j]] = sid[j]]_vars

\* No command goes out while a finished queue print lies on the plate, whether its
\* row had been confirmed or not: the gate is up before the row that held the printer
\* is released, no pass starts a worker while it is up, and no worker lowers it on
\* such a print. Apart from rows released before their gate: by a stop, by a callback
\* left over from an earlier print, by the recovery.
CommandOntoPrint ==
    \E p \in Printers : /\ RequirePlateClear /\ plate[p] = "queue"
                        /\ Len(inbox'[p]) > Len(inbox[p]) /\ inbox'[p][Len(inbox'[p])] # StopCmd
QueuePrintCleared == [][~CommandOntoPrint]_vars

\* The dispatch implements PrinterLease: whatever passes, edits, restarts and
\* late callbacks do, a job moves from no printer to one free printer, its
\* command goes out once, while it holds that printer, and a sent job never
\* holds a printer anew.
Leased == [j \in Jobs |-> IF pc[j] \in {"uploading", "command"} THEN reserved[j]
                          ELSE IF status[j] \in Active THEN target[j] ELSE NoPrinter]
Lease == INSTANCE PrinterLease WITH lease <- Leased, sent <- pub, Submissions <- Sids, NoSubmission <- NoSid
ImplementsLease == Lease!Spec

\* A waiting row does not stay claimed: a claim that a pass would skip for ever is
\* released, or left behind only on a row that was cancelled or deleted.
ClaimReleased == \A j \in Jobs : claimed[j] /\ status[j] = "pending" ~> ~claimed[j] \/ status[j] # "pending"

\* A dispatching row never waits silently: it moves on or is put up for review.
DispatchResolves == \A j \in Jobs : status[j] = "dispatching" ~> status[j] # "dispatching" \/ review[j]

(***************************************************************************)
(* What the repository says of the program and the program does not keep   *)
(***************************************************************************)

\* docs/queue-dispatch-concurrency.md:25-26, "a final compare-and-set prevents a
\* cancelled or removed row from publishing an MQTT print command". A stop
\* between that compare-and-set and start_print is not seen.
CancelledNeverPublishes ==
    [][\A j \in Jobs : pub'[j] # pub[j] => status[j] \notin {"cancelled", "deleted"}]_vars

\* print_scheduler.py:4409-4412, "a terminal state can be left over from the
\* previous print while this dispatch's subtask id has already arrived. It
\* proves the printer saw the submission, but not that this dispatch
\* completed": no row is completed while the printer is at its print. The
\* confirmation keeps to this; the recovery after a restart does not.
CompletedAfterItsEnd ==
    [][\A j \in Jobs : status[j] = "dispatching" /\ status'[j] = "completed" =>
            ~(msid[target[j]] = sid[j] /\ mstate[target[j]] \in Busy)]_vars
=============================================================================
