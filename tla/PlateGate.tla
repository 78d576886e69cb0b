------------------------------- MODULE PlateGate -------------------------------
(***************************************************************************)
(* The plate-clear gate of one printer in PrinterManager: the flag in      *)
(* memory, the tasks that persist it, the archive shown with it, and the   *)
(* door tracking that may lower it. The MQTT thread feeds the event loop   *)
(* through a queue of door updates. Gates of different printers share      *)
(* nothing.                                                                *)
(***************************************************************************)
EXTENDS Naturals, Sequences

CONSTANTS
    Prints,         \* prints of this printer, each with an archive of its own
    NoPrint,
    MaxAttempts,    \* max_attempts of run_with_retry
    MaxWrites,      \* bound: persistence tasks in all
    MaxLocks,       \* bound: writes that fail, most on a locked database
    MaxDoor,        \* bound: door movements
    MaxDrops,       \* bound: disconnections
    MaxRestarts     \* bound: restarts of the server process

ASSUME ConstantsOK == NoPrint \notin Prints /\ {MaxAttempts, MaxWrites, MaxLocks, MaxDoor, MaxDrops, MaxRestarts} \subseteq Nat

Archives == Prints \cup {NoPrint}
Row == [up : BOOLEAN, archive : Archives]
\* The columns an UPDATE writes: those that differ from the row it loaded.
Changes == [to : Row, columns : SUBSET {"up", "archive"}]
Nothing == [to |-> [up |-> FALSE, archive |-> NoPrint], columns |-> {}]
Task == [id : 1..MaxWrites, kind : {"gate"}, up : BOOLEAN]
        \cup [id : 1..MaxWrites, kind : {"archive"}, archive : Archives]

\* What a push says of door and state; with the connection, a door update.
Reading == [open : BOOLEAN, printing : BOOLEAN]
Update == [connected : BOOLEAN, open : BOOLEAN, printing : BOOLEAN]
Off == [connected |-> FALSE, open |-> FALSE, printing |-> FALSE]
None == {}      \* no snapshot queued, no door state observed

VARIABLES
    gate, archive,          \* _awaiting_plate_clear, ..._archive_id
    row,                    \* their columns in the printers table
    tasks, stage, changes,  \* persistence tasks, how far each is, what it writes,
    retries,                \* how often the database sent it back
    snapshot, queue,        \* the MQTT thread's last snapshot; updates queued
    lastOpen, opened,       \* _door_last_open, _door_opened_since_print
    clearing,               \* _clear_plate_after_door_cycle tasks reading the setting
    connected, cache,       \* the client: its connection, what it heard last
    door, running,          \* the printer
    handler,                \* on_print_complete of each print
    owner, overlap,         \* history: the print that raised the gate; two writes
    lost,                   \* overlapped; a write was given up and none committed
                            \* since; prints after whose end the door was
    wasOpened, wasClosed,   \* opened, closed
    written, locks, moves, drops, restarts

memory   == <<gate, archive, opened>>
store    == <<row, stage, changes, retries, overlap, lost, locks>>
doorVars == <<snapshot, queue, lastOpen, clearing>>
client   == <<connected, cache>>
machine  == <<door, running, wasOpened, wasClosed, moves, drops>>
vars == <<memory, store, tasks, doorVars, client, machine, handler, owner, written, restarts>>

Init ==
    /\ gate = FALSE /\ archive = NoPrint
    /\ row = [up |-> FALSE, archive |-> NoPrint]
    /\ tasks = {} /\ stage = [i \in 1..MaxWrites |-> "queued"]
    /\ changes = [i \in 1..MaxWrites |-> Nothing] /\ retries = [i \in 1..MaxWrites |-> 0]
    /\ snapshot = None /\ queue = <<>>
    /\ lastOpen = None /\ opened = FALSE /\ clearing = 0
    /\ connected = TRUE /\ door \in BOOLEAN /\ running = NoPrint
    /\ cache = [open |-> door, printing |-> FALSE]
    /\ handler = [p \in Prints |-> "new"]
    /\ owner = NoPrint /\ overlap = FALSE /\ lost = FALSE /\ wasOpened = {} /\ wasClosed = {}
    /\ written = 0 /\ locks = 0 /\ moves = 0 /\ drops = 0 /\ restarts = 0

(***************************************************************************)
(* The gate in memory                                                      *)
(***************************************************************************)
Schedule(t) == /\ written < MaxWrites /\ written' = written + 1
               /\ tasks' = tasks \cup {t}

\* set_awaiting_plate_clear
SetGate(up) ==
    /\ gate' = up
    /\ archive' = NoPrint
    /\ opened' = (opened /\ up)
    /\ Schedule([id |-> written + 1, kind |-> "gate", up |-> up])

\* on_print_complete of p, after the user-stop check.
RaiseGate(p) ==
    /\ handler[p] = "ended"
    /\ SetGate(TRUE)
    /\ owner' = p
    /\ handler' = [handler EXCEPT ![p] = "raised"]
    /\ UNCHANGED <<store, doorVars, client, machine, restarts>>

\* set_awaiting_plate_clear_archive_id, after the archive was looked up; the
\* gate may have been lowered meanwhile. The archive may not be found.
AttachUnguarded(p) ==                                                    \* mutant
    /\ handler[p] = "raised"
    /\ \E a \in {p, NoPrint} :
            /\ archive' = a
            /\ Schedule([id |-> written + 1, kind |-> "archive", archive |-> a])
    /\ handler' = [handler EXCEPT ![p] = "done"]
    /\ UNCHANGED <<gate, opened, store, doorVars, client, machine, owner, restarts>>
AttachArchive(p) ==
    /\ handler[p] = "raised"
    /\ \E a \in {p, NoPrint} :
            IF a # NoPrint /\ ~gate
            THEN UNCHANGED <<archive, tasks, written>>
            ELSE /\ archive' = a
                 /\ Schedule([id |-> written + 1, kind |-> "archive", archive |-> a])
    /\ handler' = [handler EXCEPT ![p] = "done"]
    /\ UNCHANGED <<gate, opened, store, doorVars, client, machine, owner, restarts>>

\* POST clear-plate: the gate is up, or the printer shows FINISH or FAILED. The
\* scheduler lowers the gate of an idle printer before its print command.
Lower ==
    /\ (connected /\ gate) \/ running = NoPrint
    /\ SetGate(FALSE)
    /\ owner' = NoPrint
    /\ UNCHANGED <<store, doorVars, client, machine, handler, restarts>>

(***************************************************************************)
(* Persistence: run_with_retry over check, load, commit. Tasks start in    *)
(* the order they were scheduled; a locked database sends one back, the    *)
(* last attempt or another error ends it with the row not written.         *)
(***************************************************************************)
Rest == UNCHANGED <<memory, doorVars, client, machine, handler, owner, written, restarts>>

Finish(t) == /\ tasks' = tasks \ {t}
             /\ stage' = [stage EXCEPT ![t.id] = "queued"]
             /\ changes' = [changes EXCEPT ![t.id] = Nothing]
             /\ retries' = [retries EXCEPT ![t.id] = 0]

\* Does the task still represent the state in memory?
CurrentAlways(t) == t.kind = "gate" \/ gate                              \* mutant
Current(t) == IF t.kind = "gate" THEN gate = t.up ELSE gate /\ archive = t.archive

Check(t) ==
    /\ t \in tasks
    /\ \/ stage[t.id] = "retry"
       \/ stage[t.id] = "queued" /\ \A u \in tasks : stage[u.id] = "queued" => t.id <= u.id
    /\ IF Current(t)
       THEN /\ stage' = [stage EXCEPT ![t.id] = "checked"]
            /\ overlap' = (overlap \/ \E u \in tasks \ {t} : stage[u.id] \in {"checked", "loaded"})
            /\ UNCHANGED <<tasks, changes, retries>>
       ELSE Finish(t) /\ UNCHANGED overlap
    /\ UNCHANGED <<row, lost, locks>> /\ Rest

\* What the task wants the row to be: the archive is read from memory now.
Wanted(t) == IF t.kind = "gate" THEN [up |-> t.up, archive |-> IF t.up THEN archive ELSE NoPrint]
             ELSE [up |-> TRUE, archive |-> t.archive]

Load(t) ==
    /\ t \in tasks /\ stage[t.id] = "checked"
    /\ stage' = [stage EXCEPT ![t.id] = "loaded"]
    /\ changes' = [changes EXCEPT ![t.id] =
            [to |-> Wanted(t), columns |-> {c \in {"up", "archive"} : Wanted(t)[c] # row[c]}]]
    /\ UNCHANGED <<row, retries, overlap, lost, locks, tasks>> /\ Rest

Commit(t) ==
    /\ t \in tasks /\ stage[t.id] = "loaded"
    /\ row' = [c \in {"up", "archive"} |-> (IF c \in changes[t.id].columns THEN changes[t.id].to ELSE row)[c]]
    /\ Finish(t)
    /\ lost' = FALSE
    /\ UNCHANGED <<overlap, locks>> /\ Rest

\* "database is locked": the whole operation again, on a fresh session.
Locked(t) ==
    /\ t \in tasks /\ stage[t.id] = "loaded" /\ locks < MaxLocks
    /\ retries[t.id] + 1 < MaxAttempts
    /\ locks' = locks + 1
    /\ retries' = [retries EXCEPT ![t.id] = @ + 1]
    /\ stage' = [stage EXCEPT ![t.id] = "retry"]
    /\ changes' = [changes EXCEPT ![t.id] = Nothing]
    /\ UNCHANGED <<row, overlap, lost, tasks>> /\ Rest

\* Locked at the last attempt, or any other database error: _persist_* logs a
\* warning and the row stays as it is until another write.
GiveUp(t) ==
    /\ t \in tasks /\ stage[t.id] = "loaded" /\ locks < MaxLocks
    /\ locks' = locks + 1
    /\ Finish(t)
    /\ lost' = TRUE
    /\ UNCHANGED <<row, overlap>> /\ Rest

(***************************************************************************)
(* The printer, its reports and the door tracking                          *)
(***************************************************************************)
\* A push updates the client's cached state, of which _on_mqtt_state_change
\* queues an update when the snapshot changes. A print whose end was missed is
\* reconciled.
Heard == [p \in Prints |-> IF handler[p] = "unheard" THEN "ended" ELSE handler[p]]
Queue(c) == LET new == [connected |-> TRUE, open |-> c.open, printing |-> c.printing]
            IN  IF snapshot = {new} THEN UNCHANGED <<snapshot, queue>>
                ELSE snapshot' = {new} /\ queue' = Append(queue, new)
Report(c) == IF connected THEN cache' = c /\ Queue(c) ELSE UNCHANGED <<cache, snapshot, queue>>

PrinterRest == UNCHANGED <<memory, store, tasks, lastOpen, clearing, connected, owner, written, restarts>>

Past == {p \in Prints : handler[p] \in {"unheard", "ended", "raised", "done"}}

DoorMoves ==
    /\ moves < MaxDoor /\ moves' = moves + 1
    /\ door' = ~door
    /\ wasOpened' = IF running = NoPrint /\ ~door THEN wasOpened \cup Past ELSE wasOpened
    /\ wasClosed' = IF running = NoPrint /\ door THEN wasClosed \cup Past ELSE wasClosed
    /\ Report([open |-> ~door, printing |-> running # NoPrint])
    /\ UNCHANGED <<running, handler, drops>> /\ PrinterRest

\* A print begins, from the queue or at the printer with the gate still up.
PrintStarts(p) ==
    /\ running = NoPrint /\ handler[p] = "new"
    /\ running' = p
    /\ Report([open |-> door, printing |-> TRUE])
    /\ UNCHANGED <<door, wasOpened, wasClosed, moves, handler, drops>> /\ PrinterRest

\* A print outlasts the event loop's backlog and the reading of a setting.
PrintEnds ==
    /\ running # NoPrint /\ queue = <<>> /\ clearing = 0
    /\ handler' = [handler EXCEPT ![running] = IF connected /\ cache.printing THEN "ended" ELSE "unheard"]
    /\ running' = NoPrint
    /\ Report([open |-> door, printing |-> FALSE])
    /\ UNCHANGED <<door, wasOpened, wasClosed, moves, drops>> /\ PrinterRest

\* The connection is lost: the client reports it like any change of state.
Drops ==
    /\ connected /\ drops < MaxDrops /\ drops' = drops + 1
    /\ connected' = FALSE
    /\ snapshot' = {Off} /\ queue' = Append(queue, Off)
    /\ UNCHANGED <<cache, door, running, wasOpened, wasClosed, moves, handler, memory, store, tasks,
                   lastOpen, clearing, owner, written, restarts>>

\* A smart plug cut the power, mark_printer_offline: the state is "unknown"
\* until the printer proves to be alive. The reset goes through the queue,
\* behind the updates that are already in it.
QueueDoorReset == snapshot' = None /\ queue' = Append(queue, Off)
PowerOff ==
    /\ connected /\ drops < MaxDrops /\ drops' = drops + 1
    /\ connected' = FALSE
    /\ \E printing \in {cache.printing, FALSE} : cache' = [cache EXCEPT !.printing = printing]
    /\ QueueDoorReset
    /\ UNCHANGED <<door, running, wasOpened, wasClosed, moves, handler, memory, store, tasks,
                   lastOpen, clearing, owner, written, restarts>>

\* _on_connect broadcasts the cached state; a push brings the printer's own.
Reconnects ==
    /\ ~connected
    /\ connected' = TRUE
    /\ Queue(cache)
    /\ UNCHANGED <<cache, machine, handler, memory, store, tasks, lastOpen, clearing, owner, written, restarts>>

Push ==
    /\ connected
    /\ Report([open |-> door, printing |-> running # NoPrint])
    /\ handler' = Heard
    /\ UNCHANGED machine /\ PrinterRest

\* _handle_door_update and observe_door_state: reset on a disconnection, forget
\* an opening while printing, note an opening after it, and take the closing
\* that follows for an acknowledgment if the gate is up by then.
Edge(u) == u.connected /\ ~u.printing /\ lastOpen = {~u.open}
ForgetOnReset(u) == CASE ~u.connected -> FALSE [] Edge(u) -> u.open [] OTHER -> opened  \* mutant
Noted(u) == CASE ~u.connected \/ u.printing -> FALSE [] Edge(u) -> u.open [] OTHER -> opened
OnOpening(u) == Edge(u) /\ u.open /\ gate                                  \* mutant
Acknowledged(u) == Edge(u) /\ ~u.open /\ opened /\ gate
HandleDoorUpdate ==
    /\ queue # <<>>
    /\ LET u == Head(queue)
       IN  /\ lastOpen' = IF u.connected THEN {u.open} ELSE None
           /\ opened' = Noted(u)
           /\ clearing' = IF Acknowledged(u) THEN clearing + 1 ELSE clearing
    /\ queue' = Tail(queue)
    /\ UNCHANGED <<gate, archive, store, tasks, snapshot, client, machine, handler, owner, written, restarts>>

\* _clear_plate_after_door_cycle, the setting read: the gate is looked at again.
DoorClears ==
    /\ clearing > 0
    /\ clearing' = clearing - 1
    /\ IF gate THEN SetGate(FALSE) /\ owner' = NoPrint
               ELSE UNCHANGED <<memory, tasks, written, owner>>
    /\ UNCHANGED <<store, snapshot, queue, lastOpen, client, machine, handler, restarts>>

DoorIgnoredAnyway ==                                                     \* mutant
    /\ clearing' = clearing - 1
    /\ UNCHANGED <<memory, store, tasks, snapshot, queue, lastOpen, client, machine, handler, owner, written, restarts>>
DoorIgnored ==
    /\ clearing > 0
    /\ clearing' = clearing - 1
    /\ UNCHANGED <<memory, store, tasks, snapshot, queue, lastOpen, client, machine, handler, owner, written, restarts>>

(***************************************************************************)
(* Restart: load_awaiting_plate_clear_from_db                              *)
(***************************************************************************)
Restart ==
    /\ restarts < MaxRestarts /\ restarts' = restarts + 1
    /\ gate' = row.up
    /\ archive' = IF row.up THEN row.archive ELSE NoPrint
    /\ tasks' = {} /\ stage' = [i \in DOMAIN stage |-> "queued"]
    /\ changes' = [i \in DOMAIN changes |-> Nothing] /\ retries' = [i \in DOMAIN retries |-> 0]
    /\ lost' = FALSE
    /\ snapshot' = None /\ queue' = <<>>
    /\ lastOpen' = None /\ opened' = FALSE /\ clearing' = 0
    /\ connected' = FALSE /\ cache' = [open |-> FALSE, printing |-> FALSE]
    /\ owner' = IF row.up THEN owner ELSE NoPrint
    /\ handler' = [p \in Prints |-> CASE handler[p] = "raised" -> "done"
                                      [] handler[p] = "ended" -> "unheard"
                                      [] OTHER -> handler[p]]
    /\ UNCHANGED <<row, overlap, locks, machine, written>>

Next ==
    \/ \E p \in Prints : RaiseGate(p) \/ AttachArchive(p) \/ PrintStarts(p)
    \/ \E t \in tasks : Check(t) \/ Load(t) \/ Commit(t) \/ Locked(t) \/ GiveUp(t)
    \/ Lower \/ PrintEnds \/ DoorMoves \/ Drops \/ PowerOff \/ Reconnects \/ Push
    \/ HandleDoorUpdate \/ DoorClears \/ DoorIgnored \/ Restart

Spec == Init /\ [][Next]_vars

(***************************************************************************)
(* Properties                                                              *)
(***************************************************************************)

GateType ==
    /\ gate \in BOOLEAN /\ opened \in BOOLEAN
    /\ archive \in Archives /\ owner \in Archives
StoreType ==
    /\ row \in Row
    /\ tasks \subseteq Task /\ stage \in [1..MaxWrites -> {"queued", "checked", "loaded", "retry"}]
    /\ changes \in [1..MaxWrites -> Changes] /\ retries \in [1..MaxWrites -> Nat]
    /\ overlap \in BOOLEAN /\ lost \in BOOLEAN
DoorType ==
    /\ snapshot \in SUBSET Update /\ queue \in Seq(Update)
    /\ lastOpen \in SUBSET BOOLEAN /\ clearing \in Nat
MachineType ==
    /\ connected \in BOOLEAN /\ cache \in Reading /\ door \in BOOLEAN /\ running \in Archives
    /\ handler \in [Prints -> {"new", "unheard", "ended", "raised", "done"}]
    /\ wasOpened \subseteq Prints /\ wasClosed \subseteq Prints
BoundType == {written, locks, moves, drops, restarts} \subseteq Nat

\* The domain of every variable.
TypeOK == GateType /\ StoreType /\ DoorType /\ MachineType /\ BoundType

\* No archive is shown without its gate: a completion whose gate was lowered
\* before its archive was found attaches nothing, and a restart brings none back.
ArchiveNeedsGate == archive # NoPrint => gate

\* As long as the connection holds, the door lowers a gate only if it was really
\* opened after the print that raised the gate had ended: not on an opening seen
\* late or made during that print.
DoorLowers == clearing' < clearing /\ gate /\ ~gate'
DoorAcknowledges == [][DoorLowers /\ drops + restarts = 0 => owner \in wasOpened]_vars

\* And across disconnections, presumed power losses, reconnections and restarts it
\* lowers a gate only if it was really closed after the end of that print. (A gate
\* that a restart brings back because its lowering was not persisted has no print.)
DoorClosedAfterEnd == [][DoorLowers /\ owner # NoPrint => owner \in wasClosed]_vars

\* The columns follow the memory whatever the order in which the writes run and
\* retry: when none is left, row and memory differ only if the last write to get
\* that far was given up and none has committed since, or if two were once between
\* check and commit together. (Two that are load the same row: the later one may
\* find nothing to change, and the earlier one commits what it represents no
\* longer. One that is given up leaves the row behind until the next write or a
\* restart, which believes the row.)
PersistedInTurn == tasks = {} /\ ~overlap /\ ~lost => row = [up |-> gate, archive |-> archive]
=============================================================================
