# Grove Control: a TLA+ development

Grove Control (a FastAPI server with a browser client) drives a fleet of Bambu
printers: it keeps a print queue, sends files over FTP and commands over MQTT,
and follows the printers' telemetry. This directory models the parts where its
hard behaviour lives: the dispatch of the queue to printers, the plate-clear
gate with its persistence and door tracking, the camera stream shared by viewers, slicing in
the background as the browser follows it, the live updates of a browser tab, and the automatic switching-off of a printer's
smart plug. TLC checks the
models, and TLAPS proves central safety properties of them.

Paths below are relative to `src/backend/app/`, or to `src/` if they start with `docs/` or `frontend/`.

## The system

| Component | Source | State | Operations | Hard because |
|---|---|---|---|---|
| Queue dispatch | `services/print_scheduler.py`, `api/routes/print_queue.py`, `models/print_queue.py` | queue rows (status, printer, claim, submission id); upload tasks in flight; confirmation tasks | the scheduler pass (`check_queue`), upload workers (`_dispatch_one`, `_start_print`), confirmation (`_confirm_dispatch`), recovery (`_recover_stale_dispatches`), routes: cancel, delete, PATCH, start, stop, resume | every task suspends between reading and writing a row; restarts; commands that may or may not have landed |
| Print completion | `main.py` `on_print_complete`, `reconcile_stale_active_prints` | callbacks in progress, `_user_stopped_printers` | gate raised, slow SD-card cleanup, queue row terminalised | minutes may pass between the event and the row's update |
| MQTT printer client | `services/bambu_mqtt.py` | cached telemetry, connection | start and completion detection by edges | pushes skip states; reconnects |
| Printer manager | `services/printer_manager.py` | clients, plate-clear gates, current user | connect, start/stop, gate with asynchronous persistence | a gate is written by tasks that overtake one another |
| Heat soak | `services/chamber_heat_soak.py`, `heat_soak_telemetry.py` | durable heating state of a row | heartbeat, abort, hand-off to dispatch | timeouts and restarts |
| Temporary files, library trash, archive purge | `services/temporary_files.py`, `library_trash.py`, `archive_purge.py` | files and rows that refer to them | deletion when the last reference goes | reference counting against concurrent dispatch |
| Slice jobs | `services/slice_dispatch.py`, `api/routes/slice_jobs.py`, `frontend/src/contexts/SliceJobTrackerContext.tsx` | in-memory jobs; in the browser tracked jobs, toasts, polls | enqueue, run, sweep; track, poll, complete, tick | overlapping polls, lists that lag a render behind, retention, ids that a restart deals out again |
| Camera fan-out | `services/camera_fanout.py`, `api/routes/camera.py` | broadcaster, subscribers, ffmpeg process, registry of streams, frame buffer | attach, leave, grace period, reconnect, `/camera/stop` | a teardown takes seconds, during which a successor starts |
| Smart plugs | `services/smart_plug_manager.py` and drivers | timers and their registry, the pending mark of a row | schedule, replace, cancel, expire, resume after a restart | an auto-off against a new print; a replaced timer ends after its successor has started |
| Usage tracking, Spoolman | `services/usage_tracker.py`, `spoolman_tracking.py` | open print sessions | start, complete | one record per print across restarts |
| WebSocket hub | `core/websocket.py`, `api/routes/websocket.py` | connections, a lock | connect with initial status, broadcast | broadcasts wait behind a slow client |
| Live updates in the browser | `frontend/src/hooks/useWebSocket.ts`, `frontend/src/App.tsx` | socket, timers, message queue, query cache | mint, connect, reconnect, dispose, throttle, invalidate, poll | what an unmounted instance had begun still ends; pushes and fetches overtake one another |
| Virtual printer, FTP, cloud, notifications, sensors, backups, firmware, auth, pages of the frontend | `services/...`, `frontend/` | mostly none of the queue's | I/O | protocol detail rather than state |

How they interact: the scheduler loop wakes every 30 s or on an event, recovers
rows left `dispatching`, takes one snapshot of pending rows and busy printers,
runs the selection gates on each row and launches one asyncio task per selected
row. The task claims its row, uploads, makes the row `dispatching` with a
compare-and-set and a fresh submission id, publishes `project_file` and
schedules a confirmation task that polls cached telemetry. Telemetry also
triggers `on_print_complete`, which raises the plate-clear gate at once and
updates the queue after cleaning the printer's SD card. REST routes lock a row
for their whole transaction. A restart forgets every task and every callback.

Every change is broadcast by the hub to the connected tabs, which also poll. A tab starts
slices and follows them by polling. Viewers of a camera subscribe to one broadcaster per printer,
whose pump drives the generator that owns ffmpeg; a page that closes its viewer posts `/camera/stop`.

What makes it correct: a printer has one job at a time; no print command is
sent twice for a job; a print stays attributable to its row across restarts;
a completion is booked on the row it belongs to; nothing is printed onto an
object still on the plate; the upload pool keeps its bound; claims are released
and a row never waits silently. A printer's camera has one upstream, which ends when nobody watches and
tells its viewers when it ends. A slice's user learns how it ended. A tab shows, in the end, what the server knows, and
an unmounted one does nothing any more.

## Modules

| Module | What it is |
|---|---|
| `QueueDispatch` | the queue, its workers, routes, callbacks, the MQTT client and the printers, with restarts, drops and lost messages |
| `PrinterLease` | what the dispatch promises, in three actions: a job takes a free printer, its command is sent once and under that lease, the printer is returned |
| `MCQueueDispatch` | the instance TLC checks: two jobs, up to two printers, and their symmetries |
| `QueueDispatchProofs` | the inductive invariant and the theorems, the refinement of `PrinterLease` among them |
| `QueueEndProofs` | theorems about the end of a print: whose completion a row takes, and the plate under a command |
| `PlateGate` | one printer's plate-clear gate: in memory, on its way to the database, and lowered by the door |
| `MCPlateGate` | its instance: up to two prints |
| `PlateGateProofs` | theorems about `PlateGate`: types, archive and persistence |
| `PlateDoorProofs` | theorems about the door |
| `CameraFanout` | one printer's broadcasters, their pumps and ffmpeg processes, viewers, grace periods and stop requests |
| `MCCameraFanout` | its instances: a viewer, two streams, one stop |
| `CameraFanoutProofs` | theorems about `CameraFanout` |
| `SliceJobs` | the dispatcher's jobs and the tracker that polls them |
| `MCSliceJobs` | its instance: two slices, two polls |
| `SliceJobsProofs` | theorems about `SliceJobs` |
| `LiveUpdates` | hub, socket, message queue, timers and query cache of a tab |
| `MCLiveUpdates` | its instance |
| `LiveUpdatesProofs` | theorems about `LiveUpdates` |
| `PlugAutoOff` | one smart plug's auto-off timers, their registry and pending mark, and the printer it feeds |
| `MCPlugAutoOff` | its instances |
| `PlugAutoOffProofs` | theorems about `PlugAutoOff` |

`QueueDispatch` has the gate as one set, raised and lowered at once: that is the gate in memory, which
is what the scheduler reads. `PlateGate` takes the same flag apart: its persistence, the archive shown
with it and the door. The other four models are of components that share no state with
the queue; none of the six shares a variable with another.

### QueueDispatch and the code

An action is what the event loop runs between two suspension points, or one
locked database transaction. That is the grain at which the hazards exist:
asyncio runs one task at a time, so whatever stands between two awaits is atomic.

* **Rows.** `status`, `target` (`printer_id`; `NoPrinter` for an Any Machine row),
  `manual` (`manual_start`), `claimed` (`dispatching_at`), `sid`
  (`dispatch_subtask_id`), `review` (the row carries the message that asks the
  user to check the printer). `"deleted"` stands for a row that is gone.
* **Pass.** `PassStart` is `_recover_stale_dispatches` and the two queries of
  `check_queue`. `todo`, `seen`, `taken`, `picks` and `slots` are its local
  variables: pending rows, the printer each had in the snapshot, `busy_printers`,
  the printers selected, the free slots. The rows are then visited, here in
  any order (`PassHold`, `PassAssignHold`, `PassSkip`, `PassBlock`, `PassPick`): the gates
  a row may fail (schedule, interlock, materials, drying, shared source file, power)
  are one nondeterministic choice, except those about state in this model.
  `PassAborts` is an exception out of the pass; `PassLaunch` is `_launch_uploads`.
* **Workers.** `pc`: `launched` (task created), `uploading` (claimed; everything up
  to the compare-and-set), `command` (reserved; up to `start_print`), `refused`
  (the FTP cleanup after a refused command), `unwind` (the `finally`). `reserved`
  is the printer in `_inflight`. A cancellation (`CancelInflight`) inside the `try` leads to the `finally`; at the commit of the claim, before
  the `try`, or while the `finally` itself awaits `_clear_dispatch_claim`, it ends the worker at once and leaves the claim. Only rows that
  were cancelled or deleted keep one that way, until the next restart.
* **Confirmation.** `watch`: `sent` until telemetry shows the submission id,
  `landed` until it shows an active print.
* **Routes.** Each is one step until its commit. `cancel` and `DELETE` reach
  `cancel_inflight` after a broadcast, hence `cancelling` and `CancelInflight`.
* **Completion.** An element of `events` is one `on_print_complete` in progress;
  `stage` is the await it stands at. `Matching` is `_matches_dispatching_queue_completion`: an event with a submission id finds the dispatching row that
  carries it; one without an id goes by its file name to a row whose expected print this process registered (`Expected`). Names are not
  modelled: whether the names agree, and whether the registration has been removed by a print start or has expired, is the choice `named`.
  Rows without an id (from before the ids) are not modelled.
* **Client and printer.** `vstate`, `vsid`, `connected` are the cached `PrinterState`;
  `edge` marks a connection not yet reconciled. `mstate`, `msid` and `inbox` are
  the printer and the messages on the way to it, external to the source.
* **History.** `pub` (the submission published for a job) and `plate` (what lies on
  the printer's plate) exist for the properties only. A print that ends leaves `"queue"` if the row that sent it still holds the printer,
  `printing` or still `dispatching` (unconfirmed, under review, left by an earlier process), and no earlier completion of the printer is past
  its gate by then. The recovery turns that into `"released"` when it ends such a row, a stop into `"other"`; see `QueuePrintCleared` below.

* **Lease.** `Leased` maps to `PrinterLease`: a job's lease is the printer of its worker from
  the claim on, or of its row while it is `dispatching` or `printing`; `sent` is `pub`. Abstract
  `Take` is `Claim`, `Send` is `Publish`, everything else returns printers or stutters.

Abstractions: file contents and names, printer models, filament, plugs and
notifications are choices; submission ids are fresh numbers; the selection
order is arbitrary, so no property depends on it; database errors are not
modelled here. `_was_running` (a print that was paused and resumed) is folded into
`RUNNING`. The confirmation's read and write of a row are one step; in the code a
stop can fall between them (the plan has a module for it).

### PlateGate and the code

The MQTT thread and the event loop interleave here, and so do the persistence tasks at every
database await.

* **Memory.** `gate`, `archive` and `opened` are `_awaiting_plate_clear`, `_awaiting_plate_clear_archive_id` and
  `_door_opened_since_print` of `PrinterManager`. `SetGate` is `set_awaiting_plate_clear`, called by `RaiseGate`
  (the completion), `Lower` (the route and the scheduler) and `DoorClears`. `AttachArchive` is the
  later part of the completion, after the archive was looked up.
* **Persistence.** Each call schedules a task. `Check` asks whether the task still represents the memory, `Load` reads the row
  (SQLAlchemy writes the columns that differ from what was loaded, hence `changes`), `Commit` writes, `Locked`
  is `run_with_retry` going back to the start while it has attempts left (`MaxAttempts`, three in the code), and `GiveUp` the end of a write that failed at its
  last attempt or with another error: `_persist_*` logs it and the row stays as it was. `row` is the printer's two columns.
* **Door.** `Report`, `Drops`, `PowerOff` and `Reconnects` queue updates on the MQTT thread, with its own last snapshot;
  `HandleDoorUpdate` applies one on the loop; `DoorClears` and `DoorIgnored` end the task that reads the user's setting.
* **Restart.** `load_awaiting_plate_clear_from_db`; tasks, queue and door history are lost.
* **History.** `owner` (the print that raised the gate), `wasOpened` and `wasClosed` (prints after whose end the door was really
  opened or closed), `overlap` (two writes were between check and commit at once) and `lost` (a write was given up and none has committed since).

A timing assumption is in `PrintEnds`: a print outlasts the loop's backlog of door updates and
the reading of a setting. Without it an update of before the print could be
applied after it, minutes late. It also means that one print is enough for the door: nothing of an
earlier print's door history is pending when the next one ends, except an opening before it, which
the run has. One printer is enough because every field is keyed by printer.

### CameraFanout and the code

All of it runs on one event loop, and no body under a lock suspends, so that a step is what happens
between two suspensions.

* **Broadcaster.** `registry` is `_broadcasters`; `stopped`, `subs`, `grace` and `event` are `_stopped`, `_subscribers`,
  `_grace_task` and `_upstream_disconnect`. A broadcaster keeps the factory of the viewer who made it, hence
  its stream id: one number stands for both. `Attach` is `get_or_create_broadcaster` with `subscribe`, which no other task can come between.
* **Generator and pump.** `pump` is where `generate_rtsp_mjpeg_stream` stands: `opening` (top of the loop),
  `spawning`, `starting` (the 0.1 s), `streaming`, `renewing` (inside `_terminate_ffmpeg` before a reconnection, after the end of
  ffmpeg's output or after 30 s without any from one that runs), `terminating` (inside it for good), `closing` (the `finally` after its
  first suspension), `done`. `cancelled` is a cancellation the task has not seen. `Finish` is the `finally` up to that suspension;
  `Close` is its rest and the pump's own `finally`, which puts the sentinel.
* **Process.** `live` is the ffmpeg process its generator holds. `LetGo` is `_terminate_ffmpeg`: 2 s after SIGKILL it gives the wait up, and the process joins
  `abandoned` until it ends (`Reaped`), if ever; the generator has forgotten it and may start another. `active` the keys of `_active_streams`, `buffered` the printer's entry of `_last_frames`.
* **Viewers.** `at` and `queue` are a response's broadcaster and queue; `gone` a browser that has left unnoticed. `missed` (history)
  marks a viewer whose queue was full when the upstream ended.
* **Stop.** `StopRequest` counts subscribers, stops the broadcaster and cancels its pump; `StopContinues` goes on when that pump
  is done, and with each process it terminates (`Sweep`). `victims` is its snapshot of `_active_streams`, `todo` what the loop has not come
  to, `anew` the streams that got a new process since, which its snapshot does not hold and it therefore spares.

Frames are one item; the stream of a chamber-image camera has no process and is left out, as are external cameras. The janitor that kills
abandoned processes is not modelled: `Reaped` may come at any time or never. A stream is in `abandoned` or not, however many of its processes are.

### SliceJobs and the code

* **Server.** `slot` and `status` are `_jobs`, `old` what is past `_RETENTION_SECONDS`, `nextId` is `_next_id`. `Restart` loses all.
* **Tracker.** `jobs` is `activeJobs` with its pending updates, `rendered` the list that `activeJobsRef` has since the last render, `started` the
  keys of `startedAtRef`. A poll (`todo`, `answer`) walks over its own snapshot, one request at a time, and polls overlap.
  `Complete` is `completeJob` with the calls it makes to the toasts; `Dismiss` is its timeout, which nothing clears.
* **History.** `outcome` (how a slice ended) and `told` (what its user was told).

Timing assumptions, each a guard: renders come long before the next poll starts; a page that tracks a job polls it within
half an hour unless it is suspended (`outages`); the process is down long enough for polls under way to fail.

### LiveUpdates and the code

* **Hub.** `lock` is the queue of `_lock`: a broadcast is serialised before it waits, a new connection is added in its turn
  and sent the status of that moment.
* **Hook.** An instance of `useWebSocket` is a number; `phase` is where its `connect` and its socket stand, `disposed` is `disposedRef`.
  `messages` and `busy` are the frame-by-frame queue, `throttled` the status to be applied within 100 ms, `debounced` the invalidation in 3 s.
* **Cache.** A version stands for a status or a list. React Query is external: `Polled` and `Invalidated` say what it does with a fetch in flight:
  a poll joins it, an invalidation cancels it and asks again, unless the query has no data yet: a first fetch is continued, and clears the invalidation.
  An answer is computed (`AnswerStatus`) and applied (`FetchedStatus`) in two steps, between which a push may come.
* **Handshake.** The endpoint closes an unauthorised socket before `accept()`, which a browser sees as an abnormal closure; so
  `Reject` is followed by a reconnection with a new mint, not by the 4401 branch.

### PlugAutoOff and the code

One plug with one printer behind it; the manager is keyed by plug.

* **Timers.** A timer is a task of `_delayed_off` or `_temp_based_off` (`mode`). `pc` is where it stands: `new` (created, not started),
  `waiting` (the delay or the polls), `switching` (inside `turn_off`), `skipping` and `marking` (its last write), `done`. `cancelled` is a
  cancellation it has not seen. `registered` is `_pending_off[plug]`. `Finish` is the `finally`, which pops the plug's entry without
  looking whose it is; a timer cancelled before its first step never enters its `try` (`Begin`).
* **Requests.** `notices` are callbacks on their way: print starts, switchings-on, ends of prints or queue jobs, ends of drying cycles. `Schedule`
  is `_schedule_off_per_mode` down to the task it creates, with `_cancel_pending_off`; `PrintStarted` and `TurnOn` are `on_print_start` before and after
  its await.
* **Mark.** `pending` is `auto_off_pending`; an element of `marks` is a spawned `_mark_auto_off_pending` or a timer's own last write. Each
  takes effect once, in any order: SQLAlchemy writes the column only if it differs from what was read, so a write that is none takes
  effect at its read and any other at its commit.
* **Restart.** `Crash` loses timers, callbacks and open writes; `Boot` and `Resume` are `init_printer_connections` and
  `resume_pending_auto_offs`, with `ResumedOff` and `ResumedMarked` for the off it carries out itself.
* **History.** `called` (timers a print start met), `stray` (live timers that another one's end unregistered), `wanted` (an off was asked for and is not
  settled; one whose mark is not in the database at a crash is given up).

A `turn_off` that fails may have reached the plug all the same. The settings except `enabled` are choices, and so is whether the nozzle has cooled when a timer looks. The printer and the plug are
external; a restart is described with the first reports before or after `Resume`. Database writes succeed.

## Runs

The `plug` runs are on `MCPlugAutoOff`, the `gate_` runs are on `MCPlateGate`, the `camera` ones on `MCCameraFanout`, `slice` on `MCSliceJobs`, `updates` on `MCLiveUpdates`, the
others on `MCQueueDispatch`. Bounds are in the `.cfg` files.

| Run | Instance | Question |
|---|---|---|
| `fleet` | 2 Any Machine jobs, 2 printers, 1 slot, 1 restart | `TypeOK`; `OneJobPerPrinter`, `PoolBounded`; `NeverRequeued`, `Attributable`: is a job sent twice, or a print orphaned, when the process ends at any point? `QueuePrintCleared`: can a command go out onto the object of a finished queue print? `ImplementsLease`: is the dispatch a lease of printers? |
| `live` | 1 job, 1 printer, 1 request, 1 foreign print, 1 restart or drop | `ClaimReleased`, `DispatchResolves` under `FairSpec`; `OwnCompletionOnly`: which late completion can end a row that is only dispatching? `ClaimPinsPrinter`: can an edit move a row from under its worker? |
| `gate_persist` | 2 prints, 3 writes of up to 3 attempts, 3 failures, 1 restart | `TypeOK`; `ArchiveNeedsGate`; `PersistedInTurn`: does the row follow the memory when writes are overtaken, retried and given up? |
| `gate_door` | 1 print, 3 door movements, 2 disconnections | `DoorAcknowledges`, `DoorClosedAfterEnd`: does the door lower only the gate of a print it was opened, or at least closed, after? |
| `camera` | 1 viewer, 2 streams, 1 stop, queues of 1, 1 reconnection | `TypeOK`; `OneUpstream`, `ViewedIsRegistered`, `SuccessorKeepsFrame`: what does a departing stream take with it, and can generators hold two ffmpegs? `UpstreamReleased`, `EndReachesViewer` under `FairSpec` |
| `slice` | 2 slices, 2 overlapping polls, 1 failure, 1 outage, 1 restart | `TypeOK`; `SpinnerIsTracked`, `KeptUntilReported`, `Truthful`; `EveryJobReported` under `FairSpec` |
| `updates` | 2 mounts, 1 status, 1 event, 1 fault, with a login | `TypeOK`; `DisposedStaysQuiet`; `ConnectsAgain`, `StatusConverges`, `EventRefreshes` under `FairSpec` |
| `plug` | 2 timers, 1 print, 1 drying cycle, 1 edit, switching by hand, disconnection or crash | `TypeOK`; `StartCallsOff`: does a print start stop every timer, whatever the settings have become? `OffSettled` under `FairSpec`: is an off that was asked for forgotten? |
| `stopped`, `recovered` | 1 job | what the repository says and the code does not keep (below) |
| `camera_stop` | 1 viewer, 2 streams, 1 stop | likewise |
| `plug_drying` | 3 timers, 3 drying cycles | likewise |

Why these bounds are enough to be interesting: the conflicts of the dispatch are between two
rows on one printer and two printers for one row, so two of each show every
pair; a second submission id makes a stale id possible; one restart can fall
between any two steps; a callback in progress makes a completion late. The
bounds on ids, requests, foreign prints, restarts and drops (and `MaxFaults` on the last two together) stop
counters, not actions: a run that hits them still explores what is enabled besides. In
`gate_persist` three writes are a gate raised with its archive and lowered, or raised again by the second print, in any overlap; three failures
are a write that is given up after all its attempts, or retries of several; the two prints are interchangeable, hence the symmetry. In `gate_door` three movements
are a full open-close cycle and a half, so that one half may lie in the print and the other after
it, and two disconnections allow one before and one after the print's end. In `camera` the second stream is the
successor (with a third, which the properties were also tried with, a stream may have been told to stop by the sweep of an earlier one, hence
`~event` in two of them), a queue of one is full as soon as a viewer lags, and one reconnection makes both an ffmpeg that is
tried again and one that is given up; one viewer can leave, come back to the same or another
broadcaster and be the last to leave again, and the safety properties of that run are proved for any number of viewers. In `slice` the second job is the one that could be mistaken for the first. In
`updates` the second mount is the one whose cache an instance that is gone could disturb. In `plug` the second timer is the one that replaces the
first, by a drying cycle and the end of a print in either order; one change at a time, because edits, switchings by hand,
disconnections and crashes each alter what a print start or a timer then finds. `plug_drying` needs a third. Deadlock is off where, with its
bounds used up, the system stops.

Fairness (`FairSpec`): asyncio runs every ready task, so worker, watch,
callback and pass steps are weakly fair. `LatePass` is strongly fair: time
passes, so in the end a pass runs with every orphan older than the 270 s of
`_recover_stale_dispatches`. Nothing is assumed of users, printers or the
network: neither telemetry nor a reconnection has to come. In `CameraFanout` ready tasks run, timers expire and a viewer that has
not left reads what it is sent; a printer need not send frames, a silent read need not time out, a killed ffmpeg need not end. In `SliceJobs` the slicer's call ends (its HTTP client has a
timeout), React renders and the poll's interval fires. In `LiveUpdates` timers fire, frames are drawn, requests are answered
and the hub's lock is passed on; a client that stalls a send for ever would break the last. In `PlugAutoOff` delays end, plugs answer or time
out (the drivers' requests have timeouts), writes are made and the process is started again; nothing is assumed of the printer.

### Where code and documentation part

* `stopped`: `docs/queue-dispatch-concurrency.md:25-26` promises that a cancelled row
  never publishes. A stop handled between the compare-and-set and `start_print` is not seen.
* `recovered`: `services/print_scheduler.py:4409-4412` knows that a terminal state may be left over from the
  previous print while the new submission id has already arrived. `_recover_stale_dispatches` (line 582) takes that same pair
  for the end of the row.
* `camera_stop`: `api/routes/camera.py:1048-1049` skips the teardown "if any subscriber is still attached". It counts once; then it
  waits for the old pump (line 1069), and the sweep (line 1074) also terminates the stream of a viewer who came during that wait.
* `plug_drying`: `main.py:6757-6760` relies on repeated requests collapsing "to one timer". A replaced timer ends after its successor was
  registered, and its `finally` (`services/smart_plug_manager.py:489`, and line 628) pops the successor's entry; a third request then starts a second
  timer. Before that, a print start does not reach the successor either: `StartCallsOff` excepts such timers, which `stray` marks. What
  is left then is the timer's own look at the printer when its delay ends.

These models contain six more such cases, read off the code and its actions, for which no run is kept:

* `main.py:4742-4743` promises that a delayed completion of another job does not terminalise a newly dispatching row, and the comment at 797-800
  calls the file-name fallback "safe" for its window. An event without a submission id is matched by name alone: the late end of a print of the same file,
  started at the printer, completes the row whose command has just gone out. `OwnCompletionOnly` is what does hold: the event has the row's id, or has none while this process
  expects the row's print. Once telemetry has promoted the row to `printing`, even an event with another id is booked on it (`main.py:4730`).
* `services/print_scheduler.py:2649-2651` says that the queue must not dispatch while a finished print's plate awaits its acknowledgment.
  `_recover_stale_dispatches` ends a row (lines 597, 659) before the completion it spawns (665-672) has raised the gate (`main.py:4463`, after an await), and no longer
  counts its printer busy (759-764): a row that finished while the server was down may be followed by the next job, sent onto its object. `QueuePrintCleared`
  with `"released"` plates included is violated by that, with two jobs, one printer and one restart.
* `services/camera_fanout.py:8` "owns a single upstream connection per printer". When a read times out and ffmpeg outlives SIGKILL, `process` is forgotten
  (`api/routes/camera.py:756`) and the loop starts a second one for the same broadcaster (766-768), until the janitor kills the first. `OneUpstream` counts what generators hold.
* The same comment of `_is_printer_idle`, without a restart: the gate is read when the row is selected; a print started at the printer during the upload can end and
  raise it, and `_start_print` lowers it unread. `QueuePrintCleared` is the weaker property that does hold: for the queue's own prints, confirmed or not, the row
  keeps the printer until the gate is up. It excepts three early releases: the recovery's (above; also when, as in `recovered`, it takes the previous print's end for the
  row's own), a stop's, and that of a completion left over from an earlier print that stands in
  its SD-card cleanup while the queue's print runs and ends, and then books that print's row as its own (`main.py:4730`). The gate of the
  earlier print was taken down long before, that of this one is not up yet, and a pass may send the next job in between.
* The pending mark "survives restarts" (`services/smart_plug_manager.py:400`), but replacing a timer spawns a write that clears it and one
  that sets it. If both read the old mark, only the clearing writes: the timer runs unmarked and a restart forgets it.
* `resume_pending_auto_offs` must never resume "a power-off onto a live print" (`services/smart_plug_manager.py:723`). It asks
  `is_print_active`, which is false for a printer that is not connected yet, and startup waits one second for each connection.

More observations that no line of the repository contradicts: after a reconnection the cached, stale door is reported first
(`services/bambu_mqtt.py:1034-1035`), so that a door opened during the print may be taken for one opened after it, which is why `DoorAcknowledges` is
stated for an unbroken connection; a slice job that a restart or the sweep has lost is polled for ever, because the tracker takes a 404 for
a transient failure; a viewer whose queue is full when the upstream ends is not told; a worker that fails
before a cancellation reaches it writes `failed` or `skipped` over `cancelled`; two persistence writes that
overlap between check and commit can leave the row up while the gate is down, and a write given up after its last attempt leaves the row behind
the memory until the next one commits, or until a restart believes the row (`PersistedInTurn` is stated without either); a cancellation
that reaches a worker at its claim's commit or in its `finally` leaves a claim on the cancelled or deleted row (`ClaimReleased` is about rows that wait); and an event
that arrives while a list's very first fetch is in flight does not refresh it, because React Query continues that fetch and counts its
answer as fresh for 60 s (`EventRefreshes` is stated for lists that have data).

## Proofs

`QueueDispatchProofs` proves, for all constants that satisfy `ConstantsOK`, `Attribution` (`Attributable`, below) and
`TypeCorrect`, `MutualExclusion` (`OneJobPerPrinter`), `ClaimPins`
(`ClaimPinsPrinter`), `NoSecondCommand` (`NeverRequeued`), `PoolLimit` (`PoolBounded`) and `Refinement`
(`ImplementsLease`). TLC evaluates `ConstantsOK` in every run.

`OneJobPerPrinter` is not inductive: whether a worker may launch depends on what the
pass took for free when it began. `Inv` adds `PassInv` (picks are distinct, and no
worker, active row or other pick has a picked printer: this is where the snapshot
is shown to stay valid while routes, callbacks and workers go on),
`ApartInv` (workers and active rows are pairwise apart, unclaimed workers
included), `WorkerInv` (from the claim on a worker's row names its printer),
`RowInv` and `SentInv` (a published job is neither pending nor skipped, so neither resume
nor a pass can bring it back). Most actions give nobody a printer; they are
proved at once: `Calm` says so and `CalmStep` shows that such a step keeps the invariant; a cancelled worker that
ends with its claim in place is covered by `WorkerEnds`. The others have a lemma each. `PoolLimit` counts: a launch adds at most `Free` workers and no
other step adds any.

`Refinement` rests on the same invariant. `Returns` says that no job gains a printer and nothing is sent, and
calm steps, recoveries, launches, restarts, edits, the compare-and-set and the `finally` are all of that kind. `ClaimTakes`
needs `ApartInv` (the claimed printer is nobody else's) and `SentInv` (the job was never sent); `PublishSends`
needs that the worker at its command still holds its printer.

`Attribution` (`Attributable`) has an invariant of its own, `CarriedInv`: a row whose submission was sent carries that
submission's id until it is deleted, a refused worker has sent nothing, and a printer's state and its inbox name no submission
that was not sent. `Quiet` collects the steps that touch none of this.

`QueueEndProofs` proves `CompletionIsOwn` (`OwnCompletionOnly`) and `PlateIsClear` (`QueuePrintCleared`). The first needs the types only: every action is
shown not to complete a dispatching row but the recovery, which compares the telemetry's id, and the callback, which finds one only through `Matching`,
by its id or, if the event has none, among `Expected`.
The second has three invariants that are inductive together. `GateInv`: where a finished queue print lies, the gate is up, or the row still holds
the printer and every callback that can release it stands before its gate; `Holders` are the rows that sent the print, printing or dispatching. `FreshInv`: no such print lies where a pass or a worker has its printer; this
is what makes it harmless that the command lowers the gate unread. `OwnerInv`: a worker's row is not promoted to `printing` before its command, so that a
row that ends is never the one whose worker is still to send. They rest on `Inv` (no worker has the printer of an active row) and `CarriedInv`.
`Tame` collects the steps that touch none of this.

`PlateGateProofs` proves `GateTypes` (`TypeOK`), `ArchiveFollowsGate` (`ArchiveNeedsGate`) and `ColumnsFollowMemory` (`PersistedInTurn`). That the columns equal the
memory once every write has ended is far from inductive; `Represented` is: as long as no two writes overlapped, and none was given up without one under way that comes after it, the columns equal the memory and nothing is
under way, or some write will bring them there, because it still represents the memory and has not loaded the row, or has loaded it and
will commit what the memory holds. `LoadedWhole` says what a loaded write will leave in the columns it does not name, `OneActive` that there is one
such write at most, `RowShape` that the columns hold no archive without its gate, `OwnIds` that every write has an id of its own.

`PlateDoorProofs` proves `DoorClosesFirst` (`DoorClosedAfterEnd`) and `DoorOpensFirst` (`DoorAcknowledges`). An acknowledgment is given for two updates that
the MQTT thread queued some time ago, so the invariants speak of every place of the queue: `Before(k)` is the door state the loop will have observed when it
comes to the update at `k`. `ClosingQueued` and `OpeningQueued` say of a queued closing, or opening, of an idle printer that the door really made it after the end of every
print that has ended; `ClosingNext`, `ClosingTaken` and `OpeningTaken` say the same of an opening that was noted and of a clearing under way. To keep that when the next
update is queued one has to know what the last one says of the door: `LastUpdate`, `Unheard`, `NothingSeen` and `StillOpen`, with the exception of the cached state that is
broadcast on a reconnection; `InStep` is the stronger form of an unbroken connection.

`CameraFanoutProofs` proves `CameraType` (`TypeOK`), `SingleUpstream` (`OneUpstream`), `WatchedIsRegistered` (`ViewedIsRegistered`) and
`FrameKept` (`SuccessorKeepsFrame`). `RetiredInv` says that a broadcaster whose pump was started is the registry's or stopped; from that
`OneUpstream` follows. The other two need to know what a sweep, which suspends with a list in hand, can still do to a stream started after
it was taken: `SweepInv` says that what the sweep has come to was told to stop, and that only the newest of those may be unstopped and is
the one it waits for, so that no viewer can start it again meanwhile; `MadeInv` and `EndInv` tie registry, pump and process together.
`RegisteredInv` is the conclusion that is inductive with them.

`SliceJobsProofs` proves `SliceTypes` (`TypeOK`), `NoOrphanSpinner` (`SpinnerIsTracked`), `JobsAreKept` (`KeptUntilReported`) and `UsersAreToldTheTruth` (`Truthful`). The
browser knows a job by its id alone, in the tracked list, in the list of the last render and in the snapshots of polls that overlap. `SameSlice` says that until a
restart each of these ids names the same slice on the server, or none any more, and `Registered` that the server deals out an id once and that a job's status is its slice's outcome;
`AnswerIsTrue` follows an answer to the poll that applies it. `NoneOld` is what the retention needs: no job the page waits for comes of age while the page is up. `IdsLeft` counts the
ids, which gives the type of `nextId`. The filter of `completeJob` is written as the removal of one position (`Without`), because the library's `SelectSeq` is
defined by recursion; `Listed`, a part of `TypeOK`, says that no list names a job twice, so that the two are the same.

`LiveUpdatesProofs` proves `UpdatesType` (`TypeOK`) and `DisposedIsQuiet` (`DisposedStaysQuiet`), which needs that a timer, a mint or an open socket of an
instance that is gone is still found disposed when it ends.

`PlugAutoOffProofs` proves `PlugType` (`TypeOK`) and `CallsOff` (`StartCallsOff`). The inductive part is `Owned`: a running timer that
nobody has cancelled is the registered one or stray. A print start cancels the registered one, so that of the timers it met
every one is cancelled or stray (`Met`), and a cancelled timer never gets to its switching. `FinishKeeps` and `ScheduleKeeps` are the two steps that
move the registry.

Each is proved for all constants that satisfy the module's named assumption, which TLC evaluates in the runs of that module.

Every safety property of the passing runs is a theorem. Only model-checked: liveness (`ClaimReleased`, `DispatchResolves`, `UpstreamReleased`, `EndReachesViewer`,
`EveryJobReported`, `ConnectsAgain`, `StatusConverges`, `EventRefreshes`, `OffSettled`), which needs `ENABLED` and fairness and is out of the prover's reach.
The inductive invariants were checked by TLC on the instances of the runs before they were proved, those of the door and of the plate also on larger ones (two prints and four door
movements; prints outside the queue, requests and disconnections with two callbacks at once).

## Not modelled

Further work, in the order of what it would add:

1. `DispatchConfirm`: the confirmation's read and write as two steps, against stop and recovery.
2. Heat soak (durable heating state, abort, hand-off), the previous-success gate with resume, the queue order
   (shortest job first with its starvation guard).
3. Temporary files and SD-card cleanup: deletion at the last reference, against dispatch.
4. Usage tracking across restarts, library trash and purge against restores.
5. Chamber-image and external cameras, with the janitor of orphaned processes; a smart plug that is deleted or moved to another printer
   while its timer runs, and failed writes of its mark.

Left out for good: protocol servers, image analysis, outgoing notifications, CRUD
routes and the pages of the browser client. They are I/O around this state or keep none. The pages, their
translations and the API client's methods are most of the repository's lines; what they hold is form state and the query cache,
which `LiveUpdates` models once for all of them.
