----------------------------- MODULE CameraFanout -----------------------------
(***************************************************************************)
(* The camera of one printer: the broadcaster that shares one RTSP stream  *)
(* among viewers, its pump and the generator that owns ffmpeg, the grace   *)
(* period after the last viewer, and /camera/stop.                         *)
(*                                                                         *)
(* Everything runs on one event loop, so a step is what happens between    *)
(* two suspensions. No body under a broadcaster's lock or the registry's   *)
(* suspends: those locks are never waited for and get_or_create with       *)
(* subscribe is one step. A broadcaster keeps its factory and so its       *)
(* stream id: one number stands for both.                                  *)
(***************************************************************************)
EXTENDS Naturals, Sequences, FiniteSets

CONSTANTS
    Viewers,
    Stops,          \* requests to /camera/stop that may run at once
    QueueSize,      \* _SUBSCRIBER_QUEUE_SIZE
    MaxStreams,     \* bound: broadcasters made in all
    MaxReconnects   \* rtsp_reconnect_max of the camera's profile

ASSUME CameraConstants == {QueueSize, MaxStreams, MaxReconnects} \subseteq Nat /\ QueueSize > 0

Streams == 1..MaxStreams
Nobody == 0     \* no broadcaster
Items == {"frame", "gone"}      \* "gone" is _UPSTREAM_GONE
\* "terminating": ffmpeg is stopped for good; "renewing": to be started again.
Phases == {"none", "opening", "spawning", "starting", "streaming", "terminating", "renewing", "closing", "done"}

VARIABLES
    registry, made,     \* _broadcasters[printer]; how many there have been
    stopped, subs,      \* of a broadcaster: _stopped, _subscribers
    pump, cancelled,    \* its pump's phase; cancel() was called and not seen yet
    grace, event,       \* its _grace_task sleeps; _upstream_disconnect is set
    live,               \* the ffmpeg process of its generator runs
    abandoned,          \* streams with an ffmpeg that outlived SIGKILL and was let go
    retries, framed,    \* reconnect_count; it has delivered frames
    active,             \* keys of _active_streams
    buffered,           \* _last_frames has the printer's frame
    at, queue, gone,    \* of a viewer: broadcaster, queue, its browser has left
    missed,             \* history: the end of the upstream found its queue full
    stopPc, waitFor,    \* of a stop request: phase, the pump it awaits,
    victims, todo,      \* the streams it found, those it has not come to yet and
    anew                \* those of them with a process it did not find

hub     == <<registry, made, stopped, grace>>
stream  == <<pump, cancelled, event, retries, framed>>
ffmpeg  == <<live, abandoned, active, buffered>>
viewer  == <<at, gone>>
inbox   == <<queue, missed>>
request == <<stopPc, waitFor, victims, todo, anew>>
vars == <<hub, subs, stream, ffmpeg, viewer, inbox, request>>

Init ==
    /\ registry = Nobody /\ made = 0
    /\ stopped = [b \in Streams |-> FALSE] /\ grace = [b \in Streams |-> FALSE]
    /\ subs = [b \in Streams |-> {}]
    /\ pump = [b \in Streams |-> "none"] /\ cancelled = [b \in Streams |-> FALSE]
    /\ event = [b \in Streams |-> FALSE] /\ retries = [b \in Streams |-> 0]
    /\ framed = [b \in Streams |-> FALSE]
    /\ live = [b \in Streams |-> FALSE] /\ abandoned = {} /\ active = {} /\ buffered = FALSE
    /\ at = [v \in Viewers |-> Nobody] /\ gone = [v \in Viewers |-> FALSE]
    /\ queue = [v \in Viewers |-> <<>>] /\ missed = [v \in Viewers |-> FALSE]
    /\ stopPc = [r \in Stops |-> "idle"] /\ waitFor = [r \in Stops |-> Nobody]
    /\ victims = [r \in Stops |-> {}] /\ todo = [r \in Stops |-> {}] /\ anew = [r \in Stops |-> {}]

------------------------------------------------------------------------------
\* The key of a stream in _active_streams: one per instance, not per printer.
StreamIdPerPrinter(b) == 1      \* mutant
StreamId(b) == b

Running(b) == pump[b] \notin {"none", "done"}

\* get_or_create_broadcaster: a stopped broadcaster is replaced.
ReusableWatched == registry # Nobody /\ ~stopped[registry] /\ subs[registry] # {}      \* mutant
Reusable == registry # Nobody /\ ~stopped[registry]

\* put_nowait to every subscriber: a full queue drops the item.
HasRoomOffByOne(v) == Len(queue[v]) <= QueueSize      \* mutant
HasRoom(v) == Len(queue[v]) < QueueSize

Put(b, item) ==
    queue' = [v \in Viewers |-> IF v \in subs[b] /\ HasRoom(v)
                                THEN Append(queue[v], item) ELSE queue[v]]

\* camera_stream: look the broadcaster up, subscribe, start the pump if none runs.
Attach(v) ==
    LET b == IF Reusable THEN registry ELSE made + 1 IN
    /\ at[v] = Nobody /\ b \in Streams
    /\ registry' = b /\ made' = IF Reusable THEN made ELSE b
    /\ grace' = [grace EXCEPT ![b] = FALSE]
    /\ subs' = [subs EXCEPT ![b] = @ \cup {v}]
    /\ at' = [at EXCEPT ![v] = b] /\ gone' = [gone EXCEPT ![v] = FALSE]
    /\ queue' = [queue EXCEPT ![v] = <<>>] /\ missed' = [missed EXCEPT ![v] = FALSE]
    /\ IF Running(b)
       THEN UNCHANGED stream
       ELSE /\ pump' = [pump EXCEPT ![b] = "opening"]
            /\ event' = [event EXCEPT ![b] = FALSE]
            /\ retries' = [retries EXCEPT ![b] = 0]
            /\ framed' = [framed EXCEPT ![b] = FALSE]
            /\ UNCHANGED cancelled
    /\ UNCHANGED <<stopped, ffmpeg, request>>

\* unsubscribe; the last one to leave starts the grace period.
StartsGraceBefore(b, v) == subs[b] = {} /\ ~stopped[b]      \* mutant
StartsGrace(b, v) == subs[b] = {v} /\ ~stopped[b]

Unsubscribe(v) ==
    LET b == at[v] IN
    /\ grace' = [grace EXCEPT ![b] = @ \/ StartsGrace(b, v)]
    /\ subs' = [subs EXCEPT ![b] = @ \ {v}]
    /\ at' = [at EXCEPT ![v] = Nobody] /\ gone' = [gone EXCEPT ![v] = FALSE]
    /\ queue' = [queue EXCEPT ![v] = <<>>] /\ missed' = [missed EXCEPT ![v] = FALSE]
    /\ UNCHANGED <<registry, made, stopped, stream, ffmpeg, request>>

\* iter_subscriber: a chunk is sent; the end of the upstream ends the response.
Receive(v) ==
    /\ at[v] # Nobody /\ queue[v] # <<>>
    /\ IF Head(queue[v]) = "gone" \/ gone[v]
       THEN Unsubscribe(v)
       ELSE /\ queue' = [queue EXCEPT ![v] = Tail(@)]
            /\ UNCHANGED <<hub, subs, stream, ffmpeg, viewer, missed, request>>

\* The browser closes its connection; the server notices later.
Leave(v) ==
    /\ at[v] # Nobody /\ ~gone[v]
    /\ gone' = [gone EXCEPT ![v] = TRUE]
    /\ UNCHANGED <<hub, subs, stream, ffmpeg, at, inbox, request>>

NoticeGone(v) == at[v] # Nobody /\ gone[v] /\ Unsubscribe(v)

------------------------------------------------------------------------------
\* _grace_then_stop, after its sleep: checked again, then torn down.
GraceExpires(b) ==
    /\ grace[b]
    /\ grace' = [grace EXCEPT ![b] = FALSE]
    /\ IF subs[b] # {} \/ stopped[b]
       THEN UNCHANGED <<stopped, event, cancelled>>
       ELSE /\ stopped' = [stopped EXCEPT ![b] = TRUE]
            /\ event' = [event EXCEPT ![b] = TRUE]
            /\ cancelled' = [cancelled EXCEPT ![b] = Running(b)]
    /\ UNCHANGED <<registry, made, subs, pump, retries, framed, ffmpeg, viewer, inbox, request>>

\* The generator checks the disconnect event before it connects.
Open(b) ==
    /\ pump[b] = "opening" /\ ~cancelled[b] /\ ~event[b]
    /\ pump' = [pump EXCEPT ![b] = "spawning"]
    /\ UNCHANGED <<hub, subs, cancelled, event, retries, framed, ffmpeg, viewer, inbox, request>>

\* ffmpeg runs and is registered; it is given 0.1 s to fail.
Spawn(b) ==
    /\ pump[b] = "spawning" /\ ~cancelled[b]
    /\ pump' = [pump EXCEPT ![b] = "starting"]
    /\ live' = [live EXCEPT ![b] = TRUE]
    /\ active' = active \cup {StreamId(b)}
    /\ anew' = [r \in Stops |-> anew[r] \cup ({b} \cap todo[r])]
    /\ UNCHANGED <<hub, subs, cancelled, event, retries, framed, abandoned, buffered, viewer, inbox,
                   stopPc, waitFor, victims, todo>>

\* ffmpeg ends: the printer dropped the session or could not be reached.
Dies(b) ==
    /\ live[b] /\ pump[b] \in {"starting", "streaming"}
    /\ live' = [live EXCEPT ![b] = FALSE]
    /\ UNCHANGED <<hub, subs, stream, abandoned, active, buffered, viewer, inbox, request>>

\* The operating system ends a killed ffmpeg at last, if ever.
Reaped(b) ==
    /\ b \in abandoned /\ abandoned' = abandoned \ {b}
    /\ UNCHANGED <<hub, subs, stream, live, active, buffered, viewer, inbox, request>>

\* _terminate_ffmpeg: SIGTERM, after 2 s SIGKILL, and after 2 s more the wait is
\* given up although the process may still be there.
LetGo(b) ==
    /\ live' = [live EXCEPT ![b] = FALSE]
    /\ abandoned' \in {abandoned, abandoned \cup {c \in {b} : live[c]}}

\* The generator's finally up to its first suspension: its own key goes, and the
\* printer's frame unless another stream is registered.
ReleasesFrameAlways(others) == TRUE      \* mutant
ReleasesFrame(others) == others = {}

Finish(b) ==
    /\ pump' = [pump EXCEPT ![b] = "closing"]
    /\ active' = active \ {StreamId(b)}
    /\ buffered' = (buffered /\ ~ReleasesFrame(active'))
    /\ framed' = [framed EXCEPT ![b] = FALSE]
    /\ retries' = [retries EXCEPT ![b] = 0]

Reconnect(b) ==
    /\ pump' = [pump EXCEPT ![b] = "opening"]
    /\ retries' = [retries EXCEPT ![b] = @ + 1]
    /\ UNCHANGED <<active, buffered, framed>>

\* Cancelled while connecting, or told to stop before it connects.
GiveUp(b) ==
    /\ \/ cancelled[b] /\ pump[b] \in {"opening", "spawning", "starting"}
       \/ event[b] /\ pump[b] = "opening"
    /\ Finish(b)
    /\ cancelled' = [cancelled EXCEPT ![b] = FALSE]
    /\ UNCHANGED <<hub, subs, event, live, abandoned, viewer, inbox, request>>

\* After 0.1 s: an ffmpeg that failed at the first attempt is reported to viewers.
Started(b) ==
    /\ pump[b] = "starting" /\ ~cancelled[b]
    /\ \/ /\ live[b]
          /\ pump' = [pump EXCEPT ![b] = "streaming"]
          /\ UNCHANGED <<active, buffered, framed, retries, queue>>
       \/ ~live[b] /\ ~framed[b] /\ retries[b] = 0 /\ Finish(b) /\ Put(b, "frame")
       \/ /\ ~live[b] /\ (framed[b] \/ retries[b] > 0) /\ UNCHANGED queue
          /\ IF retries[b] < MaxReconnects THEN Reconnect(b) ELSE Finish(b)
    /\ UNCHANGED <<hub, subs, cancelled, event, live, abandoned, viewer, missed, request>>

Frame(b) ==
    /\ pump[b] = "streaming" /\ live[b] /\ ~event[b] /\ ~cancelled[b]
    /\ Put(b, "frame")
    /\ framed' = [framed EXCEPT ![b] = TRUE] /\ buffered' = TRUE
    /\ UNCHANGED <<hub, subs, pump, cancelled, event, retries, live, abandoned, active, viewer, missed, request>>

\* The read ends the stream: at the end of ffmpeg's output, or after 30 s without
\* any from an ffmpeg that runs. Either way it is terminated before a reconnection.
StreamEnds(b) ==
    /\ pump[b] = "streaming" /\ ~cancelled[b]
    /\ pump' = [pump EXCEPT ![b] = "renewing"]
    /\ UNCHANGED <<hub, subs, cancelled, event, retries, framed, ffmpeg, viewer, inbox, request>>
EndOfOutput(b) == ~live[b] /\ StreamEnds(b)
ReadTimeout(b) == live[b] /\ StreamEnds(b)

\* process is forgotten; reconnect unless the stream left the registry meanwhile.
Renewed(b) ==
    /\ pump[b] = "renewing" /\ ~cancelled[b]
    /\ LetGo(b)
    /\ IF StreamId(b) \in active /\ retries[b] < MaxReconnects
       THEN Reconnect(b)
       ELSE Finish(b)
    /\ UNCHANGED <<hub, subs, cancelled, event, viewer, inbox, request>>

\* Told to stop or cancelled while reading: terminate ffmpeg, which takes seconds.
Terminate(b) ==
    /\ pump[b] = "streaming" /\ (event[b] \/ cancelled[b])
    /\ pump' = [pump EXCEPT ![b] = "terminating"]
    /\ cancelled' = [cancelled EXCEPT ![b] = FALSE]
    /\ UNCHANGED <<hub, subs, event, retries, framed, ffmpeg, viewer, inbox, request>>

Terminated(b) ==
    /\ pump[b] = "terminating" /\ ~cancelled[b]
    /\ LetGo(b) /\ Finish(b)
    /\ UNCHANGED <<hub, subs, cancelled, event, viewer, inbox, request>>

\* A cancellation ends the wait for ffmpeg: the generator's finally terminates it.
Interrupted(b) ==
    /\ pump[b] \in {"terminating", "renewing"} /\ cancelled[b]
    /\ Finish(b)
    /\ cancelled' = [cancelled EXCEPT ![b] = FALSE]
    /\ UNCHANGED <<hub, subs, event, live, abandoned, viewer, inbox, request>>

\* The rest of the generator's finally, then the pump's: the subscribers are told.
NotifiesNone(b) == {}      \* mutant
Notifies(b) == subs[b]

\* A stop that terminated the process waits for its exit from earlier on than the
\* generator, and the generator's last suspensions come after that exit.
AwaitedByStop(b) ==
    \E r \in Stops : stopPc[r] = "sweeping" /\ b \in victims[r] \ todo[r]
                   /\ \A c \in victims[r] \ todo[r] : c <= b

Close(b) ==
    /\ pump[b] = "closing" /\ ~AwaitedByStop(b)
    /\ pump' = [pump EXCEPT ![b] = "done"]
    /\ LetGo(b)
    /\ cancelled' = [cancelled EXCEPT ![b] = FALSE]
    /\ queue' = [v \in Viewers |-> IF v \in Notifies(b) /\ HasRoom(v)
                                   THEN Append(queue[v], "gone") ELSE queue[v]]
    /\ missed' = [v \in Viewers |-> missed[v] \/ (v \in subs[b] /\ ~HasRoom(v))]
    /\ UNCHANGED <<hub, subs, event, retries, framed, active, buffered, viewer, request>>

------------------------------------------------------------------------------
\* stop_camera_stream, the sweep over its snapshot of _active_streams, the oldest
\* first: each stream is told to stop; a process of the snapshot that still runs is
\* terminated and awaited, and may outlast that; in the end the entries go.
Sweep(r, found, rest, spared) ==
    LET alive == {b \in rest \ spared : live[b]} IN
    IF alive = {}
    THEN /\ event' = [b \in Streams |-> event[b] \/ b \in rest]
         /\ active' = active \ {StreamId(b) : b \in found}
         /\ stopPc' = [stopPc EXCEPT ![r] = "idle"]
         /\ victims' = [victims EXCEPT ![r] = {}] /\ todo' = [todo EXCEPT ![r] = {}]
         /\ anew' = [anew EXCEPT ![r] = {}]
         /\ UNCHANGED live
    ELSE LET b == CHOOSE b \in alive : \A c \in alive : b <= c IN
         /\ event' = [c \in Streams |-> event[c] \/ (c \in rest /\ c <= b)]
         /\ \E outlasts \in BOOLEAN : live' = [live EXCEPT ![b] = outlasts]
         /\ stopPc' = [stopPc EXCEPT ![r] = "sweeping"]
         /\ victims' = [victims EXCEPT ![r] = found] /\ todo' = [todo EXCEPT ![r] = {c \in rest : c > b}]
         /\ anew' = [anew EXCEPT ![r] = spared]
         /\ UNCHANGED active

Registered == {b \in Streams : StreamId(b) \in active}

\* No subscriber is attached: the broadcaster leaves the registry, is stopped and
\* its pump cancelled. Without a pump to await, the sweep begins at once.
StopRequest(r) ==
    LET b == registry
        stops == b # Nobody /\ ~stopped[b]
        waits == stops /\ Running(b)
    IN
    /\ stopPc[r] = "idle"
    /\ stops => subs[b] = {}
    /\ registry' = Nobody
    /\ IF stops
       THEN /\ stopped' = [stopped EXCEPT ![b] = TRUE]
            /\ grace' = [grace EXCEPT ![b] = FALSE]
            /\ cancelled' = [cancelled EXCEPT ![b] = Running(b)]
       ELSE UNCHANGED <<stopped, grace, cancelled>>
    /\ IF waits
       THEN /\ event' = [event EXCEPT ![b] = TRUE]
            /\ stopPc' = [stopPc EXCEPT ![r] = "waiting"] /\ waitFor' = [waitFor EXCEPT ![r] = b]
            /\ UNCHANGED <<live, active, victims, todo, anew>>
       ELSE Sweep(r, Registered, Registered, {}) /\ UNCHANGED waitFor
    /\ UNCHANGED <<made, subs, pump, retries, framed, abandoned, buffered, viewer, inbox>>

StopContinues(r) ==
    /\ \/ /\ stopPc[r] = "waiting" /\ pump[waitFor[r]] = "done"
          /\ Sweep(r, Registered, Registered, {})
       \/ stopPc[r] = "sweeping" /\ Sweep(r, victims[r], todo[r], anew[r])
    /\ waitFor' = [waitFor EXCEPT ![r] = Nobody]
    /\ UNCHANGED <<hub, subs, pump, cancelled, retries, framed, abandoned, buffered, viewer, inbox>>

Generator(b) ==
    \/ Open(b) \/ Spawn(b) \/ GiveUp(b) \/ Started(b) \/ Frame(b) \/ EndOfOutput(b)
    \/ ReadTimeout(b) \/ Renewed(b) \/ Terminate(b) \/ Terminated(b) \/ Interrupted(b) \/ Close(b)

Next ==
    \/ \E v \in Viewers : Attach(v) \/ Receive(v) \/ Leave(v) \/ NoticeGone(v)
    \/ \E b \in Streams : GraceExpires(b) \/ Dies(b) \/ Reaped(b) \/ Generator(b)
    \/ \E r \in Stops : StopRequest(r) \/ StopContinues(r)

Spec == Init /\ [][Next]_vars

\* The event loop runs what is ready and timers expire; viewers read what they
\* are sent. A printer need not send frames, a killed ffmpeg need not end, a read
\* need not time out, and no request is bound to come.
Fairness ==
    /\ \A v \in Viewers : WF_vars(Receive(v)) /\ WF_vars(NoticeGone(v))
    /\ \A b \in Streams :
        /\ WF_vars(GraceExpires(b))
        /\ WF_vars(Open(b) \/ Spawn(b) \/ GiveUp(b) \/ Started(b) \/ EndOfOutput(b))
        /\ WF_vars(Terminate(b) \/ Terminated(b) \/ Renewed(b) \/ Interrupted(b) \/ Close(b))
    /\ \A r \in Stops : WF_vars(StopContinues(r))

FairSpec == Spec /\ Fairness

------------------------------------------------------------------------------
HubType ==
    /\ registry \in Streams \cup {Nobody} /\ made \in 0..MaxStreams
    /\ stopped \in [Streams -> BOOLEAN] /\ grace \in [Streams -> BOOLEAN]
    /\ subs \in [Streams -> SUBSET Viewers]
StreamType ==
    /\ pump \in [Streams -> Phases] /\ retries \in [Streams -> 0..MaxReconnects]
    /\ cancelled \in [Streams -> BOOLEAN] /\ event \in [Streams -> BOOLEAN]
    /\ framed \in [Streams -> BOOLEAN] /\ live \in [Streams -> BOOLEAN]
    /\ abandoned \subseteq Streams /\ active \subseteq Streams /\ buffered \in BOOLEAN
ViewerType ==
    /\ at \in [Viewers -> Streams \cup {Nobody}]
    /\ gone \in [Viewers -> BOOLEAN] /\ missed \in [Viewers -> BOOLEAN]
    /\ queue \in [Viewers -> Seq(Items)] /\ \A v \in Viewers : Len(queue[v]) <= QueueSize
RequestType ==
    /\ stopPc \in [Stops -> {"idle", "waiting", "sweeping"}]
    /\ waitFor \in [Stops -> Streams \cup {Nobody}]
    /\ victims \in [Stops -> SUBSET Streams] /\ todo \in [Stops -> SUBSET Streams]
    /\ anew \in [Stops -> SUBSET Streams]

\* The domain of every variable; a viewer's queue keeps its bound.
TypeOK == HubType /\ StreamType /\ ViewerType /\ RequestType

\* Generators hold two running ffmpeg processes of one printer only while the
\* broadcaster of one of them is stopped and being torn down: viewers never keep two
\* upstreams open. An ffmpeg that outlives SIGKILL is not held any more.
OneUpstream ==
    \A b, c \in Streams : live[b] /\ live[c] /\ b # c => stopped[b] \/ stopped[c]

\* While viewers watch a running ffmpeg that was not told to stop, is_stream_active
\* sees it: a stream that departs does not take a successor's registration with it.
\* The guards that keep a snapshot from opening a second camera connection read it.
ViewedIsRegistered ==
    \A b \in Streams : live[b] /\ subs[b] # {} /\ ~event[b] => StreamId(b) \in active

\* A registered stream that has delivered frames and was not told to stop has its
\* frame to reuse: a departing stream does not clean up its successor's buffer.
SuccessorKeepsFrame ==
    \A b \in Streams : framed[b] /\ StreamId(b) \in active /\ ~event[b] => buffered

\* An upstream nobody watches is torn down, whatever its generator was doing when
\* the last viewer left, unless a viewer comes back to it: its ffmpeg has ended or
\* was killed and let go.
UpstreamReleased ==
    \A b \in Streams : (subs[b] = {} /\ Running(b)) ~> (subs[b] # {} \/ (~Running(b) /\ ~live[b]))

\* A viewer whose upstream has ended is told, unless its queue was full then: its
\* response ends, or another viewer has started the upstream again.
EndReachesViewer ==
    \A v \in Viewers : \A b \in Streams :
        (at[v] = b /\ pump[b] = "done" /\ ~missed[v]) ~> (at[v] # b \/ pump[b] # "done")

\* What stop_camera_stream promises with its reference count: it terminates no
\* stream to which a viewer is attached.
StopSparesViewers ==
    [][\A r \in Stops, b \in Streams :
        /\ <<victims[r], todo[r]>>' # <<victims[r], todo[r]>>
        /\ live[b] /\ ~live'[b]
        => subs[b] = {}]_vars
=============================================================================
