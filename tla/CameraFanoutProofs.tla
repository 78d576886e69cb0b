-------------------------- MODULE CameraFanoutProofs --------------------------
(***************************************************************************)
(* Type correctness of the camera fan-out, that the viewers of one printer *)
(* never hold two upstreams open, and that the registrations and the frame *)
(* of a stream survive its predecessors and stops, for any number of       *)
(* viewers, stop requests, broadcasters, queue size and reconnections.     *)
(***************************************************************************)
EXTENDS CameraFanout, TLAPS, WellFoundedInduction

\* Every broadcaster that was ever used is the registered one or stopped.
RetiredInv == \A b \in Streams : (pump[b] # "none" \/ live[b]) => b = registry \/ stopped[b]

\* Broadcasters are made one after the other, the newest alone is registered, and
\* every one that has left the registry, or was replaced in it, is stopped.
MadeInv ==
    /\ registry \in {Nobody, made}
    /\ \A b \in Streams : b <= made /\ b # registry => stopped[b]
    /\ \A b \in Streams : pump[b] # "none" \/ b \in active => b <= made

\* A cancelled pump was told to stop; a process runs only while its generator does;
\* a generator that terminates it, or has left it behind, was told to stop.
EndInv ==
    \A b \in Streams :
        /\ cancelled[b] => event[b] /\ Running(b)
        /\ live[b] => pump[b] \in {"starting", "streaming", "terminating", "renewing", "closing"}
        /\ pump[b] = "terminating" => event[b]
        /\ live[b] /\ pump[b] = "closing" => event[b]

\* What a sweep has come to: those streams were told to stop, and one of them that
\* is not stopped, which only the newest can be, has its generator's end before it.
Visited(r) == victims[r] \ todo[r]

SweepInv ==
    \A r \in Stops :
        /\ stopPc[r] # "sweeping" => victims[r] = {}
        /\ todo[r] \subseteq victims[r]
        /\ \A b \in victims[r] : b <= made
        /\ \A b \in Visited(r) : event[b] /\ (stopped[b] \/ Running(b)) /\ \A c \in todo[r] : b < c

\* A stream that was not told to stop is registered while its process runs, and
\* from its first frame on; then the printer's frame is there.
RegisteredInv ==
    \A b \in Streams : ~event[b] =>
        /\ live[b] => b \in active
        /\ framed[b] => b \in active /\ buffered

IInv == TypeOK /\ RetiredInv

StreamInv == MadeInv /\ EndInv /\ SweepInv /\ RegisteredInv

\* What the assumption on the constants gives.
LEMMA Limits == MaxStreams \in Nat /\ MaxReconnects \in Nat /\ QueueSize \in Nat /\ QueueSize > 0
BY CameraConstants

USE DEF Streams, Nobody, Items, Phases

\* The initial state has the invariant.
LEMMA InitIInv == Init => IInv
<1> SUFFICES ASSUME Init PROVE IInv
  OBVIOUS
<1>1. queue \in [Viewers -> Seq(Items)] /\ \A v \in Viewers : Len(queue[v]) = 0
  BY DEF Init
<1>2. HubType
  BY Limits DEF Init, HubType
<1>3. StreamType
  <2>1. pump \in [Streams -> Phases]
    BY DEF Init
  <2>4. retries \in [Streams -> 0..MaxReconnects]
    BY Limits DEF Init
  <2>5. active \subseteq Streams /\ abandoned \subseteq Streams
    BY DEF Init
  <2>6. buffered \in BOOLEAN
    BY DEF Init
  <2>2. cancelled \in [Streams -> BOOLEAN] /\ event \in [Streams -> BOOLEAN]
    BY DEF Init
  <2>3. framed \in [Streams -> BOOLEAN] /\ live \in [Streams -> BOOLEAN]
    BY DEF Init
  <2> QED
    BY <2>1, <2>2, <2>3, <2>4, <2>5, <2>6 DEF StreamType
<1>4. RequestType
  BY Limits DEF Init, RequestType
<1> QED
  BY <1>1, <1>2, <1>3, <1>4, Limits DEF Init, IInv, TypeOK, ViewerType, RetiredInv

\* An item is put into the queues that have room.
LEMMA PutType ==
  ASSUME ViewerType, NEW item \in Items, NEW told \in SUBSET Viewers,
         queue' = [v \in Viewers |-> IF v \in told /\ HasRoom(v) THEN Append(queue[v], item) ELSE queue[v]]
  PROVE queue' \in [Viewers -> Seq(Items)] /\ \A v \in Viewers : Len(queue'[v]) <= QueueSize
<1>1. ASSUME NEW v \in Viewers PROVE queue'[v] \in Seq(Items) /\ Len(queue'[v]) <= QueueSize
  <2>1. queue[v] \in Seq(Items) /\ Len(queue[v]) <= QueueSize /\ Len(queue[v]) \in Nat
    BY DEF ViewerType
  <2>2. CASE v \in told /\ HasRoom(v)
    <3>1. queue'[v] = Append(queue[v], item) /\ Len(queue[v]) < QueueSize
      BY <2>2 DEF HasRoom
    <3> QED
      BY <2>1, <3>1, Limits
  <2>3. CASE ~(v \in told /\ HasRoom(v))
    BY <2>1, <2>3
  <2> QED
    BY <2>2, <2>3
<1> QED
  BY <1>1

\* A viewer that leaves.
LEMMA UnsubscribeType == ASSUME TypeOK, NEW v \in Viewers, at[v] # Nobody, Unsubscribe(v) PROVE TypeOK'
<1>1. at[v] \in Streams
  BY DEF TypeOK, ViewerType
<1>2. HubType'
  BY <1>1 DEF Unsubscribe, TypeOK, HubType, StartsGrace
<1>3. ViewerType'
  <2>1. <<>> \in Seq(Items) /\ Len(<<>>) = 0
    OBVIOUS
  <2>2. queue' = [queue EXCEPT ![v] = <<>>]
    BY DEF Unsubscribe
  <2>3. queue' \in [Viewers -> Seq(Items)] /\ \A w \in Viewers : Len(queue'[w]) <= QueueSize
    BY <2>1, <2>2, Limits DEF TypeOK, ViewerType
  <2> QED
    BY <2>3 DEF Unsubscribe, TypeOK, ViewerType
<1> QED
  BY <1>2, <1>3 DEF Unsubscribe, TypeOK, StreamType, RequestType, stream, ffmpeg, request

\* The generator's end.
LEMMA FinishType == ASSUME StreamType, NEW b \in Streams, Finish(b)
  PROVE /\ pump' \in [Streams -> Phases] /\ active' \subseteq Streams /\ buffered' \in BOOLEAN
        /\ framed' \in [Streams -> BOOLEAN] /\ retries' \in [Streams -> 0..MaxReconnects]
        /\ pump' = [pump EXCEPT ![b] = "closing"]
BY Limits DEF Finish, StreamType, StreamId, ReleasesFrame

\* A set of naturals that is not empty has a smallest element.
LEMMA LeastNatural == ASSUME NEW S \in SUBSET Nat, S # {} PROVE \E c \in S : \A d \in S : c <= d
<1> DEFINE R == OpToRel(<, Nat)
<1>1. \A c, d \in Nat : d < c => <<d, c>> \in R
  BY DEF OpToRel
<1>2. \E c \in S : \A d \in S : ~(<<d, c>> \in R)
  <2>1. IsWellFoundedOn(R, Nat)
    BY NatLessThanWellFounded
  <2> HIDE DEF R
  <2> QED
    BY <2>1, WFMin
<1> HIDE DEF R
<1>3. PICK c \in S : \A d \in S : ~(<<d, c>> \in R)
  BY <1>2
<1>4. ASSUME NEW d \in S PROVE c <= d
  <2>1. c \in Nat /\ d \in Nat
    OBVIOUS
  <2>2. ~(d < c)
    BY <1>1, <1>3, <2>1
  <2> QED
    BY <2>1, <2>2
<1> QED
  BY <1>4

\* What a stop's sweep does: it is over, or it comes to the next running process.
SweepEnds(r, found, rest) ==
    /\ event' = [c \in Streams |-> event[c] \/ c \in rest]
    /\ active' = active \ found /\ live' = live
    /\ stopPc' = [stopPc EXCEPT ![r] = "idle"]
    /\ victims' = [victims EXCEPT ![r] = {}] /\ todo' = [todo EXCEPT ![r] = {}]
    /\ anew' = [anew EXCEPT ![r] = {}]

SweepStopsAt(b, r, found, rest, spared) ==
    /\ live[b]
    /\ event' = [c \in Streams |-> event[c] \/ (c \in rest /\ c <= b)]
    /\ active' = active /\ \E outlasts \in BOOLEAN : live' = [live EXCEPT ![b] = outlasts]
    /\ stopPc' = [stopPc EXCEPT ![r] = "sweeping"]
    /\ victims' = [victims EXCEPT ![r] = found] /\ todo' = [todo EXCEPT ![r] = {c \in rest : c > b}]
    /\ anew' = [anew EXCEPT ![r] = spared]

LEMMA SweepCases ==
  ASSUME NEW r \in Stops, NEW found \in SUBSET Streams, NEW rest \in SUBSET Streams, NEW spared \in SUBSET Streams,
         Sweep(r, found, rest, spared)
  PROVE  SweepEnds(r, found, rest) \/ \E b \in rest : SweepStopsAt(b, r, found, rest, spared)
<1> DEFINE alive == {b \in rest \ spared : live[b]}
<1>1. CASE alive = {}
  BY <1>1 DEF Sweep, StreamId, SweepEnds
<1>2. CASE alive # {}
  <2> DEFINE b == CHOOSE b \in alive : \A c \in alive : b <= c
  <2>1. \E c \in alive : \A d \in alive : c <= d
    <3>1. alive \subseteq Nat
      <4>1. \A c \in 1..MaxStreams : c \in Nat
        BY Limits
      <4> QED
        BY <4>1
    <3> HIDE DEF alive
    <3> QED
      BY <1>2, <3>1, LeastNatural
  <2>2. b \in alive
    BY <2>1
  <2>3. /\ event' = [c \in Streams |-> event[c] \/ (c \in rest /\ c <= b)]
        /\ \E outlasts \in BOOLEAN : live' = [live EXCEPT ![b] = outlasts]
        /\ stopPc' = [stopPc EXCEPT ![r] = "sweeping"] /\ active' = active
        /\ victims' = [victims EXCEPT ![r] = found] /\ todo' = [todo EXCEPT ![r] = {c \in rest : c > b}]
        /\ anew' = [anew EXCEPT ![r] = spared]
    BY <1>2 DEF Sweep
  <2> HIDE DEF b
  <2> QED
    BY <2>2, <2>3 DEF SweepStopsAt
<1> QED
  BY <1>1, <1>2

\* A stop's sweep keeps the types and starts no process.
LEMMA SweepType ==
  ASSUME StreamType, RequestType, NEW r \in Stops, NEW found \in SUBSET Streams, NEW rest \in SUBSET Streams,
         NEW spared \in SUBSET Streams, Sweep(r, found, rest, spared)
  PROVE /\ event' \in [Streams -> BOOLEAN] /\ active' \subseteq Streams /\ live' \in [Streams -> BOOLEAN]
        /\ stopPc' \in [Stops -> {"idle", "waiting", "sweeping"}]
        /\ victims' \in [Stops -> SUBSET Streams] /\ todo' \in [Stops -> SUBSET Streams]
        /\ anew' \in [Stops -> SUBSET Streams]
        /\ \A b \in Streams : live'[b] => live[b]
<1>1. CASE SweepEnds(r, found, rest)
  BY <1>1 DEF SweepEnds, StreamType, RequestType
<1>2. ASSUME NEW b \in rest, SweepStopsAt(b, r, found, rest, spared)
      PROVE /\ event' \in [Streams -> BOOLEAN] /\ active' \subseteq Streams /\ live' \in [Streams -> BOOLEAN]
            /\ stopPc' \in [Stops -> {"idle", "waiting", "sweeping"}]
            /\ victims' \in [Stops -> SUBSET Streams] /\ todo' \in [Stops -> SUBSET Streams]
            /\ anew' \in [Stops -> SUBSET Streams]
            /\ \A c \in Streams : live'[c] => live[c]
  <2>1. event' \in [Streams -> BOOLEAN]
    BY <1>2 DEF SweepStopsAt, StreamType
  <2>2. active' \subseteq Streams /\ live' \in [Streams -> BOOLEAN] /\ \A c \in Streams : live'[c] => live[c]
    BY <1>2 DEF SweepStopsAt, StreamType
  <2>3. todo' \in [Stops -> SUBSET Streams]
    <3>1. {c \in rest : c > b} \in SUBSET Streams
      OBVIOUS
    <3> QED
      BY <1>2, <3>1 DEF SweepStopsAt, RequestType
  <2>4. /\ stopPc' \in [Stops -> {"idle", "waiting", "sweeping"}]
        /\ victims' \in [Stops -> SUBSET Streams] /\ anew' \in [Stops -> SUBSET Streams]
    BY <1>2 DEF SweepStopsAt, RequestType
  <2> QED
    BY <2>1, <2>2, <2>3, <2>4
<1> QED
  BY <1>1, <1>2, SweepCases

\* Every step keeps the types.
LEMMA NextType == ASSUME TypeOK, [Next]_vars PROVE TypeOK'
<1> USE Limits DEF TypeOK
<1>1. ASSUME NEW v \in Viewers, Attach(v) PROVE TypeOK'
  <2> DEFINE b == IF Reusable THEN registry ELSE made + 1
  <2>1. b \in Streams /\ registry' = b /\ made' \in 0..MaxStreams
    BY <1>1 DEF Attach, HubType
  <2>2. /\ grace' = [grace EXCEPT ![b] = FALSE] /\ subs' = [subs EXCEPT ![b] = @ \cup {v}]
        /\ at' = [at EXCEPT ![v] = b] /\ gone' = [gone EXCEPT ![v] = FALSE]
        /\ queue' = [queue EXCEPT ![v] = <<>>] /\ missed' = [missed EXCEPT ![v] = FALSE]
        /\ UNCHANGED <<stopped, ffmpeg, request>>
    BY <1>1 DEF Attach
  <2>3. \/ UNCHANGED stream
        \/ /\ pump' = [pump EXCEPT ![b] = "opening"] /\ event' = [event EXCEPT ![b] = FALSE]
           /\ retries' = [retries EXCEPT ![b] = 0] /\ framed' = [framed EXCEPT ![b] = FALSE]
           /\ UNCHANGED cancelled
    BY <1>1 DEF Attach
  <2> HIDE DEF b
  <2>4. HubType'
    BY <2>1, <2>2 DEF HubType
  <2>5. StreamType'
    <3>1. UNCHANGED <<live, abandoned, active, buffered>>
      BY <2>2 DEF ffmpeg
    <3>2. CASE UNCHANGED stream
      BY <3>1, <3>2 DEF StreamType, stream
    <3>3. CASE ~UNCHANGED stream
      <4>1. retries' \in [Streams -> 0..MaxReconnects]
        <5>1. 0 \in 0..MaxReconnects /\ retries \in [Streams -> 0..MaxReconnects]
          BY DEF StreamType
        <5>2. retries' = [retries EXCEPT ![b] = 0]
          BY <2>3, <3>3
        <5> QED
          BY <2>1, <5>1, <5>2
      <4>2. pump' \in [Streams -> Phases]
        BY <2>1, <2>3, <3>1, <3>3 DEF StreamType
      <4>3. event' \in [Streams -> BOOLEAN] /\ framed' \in [Streams -> BOOLEAN] 
        BY <2>1, <2>3, <3>1, <3>3 DEF StreamType
      <4> QED
        BY <2>1, <2>3, <3>1, <3>3, <4>1, <4>2, <4>3 DEF StreamType
    <3> QED
      BY <3>2, <3>3
  <2>6. ViewerType'
    <3>1. <<>> \in Seq(Items) /\ Len(<<>>) = 0
      OBVIOUS
    <3>2. queue' \in [Viewers -> Seq(Items)] /\ \A w \in Viewers : Len(queue'[w]) <= QueueSize
      BY <2>2, <3>1 DEF ViewerType
    <3> QED
      BY <2>1, <2>2, <3>2 DEF ViewerType
  <2> QED
    BY <2>2, <2>4, <2>5, <2>6 DEF RequestType, request
<1>2. ASSUME NEW v \in Viewers, Receive(v) PROVE TypeOK'
  <2>1. CASE Unsubscribe(v)
    BY <1>2, <2>1, UnsubscribeType DEF Receive
  <2>2. CASE ~Unsubscribe(v)
    <3>1. /\ queue[v] # <<>> /\ queue' = [queue EXCEPT ![v] = Tail(@)]
          /\ UNCHANGED <<hub, subs, stream, ffmpeg, viewer, missed, request>>
      BY <1>2, <2>2 DEF Receive
    <3>2. /\ queue[v] \in Seq(Items) /\ Len(queue[v]) <= QueueSize
          /\ Tail(queue[v]) \in Seq(Items) /\ Len(Tail(queue[v])) <= QueueSize
      BY <3>1 DEF ViewerType
    <3>3. ViewerType'
      BY <3>1, <3>2 DEF ViewerType, viewer
    <3> QED
      BY <3>1, <3>3 DEF HubType, StreamType, RequestType, hub, stream, ffmpeg, request
  <2> QED
    BY <2>1, <2>2
<1>3. ASSUME NEW v \in Viewers, Leave(v) \/ NoticeGone(v) PROVE TypeOK'
  <2>1. CASE Leave(v)
    BY <2>1 DEF Leave, HubType, StreamType, ViewerType, RequestType, hub, stream, ffmpeg, inbox, request
  <2>2. CASE NoticeGone(v)
    BY <2>2, UnsubscribeType DEF NoticeGone
  <2> QED
    BY <1>3, <2>1, <2>2
<1>4. ASSUME NEW b \in Streams, GraceExpires(b) PROVE TypeOK'
  BY <1>4 DEF GraceExpires, Running, HubType, StreamType, ViewerType, RequestType, ffmpeg, viewer, inbox, request
<1>5. ASSUME NEW b \in Streams, Open(b) \/ Spawn(b) \/ Dies(b) \/ Reaped(b) \/ Terminate(b) \/ StreamEnds(b) PROVE TypeOK'
  <2>1. HubType' /\ ViewerType' /\ RequestType'
    BY <1>5 DEF Open, Spawn, Dies, Reaped, Terminate, StreamEnds, HubType, ViewerType, RequestType, hub, viewer, inbox, request
  <2>2. StreamType'
    BY <1>5 DEF Open, Spawn, Dies, Reaped, Terminate, StreamEnds, StreamType, stream, ffmpeg, StreamId
  <2> QED
    BY <2>1, <2>2
<1>6. ASSUME NEW b \in Streams, GiveUp(b) \/ Terminated(b) \/ Interrupted(b) PROVE TypeOK'
  <2>1. Finish(b) /\ UNCHANGED <<hub, subs, event, viewer, inbox, request>>
    BY <1>6 DEF GiveUp, Terminated, Interrupted
  <2>2. cancelled' \in [Streams -> BOOLEAN] /\ live' \in [Streams -> BOOLEAN] /\ abandoned' \subseteq Streams
    BY <1>6 DEF GiveUp, Terminated, Interrupted, LetGo, StreamType
  <2>3. StreamType'
    BY <2>1, <2>2, FinishType DEF StreamType
  <2> QED
    BY <2>1, <2>3 DEF HubType, ViewerType, RequestType, hub, viewer, inbox, request
<1>7. ASSUME NEW b \in Streams, Started(b) \/ Renewed(b) PROVE TypeOK'
  <2>0. live' \in [Streams -> BOOLEAN] /\ abandoned' \subseteq Streams
    BY <1>7 DEF Started, Renewed, LetGo, StreamType
  <2>1. /\ UNCHANGED <<hub, subs, cancelled, event, viewer, missed, request>>
        /\ \/ Finish(b)
           \/ Reconnect(b) /\ retries[b] < MaxReconnects
           \/ pump' = [pump EXCEPT ![b] = "streaming"] /\ UNCHANGED <<active, buffered, framed, retries>>
        /\ queue' = queue \/ Put(b, "frame")
    BY <1>7 DEF Started, Renewed, inbox
  <2>2. StreamType'
    <3>1. CASE Finish(b)
      BY <2>0, <2>1, <3>1, FinishType DEF StreamType
    <3>2. CASE Reconnect(b) /\ retries[b] < MaxReconnects
      BY <2>0, <2>1, <3>2 DEF Reconnect, StreamType
    <3>3. CASE pump' = [pump EXCEPT ![b] = "streaming"] /\ UNCHANGED <<active, buffered, framed, retries>>
      BY <2>0, <2>1, <3>3 DEF StreamType
    <3> QED
      BY <2>1, <3>1, <3>2, <3>3
  <2>3. ViewerType'
    <3>1. queue' \in [Viewers -> Seq(Items)] /\ \A v \in Viewers : Len(queue'[v]) <= QueueSize
      <4>1. CASE queue' = queue
        BY <4>1 DEF ViewerType
      <4>2. CASE Put(b, "frame")
        <5>1. subs[b] \in SUBSET Viewers
          BY DEF HubType
        <5> QED
          BY <4>2, <5>1, PutType DEF Put
      <4> QED
        BY <2>1, <4>1, <4>2
    <3> QED
      BY <2>1, <3>1 DEF ViewerType, viewer
  <2> QED
    BY <2>1, <2>2, <2>3 DEF HubType, RequestType, hub, request
<1>8. ASSUME NEW b \in Streams, Frame(b) PROVE TypeOK'
  <2>1. subs[b] \in SUBSET Viewers
    BY DEF HubType
  <2>2. queue' \in [Viewers -> Seq(Items)] /\ \A v \in Viewers : Len(queue'[v]) <= QueueSize
    BY <1>8, <2>1, PutType DEF Frame, Put
  <2> QED
    BY <1>8, <2>2 DEF Frame, HubType, StreamType, ViewerType, RequestType, hub, viewer, request
<1>9. ASSUME NEW b \in Streams, Close(b) PROVE TypeOK'
  <2>1. subs[b] \in SUBSET Viewers
    BY DEF HubType
  <2>2. queue' \in [Viewers -> Seq(Items)] /\ \A v \in Viewers : Len(queue'[v]) <= QueueSize
    BY <1>9, <2>1, PutType DEF Close, Notifies
  <2>3. ViewerType'
    BY <1>9, <2>2 DEF Close, ViewerType, viewer
  <2> QED
    BY <1>9, <2>3 DEF Close, LetGo, HubType, StreamType, RequestType, hub, viewer, request
<1>10. ASSUME NEW r \in Stops, StopRequest(r) \/ StopContinues(r) PROVE TypeOK'
  <2>1. /\ UNCHANGED <<made, subs, pump, retries, framed, abandoned, buffered, viewer, inbox>>
        /\ registry' \in {registry, Nobody}
        /\ stopped' \in [Streams -> BOOLEAN] /\ grace' \in [Streams -> BOOLEAN] /\ cancelled' \in [Streams -> BOOLEAN]
        /\ waitFor' \in [Stops -> Streams \cup {Nobody}]
    <3>1. CASE StopRequest(r)
      <4>1. /\ registry' = Nobody /\ UNCHANGED <<made, subs, pump, retries, framed, abandoned, buffered, viewer, inbox>>
            /\ waitFor' = waitFor \/ waitFor' = [waitFor EXCEPT ![r] = registry]
        BY <3>1 DEF StopRequest
      <4>2. \/ /\ stopped' = [stopped EXCEPT ![registry] = TRUE] /\ grace' = [grace EXCEPT ![registry] = FALSE]
               /\ cancelled' = [cancelled EXCEPT ![registry] = Running(registry)]
            \/ UNCHANGED <<stopped, grace, cancelled>>
        BY <3>1 DEF StopRequest
      <4> QED
        BY <4>1, <4>2 DEF Running, HubType, StreamType, RequestType
    <3>2. CASE StopContinues(r)
      BY <3>2 DEF StopContinues, hub, HubType, StreamType, RequestType
    <3> QED
      BY <1>10, <3>1, <3>2
  <2>2. /\ event' \in [Streams -> BOOLEAN] /\ active' \subseteq Streams /\ live' \in [Streams -> BOOLEAN]
        /\ stopPc' \in [Stops -> {"idle", "waiting", "sweeping"}]
        /\ victims' \in [Stops -> SUBSET Streams] /\ todo' \in [Stops -> SUBSET Streams]
        /\ anew' \in [Stops -> SUBSET Streams]
    <3>1. CASE \E found, rest, spared \in SUBSET Streams : Sweep(r, found, rest, spared)
      BY <3>1, SweepType
    <3>2. CASE /\ event' = [event EXCEPT ![registry] = TRUE]
               /\ stopPc' = [stopPc EXCEPT ![r] = "waiting"]
               /\ UNCHANGED <<live, active, victims, todo, anew>>
      BY <3>2 DEF StreamType, RequestType
    <3>3. Registered \in SUBSET Streams /\ victims[r] \in SUBSET Streams /\ todo[r] \in SUBSET Streams
          /\ anew[r] \in SUBSET Streams /\ {} \in SUBSET Streams
      BY DEF Registered, RequestType
    <3> QED
      BY <1>10, <3>1, <3>2, <3>3 DEF StopRequest, StopContinues
  <2> QED
    BY <2>1, <2>2 DEF HubType, StreamType, ViewerType, RequestType, viewer, inbox
<1>11. CASE UNCHANGED vars
  BY <1>11 DEF vars, hub, stream, ffmpeg, viewer, inbox, request, HubType, StreamType, ViewerType, RequestType
<1> QED
  BY <1>1, <1>2, <1>3, <1>4, <1>5, <1>6, <1>7, <1>8, <1>9, <1>10, <1>11 DEF Next, Generator, EndOfOutput, ReadTimeout

\* A broadcaster leaves the registry stopped, and a stopped one is never reused.
LEMMA NextRetired == ASSUME IInv, [Next]_vars PROVE RetiredInv'
<1> USE DEF IInv, TypeOK, RetiredInv
<1>1. ASSUME NEW v \in Viewers, Attach(v) PROVE RetiredInv'
  <2> DEFINE b == IF Reusable THEN registry ELSE made + 1
  <2>1. b \in Streams /\ registry' = b /\ UNCHANGED <<stopped, live>>
    BY <1>1 DEF Attach, ffmpeg, HubType
  <2>2. \A c \in Streams \ {b} : pump'[c] = pump[c]
    <3>1. UNCHANGED stream \/ pump' = [pump EXCEPT ![b] = "opening"]
      BY <1>1 DEF Attach
    <3>2. CASE UNCHANGED stream
      BY <3>2 DEF stream
    <3>3. CASE pump' = [pump EXCEPT ![b] = "opening"]
      BY <3>3 DEF StreamType
    <3> QED
      BY <3>1, <3>2, <3>3
  <2>3. \A c \in Streams \ {b} : c = registry => stopped[c]
    BY DEF Reusable
  <2> HIDE DEF b
  <2> QED
    BY <2>1, <2>2, <2>3
<1>2. ASSUME NEW v \in Viewers, Receive(v) \/ Leave(v) \/ NoticeGone(v) PROVE RetiredInv'
  <2>1. UNCHANGED <<registry, stopped, pump, live>>
    BY <1>2 DEF Receive, Leave, NoticeGone, Unsubscribe, hub, stream, ffmpeg
  <2> QED
    BY <2>1
<1>3. ASSUME NEW b \in Streams, GraceExpires(b) \/ Dies(b) \/ Reaped(b) \/ Generator(b) PROVE RetiredInv'
  <2>1. registry' = registry /\ \A c \in Streams : stopped[c] => stopped'[c]
    BY <1>3 DEF GraceExpires, Dies, Reaped, Generator, Open, Spawn, GiveUp, Started, Frame, EndOfOutput, ReadTimeout, StreamEnds, Renewed, Terminate, Terminated, Interrupted, LetGo,
                Close, hub, HubType
  <2>2. \A c \in Streams : pump'[c] # "none" \/ live'[c] => pump[c] # "none" \/ live[c]
    BY <1>3 DEF GraceExpires, Dies, Reaped, Generator, Open, Spawn, GiveUp, Started, Frame, EndOfOutput, ReadTimeout, StreamEnds, Renewed, Terminate, Terminated, Interrupted, LetGo,
                Close, Finish, Reconnect, stream, ffmpeg, StreamType
  <2> QED
    BY <2>1, <2>2
<1>4. ASSUME NEW r \in Stops, StopRequest(r) PROVE RetiredInv'
  <2>1. pump' = pump /\ \A c \in Streams : live'[c] => live[c]
    <3>1. CASE Sweep(r, Registered, Registered, {})
      <4>1. Registered \in SUBSET Streams
        BY DEF Registered
      <4> QED
        BY <1>4, <3>1, <4>1, SweepType DEF StopRequest
    <3> QED
      BY <1>4, <3>1 DEF StopRequest
  <2>2. \A c \in Streams : stopped[c] \/ c = registry => stopped'[c]
    <3>1. CASE registry # Nobody /\ ~stopped[registry]
      <4>1. stopped' = [stopped EXCEPT ![registry] = TRUE]
        BY <1>4, <3>1 DEF StopRequest
      <4> QED
        BY <4>1 DEF HubType
    <3>2. CASE registry = Nobody \/ stopped[registry]
      <4>1. stopped' = stopped
        BY <1>4, <3>2 DEF StopRequest
      <4> QED
        BY <3>2, <4>1
    <3> QED
      BY <3>1, <3>2
  <2> QED
    BY <2>1, <2>2
<1>5. ASSUME NEW r \in Stops, StopContinues(r) PROVE RetiredInv'
  <2>1. pump' = pump /\ UNCHANGED <<registry, stopped>>
    BY <1>5 DEF StopContinues, hub
  <2>2. \A c \in Streams : live'[c] => live[c]
    <3>1. Registered \in SUBSET Streams /\ victims[r] \in SUBSET Streams /\ todo[r] \in SUBSET Streams
          /\ anew[r] \in SUBSET Streams /\ {} \in SUBSET Streams
      BY DEF Registered, RequestType
    <3> QED
      BY <1>5, <3>1, SweepType DEF StopContinues
  <2> QED
    BY <2>1, <2>2
<1>6. CASE UNCHANGED vars
  BY <1>6 DEF vars, hub, stream, ffmpeg
<1> QED
  BY <1>1, <1>2, <1>3, <1>4, <1>5, <1>6 DEF Next

\* What StreamInv is about.
watched == <<registry, made, stopped, pump, cancelled, event, live, framed, active, buffered, stopPc, victims, todo>>

LEMMA Unwatched == ASSUME StreamInv, UNCHANGED watched PROVE StreamInv'
<1>1. MadeInv' /\ EndInv'
  BY DEF watched, StreamInv, MadeInv, EndInv, Running
<1>2. SweepInv' /\ RegisteredInv'
  BY DEF watched, StreamInv, SweepInv, RegisteredInv, Visited, Running
<1> QED
  BY <1>1, <1>2 DEF StreamInv

LEMMA ViewerSteps ==
  ASSUME NEW v \in Viewers, Receive(v) \/ Leave(v) \/ NoticeGone(v) \/ UNCHANGED vars
  PROVE UNCHANGED watched
BY DEF watched, Receive, Leave, NoticeGone, Unsubscribe, vars, hub, stream, ffmpeg, request

\* A broadcaster that is not the newest and has been made is stopped.
LEMMA OlderStopped ==
  ASSUME TypeOK, MadeInv, NEW b \in Streams, NEW c \in Streams, b < c, c <= made
  PROVE stopped[b]
<1>1. b \in Nat /\ c \in Nat /\ made \in Nat /\ b # 0
  BY Limits DEF TypeOK, HubType
<1> QED
  BY <1>1 DEF MadeInv

\* A viewer starts the pump of a broadcaster whose pump does not run.
AttachTo(b) ==
    /\ b \in Streams /\ registry' = b
    /\ \/ b = registry /\ ~stopped[b] /\ made' = made
       \/ b = made + 1 /\ made' = b /\ (registry = Nobody \/ stopped[registry])
    /\ UNCHANGED <<stopped, cancelled, live, active, buffered, stopPc, victims, todo>>
    /\ \/ Running(b) /\ UNCHANGED <<pump, event, framed>>
       \/ /\ ~Running(b)
          /\ pump' = [pump EXCEPT ![b] = "opening"] /\ event' = [event EXCEPT ![b] = FALSE]
          /\ framed' = [framed EXCEPT ![b] = FALSE]

LEMMA AttachSteps == ASSUME NEW v \in Viewers, Attach(v) PROVE \E b \in Streams : AttachTo(b)
<1> DEFINE b == IF Reusable THEN registry ELSE made + 1
<1>1. b \in Streams /\ registry' = b /\ made' = IF Reusable THEN made ELSE b
  BY DEF Attach
<1>2. UNCHANGED <<stopped, live, active, buffered, stopPc, victims, todo>>
  BY DEF Attach, ffmpeg, request
<1>3. \/ Running(b) /\ UNCHANGED <<pump, cancelled, event, framed>>
      \/ /\ ~Running(b) /\ UNCHANGED cancelled
         /\ pump' = [pump EXCEPT ![b] = "opening"] /\ event' = [event EXCEPT ![b] = FALSE]
         /\ framed' = [framed EXCEPT ![b] = FALSE]
  BY DEF Attach, stream
<1>4. \/ b = registry /\ ~stopped[b] /\ made' = made
      \/ b = made + 1 /\ made' = b /\ (registry = Nobody \/ stopped[registry])
  BY <1>1 DEF Reusable
<1> HIDE DEF b
<1> QED
  BY <1>1, <1>2, <1>3, <1>4 DEF AttachTo

\* A stop waits for a pump it told to stop, or sweeps.
LEMMA StopSteps ==
  ASSUME TypeOK, NEW r \in Stops, StopRequest(r) \/ StopContinues(r)
  PROVE /\ UNCHANGED <<made, pump, framed, buffered>>
        /\ \A c \in Streams : stopped[c] => stopped'[c]
        /\ registry' = registry \/ (registry' = Nobody /\ (registry = Nobody \/ stopped'[registry]))
        /\ \A c \in Streams : cancelled'[c] => cancelled[c] \/ (Running(c) /\ event'[c])
        /\ \/ /\ event' \in [Streams -> BOOLEAN] /\ \A c \in Streams : event[c] => event'[c]
              /\ UNCHANGED <<live, active, victims, todo>>
              /\ \A q \in Stops : stopPc'[q] = "sweeping" => stopPc[q] = "sweeping"
              /\ \A q \in Stops : stopPc'[q] # "sweeping" => stopPc[q] # "sweeping"
           \/ \E found, rest, spared \in SUBSET Streams :
                /\ \/ found = Registered /\ rest = Registered
                   \/ found = victims[r] /\ rest = todo[r]
                /\ Sweep(r, found, rest, spared)
<1> USE DEF TypeOK, HubType, StreamType, RequestType
<1>1. CASE StopRequest(r)
  <2>1. UNCHANGED <<made, pump, framed, buffered>> /\ registry' = Nobody
    BY <1>1 DEF StopRequest
  <2>2. CASE registry # Nobody /\ ~stopped[registry]
    <3>1. /\ stopped' = [stopped EXCEPT ![registry] = TRUE]
          /\ cancelled' = [cancelled EXCEPT ![registry] = Running(registry)]
      BY <1>1, <2>2 DEF StopRequest
    <3>2. registry \in Streams
      BY <2>2
    <3>3. CASE Running(registry)
      <4>1. /\ event' = [event EXCEPT ![registry] = TRUE] /\ stopPc[r] = "idle"
            /\ stopPc' = [stopPc EXCEPT ![r] = "waiting"]
            /\ UNCHANGED <<live, active, victims, todo>>
        BY <1>1, <2>2, <3>3 DEF StopRequest
      <4> QED
        BY <2>1, <3>1, <3>2, <3>3, <4>1
    <3>4. CASE ~Running(registry)
      <4>1. Sweep(r, Registered, Registered, {}) /\ Registered \in SUBSET Streams /\ {} \in SUBSET Streams
        BY <1>1, <2>2, <3>4 DEF StopRequest, Registered
      <4>2. \A c \in Streams : cancelled'[c] => cancelled[c]
        BY <3>1, <3>2, <3>4
      <4> QED
        BY <2>1, <3>1, <3>2, <4>1, <4>2
    <3> QED
      BY <3>3, <3>4
  <2>3. CASE registry = Nobody \/ stopped[registry]
    <3>1. /\ UNCHANGED <<stopped, cancelled>>
          /\ Sweep(r, Registered, Registered, {}) /\ Registered \in SUBSET Streams /\ {} \in SUBSET Streams
      BY <1>1, <2>3 DEF StopRequest, Registered
    <3> QED
      BY <2>1, <2>3, <3>1
  <2> QED
    BY <2>2, <2>3
<1>2. CASE StopContinues(r)
  <2>1. UNCHANGED <<made, pump, framed, buffered, registry, stopped, cancelled>>
    BY <1>2 DEF StopContinues, hub
  <2>2. Registered \in SUBSET Streams /\ {} \in SUBSET Streams
    BY DEF Registered
  <2>3. Sweep(r, Registered, Registered, {}) \/ Sweep(r, victims[r], todo[r], anew[r])
    BY <1>2 DEF StopContinues
  <2> QED
    BY <2>1, <2>2, <2>3
<1> QED
  BY <1>1, <1>2

\* What a generator's step leaves alone, and how its own stream's phase goes.
LEMMA GeneratorSteps ==
  ASSUME TypeOK, NEW b \in Streams, Generator(b)
  PROVE /\ UNCHANGED <<registry, made, stopped, event, stopPc, victims, todo>>
        /\ \A c \in Streams \ {b} : /\ pump'[c] = pump[c] /\ live'[c] = live[c] /\ framed'[c] = framed[c]
                                    /\ cancelled'[c] = cancelled[c] /\ (c \in active' <=> c \in active)
        /\ pump[b] \notin {"none", "done"}
        /\ b \in active' => b \in active \/ pump[b] = "spawning"
BY DEF Generator, Open, Spawn, GiveUp, Started, Frame, EndOfOutput, ReadTimeout, StreamEnds, Renewed, Terminate, Terminated, Interrupted, LetGo, Close, Finish, Reconnect,
       StreamId, hub, stream, ffmpeg, request, TypeOK, StreamType

\* The kinds of step that StreamInv tells apart.
LEMMA StepCases ==
  ASSUME [Next]_vars
  PROVE \/ \E b \in Streams : AttachTo(b)
        \/ \E b \in Streams : GraceExpires(b) \/ Dies(b) \/ Reaped(b)
        \/ \E b \in Streams : Generator(b)
        \/ \E r \in Stops : StopRequest(r) \/ StopContinues(r)
        \/ UNCHANGED watched
<1>1. ASSUME NEW v \in Viewers, Attach(v) \/ Receive(v) \/ Leave(v) \/ NoticeGone(v)
      PROVE (\E b \in Streams : AttachTo(b)) \/ UNCHANGED watched
  BY <1>1, AttachSteps, ViewerSteps
<1>2. UNCHANGED vars => UNCHANGED watched
  BY DEF watched, vars, hub, stream, ffmpeg, request
<1> QED
  BY <1>1, <1>2 DEF Next

\* MadeInv: a broadcaster is made registered, and leaves the registry stopped.
LEMMA NextMade == ASSUME TypeOK, StreamInv, [Next]_vars PROVE MadeInv'
<1> USE DEF StreamInv, MadeInv
<1>1. ASSUME NEW b \in Streams, AttachTo(b) PROVE MadeInv'
  <2>1. b \in Nat /\ made \in Nat /\ \A c \in Streams : c \in Nat /\ c # 0
    BY Limits DEF TypeOK, HubType
  <2>2. registry' = b /\ made' = b /\ made <= b /\ UNCHANGED <<stopped, active>>
    BY <1>1, <2>1 DEF AttachTo
  <2>3. \A c \in Streams : pump'[c] # "none" => pump[c] # "none" \/ c = b
    BY <1>1 DEF AttachTo, TypeOK, StreamType
  <2>4. \A c \in Streams : c <= b /\ c # b => stopped[c]
    <3>1. CASE b = registry /\ ~stopped[b]
      BY <2>1, <3>1
    <3>2. CASE b = made + 1 /\ (registry = Nobody \/ stopped[registry])
      BY <2>1, <3>2
    <3> QED
      BY <1>1, <3>1, <3>2 DEF AttachTo
  <2>5. \A c \in Streams : pump'[c] # "none" \/ c \in active' => c <= b
    BY <2>1, <2>2, <2>3
  <2> QED
    BY <2>2, <2>4, <2>5
<1>2. ASSUME NEW b \in Streams, GraceExpires(b) \/ Dies(b) \/ Reaped(b) PROVE MadeInv'
  <2>1. UNCHANGED <<registry, made, pump, active>> /\ \A c \in Streams : stopped[c] => stopped'[c]
    BY <1>2 DEF GraceExpires, Dies, Reaped, hub, stream, ffmpeg, TypeOK, HubType
  <2> QED
    BY <2>1
<1>3. ASSUME NEW b \in Streams, Generator(b) PROVE MadeInv'
  <2>1. UNCHANGED <<registry, made, stopped>> /\ pump[b] # "none"
        /\ \A c \in Streams : (pump'[c] # "none" \/ c \in active') => (pump[c] # "none" \/ c \in active)
    BY <1>3, GeneratorSteps
  <2> QED
    BY <2>1
<1>4. ASSUME NEW r \in Stops, StopRequest(r) \/ StopContinues(r) PROVE MadeInv'
  <2>1. /\ UNCHANGED <<made, pump>> /\ \A c \in Streams : stopped[c] => stopped'[c]
        /\ registry' = registry \/ (registry' = Nobody /\ (registry = Nobody \/ stopped'[registry]))
    BY <1>4, StopSteps
  <2>2. active' \subseteq active
    <3>1. CASE \E found, rest, spared \in SUBSET Streams : Sweep(r, found, rest, spared)
      BY <3>1, SweepCases DEF SweepEnds, SweepStopsAt
    <3> QED
      BY <1>4, <3>1, StopSteps
  <2> QED
    BY <2>1, <2>2
<1>5. UNCHANGED watched => MadeInv'
  BY Unwatched
<1> QED
  BY <1>1, <1>2, <1>3, <1>4, <1>5, StepCases

\* EndInv: only the start of a pump that does not run takes back that it was told to stop.
LEMMA NextEnd == ASSUME TypeOK, StreamInv, [Next]_vars PROVE EndInv'
<1> USE DEF StreamInv, EndInv
<1>1. ASSUME NEW b \in Streams, AttachTo(b) PROVE EndInv'
  BY <1>1 DEF AttachTo, Running, TypeOK, StreamType
<1>2. ASSUME NEW b \in Streams, GraceExpires(b) \/ Dies(b) \/ Reaped(b) PROVE EndInv'
  BY <1>2 DEF GraceExpires, Dies, Reaped, Running, stream, ffmpeg, TypeOK, StreamType
<1>3. ASSUME NEW b \in Streams, Generator(b) PROVE EndInv'
  <2>1. \A c \in Streams \ {b} : /\ pump'[c] = pump[c] /\ live'[c] = live[c] /\ event'[c] = event[c]
                                 /\ cancelled'[c] = cancelled[c]
    BY <1>3, GeneratorSteps
  <2>2. /\ cancelled'[b] => event'[b] /\ pump'[b] \notin {"none", "done"}
        /\ live'[b] => pump'[b] \in {"starting", "streaming", "terminating", "renewing", "closing"}
        /\ pump'[b] = "terminating" => event'[b]
        /\ live'[b] /\ pump'[b] = "closing" => event'[b]
    <3>1. CASE Open(b) \/ Spawn(b) \/ GiveUp(b)
      BY <3>1 DEF Open, Spawn, GiveUp, Finish, Running, ffmpeg, TypeOK, StreamType
    <3>2. CASE Started(b) \/ EndOfOutput(b) \/ ReadTimeout(b) \/ Renewed(b)
      BY <3>2 DEF Started, EndOfOutput, ReadTimeout, StreamEnds, Renewed, LetGo, Finish, Reconnect, Running, ffmpeg, TypeOK, StreamType
    <3>3. CASE Frame(b) \/ Terminate(b) \/ Terminated(b) \/ Interrupted(b) \/ Close(b)
      BY <3>3 DEF Frame, Terminate, Terminated, Interrupted, LetGo, Close, Finish, Running, ffmpeg, TypeOK, StreamType
    <3> QED
      BY <1>3, <3>1, <3>2, <3>3 DEF Generator
  <2> QED
    BY <2>1, <2>2 DEF Running
<1>4. ASSUME NEW r \in Stops, StopRequest(r) \/ StopContinues(r) PROVE EndInv'
  <2>1. pump' = pump /\ \A c \in Streams : cancelled'[c] => cancelled[c] \/ (Running(c) /\ event'[c])
    BY <1>4, StopSteps
  <2>2. \A c \in Streams : (event[c] => event'[c]) /\ (live'[c] => live[c])
    <3>1. CASE \E found, rest, spared \in SUBSET Streams : Sweep(r, found, rest, spared)
      <4>1. PICK found \in SUBSET Streams, rest \in SUBSET Streams, spared \in SUBSET Streams :
               Sweep(r, found, rest, spared)
        BY <3>1
      <4>2. SweepEnds(r, found, rest) \/ \E b \in rest : SweepStopsAt(b, r, found, rest, spared)
        BY <4>1, SweepCases
      <4> QED
        BY <4>2 DEF SweepEnds, SweepStopsAt, TypeOK, StreamType
    <3> QED
      BY <1>4, <3>1, StopSteps
  <2> QED
    BY <2>1, <2>2 DEF Running
<1>5. UNCHANGED watched => EndInv'
  BY Unwatched
<1> QED
  BY <1>1, <1>2, <1>3, <1>4, <1>5, StepCases

\* RegisteredInv: an entry goes with its generator, or after its stream was told to stop.
LEMMA NextRegistered == ASSUME TypeOK, StreamInv, [Next]_vars PROVE RegisteredInv'
<1> USE DEF StreamInv, RegisteredInv
<1>1. ASSUME NEW b \in Streams, AttachTo(b) PROVE RegisteredInv'
  BY <1>1 DEF AttachTo, EndInv, Running, TypeOK, StreamType
<1>2. ASSUME NEW b \in Streams, GraceExpires(b) \/ Dies(b) \/ Reaped(b) PROVE RegisteredInv'
  BY <1>2 DEF GraceExpires, Dies, Reaped, stream, ffmpeg, TypeOK, StreamType
<1>3. ASSUME NEW b \in Streams, Generator(b) PROVE RegisteredInv'
  <2>1. /\ event' = event
        /\ \A c \in Streams \ {b} : live'[c] = live[c] /\ framed'[c] = framed[c] /\ (c \in active' <=> c \in active)
    BY <1>3, GeneratorSteps
  <2>2. buffered /\ ~buffered' => active' = {}
    BY <1>3 DEF Generator, Open, Spawn, GiveUp, Started, Frame, EndOfOutput, ReadTimeout, StreamEnds, Renewed, Terminate, Terminated, Interrupted, LetGo, Close, Finish,
                Reconnect, ReleasesFrame, ffmpeg, TypeOK, StreamType
  <2>3. ~event[b] => (live'[b] => b \in active') /\ (framed'[b] => b \in active' /\ buffered')
    <3>1. CASE Open(b) \/ Spawn(b) \/ GiveUp(b)
      BY <3>1 DEF Open, Spawn, GiveUp, Finish, EndInv, StreamId, ffmpeg, TypeOK, StreamType
    <3>2. CASE Started(b) \/ EndOfOutput(b) \/ ReadTimeout(b) \/ Renewed(b)
      BY <3>2 DEF Started, EndOfOutput, ReadTimeout, StreamEnds, Renewed, LetGo, Finish, Reconnect, EndInv, StreamId, ffmpeg, TypeOK, StreamType
    <3>3. CASE Frame(b) \/ Terminate(b) \/ Terminated(b) \/ Interrupted(b) \/ Close(b)
      BY <3>3 DEF Frame, Terminate, Terminated, Interrupted, LetGo, Close, Finish, EndInv, StreamId, ffmpeg, TypeOK, StreamType
    <3> QED
      BY <1>3, <3>1, <3>2, <3>3 DEF Generator
  <2>4. ASSUME NEW c \in Streams, ~event'[c]
        PROVE (live'[c] => c \in active') /\ (framed'[c] => c \in active' /\ buffered')
    BY <2>1, <2>2, <2>3, <2>4
  <2> QED
    BY <2>4
<1>4. ASSUME NEW r \in Stops, StopRequest(r) \/ StopContinues(r) PROVE RegisteredInv'
  <2>1. UNCHANGED <<framed, buffered>>
    BY <1>4, StopSteps
  <2>2. \A c \in Streams : (event[c] => event'[c]) /\ (live'[c] => live[c]) /\ (c \in active \ active' => event'[c])
    <3>1. ASSUME NEW found \in SUBSET Streams, NEW rest \in SUBSET Streams, NEW spared \in SUBSET Streams,
                 Sweep(r, found, rest, spared),
                 (found = Registered /\ rest = Registered) \/ (found = victims[r] /\ rest = todo[r])
          PROVE \A c \in Streams : (event[c] => event'[c]) /\ (live'[c] => live[c]) /\ (c \in active \ active' => event'[c])
      <4>1. SweepEnds(r, found, rest) \/ \E b \in rest : SweepStopsAt(b, r, found, rest, spared)
        BY <3>1, SweepCases
      <4>2. \A c \in found \ rest : event[c]
        BY <3>1 DEF SweepInv, Visited
      <4> QED
        BY <4>1, <4>2 DEF SweepEnds, SweepStopsAt, TypeOK, StreamType
    <3> QED
      BY <1>4, <3>1, StopSteps
  <2> QED
    BY <2>1, <2>2
<1>5. UNCHANGED watched => RegisteredInv'
  BY Unwatched
<1> QED
  BY <1>1, <1>2, <1>3, <1>4, <1>5, StepCases

\* SweepInv: the newest stream a sweep has come to is the one its stop waits for,
\* and the older ones are stopped.
LEMMA NextSweep == ASSUME TypeOK, StreamInv, [Next]_vars PROVE SweepInv'
<1> USE DEF StreamInv, SweepInv, Visited
<1>0. made \in Nat /\ made' \in Nat /\ \A c \in Streams : c \in Nat /\ c # 0
  <2>1. TypeOK'
    BY NextType
  <2> QED
    BY <2>1, Limits DEF TypeOK, HubType
<1>1. ASSUME NEW b \in Streams, AttachTo(b) PROVE SweepInv'
  <2>1. UNCHANGED <<stopped, stopPc, victims, todo>> /\ made <= made'
    BY <1>0, <1>1 DEF AttachTo
  <2>2. ASSUME NEW r \in Stops, NEW c \in Visited(r)
        PROVE event'[c] /\ (stopped[c] \/ pump'[c] \notin {"none", "done"})
    <3>1. c \in Streams /\ c <= made /\ event[c] /\ (stopped[c] \/ Running(c))
      BY DEF TypeOK, RequestType
    <3>2. CASE UNCHANGED <<pump, event>>
      BY <3>1, <3>2 DEF Running
    <3>3. CASE /\ ~Running(b) /\ pump' = [pump EXCEPT ![b] = "opening"]
               /\ event' = [event EXCEPT ![b] = FALSE]
      <4>1. c # b
        BY <1>0, <1>1, <3>1, <3>3 DEF AttachTo
      <4> QED
        BY <3>1, <3>3, <4>1 DEF Running, TypeOK, StreamType
    <3> QED
      BY <1>1, <3>2, <3>3 DEF AttachTo
  <2> QED
    BY <1>0, <2>1, <2>2 DEF Running, TypeOK, RequestType
<1>2. ASSUME NEW b \in Streams, GraceExpires(b) \/ Dies(b) \/ Reaped(b) PROVE SweepInv'
  <2>1. /\ UNCHANGED <<made, pump, stopPc, victims, todo>>
        /\ \A c \in Streams : (stopped[c] => stopped'[c]) /\ (event[c] => event'[c])
    <3>1. CASE GraceExpires(b)
      <4>1. /\ stopped' = stopped \/ stopped' = [stopped EXCEPT ![b] = TRUE]
            /\ event' = event \/ event' = [event EXCEPT ![b] = TRUE]
        BY <3>1 DEF GraceExpires
      <4>2. UNCHANGED <<made, pump, stopPc, victims, todo>>
        BY <3>1 DEF GraceExpires, request
      <4>3. \A c \in Streams : stopped[c] => stopped'[c]
        BY <4>1 DEF TypeOK, HubType
      <4>4. \A c \in Streams : event[c] => event'[c]
        <5>1. event \in [Streams -> BOOLEAN]
          BY DEF TypeOK, StreamType
        <5>2. ASSUME NEW c \in Streams, event[c] PROVE event'[c]
          <6>1. CASE event' = [event EXCEPT ![b] = TRUE]
            BY <5>1, <5>2, <6>1, ZenonT(20)
          <6> QED
            BY <4>1, <5>2, <6>1
        <5> QED
          BY <5>2
      <4> QED
        BY <4>2, <4>3, <4>4
    <3>2. CASE Dies(b) \/ Reaped(b)
      BY <3>2 DEF Dies, Reaped, hub, stream, request
    <3> QED
      BY <1>2, <3>1, <3>2
  <2> QED
    BY <2>1 DEF Running, TypeOK, RequestType
<1>3. ASSUME NEW b \in Streams, Generator(b) PROVE SweepInv'
  <2>1. /\ UNCHANGED <<made, stopped, event, stopPc, victims, todo>>
        /\ \A c \in Streams \ {b} : pump'[c] = pump[c]
    BY <1>3, GeneratorSteps
  <2>2. ASSUME NEW r \in Stops, b \in Visited(r) PROVE stopped[b] \/ pump'[b] \notin {"none", "done"}
    <3>1. CASE Close(b)
      <4>1. stopPc[r] = "sweeping"
        BY <2>2
      <4>2. PICK c \in Visited(r) : ~(c <= b)
        BY <2>2, <3>1, <4>1 DEF Close, AwaitedByStop
      <4>3. c \in Streams /\ c <= made /\ b < c
        BY <1>0, <4>2 DEF TypeOK, RequestType
      <4> QED
        BY <4>3, OlderStopped
    <3>2. CASE ~Close(b)
      <4>1. pump' = pump \/ \E p \in Phases \ {"none", "done"} : pump' = [pump EXCEPT ![b] = p]
        BY <1>3, <3>2 DEF Generator, Open, Spawn, GiveUp, Started, Frame, EndOfOutput, ReadTimeout, StreamEnds, Renewed, Terminate, Terminated, Interrupted, LetGo, Finish,
                          Reconnect
      <4> QED
        BY <1>3, <4>1, GeneratorSteps DEF TypeOK, StreamType
    <3> QED
      BY <3>1, <3>2
  <2> QED
    BY <2>1, <2>2 DEF Running, TypeOK, RequestType
<1>4. ASSUME NEW r \in Stops, StopRequest(r) \/ StopContinues(r) PROVE SweepInv'
  <2>1. UNCHANGED <<made, pump>> /\ \A c \in Streams : stopped[c] => stopped'[c]
    BY <1>4, StopSteps
  <2>2. CASE \E found, rest, spared \in SUBSET Streams :
                /\ (found = Registered /\ rest = Registered) \/ (found = victims[r] /\ rest = todo[r])
                /\ Sweep(r, found, rest, spared)
    <3>1. PICK found \in SUBSET Streams, rest \in SUBSET Streams, spared \in SUBSET Streams :
             /\ (found = Registered /\ rest = Registered) \/ (found = victims[r] /\ rest = todo[r])
             /\ Sweep(r, found, rest, spared)
      BY <2>2
    <3>2. SweepEnds(r, found, rest) \/ \E b \in rest : SweepStopsAt(b, r, found, rest, spared)
      BY <3>1, SweepCases
    <3>3. \A c \in found : c <= made
      BY <3>1 DEF Registered, StreamId, MadeInv
    <3>4. rest \subseteq found
      BY <3>1
    <3>5. \A c \in found \ rest : event[c] /\ (stopped[c] \/ Running(c)) /\ \A d \in rest : c < d
      BY <3>1
    <3>6. CASE SweepEnds(r, found, rest)
      <4>1. \A c \in Streams : event[c] => event'[c]
        BY <3>6 DEF SweepEnds
      <4>2. /\ stopPc' = [stopPc EXCEPT ![r] = "idle"] /\ victims' = [victims EXCEPT ![r] = {}]
            /\ todo' = [todo EXCEPT ![r] = {}]
        BY <3>6 DEF SweepEnds
      <4> QED
        BY <2>1, <4>1, <4>2 DEF Running, TypeOK, RequestType
    <3>7. ASSUME NEW b \in rest, SweepStopsAt(b, r, found, rest, spared) PROVE SweepInv'
      <4>1. \A c \in Streams : (event[c] => event'[c]) /\ (c \in rest /\ c <= b => event'[c])
        BY <3>7 DEF SweepStopsAt
      <4>2. /\ stopPc' = [stopPc EXCEPT ![r] = "sweeping"] /\ victims' = [victims EXCEPT ![r] = found]
            /\ todo' = [todo EXCEPT ![r] = {c \in rest : c > b}]
        BY <3>7 DEF SweepStopsAt
      <4>3. stopPc'[r] = "sweeping" /\ victims'[r] = found /\ todo'[r] = {c \in rest : c > b}
        BY <4>2 DEF TypeOK, RequestType
      <4>4. ASSUME NEW c \in found, c \notin rest \/ c <= b
            PROVE event'[c] /\ (stopped'[c] \/ Running(c)') /\ \A d \in rest : d > b => c < d
        <5>1. b \in Streams /\ c \in Streams /\ b <= made
          BY <3>3, <3>4
        <5>2. CASE c \notin rest
          BY <2>1, <3>5, <4>1, <5>1, <5>2 DEF Running
        <5>3. CASE c \in rest
          <6>1. c < b => stopped[c]
            BY <5>1, OlderStopped
          <6>2. c = b => Running(c)
            BY <3>7, <5>1 DEF SweepStopsAt, EndInv, Running
          <6>3. c \in Nat /\ b \in Nat /\ \A d \in rest : d \in Nat
            BY <1>0, <5>1
          <6> QED
            BY <2>1, <4>1, <4>4, <5>1, <5>3, <6>1, <6>2, <6>3 DEF Running
        <5> QED
          BY <5>2, <5>3
      <4>5. ASSUME NEW q \in Stops, q # r
            PROVE stopPc'[q] = stopPc[q] /\ victims'[q] = victims[q] /\ todo'[q] = todo[q]
        BY <4>2, <4>5 DEF TypeOK, RequestType
      <4>6. ASSUME NEW c \in victims'[r] \ todo'[r] PROVE c \in found /\ (c \notin rest \/ c <= b)
        BY <1>0, <4>3, <4>6
      <4>7. /\ stopPc'[r] # "sweeping" => victims'[r] = {}
            /\ todo'[r] \subseteq victims'[r]
            /\ \A c \in victims'[r] : c <= made'
            /\ \A c \in victims'[r] \ todo'[r] :
                 event'[c] /\ (stopped'[c] \/ Running(c)') /\ \A d \in todo'[r] : c < d
        BY <2>1, <3>3, <3>4, <4>3, <4>4, <4>6
      <4>8. ASSUME NEW q \in Stops, q # r
            PROVE /\ stopPc'[q] # "sweeping" => victims'[q] = {}
                  /\ todo'[q] \subseteq victims'[q]
                  /\ \A c \in victims'[q] : c <= made'
                  /\ \A c \in victims'[q] \ todo'[q] :
                       event'[c] /\ (stopped'[c] \/ Running(c)') /\ \A d \in todo'[q] : c < d
        BY <2>1, <4>1, <4>5, <4>8 DEF Running, TypeOK, RequestType
      <4> QED
        BY <4>7, <4>8
    <3> QED
      BY <3>2, <3>6, <3>7
  <2>3. CASE /\ \A c \in Streams : event[c] => event'[c]
             /\ UNCHANGED <<victims, todo>>
             /\ \A q \in Stops : stopPc'[q] # "sweeping" => stopPc[q] # "sweeping"
    BY <2>1, <2>3 DEF Running, TypeOK, RequestType
  <2> QED
    BY <1>4, <2>2, <2>3, StopSteps
<1>5. UNCHANGED watched => SweepInv'
  BY Unwatched
<1> QED
  BY <1>1, <1>2, <1>3, <1>4, <1>5, StepCases

\* The invariant holds of every reachable state.
LEMMA Invariance == Spec => []IInv
<1>1. IInv /\ [Next]_vars => IInv'
  BY NextType, NextRetired DEF IInv
<1> QED
  BY <1>1, InitIInv, PTL DEF Spec

\* The domains of the variables; a viewer's queue never exceeds _SUBSCRIBER_QUEUE_SIZE.
THEOREM CameraType == Spec => []TypeOK
<1>1. IInv => TypeOK
  BY DEF IInv
<1> QED
  BY <1>1, Invariance, PTL

\* Of two ffmpeg processes of one printer, one belongs to a broadcaster that is
\* being torn down, however viewers, grace periods and stops interleave.
THEOREM SingleUpstream == Spec => []OneUpstream
<1>1. IInv => OneUpstream
  BY DEF IInv, RetiredInv, OneUpstream
<1> QED
  BY <1>1, Invariance, PTL

\* The streams, their registrations and the stops are related as StreamInv says.
LEMMA StreamInvariance == Spec => []StreamInv
<1>1. Init => StreamInv
  BY Limits DEF Init, StreamInv, MadeInv, EndInv, SweepInv, Visited, RegisteredInv, Running
<1>2. TypeOK /\ StreamInv /\ [Next]_vars => StreamInv'
  BY NextMade, NextEnd, NextSweep, NextRegistered DEF StreamInv
<1> QED
  BY <1>1, <1>2, CameraType, PTL DEF Spec

\* Whatever stops and departing streams overlap, a running ffmpeg that viewers watch
\* and that was not told to stop is one is_stream_active sees.
THEOREM WatchedIsRegistered == Spec => []ViewedIsRegistered
<1>1. StreamInv => ViewedIsRegistered
  BY DEF StreamInv, RegisteredInv, ViewedIsRegistered, StreamId
<1> QED
  BY <1>1, StreamInvariance, PTL

\* No stream's end takes the printer's frame away from a registered stream that has
\* delivered frames.
THEOREM FrameKept == Spec => []SuccessorKeepsFrame
<1>1. StreamInv => SuccessorKeepsFrame
  BY DEF StreamInv, RegisteredInv, SuccessorKeepsFrame
<1> QED
  BY <1>1, StreamInvariance, PTL
=============================================================================
