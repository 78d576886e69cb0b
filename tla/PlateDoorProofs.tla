--------------------------- MODULE PlateDoorProofs ---------------------------
(***************************************************************************)
(* What the door may do to the plate-clear gate, for any prints, door      *)
(* movements, disconnections and restarts.                                 *)
(***************************************************************************)
EXTENDS PlateGateProofs

\* The door state observed before the update at a place of the queue; nothing after
\* a disconnection.
Before(k) == IF k = 1 THEN lastOpen
             ELSE IF queue[k - 1].connected THEN {queue[k - 1].open} ELSE None

\* An update of an idle printer.
Idle(u) == u.connected /\ ~u.printing

\* The print that raised the gate has ended.
OwnerEnded == owner # NoPrint => owner \in Past

\* Connected, the last update queued is the client's snapshot; it is the printer's
\* state, unless it is the cached state broadcast on a reconnection, before which
\* nothing is observed.
LastUpdate == \A n \in 1..Len(queue) :
    n = Len(queue) /\ queue[n].connected =>
        /\ connected /\ snapshot = {queue[n]}
        /\ Before(n) # None => queue[n].open = door /\ queue[n].printing = (running # NoPrint)
Unheard == ~connected => snapshot \subseteq {Off}

\* An opening that was noted is the last thing observed. With nothing queued, the
\* door is still open and no print has begun.
OpeningNoted == opened => lastOpen = {TRUE}
StillOpen == opened /\ queue = <<>> =>
    connected /\ door /\ running = NoPrint /\ snapshot = {[connected |-> TRUE, open |-> TRUE, printing |-> FALSE]}

\* A closing that will be acknowledged, or is being, took place after the end of
\* every print that has ended.
ClosingQueued == \A k \in 2..Len(queue) :
    /\ Idle(queue[k - 1]) /\ queue[k - 1].open /\ Before(k - 1) # None
    /\ Idle(queue[k]) /\ ~queue[k].open
    => Past \subseteq wasClosed
ClosingNext == opened /\ queue # <<>> /\ Idle(queue[1]) /\ ~queue[1].open => Past \subseteq wasClosed
ClosingTaken == clearing > 0 => Past \subseteq wasClosed

NothingSeen == ~connected /\ queue = <<>> => lastOpen = None
StreamInv == OwnerEnded /\ LastUpdate /\ Unheard /\ NothingSeen /\ OpeningNoted /\ StillOpen
CloseInv == StreamInv /\ ClosingQueued /\ ClosingNext /\ ClosingTaken

\* As long as the connection holds, the snapshot and what was observed last, or is
\* queued last, are the printer's state.
Held == drops = 0 /\ restarts = 0
Latest == IF queue = <<>> THEN lastOpen ELSE {queue[Len(queue)].open}
InStep == Held =>
    /\ connected /\ \A k \in 1..Len(queue) : queue[k].connected
    /\ \/ snapshot = None /\ queue = <<>> /\ lastOpen = None
       \/ snapshot = {[connected |-> TRUE, open |-> door, printing |-> running # NoPrint]} /\ Latest = {door}

\* An opening that will be noted, or was, took place after the end of every print
\* that has ended.
OpeningQueued == Held => \A k \in 1..Len(queue) :
    queue[k].open /\ ~queue[k].printing /\ Before(k) = {FALSE} => Past \subseteq wasOpened
OpeningTaken == Held /\ (opened \/ clearing > 0) => Past \subseteq wasOpened
OwnerKnown == Held /\ gate => owner \in Past
OpenInv == InStep /\ OpeningQueued /\ OpeningTaken /\ OwnerKnown

------------------------------------------------------------------------------
\* An update joins the queue: those before it, and what is observed before them, stay.
LEMMA Joins == ASSUME DoorType, NEW u \in Update, queue' = Append(queue, u), lastOpen' = lastOpen
  PROVE /\ Len(queue) \in Nat /\ Len(queue') = Len(queue) + 1 /\ queue' # <<>> /\ queue'[Len(queue) + 1] = u
        /\ \A k \in 1..Len(queue) : queue'[k] = queue[k] /\ Before(k)' = Before(k)
        /\ \A n \in Nat : n = Len(queue) + 1 =>
                Before(n)' = IF queue = <<>> THEN lastOpen
                             ELSE IF queue[Len(queue)].connected THEN {queue[Len(queue)].open} ELSE None
<1>1. queue \in Seq(Update) /\ Len(queue) \in Nat
  BY DEF DoorType
<1>2. /\ Len(queue') = Len(queue) + 1 /\ queue'[Len(queue) + 1] = u
      /\ \A k \in 1..Len(queue) : queue'[k] = queue[k]
  BY <1>1
<1>3. queue' # <<>>
  BY <1>1, <1>2
<1>4. ASSUME NEW k \in 1..Len(queue) PROVE Before(k)' = Before(k)
  <2>1. CASE k = 1
    BY <2>1 DEF Before
  <2>2. CASE k # 1
    <3>1. k - 1 \in 1..Len(queue)
      BY <1>1, <2>2
    <3> QED
      BY <1>2, <2>2, <3>1 DEF Before
  <2> QED
    BY <2>1, <2>2
<1>5. ASSUME NEW n \in Nat, n = Len(queue) + 1
      PROVE Before(n)' = IF queue = <<>> THEN lastOpen
                         ELSE IF queue[Len(queue)].connected THEN {queue[Len(queue)].open} ELSE None
  <2>1. CASE queue = <<>>
    BY <1>1, <1>5, <2>1 DEF Before
  <2>2. CASE queue # <<>>
    <3>1. n # 1 /\ n - 1 = Len(queue) /\ Len(queue) \in 1..Len(queue)
      BY <1>1, <1>5, <2>2
    <3>2. Before(n)' = IF queue'[n - 1].connected THEN {queue'[n - 1].open} ELSE None
      BY <3>1 DEF Before
    <3> QED
      BY <1>2, <2>2, <3>1, <3>2
  <2> QED
    BY <2>1, <2>2
<1> QED
  BY <1>1, <1>2, <1>3, <1>4, <1>5

\* The first update is taken: the others move up, with what is observed before them.
LEMMA Leaves == ASSUME DoorType, HandleDoorUpdate
  PROVE /\ queue # <<>> /\ Len(queue) \in Nat \ {0} /\ Head(queue) = queue[1] /\ queue[1] \in Update
        /\ Len(queue') = Len(queue) - 1 /\ (queue' = <<>> <=> Len(queue) = 1)
        /\ \A k \in 1..(Len(queue) - 1) : queue'[k] = queue[k + 1] /\ Before(k)' = Before(k + 1)
<1>1. queue \in Seq(Update) /\ queue # <<>> /\ queue' = Tail(queue)
  BY DEF DoorType, HandleDoorUpdate
<1>2. Len(queue) \in Nat \ {0} /\ Head(queue) = queue[1] /\ queue[1] \in Update
  BY <1>1
<1>3. /\ Len(queue') = Len(queue) - 1 /\ queue' \in Seq(Update)
      /\ \A k \in 1..(Len(queue) - 1) : queue'[k] = queue[k + 1]
  BY <1>1, <1>2
<1>4. queue' = <<>> <=> Len(queue) = 1
  BY <1>2, <1>3
<1>5. lastOpen' = IF queue[1].connected THEN {queue[1].open} ELSE None
  BY <1>2 DEF HandleDoorUpdate
<1>6. ASSUME NEW k \in 1..(Len(queue) - 1) PROVE Before(k)' = Before(k + 1)
  <2>1. CASE k = 1
    BY <1>5, <2>1 DEF Before
  <2>2. CASE k # 1
    <3>1. k - 1 \in 1..(Len(queue) - 1) /\ (k - 1) + 1 = k /\ (k + 1) - 1 = k /\ k + 1 # 1
      BY <1>2, <2>2
    <3>2. queue'[k - 1] = queue[k]
      BY <1>3, <3>1
    <3> QED
      BY <2>2, <3>1, <3>2 DEF Before
  <2> QED
    BY <2>1, <2>2
<1> QED
  BY <1>1, <1>2, <1>3, <1>4, <1>6

\* What a report of the printer's state does: connected, it queues the update that
\* the snapshot does not show already.
LEMMA Reports == ASSUME NEW c \in Reading, Report(c), NEW u \in Update,
                        u = [connected |-> TRUE, open |-> c.open, printing |-> c.printing]
  PROVE \/ ~connected /\ UNCHANGED <<snapshot, queue>>
        \/ connected /\ snapshot = {u} /\ UNCHANGED <<snapshot, queue>>
        \/ connected /\ snapshot # {u} /\ snapshot' = {u} /\ queue' = Append(queue, u)
BY DEF Report, Queue

\* The steps that report the printer's state.
Reporting == DoorMoves \/ PrintEnds \/ Push \/ \E p \in Prints : PrintStarts(p)

\* They report the state after the step.
LEMMA ReportsState == ASSUME TypeOK, Reporting
  PROVE /\ UNCHANGED <<memory, store, tasks, lastOpen, clearing, connected, owner, written, restarts>>
        /\ door' \in BOOLEAN
        /\ Report([open |-> door', printing |-> running' # NoPrint])
        /\ [open |-> door', printing |-> running' # NoPrint] \in Reading
<1>1. UNCHANGED <<memory, store, tasks, lastOpen, clearing, connected, owner, written, restarts>>
  BY DEF Reporting, DoorMoves, PrintEnds, Push, PrintStarts, PrinterRest
<1>2. door' \in BOOLEAN
  BY DEF Reporting, DoorMoves, PrintEnds, Push, PrintStarts, machine, TypeOK, MachineType
<1>3. [open |-> door', printing |-> running' # NoPrint] \in Reading
  BY <1>2 DEF Reading
<1>4. CASE DoorMoves
  BY <1>1, <1>2, <1>3, <1>4 DEF DoorMoves
<1>5. CASE PrintEnds
  <2>1. Report([open |-> door, printing |-> FALSE]) /\ door' = door /\ (running' # NoPrint) = FALSE
    BY <1>5 DEF PrintEnds
  <2> QED
    BY <1>1, <1>2, <1>3, <2>1
<1>6. CASE Push
  BY <1>1, <1>2, <1>3, <1>6 DEF Push, machine
<1>7. ASSUME NEW p \in Prints, PrintStarts(p)
      PROVE Report([open |-> door', printing |-> running' # NoPrint])
  <2>1. Report([open |-> door, printing |-> TRUE]) /\ door' = door /\ (running' # NoPrint) = TRUE
    BY <1>7, Constants DEF PrintStarts
  <2> QED
    BY <2>1
<1> QED
  BY <1>1, <1>2, <1>3, <1>4, <1>5, <1>6, <1>7 DEF Reporting

\* The prints that have ended: only an end adds one.
LEMMA PastGrows == ASSUME TypeOK, [Next]_vars
  PROVE /\ Past \subseteq Past'
        /\ ~PrintEnds => Past' = Past
<1> USE DEF Past, TypeOK, MachineType
<1>1. CASE PrintEnds
  <2>1. handler' = [handler EXCEPT ![running] = IF connected /\ cache.printing THEN "ended" ELSE "unheard"]
    BY <1>1 DEF PrintEnds
  <2> QED
    BY <1>1, <2>1
<1>2. CASE Push
  BY <1>2 DEF Push, Heard
<1>3. CASE Restart
  BY <1>3 DEF Restart
<1>4. ASSUME NEW p \in Prints, RaiseGate(p) \/ AttachArchive(p) PROVE Past' = Past
  <2>1. handler' = [handler EXCEPT ![p] = "raised"] \/ handler' = [handler EXCEPT ![p] = "done"]
    BY <1>4 DEF RaiseGate, AttachArchive
  <2>2. handler[p] \in {"ended", "raised"}
    BY <1>4 DEF RaiseGate, AttachArchive
  <2> QED
    BY <2>1, <2>2
<1>5. CASE UNCHANGED handler
  BY <1>5
<1>6. ASSUME NEW p \in Prints, PrintStarts(p) PROVE UNCHANGED handler
  BY <1>6 DEF PrintStarts
<1>7. ASSUME NEW t \in tasks, Check(t) \/ Load(t) \/ Commit(t) \/ Locked(t) \/ GiveUp(t) PROVE UNCHANGED handler
  BY <1>7 DEF Check, Load, Commit, Locked, GiveUp, Rest
<1>8. CASE Lower \/ DoorMoves \/ Drops \/ PowerOff \/ Reconnects \/ HandleDoorUpdate \/ DoorClears
           \/ DoorIgnored \/ UNCHANGED vars
  BY <1>5, <1>8 DEF Lower, DoorMoves, Drops, PowerOff, Reconnects, HandleDoorUpdate, DoorClears, DoorIgnored, vars
<1> QED
  BY <1>1, <1>2, <1>3, <1>4, <1>5, <1>6, <1>7, <1>8 DEF Next

------------------------------------------------------------------------------
\* A report keeps the queue's end in step with the printer.
LEMMA ReportStream == ASSUME TypeOK, StreamInv, Reporting PROVE LastUpdate' /\ Unheard' /\ NothingSeen' /\ OpeningNoted' /\ StillOpen'
<1> USE DEF StreamInv
<1>1. DoorType /\ UNCHANGED <<connected, lastOpen, opened>> /\ door' \in BOOLEAN
  BY ReportsState DEF TypeOK, memory
<1> DEFINE c == [open |-> door', printing |-> running' # NoPrint]
<1>2. c \in Reading /\ Report(c) /\ c.open = door' /\ c.printing = (running' # NoPrint)
  BY ReportsState
<1> HIDE DEF c
<1>3. PICK u \in Update : u = [connected |-> TRUE, open |-> c.open, printing |-> c.printing]
  BY <1>2 DEF Update, Reading
<1>4. u.connected /\ u.open = door' /\ u.printing = (running' # NoPrint)
  BY <1>2, <1>3
<1>5. OpeningNoted'
  BY <1>1 DEF OpeningNoted
<1>6. CASE ~connected /\ UNCHANGED <<snapshot, queue>>
  <2>1. LastUpdate'
    BY <1>1, <1>6 DEF LastUpdate
  <2>2. Unheard' /\ NothingSeen' /\ StillOpen'
    BY <1>1, <1>6 DEF Unheard, NothingSeen, StillOpen
  <2> QED
    BY <1>5, <2>1, <2>2
<1>7. CASE connected /\ snapshot = {u} /\ UNCHANGED <<snapshot, queue>>
  <2>1. LastUpdate'
    <3> SUFFICES ASSUME NEW n \in 1..Len(queue), n = Len(queue), queue[n].connected
                 PROVE snapshot = {queue[n]} /\ queue[n].open = door' /\ queue[n].printing = (running' # NoPrint)
      BY <1>1, <1>7 DEF LastUpdate
    <3>1. snapshot = {queue[n]}
      BY DEF LastUpdate
    <3>2. queue[n] = u
      BY <1>7, <3>1
    <3> QED
      BY <1>4, <3>1, <3>2
  <2>2. StillOpen'
    <3> SUFFICES ASSUME opened, queue = <<>> PROVE door' /\ running' = NoPrint
      BY <1>1, <1>7 DEF StillOpen
    <3>1. u = [connected |-> TRUE, open |-> TRUE, printing |-> FALSE]
      BY <1>7 DEF StillOpen
    <3> QED
      BY <1>4, <3>1
  <2>3. Unheard' /\ NothingSeen'
    BY <1>1, <1>7 DEF Unheard, NothingSeen
  <2> QED
    BY <1>5, <2>1, <2>2, <2>3
<1>8. CASE connected /\ snapshot # {u} /\ snapshot' = {u} /\ queue' = Append(queue, u)
  <2>1. queue' # <<>> /\ Len(queue') = Len(queue) + 1 /\ queue'[Len(queue) + 1] = u
    BY <1>1, <1>8, Joins
  <2>2. LastUpdate'
    BY <1>1, <1>4, <1>8, <2>1 DEF LastUpdate
  <2>3. Unheard' /\ NothingSeen' /\ StillOpen'
    BY <1>1, <1>8, <2>1 DEF Unheard, NothingSeen, StillOpen
  <2> QED
    BY <1>5, <2>2, <2>3
<1> QED
  BY <1>2, <1>3, <1>6, <1>7, <1>8, Reports

\* A lost connection, an assumed power loss and a reconnection queue one update.
LEMMA ConnectionStream == ASSUME TypeOK, StreamInv, Drops \/ PowerOff \/ Reconnects
  PROVE LastUpdate' /\ Unheard' /\ NothingSeen' /\ OpeningNoted' /\ StillOpen'
<1> USE DEF StreamInv
<1>1. DoorType /\ UNCHANGED <<lastOpen, opened, door, running>>
  BY DEF Drops, PowerOff, Reconnects, TypeOK, memory, machine
<1>2. OpeningNoted'
  BY <1>1 DEF OpeningNoted
<1>3. CASE Drops \/ PowerOff
  <2>1. queue' = Append(queue, Off) /\ snapshot' \subseteq {Off} /\ ~connected'
    BY <1>3 DEF Drops, PowerOff, QueueDoorReset, None
  <2>2. Off \in Update /\ ~Off.connected
    BY DEF Off, Update
  <2>3. queue' # <<>> /\ Len(queue') = Len(queue) + 1 /\ queue'[Len(queue) + 1] = Off
    BY <1>1, <2>1, <2>2, Joins
  <2>4. LastUpdate'
    BY <2>2, <2>3 DEF LastUpdate
  <2> QED
    BY <1>2, <2>1, <2>3, <2>4 DEF Unheard, NothingSeen, StillOpen
<1>4. CASE Reconnects
  <2>1. PICK u \in Update : u = [connected |-> TRUE, open |-> cache.open, printing |-> cache.printing]
    BY DEF Update, Reading, TypeOK, MachineType
  <2>2. snapshot # {u}
    <3>1. ~connected /\ u.connected /\ ~Off.connected
      BY <1>4, <2>1 DEF Reconnects, Off
    <3> QED
      BY <3>1 DEF Unheard
  <2>3. snapshot' = {u} /\ queue' = Append(queue, u) /\ ~connected /\ connected'
    BY <1>4, <2>1, <2>2 DEF Reconnects, Queue
  <2>4. /\ queue' # <<>> /\ Len(queue) \in Nat /\ Len(queue') = Len(queue) + 1 /\ queue'[Len(queue) + 1] = u
        /\ \A n \in Nat : n = Len(queue) + 1 =>
                Before(n)' = IF queue = <<>> THEN lastOpen
                             ELSE IF queue[Len(queue)].connected THEN {queue[Len(queue)].open} ELSE None
    BY <1>1, <2>3, Joins
  <2>5. queue # <<>> => Len(queue) \in 1..Len(queue) /\ ~queue[Len(queue)].connected
    <3>1. queue # <<>> => Len(queue) \in 1..Len(queue)
      BY <1>1 DEF DoorType
    <3> QED
      BY <2>3, <3>1 DEF LastUpdate
  <2>6. queue = <<>> => lastOpen = None
    BY <2>3 DEF NothingSeen
  <2>7. LastUpdate'
    BY <2>3, <2>4, <2>5, <2>6 DEF LastUpdate
  <2> QED
    BY <1>2, <2>3, <2>4, <2>7 DEF Unheard, NothingSeen, StillOpen
<1> QED
  BY <1>3, <1>4

\* Taking an update observes it; the last one, if connected, leaves what the printer
\* shows.
LEMMA HandleStream == ASSUME TypeOK, StreamInv, HandleDoorUpdate
  PROVE LastUpdate' /\ Unheard' /\ NothingSeen' /\ OpeningNoted' /\ StillOpen'
<1> USE DEF StreamInv
<1> DEFINE u == queue[1]
<1>1. /\ DoorType /\ queue # <<>> /\ Len(queue) \in Nat \ {0} /\ u \in Update
      /\ Len(queue') = Len(queue) - 1 /\ (queue' = <<>> <=> Len(queue) = 1)
      /\ \A k \in 1..(Len(queue) - 1) : queue'[k] = queue[k + 1] /\ Before(k)' = Before(k + 1)
  BY Leaves DEF TypeOK
<1>2. /\ lastOpen' = IF u.connected THEN {u.open} ELSE None
      /\ opened' = Noted(u)
      /\ UNCHANGED <<snapshot, connected, door, running>>
  BY Leaves DEF HandleDoorUpdate, client, machine, TypeOK
<1> HIDE DEF u
<1>3. opened' => Idle(u) /\ u.open = TRUE /\ lastOpen # None /\ lastOpen' = {TRUE}
  <2>1. opened' => Idle(u)
    <3>1. ~Idle(u) => Noted(u) = FALSE
      BY DEF Noted, Idle, Edge
    <3> QED
      BY <1>2, <3>1
  <2>2. u.open \in BOOLEAN
    BY <1>1 DEF Update
  <2>3. CASE Edge(u)
    BY <1>2, <2>1, <2>2, <2>3 DEF Noted, Edge, Idle, None
  <2>4. CASE ~Edge(u)
    <3>1. opened' => opened /\ lastOpen = {TRUE}
      BY <1>2, <2>4 DEF Noted, OpeningNoted
    <3>2. opened' => u.open = TRUE
      <4>1. opened' /\ u.open = FALSE => lastOpen = {~u.open}
        BY <3>1
      <4> QED
        BY <2>1, <2>2, <2>4, <4>1 DEF Edge, Idle
    <3> QED
      BY <1>2, <2>1, <3>1, <3>2 DEF Idle, None
  <2> QED
    BY <2>3, <2>4
<1>4. OpeningNoted'
  BY <1>3 DEF OpeningNoted
<1>5. LastUpdate'
  <2> SUFFICES ASSUME NEW n \in 1..Len(queue'), n = Len(queue'), queue'[n].connected
               PROVE /\ connected /\ snapshot = {queue'[n]}
                     /\ Before(n)' # None => queue'[n].open = door /\ queue'[n].printing = (running # NoPrint)
    BY <1>2 DEF LastUpdate
  <2>1. n \in 1..(Len(queue) - 1) /\ n + 1 \in 1..Len(queue) /\ n + 1 = Len(queue)
    BY <1>1
  <2>2. queue'[n] = queue[n + 1] /\ Before(n)' = Before(n + 1)
    BY <1>1, <2>1
  <2> QED
    BY <2>1, <2>2 DEF LastUpdate
<1>6. Len(queue) = 1 => Before(1) = lastOpen /\ 1 \in 1..Len(queue)
  BY DEF Before
<1>7. NothingSeen'
  <2> SUFFICES ASSUME ~connected, Len(queue) = 1 PROVE lastOpen' = None
    BY <1>1, <1>2 DEF NothingSeen
  <2>1. ~u.connected
    BY <1>6 DEF LastUpdate, u
  <2> QED
    BY <1>2, <2>1
<1>8. StillOpen'
  <2> SUFFICES ASSUME opened', Len(queue) = 1
               PROVE /\ connected /\ door /\ running = NoPrint
                     /\ snapshot = {[connected |-> TRUE, open |-> TRUE, printing |-> FALSE]}
    BY <1>1, <1>2 DEF StillOpen
  <2>1. connected /\ snapshot = {u} /\ u.open = door /\ u.printing = (running # NoPrint)
    BY <1>3, <1>6 DEF LastUpdate, u, Idle
  <2>2. u = [connected |-> TRUE, open |-> TRUE, printing |-> FALSE]
    <3>1. u = [connected |-> u.connected, open |-> u.open, printing |-> u.printing]
      BY <1>1 DEF Update
    <3>2. u.connected = TRUE /\ u.printing = FALSE
      BY <1>1, <1>3 DEF Idle, Update
    <3> QED
      BY <1>3, <3>1, <3>2
  <2>3. door = TRUE /\ running = NoPrint
    BY <1>3, <2>1 DEF Idle
  <2> QED
    BY <2>1, <2>2, <2>3
<1>9. Unheard'
  BY <1>2 DEF Unheard
<1> QED
  BY <1>4, <1>5, <1>7, <1>8, <1>9

\* The steps that neither queue nor take an update; the gate's own may forget an
\* opening.
Aside ==
    \/ Lower \/ DoorClears \/ DoorIgnored \/ UNCHANGED vars
    \/ \E p \in Prints : RaiseGate(p) \/ AttachArchive(p)
    \/ \E t \in tasks : Check(t) \/ Load(t) \/ Commit(t) \/ Locked(t) \/ GiveUp(t)

\* They keep what is observed and queued, and note no opening.
LEMMA AsideStream == ASSUME TypeOK, Aside
  PROVE /\ UNCHANGED <<snapshot, queue, lastOpen, connected, door, running, wasOpened, wasClosed, drops, restarts>>
        /\ opened' => opened
        /\ clearing' \in Nat /\ clearing' <= clearing
<1>1. UNCHANGED <<snapshot, queue, lastOpen, connected, door, running, wasOpened, wasClosed, drops, restarts>>
  BY DEF Aside, Lower, DoorClears, DoorIgnored, RaiseGate, AttachArchive, Check, Load, Commit, Locked, GiveUp, Rest, vars,
         doorVars, client, machine
<1>2. opened' => opened
  BY DEF Aside, Lower, DoorClears, DoorIgnored, RaiseGate, AttachArchive, Check, Load, Commit, Locked, GiveUp, Rest, vars,
         memory, SetGate
<1>3. clearing' = clearing \/ (clearing > 0 /\ clearing' = clearing - 1)
  BY DEF Aside, Lower, DoorClears, DoorIgnored, RaiseGate, AttachArchive, Check, Load, Commit, Locked, GiveUp, Rest, vars,
         doorVars
<1>4. clearing' \in Nat /\ clearing' <= clearing
  BY <1>3 DEF TypeOK, DoorType
<1> QED
  BY <1>1, <1>2, <1>4

\* Next, by what it does to the stream of updates.
LEMMA NextKinds == ASSUME [Next]_vars
  PROVE Reporting \/ Drops \/ PowerOff \/ Reconnects \/ HandleDoorUpdate \/ Restart \/ Aside
BY DEF Next, Reporting, Aside

\* The print that raised the gate has ended.
LEMMA NextOwner == ASSUME TypeOK, OwnerEnded, [Next]_vars PROVE OwnerEnded'
<1>1. CASE owner' = owner \/ owner' = NoPrint
  BY <1>1, PastGrows DEF OwnerEnded
<1>2. ASSUME NEW p \in Prints, RaiseGate(p) PROVE OwnerEnded'
  <2>1. owner' = p /\ handler'[p] = "raised"
    BY <1>2 DEF RaiseGate, TypeOK, MachineType
  <2> QED
    BY <2>1 DEF OwnerEnded, Past
<1>3. ASSUME Next, \A p \in Prints : ~RaiseGate(p) PROVE owner' = owner \/ owner' = NoPrint
  BY <1>3 DEF Next, AttachArchive, PrintStarts, Check, Load, Commit, Locked, GiveUp, Rest, Lower, PrintEnds, DoorMoves,
              Drops, PowerOff, Reconnects, Push, PrinterRest, HandleDoorUpdate, DoorClears, DoorIgnored, Restart
<1>4. CASE UNCHANGED vars
  BY <1>1, <1>4 DEF vars
<1> QED
  BY <1>1, <1>2, <1>3, <1>4

\* Every step keeps the stream's invariant.
LEMMA NextStream == ASSUME TypeOK, StreamInv, [Next]_vars PROVE StreamInv'
<1>1. OwnerEnded'
  BY NextOwner DEF StreamInv
<1>2. CASE Restart
  <2>1. ~connected' /\ queue' = <<>> /\ snapshot' = None /\ lastOpen' = None /\ ~opened'
    BY <1>2 DEF Restart
  <2>2. LastUpdate'
    BY <2>1 DEF LastUpdate
  <2>3. Unheard' /\ NothingSeen'
    BY <2>1 DEF Unheard, NothingSeen, None
  <2>4. OpeningNoted' /\ StillOpen'
    BY <2>1 DEF OpeningNoted, StillOpen
  <2> QED
    BY <1>1, <2>2, <2>3, <2>4 DEF StreamInv
<1>3. CASE Aside
  <2>1. UNCHANGED <<snapshot, queue, lastOpen, connected, door, running>> /\ (opened' => opened)
    BY <1>3, AsideStream
  <2>2. \A k \in 1..Len(queue) : Before(k)' = Before(k)
    BY <2>1 DEF Before
  <2>3. LastUpdate'
    BY <2>1, <2>2 DEF LastUpdate, StreamInv
  <2>4. Unheard' /\ NothingSeen'
    BY <2>1 DEF Unheard, NothingSeen, StreamInv
  <2>5. OpeningNoted' /\ StillOpen'
    BY <2>1 DEF OpeningNoted, StillOpen, StreamInv
  <2> QED
    BY <1>1, <2>3, <2>4, <2>5 DEF StreamInv
<1> QED
  BY <1>1, <1>2, <1>3, NextKinds, ReportStream, ConnectionStream, HandleStream DEF StreamInv

------------------------------------------------------------------------------
\* An update that joins the queue brings no closing that could be acknowledged, but
\* one that took place after the end of every print that has ended.
LEMMA CloseJoins == ASSUME TypeOK, CloseInv, NEW u \in Update, queue' = Append(queue, u),
                           UNCHANGED <<lastOpen, opened, clearing>>,
                           Past \subseteq wasClosed => Past' \subseteq wasClosed',
                           \/ Past' \subseteq wasClosed'
                           \/ ~Idle(u) \/ u.open
                           \/ /\ queue # <<>> => ~Idle(queue[Len(queue)]) \/ ~queue[Len(queue)].open
                                                 \/ Before(Len(queue)) = None
                              /\ queue = <<>> => ~opened
  PROVE ClosingQueued' /\ ClosingNext' /\ ClosingTaken'
<1> USE DEF CloseInv
<1>1. /\ Len(queue) \in Nat /\ Len(queue') = Len(queue) + 1 /\ queue' # <<>> /\ queue'[Len(queue) + 1] = u
      /\ \A k \in 1..Len(queue) : queue'[k] = queue[k] /\ Before(k)' = Before(k)
  BY Joins DEF TypeOK
<1>2. ClosingTaken'
  BY DEF ClosingTaken
<1>3. ClosingNext'
  <2>1. CASE queue = <<>>
    <3>1. queue'[1] = u
      BY <1>1, <2>1
    <3> QED
      BY <2>1, <3>1 DEF ClosingNext
  <2>2. CASE queue # <<>>
    <3>1. 1 \in 1..Len(queue)
      BY <2>2 DEF TypeOK, DoorType
    <3> QED
      BY <1>1, <2>2, <3>1 DEF ClosingNext
  <2> QED
    BY <2>1, <2>2
<1>4. ClosingQueued'
  <2> SUFFICES ASSUME NEW k \in 2..Len(queue'), Idle(queue'[k - 1]), queue'[k - 1].open, Before(k - 1)' # None,
                      Idle(queue'[k]), ~queue'[k].open
               PROVE Past' \subseteq wasClosed'
    BY DEF ClosingQueued
  <2>1. k - 1 \in 1..Len(queue)
    BY <1>1
  <2>2. queue'[k - 1] = queue[k - 1] /\ Before(k - 1)' = Before(k - 1)
    BY <1>1, <2>1
  <2>3. CASE k \in 2..Len(queue)
    <3>1. queue'[k] = queue[k]
      BY <1>1, <2>3
    <3> QED
      BY <2>2, <2>3, <3>1 DEF ClosingQueued
  <2>4. CASE k = Len(queue) + 1
    <3>1. queue'[k] = u /\ k - 1 = Len(queue) /\ queue # <<>>
      BY <1>1, <2>1, <2>4
    <3> QED
      BY <2>2, <3>1
  <2> QED
    BY <1>1, <2>3, <2>4
<1> QED
  BY <1>2, <1>3, <1>4

\* A report tells of a closing only in the step that closes the door, or of the end
\* of a print, before which nothing noted or taken is left.
LEMMA ReportClose == ASSUME TypeOK, CloseInv, [Next]_vars, Reporting PROVE ClosingQueued' /\ ClosingNext' /\ ClosingTaken'
<1> USE DEF CloseInv, StreamInv
<1>1. DoorType /\ UNCHANGED <<connected, lastOpen, opened, clearing>> /\ door' \in BOOLEAN
  BY ReportsState DEF TypeOK, memory
<1> DEFINE c == [open |-> door', printing |-> running' # NoPrint]
<1>2. c \in Reading /\ Report(c) /\ c.open = door' /\ c.printing = (running' # NoPrint)
  BY ReportsState
<1> HIDE DEF c
<1>3. PICK u \in Update : u = [connected |-> TRUE, open |-> c.open, printing |-> c.printing]
  BY <1>2 DEF Update, Reading
<1>4. u.connected /\ u.open = door' /\ u.printing = (running' # NoPrint)
  BY <1>2, <1>3
<1>5. \/ ~connected /\ UNCHANGED <<snapshot, queue>>
      \/ connected /\ snapshot = {u} /\ UNCHANGED <<snapshot, queue>>
      \/ connected /\ queue' = Append(queue, u)
  BY <1>2, <1>3, Reports
<1>6. wasClosed \subseteq wasClosed'
  BY DEF Reporting, DoorMoves, PrintEnds, Push, PrintStarts, machine
<1>7. CASE PrintEnds
  <2>1. queue = <<>> /\ ~opened /\ clearing = 0
    BY <1>7 DEF PrintEnds, StillOpen
  <2>2. queue' = <<>> \/ Len(queue') = 1
    BY <1>1, <1>5, <2>1, Joins
  <2>3. ClosingQueued'
    BY <2>1, <2>2 DEF ClosingQueued
  <2> QED
    BY <1>1, <2>1, <2>3 DEF ClosingNext, ClosingTaken
<1>8. CASE ~PrintEnds
  <2>1. Past' = Past
    BY <1>8, PastGrows
  <2>2. CASE UNCHANGED queue
    <3>1. \A k \in 1..Len(queue) : Before(k)' = Before(k)
      BY <1>1, <2>2 DEF Before
    <3>2. \A k \in 2..Len(queue) : k - 1 \in 1..Len(queue)
      BY DEF TypeOK, DoorType
    <3>3. ClosingQueued'
      BY <1>6, <2>1, <2>2, <3>1, <3>2 DEF ClosingQueued
    <3> QED
      BY <1>1, <1>6, <2>1, <2>2, <3>3 DEF ClosingNext, ClosingTaken
  <2>3. CASE connected /\ queue' = Append(queue, u)
    <3>1. \/ Past' \subseteq wasClosed'
          \/ ~Idle(u) \/ u.open
          \/ /\ queue # <<>> => ~Idle(queue[Len(queue)]) \/ ~queue[Len(queue)].open \/ Before(Len(queue)) = None
             /\ queue = <<>> => ~opened
      <4>1. CASE UNCHANGED <<door, running>>
        <5>1. CASE queue # <<>>
          <6>1. Len(queue) \in 1..Len(queue)
            BY <5>1 DEF TypeOK, DoorType
          <6> QED
            BY <1>4, <4>1, <5>1, <6>1 DEF LastUpdate, Idle
        <5>2. CASE queue = <<>>
          BY <1>4, <4>1, <5>2 DEF StillOpen
        <5> QED
          BY <5>1, <5>2
      <4>2. CASE DoorMoves /\ running = NoPrint
        <5>1. door => wasClosed' = wasClosed \cup Past
          BY <4>2 DEF DoorMoves
        <5>2. ~door => door'
          BY <4>2 DEF DoorMoves
        <5> QED
          BY <1>4, <2>1, <5>1, <5>2
      <4>3. CASE running' # NoPrint
        BY <1>4, <4>3 DEF Idle
      <4>4. \/ UNCHANGED <<door, running>> \/ (DoorMoves /\ running = NoPrint) \/ running' # NoPrint
        BY <1>8, Constants DEF Reporting, DoorMoves, Push, PrintStarts, machine
      <4> QED
        BY <4>1, <4>2, <4>3, <4>4
    <3> QED
      BY <1>1, <1>6, <2>1, <2>3, <3>1, CloseJoins
  <2> QED
    BY <1>5, <2>2, <2>3
<1> QED
  BY <1>7, <1>8

\* A connection lost, or that returns, brings none: the cached state is not observed
\* as a change.
LEMMA ConnectionClose == ASSUME TypeOK, CloseInv, [Next]_vars, Drops \/ PowerOff \/ Reconnects
  PROVE ClosingQueued' /\ ClosingNext' /\ ClosingTaken'
<1> USE DEF CloseInv, StreamInv
<1>1. DoorType /\ UNCHANGED <<lastOpen, opened, clearing, wasClosed, handler>>
  BY DEF Drops, PowerOff, Reconnects, TypeOK, memory, machine
<1>2. Past' = Past
  BY <1>1 DEF Past
<1>3. CASE Drops \/ PowerOff
  <2>1. queue' = Append(queue, Off)
    BY <1>3 DEF Drops, PowerOff, QueueDoorReset
  <2>2. Off \in Update /\ ~Idle(Off)
    BY DEF Off, Update, Idle
  <2> QED
    BY <1>1, <1>2, <2>1, <2>2, CloseJoins
<1>4. CASE Reconnects
  <2>1. PICK u \in Update : u = [connected |-> TRUE, open |-> cache.open, printing |-> cache.printing]
    BY DEF Update, Reading, TypeOK, MachineType
  <2>2. UNCHANGED queue \/ queue' = Append(queue, u)
    BY <1>4, <2>1 DEF Reconnects, Queue
  <2>3. queue # <<>> => ~Idle(queue[Len(queue)])
    <3>1. queue # <<>> => Len(queue) \in 1..Len(queue)
      BY DEF TypeOK, DoorType
    <3> QED
      BY <1>4, <3>1 DEF Reconnects, LastUpdate, Idle
  <2>4. queue = <<>> => ~opened
    BY <1>4 DEF Reconnects, StillOpen
  <2>5. CASE queue' = Append(queue, u)
    BY <1>1, <1>2, <2>3, <2>4, <2>5, CloseJoins
  <2>6. CASE UNCHANGED queue
    <3>1. \A k \in 1..Len(queue) : Before(k)' = Before(k)
      BY <1>1, <2>6 DEF Before
    <3>2. \A k \in 2..Len(queue) : k - 1 \in 1..Len(queue)
      BY DEF TypeOK, DoorType
    <3>3. ClosingQueued'
      BY <1>1, <1>2, <2>6, <3>1, <3>2 DEF ClosingQueued
    <3> QED
      BY <1>1, <1>2, <2>6, <3>3 DEF ClosingNext, ClosingTaken
  <2> QED
    BY <2>2, <2>5, <2>6
<1> QED
  BY <1>3, <1>4

\* An update that is taken leaves the closing behind it next, or taken.
LEMMA HandleClose == ASSUME TypeOK, CloseInv, HandleDoorUpdate PROVE ClosingQueued' /\ ClosingNext' /\ ClosingTaken'
<1> USE DEF CloseInv, StreamInv
<1> DEFINE u == queue[1]
<1>1. /\ DoorType /\ queue # <<>> /\ Len(queue) \in Nat \ {0} /\ u \in Update
      /\ Len(queue') = Len(queue) - 1 /\ (queue' = <<>> <=> Len(queue) = 1)
      /\ \A k \in 1..(Len(queue) - 1) : queue'[k] = queue[k + 1] /\ Before(k)' = Before(k + 1)
  BY Leaves DEF TypeOK
<1>2. /\ opened' = Noted(u) /\ clearing' = IF Acknowledged(u) THEN clearing + 1 ELSE clearing
      /\ UNCHANGED <<wasClosed, handler>>
  BY Leaves DEF HandleDoorUpdate, machine, TypeOK
<1>3. Past' = Past
  BY <1>2 DEF Past
<1>4. ClosingTaken'
  <2>1. Acknowledged(u) => Past \subseteq wasClosed
    BY <1>1 DEF Acknowledged, Edge, Idle, ClosingNext
  <2> QED
    BY <1>2, <1>3, <2>1 DEF ClosingTaken
<1>5. ClosingQueued'
  <2> SUFFICES ASSUME NEW k \in 2..Len(queue'), Idle(queue'[k - 1]), queue'[k - 1].open, Before(k - 1)' # None,
                      Idle(queue'[k]), ~queue'[k].open
               PROVE Past' \subseteq wasClosed'
    BY DEF ClosingQueued
  <2>1. k - 1 \in 1..(Len(queue) - 1) /\ k \in 1..(Len(queue) - 1) /\ (k - 1) + 1 = k /\ (k + 1) - 1 = k
        /\ k + 1 \in 2..Len(queue)
    BY <1>1
  <2>2. queue'[k - 1] = queue[k] /\ queue'[k] = queue[k + 1] /\ Before(k - 1)' = Before(k)
    BY <1>1, <2>1
  <2> QED
    BY <1>2, <1>3, <2>1, <2>2 DEF ClosingQueued
<1>6. ClosingNext'
  <2> SUFFICES ASSUME opened', queue' # <<>>, Idle(queue'[1]), ~queue'[1].open PROVE Past' \subseteq wasClosed'
    BY DEF ClosingNext
  <2>1. 2 \in 2..Len(queue) /\ 2 - 1 = 1 /\ queue'[1] = queue[2]
    BY <1>1
  <2>2. Before(1) = lastOpen
    BY DEF Before
  <2>3. Idle(u) /\ u.open /\ lastOpen # None
    <3> HIDE DEF u
    <3>1. ~Idle(u) => Noted(u) = FALSE
      BY DEF Noted, Idle, Edge
    <3>2. Idle(u)
      BY <1>2, <3>1
    <3>3. CASE Edge(u)
      BY <1>2, <3>2, <3>3 DEF Noted, Edge, Idle, None
    <3>4. CASE ~Edge(u)
      <4>1. opened /\ lastOpen = {TRUE}
        BY <1>2, <3>2, <3>4 DEF Noted, Idle, OpeningNoted
      <4>2. u.open = FALSE => lastOpen = {~u.open}
        BY <4>1
      <4>3. u.open \in BOOLEAN
        BY <1>1 DEF Update
      <4> QED
        BY <3>2, <3>4, <4>1, <4>2, <4>3 DEF Edge, Idle, None
    <3> QED
      BY <3>3, <3>4
  <2> QED
    BY <1>2, <1>3, <2>1, <2>2, <2>3 DEF ClosingQueued
<1> QED
  BY <1>4, <1>5, <1>6

\* Every step keeps the invariant of the closings.
LEMMA NextClose == ASSUME TypeOK, CloseInv, [Next]_vars PROVE CloseInv'
<1>1. StreamInv'
  BY NextStream DEF CloseInv
<1>2. CASE Restart
  <2>1. queue' = <<>> /\ ~opened' /\ clearing' = 0
    BY <1>2 DEF Restart
  <2>2. ClosingQueued'
    BY <2>1 DEF ClosingQueued
  <2> QED
    BY <1>1, <2>1, <2>2 DEF CloseInv, ClosingNext, ClosingTaken
<1>3. CASE Aside
  <2>1. UNCHANGED <<queue, lastOpen, wasClosed>> /\ (opened' => opened) /\ clearing' \in Nat /\ clearing' <= clearing
    BY <1>3, AsideStream
  <2>2. Past' = Past \/ PrintEnds
    BY PastGrows
  <2>3. ~PrintEnds \/ Reporting
    BY DEF Reporting
  <2>4. CASE Reporting
    BY <1>1, <2>4, ReportClose DEF CloseInv
  <2>5. CASE Past' = Past
    <3>1. \A k \in 1..Len(queue) : Before(k)' = Before(k)
      BY <2>1 DEF Before
    <3>2. \A k \in 2..Len(queue) : k - 1 \in 1..Len(queue)
      BY DEF TypeOK, DoorType
    <3>3. ClosingQueued'
      BY <2>1, <2>5, <3>1, <3>2 DEF CloseInv, ClosingQueued
    <3>4. ClosingNext'
      BY <2>1, <2>5 DEF CloseInv, ClosingNext
    <3>5. ClosingTaken'
      BY <2>1, <2>5 DEF CloseInv, ClosingTaken, TypeOK, DoorType
    <3> QED
      BY <1>1, <3>3, <3>4, <3>5 DEF CloseInv
  <2> QED
    BY <2>2, <2>3, <2>4, <2>5
<1> QED
  BY <1>1, <1>2, <1>3, NextKinds, ReportClose, ConnectionClose, HandleClose DEF CloseInv

------------------------------------------------------------------------------
\* As long as the connection holds, a report keeps what is observed in step with the
\* printer, and an opening is told in the step that opens the door.
LEMMA ReportOpen == ASSUME TypeOK, StreamInv, OpenInv, [Next]_vars, Reporting PROVE InStep' /\ OpeningQueued' /\ OpeningTaken'
<1> USE DEF OpenInv
<1> SUFFICES ASSUME Held' PROVE InStep' /\ OpeningQueued' /\ OpeningTaken'
  BY DEF InStep, OpeningQueued, OpeningTaken
<1>1. /\ DoorType /\ UNCHANGED <<connected, lastOpen, opened, clearing, restarts>> /\ door' \in BOOLEAN
      /\ wasOpened \subseteq wasOpened' /\ drops' = drops
  <2>1. wasOpened \subseteq wasOpened' /\ drops' = drops
    BY DEF Reporting, DoorMoves, PrintEnds, Push, PrintStarts, machine
  <2> QED
    BY <2>1, ReportsState DEF TypeOK, memory
<1>2. Held
  BY <1>1 DEF Held
<1>3. /\ connected /\ \A k \in 1..Len(queue) : queue[k].connected
      /\ \/ snapshot = None /\ queue = <<>> /\ lastOpen = None
         \/ snapshot = {[connected |-> TRUE, open |-> door, printing |-> running # NoPrint]} /\ Latest = {door}
  BY <1>2 DEF InStep
<1> DEFINE c == [open |-> door', printing |-> running' # NoPrint]
<1>4. c \in Reading /\ Report(c) /\ c.open = door' /\ c.printing = (running' # NoPrint)
  BY ReportsState
<1> HIDE DEF c
<1>5. PICK u \in Update : u = [connected |-> TRUE, open |-> c.open, printing |-> c.printing]
  BY <1>4 DEF Update, Reading
<1>6. /\ u.connected /\ u.open = door' /\ u.printing = (running' # NoPrint)
      /\ u = [connected |-> TRUE, open |-> door', printing |-> running' # NoPrint]
  BY <1>4, <1>5
<1>7. \/ snapshot = {u} /\ UNCHANGED <<snapshot, queue>>
      \/ snapshot' = {u} /\ queue' = Append(queue, u)
  BY <1>3, <1>4, <1>5, Reports
<1>8. PrintEnds => queue = <<>> /\ ~opened /\ clearing = 0
  BY DEF PrintEnds, StreamInv, StillOpen
<1>9. OpeningTaken'
  <2>1. CASE PrintEnds
    BY <1>1, <1>8, <2>1 DEF OpeningTaken
  <2>2. CASE ~PrintEnds
    BY <1>1, <1>2, <2>2, PastGrows DEF OpeningTaken
  <2> QED
    BY <2>1, <2>2
<1>10. CASE snapshot = {u} /\ UNCHANGED <<snapshot, queue>>
  <2>1. snapshot # None
    BY <1>10 DEF None
  <2>2. u = [connected |-> TRUE, open |-> door, printing |-> running # NoPrint] /\ Latest = {door}
    BY <1>3, <1>10, <2>1
  <2>3. door' = door /\ Latest' = {door'}
    BY <1>1, <1>6, <1>10, <2>2 DEF Latest
  <2>4. InStep'
    BY <1>1, <1>3, <1>6, <1>10, <2>3 DEF InStep
  <2>5. \A k \in 1..Len(queue) : Before(k)' = Before(k)
    BY <1>1, <1>10 DEF Before
  <2>6. OpeningQueued'
    <3>1. CASE PrintEnds
      BY <1>8, <1>10, <3>1 DEF OpeningQueued
    <3>2. CASE ~PrintEnds
      BY <1>1, <1>2, <1>10, <2>5, <3>2, PastGrows DEF OpeningQueued
    <3> QED
      BY <3>1, <3>2
  <2> QED
    BY <1>9, <2>4, <2>6
<1>11. CASE snapshot' = {u} /\ queue' = Append(queue, u)
  <2>1. /\ Len(queue) \in Nat /\ Len(queue') = Len(queue) + 1 /\ queue' # <<>> /\ queue'[Len(queue) + 1] = u
        /\ \A k \in 1..Len(queue) : queue'[k] = queue[k] /\ Before(k)' = Before(k)
        /\ \A n \in Nat : n = Len(queue) + 1 =>
                Before(n)' = IF queue = <<>> THEN lastOpen
                             ELSE IF queue[Len(queue)].connected THEN {queue[Len(queue)].open} ELSE None
    BY <1>1, <1>11, Joins
  <2>2. queue'[Len(queue')] = u /\ Latest' = {door'}
    BY <1>6, <2>1 DEF Latest
  <2>3. InStep'
    BY <1>1, <1>3, <1>6, <1>11, <2>1, <2>2 DEF InStep
  <2>4. \A n \in Nat : n = Len(queue) + 1 => Before(n)' = Latest
    <3>1. queue # <<>> => queue[Len(queue)].connected
      <4>1. queue # <<>> => Len(queue) \in 1..Len(queue)
        BY <1>1 DEF DoorType
      <4> QED
        BY <1>3, <4>1
    <3> QED
      BY <2>1, <3>1 DEF Latest
  <2>5. OpeningQueued'
    <3> SUFFICES ASSUME NEW k \in 1..Len(queue'), queue'[k].open, ~queue'[k].printing, Before(k)' = {FALSE}
                 PROVE Past' \subseteq wasOpened'
      BY DEF OpeningQueued
    <3>1. CASE k \in 1..Len(queue)
      <4>1. ~PrintEnds
        BY <1>8, <2>1, <3>1
      <4> QED
        BY <1>1, <1>2, <2>1, <3>1, <4>1, PastGrows DEF OpeningQueued
    <3>2. CASE k = Len(queue) + 1
      <4>1. queue'[k] = u /\ Before(k)' = Latest
        <5>1. k \in Nat
          OBVIOUS
        <5>2. Before(k)' = Latest
          BY <2>4, <3>2, <5>1
        <5>3. queue'[k] = u
          BY <2>1, <3>2
        <5> QED
          BY <5>2, <5>3
      <4>2. u.open /\ ~u.printing /\ Latest = {FALSE}
        BY <4>1
      <4>3. Latest = {door}
        <5>1. None # {FALSE} /\ (queue = <<>> => Latest = lastOpen)
          BY DEF None, Latest
        <5> QED
          BY <1>3, <4>2, <5>1
      <4>4. ~door
        BY <4>2, <4>3
      <4>5. door' /\ running' = NoPrint
        BY <1>6, <4>2
      <4>6. ~door /\ door' /\ running' = NoPrint
        BY <4>4, <4>5
      <4>7. DoorMoves /\ running = NoPrint
        BY <4>6 DEF Reporting, DoorMoves, PrintEnds, Push, PrintStarts, machine
      <4>8. ~PrintEnds
        BY <4>6 DEF PrintEnds
      <4> QED
        BY <4>6, <4>7, <4>8, PastGrows DEF DoorMoves
    <3> QED
      BY <2>1, <3>1, <3>2
  <2> QED
    BY <1>9, <2>3, <2>5
<1> QED
  BY <1>7, <1>10, <1>11

\* An opening that is taken was queued.
LEMMA HandleOpen == ASSUME TypeOK, OpenInv, HandleDoorUpdate PROVE InStep' /\ OpeningQueued' /\ OpeningTaken'
<1> USE DEF OpenInv
<1> DEFINE u == queue[1]
<1>1. /\ DoorType /\ queue # <<>> /\ Len(queue) \in Nat \ {0} /\ u \in Update
      /\ Len(queue') = Len(queue) - 1 /\ (queue' = <<>> <=> Len(queue) = 1)
      /\ \A k \in 1..(Len(queue) - 1) : queue'[k] = queue[k + 1] /\ Before(k)' = Before(k + 1)
  BY Leaves DEF TypeOK
<1>2. /\ lastOpen' = IF u.connected THEN {u.open} ELSE None
      /\ opened' = Noted(u) /\ clearing' = IF Acknowledged(u) THEN clearing + 1 ELSE clearing
      /\ UNCHANGED <<snapshot, connected, door, running, wasOpened, handler, drops, restarts>>
  BY Leaves DEF HandleDoorUpdate, machine, client, TypeOK
<1> SUFFICES ASSUME Held PROVE InStep' /\ OpeningQueued' /\ OpeningTaken'
  BY <1>2 DEF InStep, OpeningQueued, OpeningTaken, Held
<1>3. Past' = Past
  BY <1>2 DEF Past
<1>4. InStep'
  <2>1. /\ connected /\ u.connected /\ Latest = {door}
        /\ snapshot = {[connected |-> TRUE, open |-> door, printing |-> running # NoPrint]}
    BY <1>1 DEF InStep
  <2>2. \A k \in 1..Len(queue') : queue'[k].connected
    <3>1. \A k \in 1..Len(queue') : k + 1 \in 1..Len(queue) /\ queue'[k] = queue[k + 1]
      BY <1>1
    <3> QED
      BY <3>1 DEF InStep
  <2>3. Latest' = {door}
    <3>1. CASE Len(queue) = 1
      BY <1>1, <1>2, <2>1, <3>1 DEF Latest
    <3>2. CASE Len(queue) # 1
      <4>1. queue' # <<>> /\ queue'[Len(queue')] = queue[Len(queue)]
        BY <1>1, <3>2
      <4> QED
        BY <1>1, <2>1, <4>1 DEF Latest
    <3> QED
      BY <3>1, <3>2
  <2> QED
    BY <1>2, <2>1, <2>2, <2>3 DEF InStep
<1>5. OpeningQueued'
  <2>1. \A k \in 1..Len(queue') : k + 1 \in 1..Len(queue) /\ queue'[k] = queue[k + 1] /\ Before(k)' = Before(k + 1)
    BY <1>1
  <2> QED
    BY <1>2, <1>3, <2>1 DEF OpeningQueued
<1>6. OpeningTaken'
  <2>1. Before(1) = lastOpen /\ 1 \in 1..Len(queue)
    BY <1>1 DEF Before
  <2>2. Edge(u) /\ u.open => Past \subseteq wasOpened
    <3>1. u.open \in BOOLEAN
      BY <1>1 DEF Update
    <3> QED
      BY <2>1, <3>1 DEF OpeningQueued, Edge
  <2>3. Noted(u) => opened \/ (Edge(u) /\ u.open)
    <3> HIDE DEF u
    <3> QED
      BY DEF Noted, Edge
  <2>4. Acknowledged(u) => opened
    BY DEF Acknowledged
  <2>5. (opened' \/ clearing' > 0) => Past \subseteq wasOpened
    BY <1>2, <2>2, <2>3, <2>4 DEF OpeningTaken
  <2> QED
    BY <1>2, <1>3, <2>5 DEF OpeningTaken
<1> QED
  BY <1>4, <1>5, <1>6

\* As long as the server runs, a gate that is up has the print that raised it.
LEMMA NextKnown == ASSUME TypeOK, OwnerKnown, [Next]_vars PROVE OwnerKnown'
<1>1. ASSUME NEW p \in Prints, RaiseGate(p) PROVE OwnerKnown'
  <2>1. owner' = p /\ handler'[p] = "raised"
    BY <1>1 DEF RaiseGate, TypeOK, MachineType
  <2> QED
    BY <2>1 DEF OwnerKnown, Past
<1>2. CASE ~gate'
  BY <1>2 DEF OwnerKnown
<1>3. CASE Restart
  <2>1. restarts' # 0
    BY <1>3 DEF Restart, TypeOK, BoundType
  <2> QED
    BY <2>1 DEF OwnerKnown, Held
<1>4. ASSUME UNCHANGED <<gate, owner, restarts>>, drops' = drops \/ drops' = drops + 1 PROVE OwnerKnown'
  <2>1. Held' => Held
    BY <1>4 DEF Held, TypeOK, BoundType
  <2> QED
    BY <1>4, <2>1, PastGrows DEF OwnerKnown
<1>5. ASSUME Next, ~Restart, \A p \in Prints : ~RaiseGate(p)
      PROVE ~gate' \/ (UNCHANGED <<gate, owner, restarts>> /\ (drops' = drops \/ drops' = drops + 1))
  BY <1>5 DEF Next, AttachArchive, PrintStarts, Check, Load, Commit, Locked, GiveUp, Rest, Lower, PrintEnds, DoorMoves,
              Drops, PowerOff, Reconnects, Push, PrinterRest, HandleDoorUpdate, DoorClears, DoorIgnored, SetGate,
              memory, machine
<1>6. CASE UNCHANGED vars
  BY <1>4, <1>6 DEF vars, memory, machine
<1> QED
  BY <1>1, <1>2, <1>3, <1>4, <1>5, <1>6

\* Every step keeps the invariant of the openings.
LEMMA NextOpen == ASSUME TypeOK, StreamInv, OpenInv, [Next]_vars PROVE OpenInv'
<1>1. OwnerKnown'
  BY NextKnown DEF OpenInv
<1>2. CASE Restart \/ Drops \/ PowerOff
  <2>1. drops' # 0 \/ restarts' # 0
    BY <1>2 DEF Restart, Drops, PowerOff, TypeOK, BoundType
  <2> QED
    BY <1>1, <2>1 DEF OpenInv, InStep, OpeningQueued, OpeningTaken, Held
<1>3. CASE Reconnects
  <2>1. ~connected /\ UNCHANGED <<drops, restarts>>
    BY <1>3 DEF Reconnects, machine
  <2>2. ~Held'
    BY <2>1 DEF Held, OpenInv, InStep
  <2> QED
    BY <1>1, <2>2 DEF OpenInv, InStep, OpeningQueued, OpeningTaken
<1>4. CASE Aside
  <2>1. /\ UNCHANGED <<snapshot, queue, lastOpen, connected, door, running, wasOpened, drops, restarts>>
        /\ opened' => opened
        /\ clearing' \in Nat /\ clearing' <= clearing
    BY <1>4, AsideStream
  <2>2. CASE Reporting
    BY <1>1, <2>2, ReportOpen DEF OpenInv
  <2>3. CASE ~Reporting
    <3>1. Past' = Past
      BY <2>3, PastGrows DEF Reporting
    <3>2. Held' = Held /\ Latest' = Latest
      BY <2>1 DEF Held, Latest
    <3>3. \A k \in 1..Len(queue) : Before(k)' = Before(k)
      BY <2>1 DEF Before
    <3>4. InStep'
      BY <2>1, <3>2 DEF OpenInv, InStep
    <3>5. OpeningQueued'
      BY <2>1, <3>1, <3>2, <3>3 DEF OpenInv, OpeningQueued
    <3>6. OpeningTaken'
      <4>1. opened' \/ clearing' > 0 => opened \/ clearing > 0
        BY <2>1 DEF TypeOK, DoorType
      <4> QED
        BY <2>1, <3>1, <3>2, <4>1 DEF OpenInv, OpeningTaken
    <3> QED
      BY <1>1, <3>4, <3>5, <3>6 DEF OpenInv
  <2> QED
    BY <2>2, <2>3
<1> QED
  BY <1>1, <1>2, <1>3, <1>4, NextKinds, ReportOpen, HandleOpen DEF OpenInv

------------------------------------------------------------------------------
\* Nothing is observed, noted or queued at the start.
LEMMA InitDoor == Init => CloseInv /\ OpenInv
<1> SUFFICES ASSUME Init PROVE CloseInv /\ OpenInv
  OBVIOUS
<1>1. /\ queue = <<>> /\ snapshot = None /\ lastOpen = None /\ ~opened /\ clearing = 0 /\ connected
      /\ owner = NoPrint /\ ~gate /\ Len(queue) = 0
  BY DEF Init
<1>2. StreamInv
  <2>1. LastUpdate
    BY <1>1 DEF LastUpdate
  <2> QED
    BY <1>1, <2>1 DEF StreamInv, OwnerEnded, Unheard, NothingSeen, OpeningNoted, StillOpen
<1>3. ClosingQueued /\ ClosingNext /\ ClosingTaken
  BY <1>1 DEF ClosingQueued, ClosingNext, ClosingTaken
<1>4. OpenInv
  BY <1>1 DEF OpenInv, InStep, OpeningQueued, OpeningTaken, OwnerKnown
<1> QED
  BY <1>2, <1>3, <1>4 DEF CloseInv

DoorInv == TypeOK /\ CloseInv /\ OpenInv

\* The invariant of the door.
LEMMA DoorInvariant == Spec => []DoorInv
<1>1. Init => DoorInv
  BY InitType, InitDoor DEF DoorInv
<1>2. DoorInv /\ [Next]_vars => DoorInv'
  BY NextType, NextClose, NextOpen DEF DoorInv, CloseInv
<1> QED
  BY <1>1, <1>2, PTL DEF Spec

\* Across disconnections, presumed power losses, broadcasts of the cached state and
\* restarts, the door tracking lowers a gate only after the door was really closed
\* since the end of the print that raised the gate.
THEOREM DoorClosesFirst == Spec => DoorClosedAfterEnd
<1>1. DoorInv /\ [Next]_vars => (DoorLowers /\ owner # NoPrint => owner \in wasClosed)
  <2> SUFFICES ASSUME DoorInv, [Next]_vars, DoorLowers, owner # NoPrint PROVE owner \in wasClosed
    OBVIOUS
  <2>1. clearing > 0
    <3>1. clearing' \in Nat
      BY NextType DEF DoorInv, TypeOK, DoorType
    <3> QED
      BY <3>1 DEF DoorLowers, DoorInv, TypeOK, DoorType
  <2> QED
    BY <2>1 DEF DoorInv, CloseInv, StreamInv, OwnerEnded, ClosingTaken
<1> QED
  BY <1>1, DoorInvariant, PTL DEF Spec, DoorClosedAfterEnd

\* As long as the connection holds and the server runs, it lowers a gate only after
\* the door was really opened since the end of that print: an opening during the
\* print, or told late, is none.
THEOREM DoorOpensFirst == Spec => DoorAcknowledges
<1>1. DoorInv /\ [Next]_vars => (DoorLowers /\ drops + restarts = 0 => owner \in wasOpened)
  <2> SUFFICES ASSUME DoorInv, [Next]_vars, DoorLowers, drops + restarts = 0 PROVE owner \in wasOpened
    OBVIOUS
  <2>1. clearing > 0
    <3>1. clearing' \in Nat
      BY NextType DEF DoorInv, TypeOK, DoorType
    <3> QED
      BY <3>1 DEF DoorLowers, DoorInv, TypeOK, DoorType
  <2>2. Held
    BY DEF Held, DoorInv, TypeOK, BoundType
  <2> QED
    BY <2>1, <2>2 DEF DoorLowers, DoorInv, OpenInv, OwnerKnown, OpeningTaken
<1> QED
  BY <1>1, DoorInvariant, PTL DEF Spec, DoorAcknowledges
=============================================================================
