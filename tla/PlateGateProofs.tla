--------------------------- MODULE PlateGateProofs ---------------------------
(***************************************************************************)
(* Type correctness of the plate-clear gate, that no archive is shown      *)
(* without its gate, and that the columns follow the memory, for any       *)
(* prints, writes, locks, door movements, disconnections and restarts.     *)
(***************************************************************************)
EXTENDS PlateGate, TLAPS

\* What the assumption on the constants gives.
LEMMA Constants ==
  NoPrint \notin Prints /\ MaxWrites \in Nat /\ MaxLocks \in Nat /\ MaxAttempts \in Nat /\ MaxDoor \in Nat /\ MaxDrops \in Nat /\ MaxRestarts \in Nat
BY ConstantsOK

USE DEF Archives

\* The initial state is well typed.
LEMMA InitType == Init => TypeOK
<1> SUFFICES ASSUME Init PROVE TypeOK
  OBVIOUS
<1>1. GateType /\ MachineType
  <2>1. handler \in [Prints -> {"new", "unheard", "ended", "raised", "done"}]
    BY DEF Init
  <2>2. cache \in Reading
    BY DEF Init, Reading
  <2> QED
    BY <2>1, <2>2 DEF Init, GateType, MachineType
<1>2. StoreType
  <2>1. row \in Row /\ Nothing \in Changes
    BY DEF Init, Row, Nothing, Changes
  <2>2. stage \in [1..MaxWrites -> {"queued", "checked", "loaded", "retry"}] /\ changes \in [1..MaxWrites -> Changes]
        /\ retries \in [1..MaxWrites -> Nat]
    BY <2>1 DEF Init
  <2> QED
    BY <2>1, <2>2 DEF Init, StoreType
<1>3. DoorType
  <2>1. queue \in Seq(Update)
    BY DEF Init
  <2> QED
    BY <2>1 DEF Init, DoorType, None
<1>4. BoundType
  BY DEF Init, BoundType
<1> QED
  BY <1>1, <1>2, <1>3, <1>4 DEF TypeOK

\* Raising or lowering the gate schedules one write.
LEMMA SetGateType == ASSUME TypeOK, NEW up \in BOOLEAN, SetGate(up)
  PROVE gate' \in BOOLEAN /\ opened' \in BOOLEAN /\ archive' \in Archives /\ tasks' \subseteq Task /\ written' \in Nat
<1> USE DEF TypeOK, BoundType
<1>1. [id |-> written + 1, kind |-> "gate", up |-> up] \in Task
  BY Constants DEF Task, SetGate, Schedule
<1>2. opened' = (opened /\ up) /\ gate' = up /\ archive' = NoPrint
  BY DEF SetGate
<1>3. tasks' \subseteq Task /\ written' \in Nat
  BY <1>1 DEF SetGate, Schedule, StoreType
<1> QED
  BY <1>2, <1>3

\* The snapshot of a push is queued once.
LEMMA QueueType == ASSUME DoorType, NEW c \in Reading, Queue(c)
  PROVE snapshot' \in SUBSET Update /\ queue' \in Seq(Update)
<1>1. [connected |-> TRUE, open |-> c.open, printing |-> c.printing] \in Update
  BY DEF Reading, Update
<1> DEFINE new == [connected |-> TRUE, open |-> c.open, printing |-> c.printing]
<1>2. UNCHANGED <<snapshot, queue>> \/ (snapshot' = {new} /\ queue' = Append(queue, new))
  BY DEF Queue
<1> HIDE DEF new
<1>3. Append(queue, new) \in Seq(Update)
  BY <1>1 DEF DoorType, new
<1> QED
  BY <1>1, <1>2, <1>3 DEF DoorType, new

\* A report reaches the cache and the queue while the connection holds.
LEMMA ReportType == ASSUME DoorType, MachineType, NEW c \in Reading, Report(c)
  PROVE snapshot' \in SUBSET Update /\ queue' \in Seq(Update) /\ cache' \in Reading
<1>1. CASE connected
  BY <1>1, QueueType DEF Report
<1>2. CASE ~connected
  BY <1>2 DEF Report, DoorType, MachineType
<1> QED
  BY <1>1, <1>2

\* What a persistence task writes is a row.
LEMMA WantedType == ASSUME GateType, NEW t \in Task PROVE Wanted(t) \in Row
<1>1. CASE t.kind = "gate"
  <2>1. t.up \in BOOLEAN
    BY <1>1 DEF Task
  <2> QED
    BY <1>1, <2>1 DEF Wanted, Row, GateType
<1>2. CASE t.kind # "gate"
  <2>1. t.archive \in Archives
    BY <1>2 DEF Task
  <2> QED
    BY <1>2, <2>1 DEF Wanted, Row
<1> QED
  BY <1>1, <1>2

\* Every step keeps the types.
LEMMA NextType == ASSUME TypeOK, [Next]_vars PROVE TypeOK'
<1> USE Constants DEF TypeOK
<1>1. ASSUME NEW p \in Prints, RaiseGate(p) PROVE TypeOK'
  <2>1. GateType' /\ tasks' \subseteq Task /\ written' \in Nat
    BY <1>1, SetGateType DEF RaiseGate, GateType
  <2>2. MachineType'
    BY <1>1 DEF RaiseGate, MachineType, client, machine
  <2> QED
    BY <1>1, <2>1, <2>2 DEF RaiseGate, StoreType, DoorType, BoundType, store, doorVars, machine
<1>2. ASSUME NEW p \in Prints, AttachArchive(p) PROVE TypeOK'
  <2>1. \A a \in Archives : written < MaxWrites =>
            [id |-> written + 1, kind |-> "archive", archive |-> a] \in Task
    BY DEF Task, BoundType
  <2>2. archive' \in Archives /\ tasks' \subseteq Task /\ written' \in Nat
    BY <1>2, <2>1 DEF AttachArchive, Schedule, GateType, StoreType, BoundType
  <2>3. MachineType'
    BY <1>2 DEF AttachArchive, MachineType, client, machine
  <2> QED
    BY <1>2, <2>2, <2>3 DEF AttachArchive, GateType, StoreType, DoorType, BoundType, store, doorVars, machine
<1>3. CASE Lower
  <2>1. GateType' /\ tasks' \subseteq Task /\ written' \in Nat
    BY <1>3, SetGateType DEF Lower, GateType
  <2> QED
    BY <1>3, <2>1 DEF Lower, StoreType, DoorType, MachineType, BoundType, store, doorVars, client, machine
<1>4. ASSUME NEW t \in tasks, Check(t) \/ Load(t) \/ Commit(t) \/ Locked(t) \/ GiveUp(t) PROVE TypeOK'
  <2>1. t \in Task /\ Nothing \in Changes
    BY DEF StoreType, Nothing, Changes, Row
  <2>2. UNCHANGED <<memory, doorVars, client, machine, handler, owner, written, restarts>>
    BY <1>4 DEF Check, Load, Commit, Locked, GiveUp, Rest
  <2>3. stage' \in [1..MaxWrites -> {"queued", "checked", "loaded", "retry"}] /\ tasks' \subseteq Task
    BY <1>4 DEF Check, Load, Commit, Locked, GiveUp, Finish, StoreType
  <2>4. changes' \in [1..MaxWrites -> Changes]
    <3>1. CASE Load(t)
      <4>1. Wanted(t) \in Row
        BY <2>1, WantedType
      <4>2. [to |-> Wanted(t), columns |-> {c \in {"up", "archive"} : Wanted(t)[c] # row[c]}] \in Changes
        BY <4>1 DEF Changes
      <4> QED
        BY <3>1, <4>2 DEF Load, StoreType
    <3>2. CASE Check(t) \/ Commit(t) \/ Locked(t) \/ GiveUp(t)
      BY <2>1, <3>2 DEF Check, Commit, Locked, GiveUp, Finish, StoreType
    <3> QED
      BY <1>4, <3>1, <3>2
  <2>5. row' \in Row
    <3>1. CASE Commit(t)
      <4>1. row' = [c \in {"up", "archive"} |-> (IF c \in changes[t.id].columns THEN changes[t.id].to ELSE row)[c]]
        BY <3>1 DEF Commit
      <4>2. t.id \in 1..MaxWrites
        BY <2>1 DEF Task
      <4>3. changes[t.id].to \in Row /\ row \in Row
        BY <4>2 DEF StoreType, Changes
      <4> QED
        BY <4>1, <4>3 DEF Row
    <3> QED
      BY <1>4, <3>1 DEF Check, Load, Locked, GiveUp, StoreType
  <2>6. overlap' \in BOOLEAN /\ lost' \in BOOLEAN /\ locks' \in Nat
    <3>1. overlap' \in BOOLEAN /\ lost' \in BOOLEAN
      BY <1>4 DEF Check, Load, Commit, Locked, GiveUp, StoreType
    <3>2. locks' \in Nat
      BY <1>4 DEF Check, Load, Commit, Locked, GiveUp, BoundType
    <3> QED
      BY <3>1, <3>2
  <2>7. retries' \in [1..MaxWrites -> Nat]
    BY <1>4 DEF Check, Load, Commit, Locked, GiveUp, Finish, StoreType
  <2> QED
    BY <2>2, <2>3, <2>4, <2>5, <2>6, <2>7 DEF GateType, StoreType, DoorType, MachineType, BoundType, memory, doorVars, client, machine
<1>5. ASSUME DoorMoves \/ PrintEnds \/ Push \/ \E p \in Prints : PrintStarts(p) PROVE TypeOK'
  <2>1. /\ UNCHANGED <<memory, store, tasks, lastOpen, clearing, connected, owner, written, restarts>>
        /\ \E c \in Reading : Report(c)
    BY <1>5 DEF DoorMoves, PrintEnds, Push, PrintStarts, PrinterRest, Reading, MachineType
  <2>2. snapshot' \in SUBSET Update /\ queue' \in Seq(Update) /\ cache' \in Reading
    BY <2>1, ReportType
  <2>3. /\ door' \in BOOLEAN /\ running' \in Archives
        /\ wasOpened' \subseteq Prints /\ wasClosed' \subseteq Prints /\ moves' \in Nat /\ drops' = drops
    <3>1. Past \subseteq Prints
      BY DEF Past
    <3>2. wasOpened' \subseteq Prints /\ wasClosed' \subseteq Prints
      BY <1>5, <3>1 DEF DoorMoves, PrintEnds, Push, PrintStarts, machine, MachineType
    <3>3. moves' \in Nat /\ drops' = drops
      BY <1>5 DEF DoorMoves, PrintEnds, Push, PrintStarts, machine, BoundType
    <3>4. door' \in BOOLEAN
      BY <1>5 DEF DoorMoves, PrintEnds, Push, PrintStarts, machine, MachineType
    <3>5. running' \in Archives
      BY <1>5 DEF DoorMoves, PrintEnds, Push, PrintStarts, machine, MachineType
    <3> QED
      BY <3>2, <3>3, <3>4, <3>5
  <2>4. handler' \in [Prints -> {"new", "unheard", "ended", "raised", "done"}]
    BY <1>5 DEF DoorMoves, PrintEnds, Push, PrintStarts, Heard, MachineType
  <2> QED
    BY <2>1, <2>2, <2>3, <2>4 DEF GateType, StoreType, DoorType, MachineType, BoundType, memory, store
<1>6. CASE Drops \/ PowerOff
  <2>1. Off \in Update
    BY DEF Off, Update
  <2>2. snapshot' \in SUBSET Update /\ queue' \in Seq(Update)
    <3>1. queue' = Append(queue, Off) /\ snapshot' \in {{Off}, {}}
      BY <1>6 DEF Drops, PowerOff, QueueDoorReset, None
    <3>2. Append(queue, Off) \in Seq(Update)
      BY <2>1 DEF DoorType
    <3> QED
      BY <2>1, <3>1, <3>2
  <2>3. cache' \in Reading /\ connected' \in BOOLEAN /\ drops' \in Nat
    <3>1. cache' \in Reading
      <4>1. cache \in Reading /\ cache.printing \in BOOLEAN
        BY DEF MachineType, Reading
      <4>2. \A printing \in BOOLEAN : [cache EXCEPT !.printing = printing] \in Reading
        BY <4>1 DEF Reading
      <4> QED
        BY <1>6, <4>1, <4>2 DEF Drops, PowerOff
    <3>2. connected' \in BOOLEAN
      BY <1>6 DEF Drops, PowerOff
    <3>3. drops' \in Nat
      BY <1>6 DEF Drops, PowerOff, BoundType
    <3> QED
      BY <3>1, <3>2, <3>3
  <2> QED
    BY <1>6, <2>2, <2>3 DEF Drops, PowerOff, GateType, StoreType, DoorType, MachineType, BoundType, memory, store
<1>7. CASE Reconnects
  <2>1. snapshot' \in SUBSET Update /\ queue' \in Seq(Update)
    BY <1>7, QueueType DEF Reconnects, MachineType
  <2> QED
    BY <1>7, <2>1 DEF Reconnects, GateType, StoreType, DoorType, MachineType, BoundType, memory, store, machine
<1>8. CASE HandleDoorUpdate
  <2>1. Head(queue) \in Update /\ Tail(queue) \in Seq(Update)
    BY <1>8 DEF HandleDoorUpdate, DoorType
  <2>2. \A u \in Update : Noted(u) \in BOOLEAN /\ u.open \in BOOLEAN
    BY DEF Noted, Update, GateType
  <2>3. lastOpen' \in SUBSET BOOLEAN /\ opened' \in BOOLEAN /\ clearing' \in Nat /\ queue' \in Seq(Update)
    BY <1>8, <2>1, <2>2 DEF HandleDoorUpdate, None, DoorType
  <2> QED
    BY <1>8, <2>3 DEF HandleDoorUpdate, GateType, StoreType, DoorType, MachineType, BoundType, store, client, machine
<1>9. CASE DoorClears
  <2>1. GateType' /\ tasks' \subseteq Task /\ written' \in Nat
    <3>1. CASE gate
      BY <1>9, <3>1, SetGateType DEF DoorClears, GateType
    <3>2. CASE ~gate
      BY <1>9, <3>2 DEF DoorClears, GateType, StoreType, BoundType, memory
    <3> QED
      BY <3>1, <3>2
  <2>2. clearing' \in Nat
    BY <1>9 DEF DoorClears, DoorType
  <2> QED
    BY <1>9, <2>1, <2>2 DEF DoorClears, StoreType, DoorType, MachineType, BoundType, store, client, machine
<1>10. CASE DoorIgnored
  BY <1>10 DEF DoorIgnored, GateType, StoreType, DoorType, MachineType, BoundType, memory, store, client, machine
<1>11. CASE Restart
  <2>1. Nothing \in Changes /\ row.up \in BOOLEAN /\ row.archive \in Archives
    BY DEF Nothing, Changes, Row, StoreType
  <2>2. GateType'
    BY <1>11, <2>1 DEF Restart, GateType
  <2>3. StoreType'
    BY <1>11, <2>1 DEF Restart, StoreType
  <2>4. DoorType'
    <3>1. queue' \in Seq(Update)
      BY <1>11 DEF Restart
    <3> QED
      BY <1>11, <3>1 DEF Restart, DoorType, None
  <2>5. handler' \in [Prints -> {"new", "unheard", "ended", "raised", "done"}]
    BY <1>11 DEF Restart, MachineType
  <2>6. MachineType'
    BY <1>11, <2>5 DEF Restart, MachineType, machine, Reading
  <2> QED
    BY <1>11, <2>2, <2>3, <2>4, <2>6 DEF Restart, BoundType, machine
<1>12. CASE UNCHANGED vars
  BY <1>12 DEF vars, memory, store, doorVars, client, machine, GateType, StoreType, DoorType, MachineType, BoundType
<1> QED
  BY <1>1, <1>2, <1>3, <1>4, <1>5, <1>6, <1>7, <1>8, <1>9, <1>10, <1>11, <1>12 DEF Next

\* No step shows an archive without its gate.
LEMMA NextArchive == ASSUME TypeOK, ArchiveNeedsGate, [Next]_vars PROVE ArchiveNeedsGate'
<1> USE DEF ArchiveNeedsGate
<1>1. CASE UNCHANGED <<gate, archive>>
  BY <1>1
<1>2. ASSUME NEW p \in Prints, AttachArchive(p) PROVE ArchiveNeedsGate'
  BY <1>2 DEF AttachArchive
<1>3. CASE archive' = NoPrint
  BY <1>3
<1>4. CASE Restart
  BY <1>4 DEF Restart
<1>5. ASSUME NEW p \in Prints, RaiseGate(p) \/ PrintStarts(p)
      PROVE archive' = NoPrint \/ UNCHANGED <<gate, archive>>
  BY <1>5 DEF RaiseGate, SetGate, PrintStarts, PrinterRest, memory
<1>6. CASE Lower \/ DoorClears
  BY <1>6 DEF Lower, DoorClears, SetGate, memory
<1>7. ASSUME NEW t \in tasks, Check(t) \/ Load(t) \/ Commit(t) \/ Locked(t) \/ GiveUp(t) PROVE UNCHANGED <<gate, archive>>
  BY <1>7 DEF Check, Load, Commit, Locked, GiveUp, Rest, memory
<1>8. CASE \/ PrintEnds \/ DoorMoves \/ Drops \/ PowerOff \/ Reconnects \/ Push
           \/ HandleDoorUpdate \/ DoorIgnored \/ UNCHANGED vars
  BY <1>8 DEF PrintEnds, DoorMoves, Drops, PowerOff, Reconnects, Push, HandleDoorUpdate, DoorIgnored,
              PrinterRest, vars, memory
<1> QED
  BY <1>1, <1>2, <1>3, <1>4, <1>5, <1>6, <1>7, <1>8 DEF Next

\* The domains of the variables.
THEOREM GateTypes == Spec => []TypeOK
BY InitType, NextType, PTL DEF Spec

\* set_awaiting_plate_clear forgets the archive, and an archive that is found after
\* its gate was lowered is not attached: none is ever shown without a gate.
THEOREM ArchiveFollowsGate == Spec => []ArchiveNeedsGate
<1>1. Init => ArchiveNeedsGate
  BY DEF Init, ArchiveNeedsGate
<1> QED
  BY <1>1, InitType, NextType, NextArchive, PTL DEF Spec

------------------------------------------------------------------------------
\* What the columns should hold.
InMemory == [up |-> gate, archive |-> archive]

\* A write between its check and its commit.
Active(t) == stage[t.id] \in {"checked", "loaded"}

\* A write has an id of its own, and a fresh one is queued.
OwnIds ==
    /\ \A t, u \in tasks : t.id = u.id => t = u
    /\ \A t \in tasks : t.id <= written
    /\ \A i \in 1..MaxWrites : i > written => stage[i] = "queued"

\* Without an overlap one write at most is active.
OneActive == ~overlap => \A t, u \in tasks : Active(t) /\ Active(u) => t = u

\* The columns never hold an archive without its gate.
RowShape == ~overlap => (row.archive # NoPrint => row.up)

\* What a loaded write commits is a whole row: the columns it leaves out did not
\* change since it loaded them.
WholeRow(t) ==
    LET to == changes[t.id].to
    IN  /\ t.kind = "gate" => to.up = t.up
        /\ t.kind = "archive" => to.up /\ to.archive = t.archive
        /\ to.archive # NoPrint => to.up
        /\ \A c \in {"up", "archive"} : c \notin changes[t.id].columns => to[c] = row[c]
LoadedWhole == ~overlap => \A t \in tasks : stage[t.id] = "loaded" => WholeRow(t)

\* The memory is in the columns with nothing under way, or some write will put it
\* there: one that is still current before it loads, or one that has loaded it. After
\* a write was given up this holds again from the next check on.
Waits(t) == stage[t.id] \in {"queued", "retry", "checked"} /\ Current(t)
Carries(t) == stage[t.id] = "loaded" /\ changes[t.id].to = InMemory
Represented == ~overlap /\ (lost => \E t \in tasks : Active(t)) =>
    \/ \E t \in tasks : Waits(t) \/ Carries(t)
    \/ row = InMemory /\ \A t \in tasks : ~Active(t)

WriteInv == OwnIds /\ OneActive /\ RowShape /\ LoadedWhole /\ Represented
PersistInv == TypeOK /\ ArchiveNeedsGate /\ WriteInv

\* A write's kind says which field it has.
LEMMA TaskKinds == ASSUME NEW t \in Task
  PROVE /\ t.id \in 1..MaxWrites /\ t.kind \in {"gate", "archive"}
        /\ t.kind = "gate" => t.up \in BOOLEAN
        /\ t.kind = "archive" => t.archive \in Archives
BY DEF Task

\* Before any write the columns hold what the memory does.
LEMMA InitWrites == Init => WriteInv
<1> SUFFICES ASSUME Init PROVE WriteInv
  OBVIOUS
<1>1. tasks = {} /\ row = InMemory /\ row.archive = NoPrint
  BY DEF Init, InMemory
<1>2. OwnIds
  BY <1>1 DEF Init, OwnIds
<1> QED
  BY <1>1, <1>2 DEF WriteInv, OneActive, RowShape, LoadedWhole, Represented

\* A write that is still current wants the memory in the columns.
LEMMA CurrentWants == ASSUME TypeOK, ArchiveNeedsGate, NEW t \in Task, Current(t)
  PROVE Wanted(t) = InMemory
BY TaskKinds DEF Current, Wanted, InMemory, ArchiveNeedsGate, TypeOK, GateType

\* A write that wants a row wants no archive without its gate.
LEMMA WantedShape == ASSUME TypeOK, ArchiveNeedsGate, NEW t \in Task
  PROVE /\ Wanted(t) \in Row
        /\ t.kind = "gate" => Wanted(t).up = t.up
        /\ t.kind = "archive" => Wanted(t).up /\ Wanted(t).archive = t.archive
        /\ Wanted(t).archive # NoPrint => Wanted(t).up
BY TaskKinds, WantedType DEF Wanted, TypeOK

\* A scheduled write is queued behind all others and disturbs none.
LEMMA ScheduleWrites == ASSUME TypeOK, OwnIds, NEW t \in Task, t.id = written + 1, Schedule(t), UNCHANGED stage
  PROVE OwnIds' /\ stage'[t.id] = "queued" /\ t \in tasks' /\ \A u \in tasks' : u \in tasks \/ u = t
<1>1. written < MaxWrites /\ written' = written + 1 /\ tasks' = tasks \cup {t} /\ written \in Nat
  BY DEF Schedule, TypeOK, BoundType
<1>2. \A u \in tasks : u.id \in Nat /\ u.id <= written
  BY TaskKinds DEF OwnIds, TypeOK, StoreType
<1>3. stage[t.id] = "queued"
  BY <1>1, TaskKinds DEF OwnIds
<1>4. \A u \in tasks : u.id # t.id
  BY <1>1, <1>2
<1>5. \A u \in tasks' : u.id <= written'
  BY <1>1, <1>2
<1>6. \A i \in 1..MaxWrites : i > written' => stage'[i] = "queued"
  BY <1>1, Constants DEF OwnIds
<1> QED
  BY <1>1, <1>3, <1>4, <1>5, <1>6 DEF OwnIds

\* A change of the memory schedules a write that is current; one that only repeats
\* it leaves what represented it.
LEMMA MemoryWrites == ASSUME PersistInv, NEW t \in Task, t.id = written + 1, Schedule(t), UNCHANGED store,
                             Current(t)' \/ UNCHANGED <<gate, archive>>
  PROVE WriteInv'
<1> USE DEF PersistInv, WriteInv
<1>1. UNCHANGED <<row, stage, changes, overlap, lost>>
  BY DEF store
<1>2. OwnIds' /\ stage'[t.id] = "queued" /\ t \in tasks' /\ \A u \in tasks' : u \in tasks \/ u = t
  BY <1>1, ScheduleWrites
<1>3. ~Active(t)' /\ \A u \in tasks : Active(u)' = Active(u)
  BY <1>1, <1>2 DEF Active
<1>4. OneActive'
  BY <1>1, <1>2, <1>3 DEF OneActive
<1>5. LoadedWhole'
  BY <1>1, <1>2 DEF LoadedWhole, WholeRow
<1>6. Represented'
  <2> SUFFICES ASSUME ~overlap, lost => \E u \in tasks : Active(u)
               PROVE \/ \E u \in tasks' : Waits(u)' \/ Carries(u)'
                     \/ row' = InMemory' /\ \A u \in tasks' : ~Active(u)'
    <3>1. (\E u \in tasks' : Active(u)') => \E u \in tasks : Active(u)
      BY <1>2, <1>3
    <3> QED
      BY <1>1, <3>1 DEF Represented
  <2>1. CASE Current(t)'
    BY <1>2, <2>1 DEF Waits
  <2>2. CASE UNCHANGED <<gate, archive>>
    <3>1. InMemory' = InMemory /\ \A u \in tasks : (Waits(u)' <=> Waits(u)) /\ (Carries(u)' <=> Carries(u))
      BY <1>1, <2>2 DEF InMemory, Waits, Carries, Current
    <3>2. tasks \subseteq tasks'
      BY DEF Schedule
    <3> QED
      BY <1>1, <1>2, <1>3, <3>1, <3>2 DEF Represented
  <2> QED
    BY <2>1, <2>2
<1> QED
  BY <1>1, <1>2, <1>4, <1>5, <1>6 DEF RowShape

\* set_awaiting_plate_clear
LEMMA SetGateWrites == ASSUME PersistInv, NEW up \in BOOLEAN, SetGate(up), UNCHANGED store PROVE WriteInv'
<1>1. written < MaxWrites /\ written \in Nat
  BY DEF SetGate, Schedule, PersistInv, TypeOK, BoundType
<1>2. [id |-> written + 1, kind |-> "gate", up |-> up] \in Task
  BY <1>1, Constants DEF Task
<1>3. PICK t \in Task : t = [id |-> written + 1, kind |-> "gate", up |-> up]
  BY <1>2
<1>4. Schedule(t) /\ t.id = written + 1 /\ t.kind = "gate" /\ t.up = up
  BY <1>3 DEF SetGate
<1>5. Current(t)'
  BY <1>4 DEF Current, SetGate
<1> QED
  BY <1>4, <1>5, MemoryWrites

\* Leaving memory, tasks and store alone leaves the writes alone.
LEMMA WritesStutter == ASSUME PersistInv, UNCHANGED <<gate, archive, row, stage, changes, overlap, lost, tasks, written>>
  PROVE WriteInv'
BY DEF PersistInv, WriteInv, OwnIds, OneActive, RowShape, LoadedWhole, WholeRow, Represented, Waits, Carries,
       Active, Current, InMemory

\* A write that was checked, loaded, committed or sent back: the memory stays.
LEMMA TaskWrites == ASSUME PersistInv, NEW t \in tasks, Check(t) \/ Load(t) \/ Commit(t) \/ Locked(t) \/ GiveUp(t)
  PROVE WriteInv'
<1> USE DEF PersistInv, WriteInv
<1>1. t \in Task /\ t.id \in 1..MaxWrites /\ stage \in [1..MaxWrites -> {"queued", "checked", "loaded", "retry"}]
      /\ changes \in [1..MaxWrites -> Changes] /\ tasks \subseteq Task /\ row \in Row
  BY TaskKinds DEF TypeOK, StoreType
<1>2. UNCHANGED <<gate, archive, written>> /\ tasks' \subseteq tasks
  BY DEF Check, Load, Commit, Locked, GiveUp, Rest, memory, Finish
<1>3. \A u \in Task : u.id # t.id => stage'[u.id] = stage[u.id] /\ changes'[u.id] = changes[u.id]
  <2>1. \A i \in 1..MaxWrites : i # t.id => stage'[i] = stage[i] /\ changes'[i] = changes[i]
    BY <1>1 DEF Check, Load, Commit, Locked, GiveUp, Finish
  <2> QED
    BY <2>1, TaskKinds
<1>4. \A u \in tasks : u # t => u.id # t.id
  BY DEF OwnIds
<1>5. InMemory' = InMemory /\ \A u \in tasks : Current(u)' = Current(u)
  BY <1>2 DEF InMemory, Current
<1>6. \A u \in tasks : u # t => Active(u)' = Active(u) /\ Waits(u)' = Waits(u) /\ Carries(u)' = Carries(u)
  BY <1>1, <1>3, <1>4, <1>5 DEF Active, Waits, Carries
<1>7. OwnIds'
  <2>1. t.id <= written
    BY DEF OwnIds
  <2>2. \A i \in 1..MaxWrites : i > written' => stage'[i] = "queued"
    <3>1. \A i \in 1..MaxWrites : i > written => i # t.id
      BY <1>1, <2>1, Constants DEF TypeOK, BoundType
    <3>2. \A i \in 1..MaxWrites : i # t.id => stage'[i] = stage[i]
      BY <1>1 DEF Check, Load, Commit, Locked, GiveUp, Finish
    <3> QED
      BY <1>2, <3>1, <3>2 DEF OwnIds
  <2> QED
    BY <1>2, <2>2 DEF OwnIds
<1>8. CASE overlap'
  BY <1>7, <1>8 DEF OneActive, RowShape, LoadedWhole, Represented
<1>9. ASSUME ~overlap', Check(t) PROVE WriteInv'
  <2>1. ~overlap /\ UNCHANGED <<row, lost>>
    BY <1>9 DEF Check, Finish
  <2>2. stage[t.id] \in {"queued", "retry"}
    BY <1>9 DEF Check
  <2>3. CASE Current(t)
    <3>1. /\ stage' = [stage EXCEPT ![t.id] = "checked"] /\ UNCHANGED <<tasks, changes>>
          /\ \A u \in tasks \ {t} : ~Active(u)
      BY <1>9, <2>3 DEF Check, Active
    <3>2. stage'[t.id] = "checked"
      BY <1>1, <3>1
    <3>3. OneActive'
      BY <1>6, <3>1 DEF OneActive
    <3>4. LoadedWhole'
      BY <1>3, <1>4, <1>1, <2>1, <3>1, <3>2 DEF LoadedWhole, WholeRow
    <3>5. Waits(t)'
      BY <1>5, <2>3, <3>2 DEF Waits
    <3> QED
      BY <1>7, <2>1, <3>1, <3>3, <3>4, <3>5 DEF RowShape, Represented
  <2>4. CASE ~Current(t)
    <3>1. Finish(t) /\ tasks' = tasks \ {t}
      BY <1>9, <2>4 DEF Check, Finish
    <3>2. OneActive'
      BY <1>6, <2>1, <3>1 DEF OneActive
    <3>3. LoadedWhole'
      BY <1>3, <1>4, <1>1, <2>1, <3>1 DEF LoadedWhole, WholeRow
    <3>4. ~Waits(t) /\ ~Carries(t) /\ ~Active(t)
      BY <2>2, <2>4 DEF Waits, Carries, Active
    <3>5. Represented'
      BY <1>5, <1>6, <2>1, <3>1, <3>4 DEF Represented
    <3> QED
      BY <1>7, <2>1, <3>2, <3>3, <3>5 DEF RowShape
  <2> QED
    BY <2>3, <2>4
<1>10. ASSUME ~overlap', Load(t) PROVE WriteInv'
  <2>1. /\ ~overlap /\ UNCHANGED <<row, lost, tasks>> /\ stage[t.id] = "checked"
        /\ stage' = [stage EXCEPT ![t.id] = "loaded"]
        /\ changes' = [changes EXCEPT ![t.id] =
              [to |-> Wanted(t), columns |-> {c \in {"up", "archive"} : Wanted(t)[c] # row[c]}]]
    BY <1>10 DEF Load
  <2>2. /\ stage'[t.id] = "loaded" /\ changes'[t.id].to = Wanted(t)
        /\ changes'[t.id].columns = {c \in {"up", "archive"} : Wanted(t)[c] # row[c]}
    BY <1>1, <2>1
  <2>3. Active(t) /\ \A u \in tasks \ {t} : ~Active(u)
    BY <2>1 DEF OneActive, Active
  <2>4. OneActive'
    BY <1>6, <2>1, <2>3 DEF OneActive
  <2>5. LoadedWhole'
    <3>1. \A u \in tasks \ {t} : stage'[u.id] # "loaded"
      BY <1>6, <2>3 DEF Active
    <3>2. WholeRow(t)'
      BY <1>1, <2>1, <2>2, WantedShape DEF WholeRow
    <3> QED
      BY <2>1, <3>1, <3>2 DEF LoadedWhole
  <2>6. Represented'
    <3>1. ~Carries(t) /\ (Waits(t) <=> Current(t))
      BY <2>1 DEF Carries, Waits
    <3>2. Current(t) => Carries(t)'
      BY <1>1, <1>5, <2>2, CurrentWants DEF Carries
    <3> QED
      BY <1>6, <2>1, <2>3, <3>1, <3>2 DEF Represented
  <2> QED
    BY <1>7, <2>1, <2>4, <2>5, <2>6 DEF RowShape
<1>11. ASSUME ~overlap', Commit(t) PROVE WriteInv'
  <2>1. /\ ~overlap /\ stage[t.id] = "loaded" /\ tasks' = tasks \ {t}
        /\ row' = [c \in {"up", "archive"} |-> (IF c \in changes[t.id].columns THEN changes[t.id].to ELSE row)[c]]
    BY <1>11 DEF Commit, Finish
  <2>2. WholeRow(t) /\ changes[t.id].to \in Row
    BY <1>1, <2>1 DEF LoadedWhole, Changes
  <2>3. row' = changes[t.id].to
    <3>1. \A c \in {"up", "archive"} : row'[c] = changes[t.id].to[c]
      BY <2>1, <2>2 DEF WholeRow
    <3>2. row' = [c \in {"up", "archive"} |-> row'[c]]
      BY <2>1
    <3>3. changes[t.id].to = [c \in {"up", "archive"} |-> changes[t.id].to[c]]
      BY <2>2 DEF Row
    <3> QED
      BY <3>1, <3>2, <3>3
  <2>4. Active(t) /\ \A u \in tasks' : ~Active(u)'
    BY <1>6, <2>1 DEF OneActive, Active
  <2>5. RowShape'
    BY <2>2, <2>3 DEF RowShape, WholeRow
  <2>6. OneActive' /\ LoadedWhole'
    BY <2>4 DEF OneActive, LoadedWhole, Active
  <2>7. Represented'
    <3>1. CASE \E u \in tasks \ {t} : Waits(u) \/ Carries(u)
      BY <1>6, <2>1, <3>1 DEF Represented
    <3>2. CASE Waits(t) \/ Carries(t)
      <4>1. row' = InMemory'
        BY <1>5, <2>1, <2>3, <3>2 DEF Waits, Carries
      <4> QED
        BY <2>4, <4>1 DEF Represented
    <3> QED
      BY <2>1, <2>4, <3>1, <3>2 DEF Represented
  <2> QED
    BY <1>7, <2>5, <2>6, <2>7
<1>12. ASSUME ~overlap', Locked(t) PROVE WriteInv'
  <2>1. /\ ~overlap /\ UNCHANGED <<row, lost, tasks>> /\ stage[t.id] = "loaded"
        /\ stage' = [stage EXCEPT ![t.id] = "retry"]
    BY <1>12 DEF Locked
  <2>2. stage'[t.id] = "retry" /\ ~Active(t)'
    BY <1>1, <2>1 DEF Active
  <2>3. OneActive'
    BY <1>6, <2>1, <2>2 DEF OneActive
  <2>4. LoadedWhole'
    BY <1>3, <1>4, <1>1, <2>1, <2>2 DEF LoadedWhole, WholeRow
  <2>5. Carries(t) => Waits(t)'
    <3>1. WholeRow(t)
      BY <2>1 DEF LoadedWhole
    <3>2. Carries(t) => Current(t)
      <4> SUFFICES ASSUME Carries(t) PROVE Current(t)
        OBVIOUS
      <4>1. changes[t.id].to.up = gate /\ changes[t.id].to.archive = archive
        BY DEF Carries, InMemory
      <4> QED
        BY <1>1, <3>1, <4>1, TaskKinds DEF WholeRow, Current
    <3> QED
      BY <1>5, <2>2, <3>2 DEF Waits
  <2>6. Active(t) /\ ~Waits(t) /\ \A u \in tasks : ~Active(u)'
    BY <1>6, <2>1, <2>2 DEF Active, Waits, OneActive
  <2>7. Represented'
    BY <1>6, <2>1, <2>5, <2>6 DEF Represented
  <2> QED
    BY <1>7, <2>1, <2>3, <2>4, <2>7 DEF RowShape
<1>13. ASSUME ~overlap', GiveUp(t) PROVE WriteInv'
  <2>1. /\ ~overlap /\ UNCHANGED row /\ lost' /\ tasks' = tasks \ {t} /\ stage[t.id] = "loaded"
    BY <1>13 DEF GiveUp, Finish
  <2>2. \A u \in tasks' : ~Active(u)'
    BY <1>6, <2>1 DEF OneActive, Active
  <2> QED
    BY <1>7, <2>1, <2>2 DEF OneActive, RowShape, LoadedWhole, Active, Represented
<1> QED
  BY <1>8, <1>9, <1>10, <1>11, <1>12, <1>13, <1>7 DEF OneActive, RowShape, LoadedWhole, Represented

\* Every step keeps the invariant of the writes.
LEMMA NextWrites == ASSUME PersistInv, [Next]_vars PROVE WriteInv'
<1>1. ASSUME NEW p \in Prints, RaiseGate(p) PROVE WriteInv'
  BY <1>1, SetGateWrites DEF RaiseGate
<1>2. CASE Lower
  BY <1>2, SetGateWrites DEF Lower
<1>3. CASE DoorClears
  <2>1. CASE gate
    BY <1>3, <2>1, SetGateWrites DEF DoorClears
  <2>2. CASE ~gate
    BY <1>3, <2>2, WritesStutter DEF DoorClears, memory, store
  <2> QED
    BY <2>1, <2>2
<1>4. ASSUME NEW p \in Prints, AttachArchive(p) PROVE WriteInv'
  <2>1. PICK a \in {p, NoPrint} :
          IF a # NoPrint /\ ~gate
          THEN UNCHANGED <<archive, tasks, written>>
          ELSE /\ archive' = a
               /\ Schedule([id |-> written + 1, kind |-> "archive", archive |-> a])
    BY <1>4 DEF AttachArchive
  <2>2. UNCHANGED <<gate, store>>
    BY <1>4 DEF AttachArchive
  <2>3. CASE a # NoPrint /\ ~gate
    BY <2>1, <2>2, <2>3, WritesStutter DEF store
  <2>4. CASE ~(a # NoPrint /\ ~gate)
    <3>1. archive' = a /\ Schedule([id |-> written + 1, kind |-> "archive", archive |-> a]) /\ a \in Archives
      BY <2>1, <2>4
    <3>2. written < MaxWrites /\ written \in Nat
      BY <3>1 DEF Schedule, PersistInv, TypeOK, BoundType
    <3>3. [id |-> written + 1, kind |-> "archive", archive |-> a] \in Task
      BY <3>1, <3>2, Constants DEF Task
    <3>4. PICK t \in Task : t = [id |-> written + 1, kind |-> "archive", archive |-> a]
      BY <3>3
    <3>5. Schedule(t) /\ t.id = written + 1 /\ t.kind = "archive" /\ t.archive = a
      BY <3>1, <3>4
    <3>6. Current(t)' \/ UNCHANGED <<gate, archive>>
      BY <2>2, <2>4, <3>1, <3>5 DEF Current, PersistInv, ArchiveNeedsGate
    <3> QED
      BY <2>2, <3>5, <3>6, MemoryWrites
  <2> QED
    BY <2>3, <2>4
<1>5. ASSUME NEW t \in tasks, Check(t) \/ Load(t) \/ Commit(t) \/ Locked(t) \/ GiveUp(t) PROVE WriteInv'
  BY <1>5, TaskWrites
<1>6. CASE Restart
  <2>1. tasks' = {} /\ UNCHANGED <<row, overlap, written>> /\ gate' = row.up
        /\ archive' = (IF row.up THEN row.archive ELSE NoPrint)
    BY <1>6 DEF Restart
  <2>2. row \in Row
    BY DEF PersistInv, TypeOK, StoreType
  <2>3. OwnIds'
    BY <1>6, <2>1 DEF OwnIds, Restart, PersistInv, TypeOK, StoreType
  <2>4. ~overlap => row' = InMemory'
    BY <2>1, <2>2 DEF InMemory, RowShape, PersistInv, WriteInv, Row
  <2> QED
    BY <2>1, <2>3, <2>4 DEF WriteInv, OneActive, RowShape, LoadedWhole, Represented, PersistInv
<1>7. ASSUME \/ PrintEnds \/ DoorMoves \/ Drops \/ PowerOff \/ Reconnects \/ Push \/ HandleDoorUpdate
             \/ DoorIgnored \/ \E p \in Prints : PrintStarts(p)
      PROVE UNCHANGED <<gate, archive, row, stage, changes, overlap, lost, tasks, written>>
  BY <1>7 DEF PrintEnds, DoorMoves, Drops, PowerOff, Reconnects, Push, HandleDoorUpdate, DoorIgnored, PrintStarts,
              PrinterRest, memory, store
<1>8. CASE UNCHANGED vars
  BY <1>8, WritesStutter DEF vars, memory, store
<1> QED
  BY <1>1, <1>2, <1>3, <1>4, <1>5, <1>6, <1>7, <1>8, WritesStutter DEF Next

\* Once the writes are done the columns hold the gate and its archive, whatever the
\* order in which tasks started, were sent back by a locked database, or were
\* dropped as stale, and across restarts, if no write was given up since the last
\* commit and no two were ever between check and commit at once.
THEOREM ColumnsFollowMemory == Spec => []PersistedInTurn
<1>1. Init => PersistInv
  BY InitType, InitWrites DEF Init, PersistInv, ArchiveNeedsGate
<1>2. PersistInv /\ [Next]_vars => PersistInv'
  BY NextType, NextArchive, NextWrites DEF PersistInv
<1>3. PersistInv => PersistedInTurn
  BY DEF PersistInv, WriteInv, Represented, PersistedInTurn, InMemory
<1> QED
  BY <1>1, <1>2, <1>3, PTL DEF Spec
=============================================================================
