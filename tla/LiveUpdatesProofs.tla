--------------------------- MODULE LiveUpdatesProofs ---------------------------
(***************************************************************************)
(* Type correctness of a tab's live updates, and that an unmounted         *)
(* provider stays quiet, for any number of mounts, changes and faults.     *)
(***************************************************************************)
EXTENDS LiveUpdates, TLAPS

\* An instance is new until it is mounted; one that is disposed was mounted, and
\* nothing of it is left but its mint or its closing socket.
QuietInv == \A g \in Mounts :
    /\ g > mounts <=> phase[g] = "new"
    /\ phase[g] = "new" => ~disposed[g]
    /\ disposed[g] => phase[g] \in {"minting", "closing", "refused", "stopped"}

\* A connection that waits for the lock is open in its browser, is not among the
\* active ones yet, and waits once.
EntryInv == \A k \in DOMAIN lock : lock[k].kind = "connect" =>
    /\ phase[lock[k].of] = "open" /\ lock[k].of \notin active
    /\ \A l \in DOMAIN lock : lock[l].kind = "connect" /\ lock[l].of = lock[k].of => l = k

IInv == TypeOK /\ QuietInv /\ EntryInv

\* What the assumption on the constants gives.
LEMMA Bounds == MaxMounts \in Nat /\ MaxStatus \in Nat /\ MaxEvents \in Nat /\ MaxFaults \in Nat
BY UpdatesConstants

USE DEF Mounts, Phases, Idle, Asked, Fetches

\* The initial state has the invariant.
LEMMA InitIInv == Init => IInv
<1> SUFFICES ASSUME Init PROVE IInv
  OBVIOUS
<1>1. lock \in Seq(Waiting) /\ wire \in [Mounts -> Seq(Messages)] /\ messages \in [Mounts -> Seq(Messages)]
  BY DEF Init
<1>2. ServerType /\ SocketType /\ CacheType
  BY <1>1, Bounds DEF Init, ServerType, SocketType, CacheType
<1>3. InboxType
  <2>1. \A g \in Mounts : ~busy[g] /\ messages[g] = <<>>
    BY DEF Init
  <2> QED
    BY <1>1, <2>1, Bounds DEF Init, InboxType
<1> QED
  BY <1>2, <1>3, Bounds DEF Init, IInv, TypeOK, QuietInv, EntryInv

\* A message that is broadcast waits for the lock behind the others.
LEMMA BroadcastType ==
  ASSUME IInv, NEW kind, NEW version, [kind |-> kind, version |-> version] \in Messages,
         Broadcasts(kind, version), UNCHANGED <<phase, active>>
  PROVE lock' \in Seq(Waiting) /\ EntryInv'
<1> DEFINE m == [kind |-> kind, version |-> version]
<1>1. lock \in Seq(Waiting) /\ m \in Waiting /\ m.kind # "connect"
  BY DEF IInv, TypeOK, ServerType, Waiting, Messages
<1>2. CASE lock' = lock
  BY <1>1, <1>2 DEF IInv, EntryInv
<1>3. CASE lock' = Append(lock, m)
  <2> HIDE DEF m
  <2>1. lock' \in Seq(Waiting) /\ DOMAIN lock = 1..Len(lock) /\ DOMAIN lock' = 1..(Len(lock) + 1) /\ Len(lock) \in Nat
    BY <1>1, <1>3
  <2>2. \A k \in DOMAIN lock : lock'[k] = lock[k]
    BY <1>1, <1>3, <2>1
  <2>3. lock'[Len(lock) + 1].kind # "connect"
    BY <1>1, <1>3
  <2>4. \A k \in DOMAIN lock' : lock'[k].kind = "connect" => k \in DOMAIN lock /\ lock'[k] = lock[k]
    BY <2>1, <2>2, <2>3
  <2> QED
    BY <2>1, <2>4 DEF IInv, EntryInv
<1> QED
  BY <1>2, <1>3 DEF Broadcasts

\* A step that leaves the hub alone keeps EntryInv if no open socket closes.
LEMMA EntryStays ==
  ASSUME IInv, UNCHANGED <<lock, active>>, \A g \in Mounts : phase[g] = "open" => phase'[g] = "open"
  PROVE EntryInv'
<1>1. \A k \in DOMAIN lock : lock[k].kind = "connect" => lock[k].of \in Mounts
  BY DEF IInv, TypeOK, ServerType, Waiting, Messages
<1> QED
  BY <1>1 DEF IInv, EntryInv

\* A connection that closes has left the queue of the lock.
LEMMA ClosedType ==
  ASSUME IInv, NEW g \in Mounts, Closed(g), phase[g] = "open" => g \in active, UNCHANGED lock
  PROVE /\ active' \subseteq {h \in Mounts : phase'[h] \in {"open", "closing"}}
        /\ wire' \in [Mounts -> Seq(Messages)] /\ phase' \in [Mounts -> Phases]
        /\ EntryInv'
<1> USE DEF IInv, TypeOK, ServerType, SocketType
<1>1. active' \subseteq {h \in Mounts : phase'[h] \in {"open", "closing"}}
  BY DEF Closed
<1>2. wire' \in [Mounts -> Seq(Messages)]
  <2>1. <<>> \in Seq(Messages)
    OBVIOUS
  <2> QED
    BY <2>1 DEF Closed
<1>3. phase' \in [Mounts -> Phases]
  BY DEF Closed, AfterClose
<1>4. EntryInv'
  <2>1. \A k \in DOMAIN lock : lock[k].kind = "connect" => lock[k].of \in Mounts /\ lock[k].of # g
    BY DEF EntryInv, Waiting, Messages
  <2> QED
    BY <2>1 DEF EntryInv, Closed
<1> QED
  BY <1>1, <1>2, <1>3, <1>4

\* The lock is passed to a broadcast or to a connection.
LEMMA HoldLockStep == ASSUME IInv, HoldLock PROVE IInv'
<1> USE DEF IInv
<1> DEFINE next == Head(lock)
<1>1. /\ lock \in Seq(Waiting) /\ lock # <<>> /\ next \in Waiting /\ lock' = Tail(lock)
      /\ lock' \in Seq(Waiting) /\ next = lock[1] /\ 1 \in DOMAIN lock
  BY DEF HoldLock, TypeOK, ServerType
<1>2. \A k \in DOMAIN lock' : k + 1 \in DOMAIN lock /\ lock'[k] = lock[k + 1] /\ k \in Nat /\ k + 1 # 1
  BY <1>1
<1>3. next.kind = "connect" => next.of \in Mounts /\ phase[next.of] = "open"
  BY <1>1 DEF EntryInv, Waiting, Messages
<1>4. next.kind # "connect" => next \in Messages
  BY <1>1 DEF Waiting
<1>5. wire' \in [Mounts -> Seq(Messages)]
  <2> USE DEF TypeOK, ServerType, SocketType
  <2>1. CASE next.kind = "connect"
    <3>1. [kind |-> "printer_status", version |-> status] \in Messages
      BY DEF Messages
    <3>2. Append(wire[next.of], [kind |-> "printer_status", version |-> status]) \in Seq(Messages)
      BY <1>3, <2>1, <3>1
    <3> QED
      BY <2>1, <3>2 DEF HoldLock
  <2>2. CASE next.kind # "connect"
    <3>1. \A g \in Mounts : Append(wire[g], next) \in Seq(Messages)
      BY <1>4, <2>2
    <3> QED
      BY <2>2, <3>1 DEF HoldLock
  <2> QED
    BY <2>1, <2>2
<1>6. active' \subseteq {g \in Mounts : phase[g] \in {"open", "closing"}}
  BY <1>3 DEF HoldLock, TypeOK, ServerType
<1>7. TypeOK'
  BY <1>1, <1>5, <1>6 DEF HoldLock, TypeOK, ServerType, SocketType, InboxType, CacheType, inbox, cache
<1>8. QuietInv'
  BY DEF HoldLock, QuietInv
<1>9. EntryInv'
  <2>1. \A k \in DOMAIN lock' : lock'[k].kind = "connect" =>
            phase[lock'[k].of] = "open" /\ lock'[k].of \notin active
    BY <1>2 DEF EntryInv
  <2>2. \A k, l \in DOMAIN lock' :
            lock'[k].kind = "connect" /\ lock'[l].kind = "connect" /\ lock'[l].of = lock'[k].of => l = k
    BY <1>2 DEF EntryInv
  <2>3. \A k \in DOMAIN lock' : lock'[k].kind = "connect" =>
            ~(next.kind = "connect" /\ next.of = lock'[k].of)
    BY <1>1, <1>2 DEF EntryInv
  <2>4. active' \subseteq active \cup {g \in Mounts : next.kind = "connect" /\ g = next.of}
    BY <1>3 DEF HoldLock
  <2>5. phase' = phase
    BY DEF HoldLock
  <2> HIDE DEF next
  <2> QED
    BY <2>1, <2>2, <2>3, <2>4, <2>5 DEF EntryInv
<1> QED
  BY <1>7, <1>8, <1>9

\* The browser's socket opens; its connection goes for the lock.
LEMMA AcceptStep == ASSUME IInv, NEW g \in Mounts, Accept(g) PROVE IInv'
<1> USE DEF IInv
<1> DEFINE entry == [kind |-> "connect", of |-> g]
<1>1. /\ lock \in Seq(Waiting) /\ entry \in Waiting /\ lock' = Append(lock, entry)
      /\ phase[g] \in {"connecting", "tokenless"} /\ phase' = [phase EXCEPT ![g] = "open"]
      /\ phase \in [Mounts -> Phases] /\ active' = active
  BY DEF Accept, TypeOK, ServerType, SocketType, Waiting
<1>2. /\ lock' \in Seq(Waiting) /\ DOMAIN lock = 1..Len(lock) /\ Len(lock) \in Nat
      /\ DOMAIN lock' = 1..(Len(lock) + 1)
      /\ \A k \in DOMAIN lock : lock'[k] = lock[k]
      /\ lock'[Len(lock) + 1] = entry
  BY <1>1
<1>3. \A k \in DOMAIN lock : lock[k].kind = "connect" => lock[k].of \in Mounts /\ lock[k].of # g
  BY <1>1 DEF EntryInv, Waiting, Messages
<1>4. g \notin active
  BY <1>1 DEF TypeOK, ServerType
<1>5. TypeOK'
  BY <1>1, <1>2 DEF Accept, TypeOK, ServerType, SocketType, InboxType, CacheType, inbox, cache
<1>6. QuietInv'
  BY <1>1 DEF Accept, QuietInv
<1>7. EntryInv'
  <2> HIDE DEF entry
  <2>1. entry.of = g
    BY DEF entry
  <2>2. \A k \in DOMAIN lock' : k \in DOMAIN lock \/ k = Len(lock) + 1
    BY <1>2
  <2>3. Len(lock) + 1 \notin DOMAIN lock
    BY <1>2
  <2>4. \A k \in DOMAIN lock' : lock'[k].kind = "connect" =>
            /\ phase'[lock'[k].of] = "open" /\ lock'[k].of \notin active'
            /\ k \in DOMAIN lock => lock'[k].of # g
    BY <1>1, <1>2, <1>3, <1>4, <2>1, <2>2 DEF EntryInv
  <2> QED
    BY <1>2, <2>1, <2>2, <2>3, <2>4 DEF EntryInv
<1> QED
  BY <1>5, <1>6, <1>7

\* The version of a message is one the server has had.
LEMMA VersionOf == ASSUME NEW g \in Mounts, IInv, wire[g] # <<>>
  PROVE /\ Head(wire[g]) \in Messages /\ Tail(wire[g]) \in Seq(Messages)
        /\ Head(wire[g]).kind = "printer_status" => Head(wire[g]).version \in 0..MaxStatus
        /\ Head(wire[g]).kind # "printer_status" => Head(wire[g]).version \in 0..MaxEvents
<1>1. wire[g] \in Seq(Messages)
  BY DEF IInv, TypeOK, SocketType
<1>2. Head(wire[g]) \in Messages /\ Tail(wire[g]) \in Seq(Messages)
  BY <1>1
<1> QED
  BY <1>2 DEF Messages

\* A message arrives: a status replaces the one that waits, another is queued.
LEMMA ReceiveStep == ASSUME IInv, NEW g \in Mounts, Receive(g) PROVE IInv'
<1> USE DEF IInv
<1> DEFINE m == Head(wire[g])
<1>1. wire[g] # <<>>
  BY DEF Receive
<1>2. /\ m \in Messages /\ Tail(wire[g]) \in Seq(Messages)
      /\ m.kind = "printer_status" => m.version \in 0..MaxStatus
      /\ m.kind # "printer_status" => m.version \in 0..MaxEvents
  BY <1>1, VersionOf
<1>3. InboxType'
  <2> USE DEF TypeOK, InboxType
  <2>1. CASE m.kind = "printer_status"
    <3>1. UNCHANGED <<messages, busy, heard, debounced>> /\ throttled' = [throttled EXCEPT ![g] = {m.version}]
      BY <2>1 DEF Receive
    <3> QED
      BY <1>2, <2>1, <3>1
  <2>2. CASE m.kind # "printer_status"
    <3>1. /\ UNCHANGED <<throttled, debounced>>
          /\ messages' = [messages EXCEPT ![g] = Append(@, m)]
          /\ busy' = [busy EXCEPT ![g] = TRUE] /\ heard' = [heard EXCEPT ![g] = m.version]
      BY <2>2 DEF Receive
    <3>2. Append(messages[g], m) \in Seq(Messages) /\ Append(messages[g], m) # <<>>
      <4>1. messages[g] \in Seq(Messages) /\ m \in Messages
        BY <1>2
      <4> HIDE DEF m
      <4> QED
        BY ONLY <4>1
    <3>3. messages' \in [Mounts -> Seq(Messages)] /\ busy' \in [Mounts -> BOOLEAN]
      BY <3>1, <3>2
    <3>4. \A h \in Mounts : busy'[h] <=> messages'[h] # <<>>
      BY <3>1, <3>2
    <3> QED
      BY <1>2, <2>2, <3>1, <3>3, <3>4
  <2> QED
    BY <2>1, <2>2
<1>4. TypeOK'
  BY <1>2, <1>3 DEF Receive, TypeOK, ServerType, SocketType, CacheType, server, cache
<1>5. QuietInv' /\ EntryInv'
  BY EntryStays DEF Receive, QuietInv, server
<1> QED
  BY <1>4, <1>5

\* A queued message is processed: its lists are to be invalidated.
LEMMA ProcessNextStep == ASSUME IInv, NEW g \in Mounts, ProcessNext(g) PROVE IInv'
<1> USE DEF IInv
<1>1. Tail(messages[g]) \in Seq(Messages)
  BY DEF ProcessNext, TypeOK, InboxType
<1>2. InboxType'
  <2> USE DEF TypeOK, InboxType
  <2>1. messages' \in [Mounts -> Seq(Messages)]
    BY <1>1 DEF ProcessNext
  <2>2. busy'[g] <=> messages'[g] # <<>>
    BY DEF ProcessNext, More
  <2>3. \A h \in Mounts \ {g} : busy'[h] = busy[h] /\ messages'[h] = messages[h]
    BY DEF ProcessNext
  <2>4. \A h \in Mounts : busy'[h] <=> messages'[h] # <<>>
    BY <2>2, <2>3
  <2>5. busy' \in [Mounts -> BOOLEAN] /\ debounced' \in [Mounts -> BOOLEAN]
    BY DEF ProcessNext, More
  <2> QED
    BY <2>1, <2>4, <2>5 DEF ProcessNext
<1>3. TypeOK'
  BY <1>2 DEF ProcessNext, TypeOK, ServerType, SocketType, CacheType, server, cache
<1>4. QuietInv' /\ EntryInv'
  BY EntryStays DEF ProcessNext, QuietInv, server
<1> QED
  BY <1>3, <1>4

\* Every step keeps the invariant.
LEMMA NextIInv == IInv /\ [Next]_vars => IInv'
<1> SUFFICES ASSUME IInv, [Next]_vars PROVE IInv'
  OBVIOUS
<1> USE Bounds DEF IInv
<1>1. CASE StatusChanges
  <2>1. [kind |-> "printer_status", version |-> status'] \in Messages
    BY <1>1 DEF StatusChanges, TypeOK, ServerType, Messages
  <2>2. lock' \in Seq(Waiting) /\ EntryInv'
    BY <1>1, <2>1, BroadcastType DEF StatusChanges
  <2> QED
    BY <1>1, <2>2 DEF StatusChanges, TypeOK, ServerType, SocketType, InboxType, CacheType, QuietInv, inbox, cache
<1>2. CASE ArchivesChange
  <2>1. [kind |-> "archive_updated", version |-> archives'] \in Messages
    BY <1>2 DEF ArchivesChange, TypeOK, ServerType, Messages
  <2>2. lock' \in Seq(Waiting) /\ EntryInv'
    BY <1>2, <2>1, BroadcastType DEF ArchivesChange
  <2> QED
    BY <1>2, <2>2 DEF ArchivesChange, TypeOK, ServerType, SocketType, InboxType, CacheType, QuietInv, inbox, cache
<1>3. CASE HoldLock
  BY <1>3, HoldLockStep
<1>4. CASE Mount
  <2>1. mounts' \in Mounts /\ phase' = [phase EXCEPT ![mounts'] = "minting"] /\ UNCHANGED <<server, wire, disposed, inbox, faults>>
    BY <1>4 DEF Mount, TypeOK, SocketType
  <2>2. phase[mounts'] = "new" /\ ~disposed[mounts']
    BY <1>4, <2>1 DEF Mount, QuietInv, TypeOK, SocketType
  <2>3. EntryInv'
    BY <2>1, <2>2, EntryStays DEF server, TypeOK, SocketType
  <2>4. QuietInv'
    BY <1>4, <2>1, <2>2 DEF Mount, QuietInv, TypeOK, SocketType
  <2>5. ServerType' /\ SocketType' /\ InboxType'
    BY <2>1, <2>2 DEF server, inbox, TypeOK, ServerType, SocketType, InboxType
  <2>6. CacheType'
    BY <1>4 DEF Mount, Polled, TypeOK, CacheType
  <2> QED
    BY <2>3, <2>4, <2>5, <2>6 DEF TypeOK
<1>5. ASSUME NEW g \in Mounts, MintAnswered(g) PROVE IInv'
  <2>1. /\ phase[g] = "minting" /\ phase'[g] \in {"connecting", "tokenless", "refused", "stopped"}
        /\ disposed[g] => phase'[g] \in {"refused", "stopped"}
        /\ phase' \in [Mounts -> Phases] /\ \A h \in Mounts \ {g} : phase'[h] = phase[h]
        /\ UNCHANGED <<server, wire, mounts, disposed, inbox, cache>> /\ faults' \in 0..MaxFaults
    BY <1>5 DEF MintAnswered, Refused, TypeOK, SocketType
  <2>2. EntryInv'
    BY <2>1, EntryStays DEF server
  <2>3. QuietInv'
    BY <2>1 DEF QuietInv
  <2> QED
    BY <2>1, <2>2, <2>3 DEF server, inbox, cache, TypeOK, ServerType, SocketType, InboxType, CacheType
<1>6. ASSUME NEW g \in Mounts, Accept(g) PROVE IInv'
  BY <1>6, AcceptStep
<1>7. ASSUME NEW g \in Mounts, Reject(g) \/ Drops(g) \/ CloseEvent(g) PROVE IInv'
  <2>1. /\ Closed(g)
        /\ phase[g] = "open" => g \in active
        /\ phase[g] \in {"tokenless", "connecting", "open", "closing"}
        /\ UNCHANGED <<status, archives, mounts, disposed, inbox, cache>> /\ UNCHANGED lock
        /\ faults' \in 0..MaxFaults
    BY <1>7 DEF Reject, Drops, CloseEvent, TypeOK, SocketType
  <2>2. /\ active' \subseteq {h \in Mounts : phase'[h] \in {"open", "closing"}}
        /\ wire' \in [Mounts -> Seq(Messages)] /\ phase' \in [Mounts -> Phases] /\ EntryInv'
    BY <2>1, ClosedType
  <2>3. QuietInv'
    <3>1. phase'[g] = (IF disposed[g] THEN "stopped" ELSE "waiting") /\ \A h \in Mounts \ {g} : phase'[h] = phase[h]
      BY <2>1 DEF Closed, AfterClose, TypeOK, SocketType
    <3> QED
      BY <2>1, <3>1 DEF QuietInv
  <2> QED
    BY <2>1, <2>2, <2>3 DEF inbox, cache, TypeOK, ServerType, SocketType, InboxType, CacheType
<1>8. ASSUME NEW g \in Mounts, Reconnect(g) PROVE IInv'
  <2>1. EntryInv'
    BY <1>8, EntryStays DEF Reconnect, server, TypeOK, SocketType
  <2> QED
    BY <1>8, <2>1 DEF Reconnect, server, inbox, cache, QuietInv, TypeOK, ServerType, SocketType, InboxType, CacheType
<1>9. ASSUME NEW g \in Mounts, Dispose(g) PROVE IInv'
  <2>1. /\ phase[g] = "open" => g \in active
        /\ disposed' = [disposed EXCEPT ![g] = TRUE]
        /\ phase' \in [Mounts -> Phases] /\ \A h \in Mounts \ {g} : phase'[h] = phase[h]
        /\ phase[g] \in {"open", "closing"} => phase'[g] = "closing"
        /\ phase[g] # "new" => phase'[g] \in {"minting", "closing", "refused", "stopped"}
        /\ UNCHANGED <<server, wire, mounts, cache, faults>>
    BY <1>9 DEF Dispose, TypeOK, SocketType
  <2>2. phase[g] # "new"
    BY <1>9 DEF Dispose, Mounted, QuietInv, TypeOK, SocketType
  <2>3. \A k \in DOMAIN lock : lock[k].kind = "connect" => lock[k].of \in Mounts /\ lock[k].of # g
    BY <2>1 DEF EntryInv, TypeOK, ServerType, Waiting, Messages
  <2>4. EntryInv'
    BY <2>1, <2>3 DEF EntryInv, server
  <2>5. QuietInv'
    BY <2>1, <2>2 DEF QuietInv, TypeOK, SocketType
  <2>6. InboxType'
    BY <1>9 DEF Dispose, TypeOK, InboxType
  <2> QED
    BY <2>1, <2>2, <2>4, <2>5, <2>6 DEF server, cache, TypeOK, ServerType, SocketType, CacheType
<1>10. ASSUME NEW g \in Mounts, Receive(g) PROVE IInv'
  BY <1>10, ReceiveStep
<1>11. ASSUME NEW g \in Mounts, ProcessNext(g) PROVE IInv'
  BY <1>11, ProcessNextStep
<1>12. ASSUME NEW g \in Mounts, ApplyStatus(g) \/ Invalidate(g) PROVE IInv'
  <2>1. EntryInv' /\ QuietInv'
    BY <1>12, EntryStays DEF ApplyStatus, Invalidate, server, QuietInv
  <2>2. InboxType'
    BY <1>12 DEF ApplyStatus, Invalidate, TypeOK, InboxType
  <2>3. CacheType'
    <3>1. CASE ApplyStatus(g)
      <4>1. throttled[g] \subseteq 0..MaxStatus
        BY DEF TypeOK, InboxType
      <4> QED
        BY <3>1, <4>1 DEF ApplyStatus, TypeOK, CacheType
    <3>2. CASE Invalidate(g)
      BY <3>2 DEF Invalidate, Invalidated, TypeOK, CacheType
    <3> QED
      BY <1>12, <3>1, <3>2
  <2> QED
    BY <1>12, <2>1, <2>2, <2>3 DEF ApplyStatus, Invalidate, server, TypeOK, ServerType, SocketType
<1>13. CASE Poll \/ AnswerStatus \/ FetchedStatus \/ AnswerArchives \/ FetchedArchives
  <2>1. UNCHANGED <<server, wire, mounts, disposed, phase, inbox, faults>>
    BY <1>13 DEF Poll, AnswerStatus, FetchedStatus, AnswerArchives, FetchedArchives
  <2>2. EntryInv' /\ QuietInv'
    BY <2>1, EntryStays DEF server, QuietInv
  <2>3. CacheType'
    BY <1>13 DEF Poll, AnswerStatus, FetchedStatus, AnswerArchives, FetchedArchives, Polled, TypeOK, ServerType, CacheType
  <2> QED
    BY <2>1, <2>2, <2>3 DEF server, inbox, TypeOK, ServerType, SocketType, InboxType
<1>14. CASE UNCHANGED vars
  BY <1>14 DEF vars, server, inbox, cache, TypeOK, ServerType, SocketType, InboxType, CacheType, QuietInv, EntryInv
<1> QED
  BY <1>1, <1>2, <1>3, <1>4, <1>5, <1>6, <1>7, <1>8, <1>9, <1>10, <1>11, <1>12, <1>13, <1>14 DEF Next, Handshake

\* The domains of the variables; no connection without a socket, no stuck queue.
THEOREM UpdatesType == Spec => []TypeOK
<1>1. IInv => TypeOK
  BY DEF IInv
<1> QED
  BY <1>1, InitIInv, NextIInv, PTL DEF Spec

\* useWebSocket's cleanup is final: an unmounted provider asks for no token, opens no
\* socket and waits for no reconnection, whatever it had begun.
THEOREM DisposedIsQuiet == Spec => DisposedStaysQuiet
<1>1. ASSUME IInv, [Next]_vars PROVE
        [\A g \in Mounts : disposed[g] => phase'[g] \in {phase[g], "refused", "stopped"}]_vars
  <2>1. ASSUME NEW g \in Mounts, disposed[g] PROVE phase'[g] \in {phase[g], "refused", "stopped"}
    <3>1. phase[g] \in {"minting", "closing", "refused", "stopped"} /\ phase \in [Mounts -> Phases]
      BY <1>1, <2>1 DEF IInv, QuietInv, TypeOK, SocketType
    <3>2. g # mounts + 1
      BY <1>1, <2>1, Bounds DEF IInv, QuietInv, TypeOK, SocketType
    <3>3. CASE Mount
      BY <3>1, <3>2, <3>3 DEF Mount
    <3>4. ASSUME NEW h \in Mounts, Handshake(h) \/ Drops(h) \/ Dispose(h) PROVE phase'[g] \in {phase[g], "refused", "stopped"}
      BY <2>1, <3>1, <3>4 DEF Handshake, Drops, Dispose, MintAnswered, Refused, Accept, Reject, CloseEvent,
                              Reconnect, Closed, AfterClose, Mounted
    <3>5. CASE StatusChanges \/ ArchivesChange \/ HoldLock \/ UNCHANGED vars
      BY <3>5 DEF StatusChanges, ArchivesChange, HoldLock, vars
    <3>6. ASSUME NEW h \in Mounts, Receive(h) \/ ProcessNext(h) \/ ApplyStatus(h) \/ Invalidate(h)
          PROVE phase'[g] = phase[g]
      BY <3>6 DEF Receive, ProcessNext, ApplyStatus, Invalidate
    <3>7. CASE Poll \/ AnswerStatus \/ FetchedStatus \/ AnswerArchives \/ FetchedArchives
      BY <3>7 DEF Poll, AnswerStatus, FetchedStatus, AnswerArchives, FetchedArchives
    <3> QED
      BY <1>1, <3>3, <3>4, <3>5, <3>6, <3>7 DEF Next
  <2> QED
    BY <2>1
<1> QED
  BY <1>1, InitIInv, NextIInv, PTL DEF Spec, DisposedStaysQuiet
=============================================================================
