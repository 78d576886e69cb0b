------------------------------ MODULE LiveUpdates ------------------------------
(***************************************************************************)
(* How a browser tab follows the server: the hub's broadcasts, the socket  *)
(* of useWebSocket with its token, reconnection and disposal, and the      *)
(* query cache that messages, fetches and polls fill.                      *)
(*                                                                         *)
(* A tab mounts the provider anew after a login or a change of route; what *)
(* an earlier instance of the hook had begun may still end afterwards. The *)
(* cache outlives the instances. One printer stands for all: the cache is  *)
(* keyed by printer. "archives" stands for the lists that are refreshed by *)
(* debounced invalidation, at 3 s.                                         *)
(***************************************************************************)
EXTENDS Naturals, Sequences, FiniteSets

CONSTANTS
    AuthEnabled,    \* the installation asks for a login
    MaxMounts,      \* bound: instances of the hook
    MaxStatus,      \* bound: changes of the printer's status
    MaxEvents,      \* bound: changes of the archives
    MaxFaults       \* bound: connections lost and requests failed

ASSUME UpdatesConstants ==
    AuthEnabled \in BOOLEAN /\ {MaxMounts, MaxStatus, MaxEvents, MaxFaults} \subseteq Nat

Mounts == 1..MaxMounts
Messages == [kind : {"printer_status"}, version : 0..MaxStatus]
            \cup [kind : {"archive_updated"}, version : 0..MaxEvents]
\* What waits for the hub's lock: broadcasts, already serialised, and connections.
Waiting == Messages \cup [kind : {"connect"}, of : Mounts]
\* "tokenless": connecting without a token; "refused": the mint was answered 401 or 403.
Phases == {"new", "minting", "connecting", "tokenless", "open", "closing", "waiting",
           "refused", "stopped"}
\* A query's fetch: not begun, asked for, or answered with a version.
Fetches(versions) == [at : {"idle", "asked", "answered"}, version : versions]
Idle == [at |-> "idle", version |-> 0]
Asked == [at |-> "asked", version |-> 0]

VARIABLES
    status, archives,   \* versions of the printer's status and of the archives
    lock, active,       \* what waits for _lock, in order; active_connections
    wire,               \* messages on their way
    mounts, disposed,   \* instances so far; disposedRef
    phase,              \* of an instance: what connect and its socket are at
    messages, busy,     \* messageQueueRef, processingRef
    throttled,          \* pendingPrinterStatus, its timer running: one status or none
    debounced,          \* pendingInvalidations, its timer running
    statusCache, statusFetch,                   \* the query cache; the archives are
    archivesCache, archivesFetch,               \* one version, or none before a first answer
    heard,              \* history: the last archives event received
    faults

server == <<status, archives, lock, active>>
inbox  == <<messages, busy, throttled, debounced, heard>>
cache  == <<statusCache, statusFetch, archivesCache, archivesFetch>>
vars == <<server, wire, mounts, disposed, phase, inbox, cache, faults>>

Init ==
    /\ status = 0 /\ archives = 0 /\ lock = <<>> /\ active = {}
    /\ wire = [g \in Mounts |-> <<>>] /\ mounts = 0
    /\ disposed = [g \in Mounts |-> FALSE] /\ phase = [g \in Mounts |-> "new"]
    /\ messages = [g \in Mounts |-> <<>>] /\ busy = [g \in Mounts |-> FALSE]
    /\ throttled = [g \in Mounts |-> {}] /\ debounced = [g \in Mounts |-> FALSE]
    /\ heard = [g \in Mounts |-> 0]
    /\ statusCache = 0 /\ statusFetch = Idle /\ archivesCache = {} /\ archivesFetch = Idle
    /\ faults = 0

Mounted(g) == g = mounts /\ ~disposed[g]
Showing == mounts > 0 /\ ~disposed[mounts]

------------------------------------------------------------------------------
\* ConnectionManager. broadcast serialises its message before it waits for the
\* lock, and does nothing when nobody is connected.
Broadcasts(kind, version) ==
    lock' = IF active = {} THEN lock ELSE Append(lock, [kind |-> kind, version |-> version])

StatusChanges ==
    /\ status < MaxStatus /\ status' = status + 1
    /\ Broadcasts("printer_status", status')
    /\ UNCHANGED <<archives, active, wire, mounts, disposed, phase, inbox, cache, faults>>

ArchivesChange ==
    /\ archives < MaxEvents /\ archives' = archives + 1
    /\ Broadcasts("archive_updated", archives')
    /\ UNCHANGED <<status, active, wire, mounts, disposed, phase, inbox, cache, faults>>

\* The holder of the lock sends to every active connection, or adds one, to which
\* the endpoint sends the status of the moment before anybody else runs.
HoldLock ==
    /\ lock # <<>> /\ lock' = Tail(lock)
    /\ LET next == Head(lock) IN
       IF next.kind = "connect"
       THEN /\ active' = active \cup {next.of}
            /\ wire' = [wire EXCEPT ![next.of] =
                          Append(@, [kind |-> "printer_status", version |-> status])]
       ELSE /\ wire' = [g \in Mounts |-> IF g \in active THEN Append(wire[g], next) ELSE wire[g]]
            /\ UNCHANGED active
    /\ UNCHANGED <<status, archives, mounts, disposed, phase, inbox, cache, faults>>

------------------------------------------------------------------------------
\* A fetch in flight is not begun again by a poll. An invalidation cancels it and
\* asks again, but only of a query that has data: a first fetch is continued, and
\* its answer counts as fresh whatever it was computed from.
Polled(fetch) == IF fetch = Idle THEN Asked ELSE fetch
KeptInFlight(fetch) == IF archivesCache = {} THEN fetch ELSE Polled(fetch)  \* mutant: cancelRefetch: false
Invalidated(fetch) == IF archivesCache = {} THEN fetch ELSE Asked

\* The provider mounts: connect begins; queries that are stale are fetched.
Mount ==
    /\ ~Showing /\ mounts < MaxMounts
    /\ mounts' = mounts + 1
    /\ phase' = [phase EXCEPT ![mounts'] = "minting"]
    /\ statusFetch' \in {statusFetch, Polled(statusFetch)}
    /\ archivesFetch' \in {archivesFetch, Polled(archivesFetch)}
    /\ UNCHANGED <<server, wire, disposed, inbox, statusCache, archivesCache, faults>>

\* The mint is answered: a token, a refusal, which ends the attempts, or a
\* failure, after which the socket is tried without a token.
AnyError(outcome) == outcome # "token"      \* mutant
Refused(outcome) == outcome = "denied"

MintAnswered(g) ==
    /\ phase[g] = "minting"
    /\ \E outcome \in {"token", "denied", "failed"} :
        /\ outcome = "failed" => faults < MaxFaults
        /\ faults' = IF outcome = "failed" THEN faults + 1 ELSE faults
        /\ phase' = [phase EXCEPT ![g] = IF ~disposed[g] /\ ~Refused(outcome)
                                           THEN IF outcome = "token" THEN "connecting" ELSE "tokenless"
                                           ELSE IF outcome = "denied" THEN "refused" ELSE "stopped"]
    /\ UNCHANGED <<server, wire, mounts, disposed, inbox, cache>>

\* accept(), then the wait for the lock.
Accept(g) ==
    /\ phase[g] = "connecting" \/ (phase[g] = "tokenless" /\ ~AuthEnabled)
    /\ phase' = [phase EXCEPT ![g] = "open"]
    /\ lock' = Append(lock, [kind |-> "connect", of |-> g])
    /\ UNCHANGED <<status, archives, active, wire, mounts, disposed, inbox, cache, faults>>

\* onclose: reconnect after 3 s, unless disposed.
AfterCloseAlways(g) == "waiting"        \* mutant
AfterClose(g) == IF disposed[g] THEN "stopped" ELSE "waiting"

Closed(g) ==
    /\ phase' = [phase EXCEPT ![g] = AfterClose(g)]
    /\ wire' = [wire EXCEPT ![g] = <<>>]
    /\ active' = active \ {g}

\* Without a token the handshake is refused before accept(): HTTP 403, which the
\* browser reports as an abnormal closure, not as 4401.
Reject(g) ==
    /\ phase[g] = "tokenless" /\ AuthEnabled
    /\ Closed(g)
    /\ UNCHANGED <<status, archives, lock, mounts, disposed, inbox, cache, faults>>

\* The connection is lost, not while the server is admitting it.
Drops(g) ==
    /\ phase[g] \in {"connecting", "tokenless", "open"} /\ faults < MaxFaults
    /\ phase[g] = "open" => g \in active
    /\ faults' = faults + 1
    /\ Closed(g)
    /\ UNCHANGED <<status, archives, lock, mounts, disposed, inbox, cache>>

Reconnect(g) ==
    /\ phase[g] = "waiting"
    /\ phase' = [phase EXCEPT ![g] = "minting"]
    /\ UNCHANGED <<server, wire, mounts, disposed, inbox, cache, faults>>

\* The effect's cleanup: timers are cleared, then the socket is closed. A message
\* that comes later is not delivered any more.
Dispose(g) ==
    /\ Mounted(g)
    /\ phase[g] = "open" => g \in active
    /\ disposed' = [disposed EXCEPT ![g] = TRUE]
    /\ phase' = [phase EXCEPT ![g] = CASE @ = "waiting" -> "stopped"
                                       [] @ \in {"connecting", "tokenless", "open"} -> "closing"
                                       [] OTHER -> @]
    /\ throttled' = [throttled EXCEPT ![g] = {}] /\ debounced' = [debounced EXCEPT ![g] = FALSE]
    /\ UNCHANGED <<server, wire, mounts, messages, busy, heard, cache, faults>>

CloseEvent(g) ==
    /\ phase[g] = "closing"
    /\ Closed(g)
    /\ UNCHANGED <<status, archives, lock, mounts, disposed, inbox, cache, faults>>

------------------------------------------------------------------------------
\* onmessage: a status is merged into the throttled update, anything else queued.
Receive(g) ==
    /\ phase[g] = "open" /\ wire[g] # <<>>
    /\ wire' = [wire EXCEPT ![g] = Tail(@)]
    /\ LET m == Head(wire[g]) IN
       IF m.kind = "printer_status"
       THEN /\ throttled' = [throttled EXCEPT ![g] = {m.version}]
            /\ UNCHANGED <<messages, busy, heard>>
       ELSE /\ messages' = [messages EXCEPT ![g] = Append(@, m)]
            /\ busy' = [busy EXCEPT ![g] = TRUE]
            /\ heard' = [heard EXCEPT ![g] = m.version]
            /\ UNCHANGED throttled
    /\ UNCHANGED <<server, mounts, disposed, phase, debounced, cache, faults>>

\* processNext: one message a frame, as long as there are more.
AlwaysMore(rest) == TRUE    \* mutant
More(rest) == rest # <<>>

ProcessNext(g) ==
    /\ busy[g] /\ messages[g] # <<>>
    /\ messages' = [messages EXCEPT ![g] = Tail(@)]
    /\ busy' = [busy EXCEPT ![g] = More(messages'[g])]
    /\ debounced' = [debounced EXCEPT ![g] = TRUE]
    /\ UNCHANGED <<server, wire, mounts, disposed, phase, throttled, heard, cache, faults>>

\* The timer of 100 ms: the cache takes what was pushed.
ApplyStatus(g) ==
    /\ statusCache' \in throttled[g]
    /\ throttled' = [throttled EXCEPT ![g] = {}]
    /\ UNCHANGED <<server, wire, mounts, disposed, phase, messages, busy, debounced, heard,
                   statusFetch, archivesCache, archivesFetch, faults>>

\* The timer of 3 s: a query that is shown is fetched anew.
Invalidate(g) ==
    /\ debounced[g]
    /\ debounced' = [debounced EXCEPT ![g] = FALSE]
    /\ archivesFetch' = IF Showing THEN Invalidated(archivesFetch) ELSE archivesFetch
    /\ UNCHANGED <<server, wire, mounts, disposed, phase, messages, busy, throttled, heard,
                   statusCache, statusFetch, archivesCache, faults>>

\* The fallback polling of a printer's card, each 30 s, connected or not.
PollsOffline == Showing /\ phase[mounts] # "open"       \* mutant
Polls == Showing

Poll ==
    /\ Polls /\ statusFetch = Idle
    /\ statusFetch' = Polled(statusFetch)
    /\ UNCHANGED <<server, wire, mounts, disposed, phase, inbox, statusCache,
                   archivesCache, archivesFetch, faults>>

\* A route reads the state; its answer reaches the cache later.
AnswerStatus ==
    /\ statusFetch = Asked /\ statusFetch' = [at |-> "answered", version |-> status]
    /\ UNCHANGED <<server, wire, mounts, disposed, phase, inbox, statusCache,
                   archivesCache, archivesFetch, faults>>
AnswerArchives ==
    /\ archivesFetch = Asked /\ archivesFetch' = [at |-> "answered", version |-> archives]
    /\ UNCHANGED <<server, wire, mounts, disposed, phase, inbox, statusCache, statusFetch,
                   archivesCache, faults>>

Answered(fetch) == fetch.at = "answered"
FetchedStatus ==
    /\ Answered(statusFetch) /\ statusFetch' = Idle /\ statusCache' = statusFetch.version
    /\ UNCHANGED <<server, wire, mounts, disposed, phase, inbox, archivesCache, archivesFetch, faults>>
FetchedArchives ==
    /\ Answered(archivesFetch) /\ archivesFetch' = Idle /\ archivesCache' = {archivesFetch.version}
    /\ UNCHANGED <<server, wire, mounts, disposed, phase, inbox, statusCache, statusFetch, faults>>

Handshake(g) == MintAnswered(g) \/ Accept(g) \/ Reject(g) \/ CloseEvent(g) \/ Reconnect(g)

Next ==
    \/ StatusChanges \/ ArchivesChange \/ HoldLock \/ Mount
    \/ \E g \in Mounts :
        \/ Handshake(g) \/ Drops(g) \/ Dispose(g)
        \/ Receive(g) \/ ProcessNext(g) \/ ApplyStatus(g) \/ Invalidate(g)
    \/ Poll \/ AnswerStatus \/ FetchedStatus \/ AnswerArchives \/ FetchedArchives

Spec == Init /\ [][Next]_vars

\* Timers fire, frames are drawn, requests are answered and the lock is passed on.
\* Nothing is assumed of the user, the printers or the network.
Fairness ==
    /\ WF_vars(HoldLock) /\ WF_vars(Poll)
    /\ WF_vars(AnswerStatus \/ FetchedStatus) /\ WF_vars(AnswerArchives \/ FetchedArchives)
    /\ \A g \in Mounts :
        /\ WF_vars(Handshake(g)) /\ WF_vars(Receive(g))
        /\ WF_vars(ProcessNext(g)) /\ WF_vars(ApplyStatus(g)) /\ WF_vars(Invalidate(g))

FairSpec == Spec /\ Fairness

------------------------------------------------------------------------------
ServerType ==
    /\ status \in 0..MaxStatus /\ archives \in 0..MaxEvents
    /\ lock \in Seq(Waiting)
    /\ active \subseteq {g \in Mounts : phase[g] \in {"open", "closing"}}
SocketType ==
    /\ wire \in [Mounts -> Seq(Messages)] /\ mounts \in 0..MaxMounts
    /\ disposed \in [Mounts -> BOOLEAN] /\ phase \in [Mounts -> Phases]
    /\ faults \in 0..MaxFaults
InboxType ==
    /\ messages \in [Mounts -> Seq(Messages)]
    /\ busy \in [Mounts -> BOOLEAN] /\ debounced \in [Mounts -> BOOLEAN]
    /\ \A g \in Mounts : busy[g] <=> messages[g] # <<>>
    /\ throttled \in [Mounts -> SUBSET (0..MaxStatus)]
    /\ heard \in [Mounts -> 0..MaxEvents]
CacheType ==
    /\ statusCache \in 0..MaxStatus
    /\ archivesCache \in {{}} \cup {{n} : n \in 0..MaxEvents}
    /\ statusFetch \in Fetches(0..MaxStatus) /\ archivesFetch \in Fetches(0..MaxEvents)

\* The domain of every variable; an instance that has no connection is not in
\* active_connections, and a queue is processed exactly while it holds a message.
TypeOK == ServerType /\ SocketType /\ InboxType /\ CacheType

\* A provider that is gone leaves nothing behind: whatever its mint, its socket or
\* its timer was at when it was unmounted, it asks for no further token and opens
\* no further socket, and an active connection is the mounted provider's or closes.
DisposedStaysQuiet ==
    [][\A g \in Mounts : disposed[g] => phase'[g] \in {phase[g], "refused", "stopped"}]_vars

\* The page gives its live updates up only on a refusal: after any other closure or
\* failure, in whatever order, it is connected again, as long as it is shown.
ConnectsAgain ==
    \A g \in Mounts :
        (phase[g] \in {"minting", "waiting"}) ~> (phase[g] = "open" \/ disposed[g] \/ phase[g] = "refused")

\* Once a page that stays shows a printer that no longer changes, it shows the truth:
\* an answer that was computed before a push and applied after it does not last.
StatusConverges == <>[]Showing => <>[](statusCache = status)

\* Once a shown list has data, every event that was received and is not applied yet
\* makes it at least as new, whatever refetches are in flight. (Not one that is
\* applied while the list's very first fetch is in flight: that fetch goes on, and
\* the older list it may bring stays until it is stale or another event comes.)
Unapplied(g) == messages[g] # <<>> \/ debounced[g]
EventRefreshes ==
    \A g \in Mounts : \A n \in 1..MaxEvents :
        (heard[g] = n /\ Unapplied(g) /\ archivesCache # {})
            ~> ((\E m \in archivesCache : m >= n) \/ disposed[g])
=============================================================================
