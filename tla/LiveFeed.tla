------------------------------ MODULE LiveFeed ------------------------------
(***************************************************************************)
(* The long-lived WebSockets of the browser: the Docker and the metrics    *)
(* feed (store/docker.js, store/systemMetrics.js), the tamper alerts       *)
(* (store/tamper.js) and a terminal window (TerminalWindow.vue).  A        *)
(* behaviour is about one of them, its client.                             *)
(*                                                                         *)
(* Callbacks run one at a time, to their end or to their first await.      *)
(* What they meet in an unforeseen order is everything else: the close     *)
(* event of a socket that was replaced, timers armed for it, a switch of   *)
(* the managed host, frames and answers still on their way, and links that *)
(* die without an event (half-open).  And the server has a current node of *)
(* its own, which other pages move as well: it decides what a connection   *)
(* that names no node is connected to.                                     *)
(***************************************************************************)
EXTENDS Naturals, FiniteSets

CONSTANTS Socks,   \* bound: sockets the browser has not forgotten yet
          Hosts,
          Local,   \* the panel's own host
          Callers, \* bound: callers of refresh() at a time
          None

Feeds == {"docker", "metrics", "tamper"}
Follow == {"docker", "metrics"}
Clients == Feeds \cup {"terminal"}

ASSUME LiveFeedAssumption == None \notin Socks \cup Hosts /\ Local \in Hosts

VARIABLES client,    \* the subscriber this behaviour is about
          phase,     \* "idle", then "on" (running, alive), then "off"; a feed
             \* is started again at the next login
          agents,    \* the hosts with an agent, the others are read by SSH
          current,   \* the server's current node
          hub,       \* the node the server's shared loop collected last
          host,      \* nodes.currentId, the page's idea of current
          termNode,  \* the node a terminal was opened for, None: unpinned
          ws,        \* the client's socket, None once it was closed
          sock,      \* every socket: its state, and the node it names; once it
             \* is open, the host it is tied to, or None: fed by the hub
          retry,     \* retryTimer, reconnectTimer
          beat,      \* the socket the heartbeat pings, None without one
          watchdog,  \* watchdogTimer
          connected,
          stale,
          fresh,     \* the last sign of life is younger than the threshold
          shown,     \* the host whose data is on display
          loading, waiting, fallback,  \* Docker: refreshWaiters, staleTimer
          visible, frame, applying,    \* metrics: latestFrame, applyTimer
          mounting, toggling           \* terminal: awaits under way

session == <<client, termNode, agents, current, hub>>  \* no callback changes it
view == <<connected, stale, fresh, shown>>
dockerVars == <<loading, waiting, fallback>>
metricsVars == <<visible, frame, applying>>
terminalVars == <<mounting, toggling>>
timers == <<retry, beat, watchdog>>
vars == <<session, phase, host, ws, sock, timers, view,
          dockerVars, metricsVars, terminalVars>>

\* The states of a socket.  "dead" is open for the browser (readyState 1), but
\* nothing passes; "closing" still owes its close event; "free" is forgotten.
SockStates == {"free", "connecting", "open", "dead", "closing"}
SockRecords == [st : SockStates, host : Hosts \cup {None}]
NoSock == [st |-> "free", host |-> None]

Running == phase = "on"
Live(s) == sock[s].st \in {"connecting", "open", "dead"}
Ready(s) == s # None /\ sock[s].st \in {"open", "dead"}
Dead == ws # None /\ sock[ws].st = "dead"

\* Mutant: a terminal reconnects to the host managed now.
NamedIsHost(h) == h

\* The node a connection asks for while h is managed: a terminal its own,
\* Docker h, metrics h if it has an agent (targetNodeId), the alerts none.
Named(h) ==
    IF client = "terminal" THEN termNode
    ELSE IF client = "docker" \/ (client = "metrics" /\ h \in agents) THEN h
    ELSE None

\* The host the server ties a connection to that asks for n.  A feed of an
\* agent is bridged to it; one of a bare host that is not the current one has
\* a loop of its own; all others share the loop that reads the current node.
Accepted(n) ==
    LET node == IF n = None THEN current ELSE n
    IN  IF \/ client = "terminal"
           \/ client \in Follow /\ (node \in agents \/ n \notin {None, Local, current})
        THEN node ELSE None

\* The host whose data a frame carries.
Source(s) == IF sock[s].host = None THEN hub ELSE sock[s].host

TypeOK ==
    /\ client \in Clients /\ phase \in {"idle", "on", "off"}
    /\ agents \in SUBSET Hosts /\ current \in Hosts /\ hub \in Hosts
    /\ host \in Hosts /\ termNode \in Hosts \cup {None}
    /\ ws \in Socks \cup {None}
    /\ sock \in [Socks -> SockRecords]
    /\ retry \in BOOLEAN /\ beat \in Socks \cup {None} /\ watchdog \in BOOLEAN
    /\ connected \in BOOLEAN /\ stale \in BOOLEAN /\ fresh \in BOOLEAN
    /\ shown \in Hosts \cup {None}
    /\ loading \in BOOLEAN /\ waiting \in SUBSET Callers /\ fallback \in BOOLEAN
    /\ visible \in BOOLEAN /\ frame \in Hosts \cup {None} /\ applying \in BOOLEAN
    /\ mounting \in BOOLEAN /\ toggling \in BOOLEAN

\* The page is loaded.  Docker may start from the snapshot an earlier page
\* left in localStorage, of whichever host that page showed last.  A terminal
\* is pinned to its window's node if the window has one (unified panel); one
\* into a container is not, whatever it asks for.
Init ==
    /\ client \in Clients /\ phase = "idle"
    /\ host \in Hosts /\ current \in Hosts /\ hub = current
    /\ agents \in IF client \in Follow THEN SUBSET (Hosts \ {Local}) ELSE {{}}
    /\ termNode \in IF client = "terminal" THEN Hosts \cup {None} ELSE {None}
    /\ ws = None /\ sock = [s \in Socks |-> NoSock]
    /\ retry = FALSE /\ beat = None /\ watchdog = FALSE
    /\ connected = FALSE /\ stale = FALSE /\ fresh = FALSE
    /\ shown \in IF client = "docker" THEN Hosts \cup {None} ELSE {None}
    /\ loading = FALSE /\ waiting = {} /\ fallback = FALSE
    /\ visible = TRUE /\ frame = None /\ applying = FALSE
    /\ mounting = FALSE /\ toggling = FALSE

-----------------------------------------------------------------------------
(* Opening and closing sockets.                                            *)

\* Mutant: close() ends in a state of its own.
ClosedForGood(s) ==
    IF s # None /\ Live(s) THEN [sock EXCEPT ![s].st = "closed"] ELSE sock

\* close(): the object lives on until its close event.
Closed(s) ==
    IF s # None /\ Live(s) THEN [sock EXCEPT ![s].st = "closing"] ELSE sock

\* new WebSocket(url), once the sockets are as in socks.
Open(socks, h) ==
    \E s \in Socks :
        /\ socks[s] = NoSock
        /\ ws' = s
        /\ sock' = [socks EXCEPT ![s] = [st |-> "connecting", host |-> h]]

\* Mutant: no attempt to connect while the page is hidden.
ConnectInSight ==
    IF Running /\ ws = None /\ visible THEN Open(sock, Named(host))
                                       ELSE UNCHANGED <<ws, sock>>

\* connect() of the feeds: one connection, whoever asks.
Connect ==
    IF Running /\ ws = None THEN Open(sock, Named(host)) ELSE UNCHANGED <<ws, sock>>

\* Mutant: the old connection is forgotten, not closed.
ForceReconnectLeaks(h) ==
    IF Running THEN retry' = FALSE /\ Open(sock, Named(h))
               ELSE UNCHANGED <<retry, ws, sock>>

\* Mutant: the old connection is kept when there is one.
ForceReconnectKeeps(h) ==
    IF Running THEN retry' = FALSE /\ Connect
               ELSE UNCHANGED <<retry, ws, sock>>

\* forceReconnect(): cancels the retry and replaces the connection.  Neither
\* the heartbeat nor the watchdog of the old one is touched.
ForceReconnect(h) ==
    IF Running THEN /\ retry' = FALSE
                    /\ Open(Closed(ws), Named(h))
               ELSE UNCHANGED <<retry, ws, sock>>

\* connect() of the terminal: the new connection replaces the old one.
TerminalConnect ==
    /\ Open(Closed(ws), Named(host))
    /\ beat' = None

-----------------------------------------------------------------------------
(* Subscribing and unsubscribing.                                          *)

DockerStart ==
    /\ client = "docker" /\ ~Running
    /\ phase' = "on"
    /\ Open(sock, Named(host))
    /\ loading' = (loading /\ shown = None)
    /\ fallback' = TRUE
    /\ UNCHANGED <<session, host, timers, view, waiting, metricsVars, terminalVars>>

MetricsStart ==
    /\ client = "metrics" /\ ~Running
    /\ phase' = "on"
    /\ Open(sock, Named(host))
    /\ UNCHANGED <<session, host, timers, view, dockerVars, metricsVars, terminalVars>>

TamperStart ==
    /\ client = "tamper" /\ ~Running
    /\ phase' = "on"
    /\ Open(sock, Named(host))
    /\ UNCHANGED <<session, host, timers, view, dockerVars, metricsVars, terminalVars>>

\* Mutant: a retry that is due survives stopDocker().
DockerStopKeepsRetry ==
    /\ client = "docker" /\ Running
    /\ phase' = "off"
    /\ sock' = Closed(ws) /\ ws' = None
    /\ beat' = None /\ watchdog' = FALSE /\ fallback' = FALSE
    /\ connected' = FALSE /\ stale' = FALSE /\ loading' = FALSE /\ waiting' = {}
    /\ UNCHANGED <<session, host, retry, fresh, shown, metricsVars, terminalVars>>

DockerStop ==
    /\ client = "docker" /\ Running
    /\ phase' = "off"
    /\ sock' = Closed(ws) /\ ws' = None
    /\ retry' = FALSE /\ beat' = None /\ watchdog' = FALSE /\ fallback' = FALSE
    /\ connected' = FALSE /\ stale' = FALSE /\ loading' = FALSE /\ waiting' = {}
    /\ UNCHANGED <<session, host, fresh, shown, metricsVars, terminalVars>>

MetricsStop ==
    /\ client = "metrics" /\ Running
    /\ phase' = "off"
    /\ sock' = Closed(ws) /\ ws' = None
    /\ retry' = FALSE /\ beat' = None /\ watchdog' = FALSE
    /\ connected' = FALSE /\ stale' = FALSE /\ fresh' = FALSE
    /\ UNCHANGED <<session, host, shown, dockerVars, metricsVars, terminalVars>>

TamperStop ==
    /\ client = "tamper" /\ Running
    /\ phase' = "off"
    /\ sock' = Closed(ws) /\ ws' = None
    /\ retry' = FALSE /\ connected' = FALSE
    /\ UNCHANGED <<session, host, beat, watchdog, stale, fresh, shown,
                   dockerVars, metricsVars, terminalVars>>

\* A terminal window asks for the mouse capability before it connects.
TerminalMount ==
    /\ client = "terminal" /\ phase = "idle"
    /\ phase' = "on"
    /\ mounting' = TRUE
    /\ UNCHANGED <<session, host, ws, sock, timers, view, dockerVars,
                   metricsVars, toggling>>

\* Without its element the rest of onMounted throws before connect().
TerminalMounted ==
    /\ mounting
    /\ mounting' = FALSE
    /\ IF Running THEN TerminalConnect ELSE UNCHANGED <<ws, sock, beat>>
    /\ UNCHANGED <<session, phase, host, retry, watchdog, view, dockerVars,
                   metricsVars, toggling>>

TerminalUnmount ==
    /\ client = "terminal" /\ Running
    /\ phase' = "off"
    /\ retry' = FALSE /\ beat' = None
    /\ sock' = Closed(ws)
    /\ UNCHANGED <<session, host, ws, watchdog, view, dockerVars, metricsVars,
                   terminalVars>>

-----------------------------------------------------------------------------
(* The events of a socket.                                                 *)

Opens(s) ==
    /\ sock[s].st = "connecting"
    /\ sock' = [sock EXCEPT ![s] = [st |-> "open", host |-> Accepted(@.host)]]

DockerOpen(s) ==
    /\ client = "docker" /\ Opens(s)
    /\ IF ws = s
       THEN /\ connected' = TRUE /\ stale' = FALSE
            /\ watchdog' = TRUE
            /\ beat' = IF beat = None THEN s ELSE beat
       ELSE UNCHANGED <<connected, stale, watchdog, beat>>
    /\ UNCHANGED <<session, phase, host, ws, retry, fresh, shown, dockerVars,
                   metricsVars, terminalVars>>

MetricsOpen(s) ==
    /\ client = "metrics" /\ Opens(s)
    /\ IF ws = s
       THEN /\ connected' = TRUE /\ stale' = FALSE /\ fresh' = TRUE
            /\ watchdog' = TRUE
            /\ beat' = IF beat = None THEN s ELSE beat
       ELSE UNCHANGED <<connected, stale, fresh, watchdog, beat>>
    /\ UNCHANGED <<session, phase, host, ws, retry, shown, dockerVars,
                   metricsVars, terminalVars>>

TamperOpen(s) ==
    /\ client = "tamper" /\ Opens(s)
    /\ connected' = TRUE
    /\ UNCHANGED <<session, phase, host, ws, timers, stale, fresh, shown,
                   dockerVars, metricsVars, terminalVars>>

\* The heartbeat of a terminal pings whatever ws is when it fires.
TerminalOpen(s) ==
    /\ client = "terminal" /\ Opens(s)
    /\ fresh' = TRUE
    /\ beat' = ws
    /\ UNCHANGED <<session, phase, host, ws, retry, watchdog, connected, stale,
                   shown, dockerVars, metricsVars, terminalVars>>

\* Mutant: the snapshot leaves the loading state on.
DockerSnapshotStillLoading(s) ==
    /\ client = "docker" /\ sock[s].st = "open" /\ ws = s
    /\ shown' = Source(s)
    /\ fresh' = TRUE
    /\ stale' = FALSE /\ waiting' = {}
    /\ UNCHANGED <<session, phase, host, ws, sock, timers, connected, loading,
                   fallback, metricsVars, terminalVars>>

\* The browser delivers messages of open sockets only (not after close()).
DockerSnapshot(s) ==
    /\ client = "docker" /\ sock[s].st = "open" /\ ws = s
    /\ shown' = Source(s)
    /\ fresh' = TRUE
    /\ stale' = FALSE /\ loading' = FALSE /\ waiting' = {}
    /\ UNCHANGED <<session, phase, host, ws, sock, timers, connected, fallback,
                   metricsVars, terminalVars>>

\* A frame of metrics is applied by a timer, the latest for all until then.
MetricsFrame(s) ==
    /\ client = "metrics" /\ sock[s].st = "open"
    /\ fresh' = TRUE
    /\ frame' = Source(s) /\ applying' = TRUE
    /\ UNCHANGED <<session, phase, host, ws, sock, timers, connected, stale,
                   shown, dockerVars, visible, terminalVars>>

\* Or the server says that it has no data of the host.
MetricsNotice(s) ==
    /\ client = "metrics" /\ sock[s].st = "open"
    /\ fresh' = TRUE
    /\ UNCHANGED <<session, phase, host, ws, sock, timers, connected, stale,
                   shown, dockerVars, metricsVars, terminalVars>>

\* Output of the shell or a pong.
TerminalFrame(s) ==
    /\ client = "terminal" /\ sock[s].st = "open"
    /\ fresh' = TRUE
    /\ UNCHANGED <<session, phase, host, ws, sock, timers, connected, stale,
                   shown, dockerVars, metricsVars, terminalVars>>

\* The close event of s, and what every feed does about it.
Closes(s) ==
    /\ sock[s].st = "closing"
    /\ sock' = [sock EXCEPT ![s] = NoSock]

\* Mutant: only a connection that had been established is retried.
ScheduleRetryIfConnected == retry' = (retry \/ (Running /\ connected))

\* scheduleRetry()
ScheduleRetry == retry' = (retry \/ Running)

DockerClose(s) ==
    /\ client = "docker" /\ Closes(s)
    /\ IF ws = s
       THEN /\ ws' = None
            /\ connected' = FALSE /\ stale' = FALSE /\ loading' = FALSE
            /\ beat' = None /\ watchdog' = FALSE /\ fallback' = FALSE
            /\ waiting' = {}
            /\ ScheduleRetry
       ELSE UNCHANGED <<ws, connected, stale, beat, watchdog, retry, dockerVars>>
    /\ UNCHANGED <<session, phase, host, fresh, shown, metricsVars, terminalVars>>

MetricsClose(s) ==
    /\ client = "metrics" /\ Closes(s)
    /\ IF ws = s
       THEN /\ ws' = None
            /\ connected' = FALSE /\ stale' = FALSE
            /\ beat' = None /\ watchdog' = FALSE
            /\ ScheduleRetry
       ELSE UNCHANGED <<ws, connected, stale, timers>>
    /\ UNCHANGED <<session, phase, host, fresh, shown, dockerVars, metricsVars,
                   terminalVars>>

\* The alerts do not ask whose close event it is.
TamperClose(s) ==
    /\ client = "tamper" /\ Closes(s)
    /\ ws' = None /\ connected' = FALSE
    /\ ScheduleRetry
    /\ UNCHANGED <<session, phase, host, beat, watchdog, stale, fresh, shown,
                   dockerVars, metricsVars, terminalVars>>

\* Mutant: the heartbeat is stopped before asking whose close event it is.
TerminalCloseStopsBeat(s) ==
    /\ client = "terminal" /\ Closes(s)
    /\ beat' = None
    /\ IF ws = s THEN ws' = None /\ ScheduleRetry ELSE UNCHANGED <<ws, retry>>
    /\ UNCHANGED <<session, phase, host, watchdog, view, dockerVars,
                   metricsVars, terminalVars>>

TerminalClose(s) ==
    /\ client = "terminal" /\ Closes(s)
    /\ IF ws = s
       THEN /\ ws' = None /\ beat' = None
            /\ ScheduleRetry
       ELSE UNCHANGED <<ws, beat, retry>>
    /\ UNCHANGED <<session, phase, host, watchdog, view, dockerVars,
                   metricsVars, terminalVars>>

\* The network or the server ends a connection, or refuses one.
Drop(s) ==
    /\ Live(s)
    /\ sock' = [sock EXCEPT ![s].st = "closing"]
    /\ UNCHANGED <<session, phase, host, ws, timers, view, dockerVars,
                   metricsVars, terminalVars>>

\* A connection becomes half-open: no event, readyState stays 1.
Die(s) ==
    /\ sock[s].st = "open"
    /\ sock' = [sock EXCEPT ![s].st = "dead"]
    /\ UNCHANGED <<session, phase, host, ws, timers, view, dockerVars,
                   metricsVars, terminalVars>>

-----------------------------------------------------------------------------
(* Timers.                                                                 *)

FeedRetry ==
    /\ client \in Feeds /\ retry
    /\ retry' = FALSE
    /\ Connect
    /\ UNCHANGED <<session, phase, host, beat, watchdog, view, dockerVars,
                   metricsVars, terminalVars>>

\* The timer is armed by a close event, and nothing takes it back: it may
\* well find, and replace, a connection made by hand in the meantime.
TerminalRetry ==
    /\ client = "terminal" /\ retry
    /\ retry' = FALSE
    /\ IF Running THEN TerminalConnect ELSE UNCHANGED <<ws, sock, beat>>
    /\ UNCHANGED <<session, phase, host, watchdog, view, dockerVars,
                   metricsVars, terminalVars>>

\* No sign of life for as long as the threshold.
Age ==
    /\ fresh
    /\ fresh' = FALSE
    /\ UNCHANGED <<session, phase, host, ws, sock, timers, connected, stale,
                   shown, dockerVars, metricsVars, terminalVars>>

DockerWatch ==
    /\ client = "docker" /\ watchdog
    /\ stale' = (connected /\ shown # None /\ ~fresh)
    /\ UNCHANGED <<session, phase, host, ws, sock, timers, connected, fresh,
                   shown, dockerVars, metricsVars, terminalVars>>

\* Mutant: freshness is judged in the background only.
MetricsWatchHidden ==
    /\ client = "metrics" /\ watchdog /\ ~visible
    /\ stale' = (connected /\ ~fresh)
    /\ UNCHANGED <<session, phase, host, ws, sock, timers, connected, fresh,
                   shown, dockerVars, metricsVars, terminalVars>>

MetricsWatch ==
    /\ client = "metrics" /\ watchdog /\ visible
    /\ stale' = (connected /\ ~fresh)
    /\ UNCHANGED <<session, phase, host, ws, sock, timers, connected, fresh,
                   shown, dockerVars, metricsVars, terminalVars>>

\* Mutant: the comparison with the threshold is the wrong way round.
TerminalBeatReversed ==
    /\ client = "terminal" /\ beat # None
    /\ Ready(ws) /\ fresh
    /\ sock' = Closed(ws)
    /\ UNCHANGED <<session, phase, host, ws, timers, view, dockerVars,
                   metricsVars, terminalVars>>

\* The terminal's heartbeat closes a connection that does not answer.
TerminalBeat ==
    /\ client = "terminal" /\ beat # None
    /\ Ready(ws) /\ ~fresh
    /\ sock' = Closed(ws)
    /\ UNCHANGED <<session, phase, host, ws, timers, view, dockerVars,
                   metricsVars, terminalVars>>

\* Mutant: the timeout ends the loading state, not the wait.
RefreshTimeoutNotSettled(c) ==
    /\ c \in waiting
    /\ loading' = FALSE
    /\ UNCHANGED <<session, phase, host, ws, sock, timers, view, waiting,
                   fallback, metricsVars, terminalVars>>

\* refresh() has waited for eight seconds.
RefreshTimeout(c) ==
    /\ c \in waiting
    /\ waiting' = waiting \ {c}
    /\ UNCHANGED <<session, phase, host, ws, sock, timers, view, loading,
                   fallback, metricsVars, terminalVars>>

\* staleTimer of startDocker()
Fallback ==
    /\ fallback
    /\ fallback' = FALSE /\ loading' = FALSE
    /\ UNCHANGED <<session, phase, host, ws, sock, timers, view, waiting,
                   metricsVars, terminalVars>>

\* flushLatestFrame()
Flush ==
    /\ shown' = IF frame # None THEN frame ELSE shown
    /\ frame' = None

ApplyFrame ==
    /\ applying
    /\ applying' = FALSE
    /\ Flush
    /\ UNCHANGED <<session, phase, host, ws, sock, timers, connected, stale,
                   fresh, dockerVars, visible, terminalVars>>

-----------------------------------------------------------------------------
(* The user and the page.                                                  *)

\* POST /nodes/current of this page or of another.  (It is nothing to the
\* alerts, and of the hub only the feeds hear.)
MoveCurrent(h) ==
    /\ client # "tamper" /\ h # current
    /\ current' = h
    /\ UNCHANGED <<client, termNode, agents, hub, phase, host, ws, sock, timers,
                   view, dockerVars, metricsVars, terminalVars>>

\* The shared loop of the server reads the current node, every few seconds.
Collect ==
    /\ client \in Follow
    /\ hub' = current
    /\ UNCHANGED <<client, termNode, agents, current, phase, host, ws, sock,
                   timers, view, dockerVars, metricsVars, terminalVars>>

\* nodes.currentId changes, by the answer to a switch or to refreshNodes(),
\* early, late or never: the watchers of the two feeds that follow it.
DockerSwitch(h) ==
    /\ client = "docker" /\ h # host
    /\ host' = h
    /\ ForceReconnect(h)
    /\ UNCHANGED <<session, phase, beat, watchdog, view, dockerVars,
                   metricsVars, terminalVars>>

MetricsSwitch(h) ==
    /\ client = "metrics" /\ h # host
    /\ host' = h
    /\ ForceReconnect(h)
    /\ UNCHANGED <<session, phase, beat, watchdog, view, dockerVars,
                   metricsVars, terminalVars>>

\* A terminal lives on, and asks for the same node when it connects again.
TerminalSwitch(h) ==
    /\ client = "terminal" /\ h # host
    /\ host' = h
    /\ UNCHANGED <<session, phase, ws, sock, timers, view, dockerVars,
                   metricsVars, terminalVars>>

\* refresh() of the Docker store, after an operation on a container.
Refresh(c) ==
    /\ client = "docker" /\ Running /\ c \notin waiting
    /\ IF Ready(ws) THEN loading' = TRUE /\ waiting' = waiting \cup {c}
                    ELSE loading' = (shown = None) /\ UNCHANGED waiting
    /\ UNCHANGED <<session, phase, host, ws, sock, timers, view, fallback,
                   metricsVars, terminalVars>>

Hide ==
    /\ client = "metrics" /\ visible
    /\ visible' = FALSE
    /\ UNCHANGED <<session, phase, host, ws, sock, timers, view, dockerVars,
                   frame, applying, terminalVars>>

\* Back in the foreground: the latest frame at once, and a new connection
\* unless the present one is known to work.
Show ==
    /\ client = "metrics" /\ ~visible
    /\ visible' = TRUE /\ applying' = FALSE
    /\ Flush
    /\ IF Ready(ws) /\ fresh THEN UNCHANGED <<retry, ws, sock>>
                             ELSE ForceReconnect(host)
    /\ UNCHANGED <<session, phase, host, beat, watchdog, connected, stale,
                   fresh, dockerVars, terminalVars>>

\* reconnect(), and onPersistToggle() when it is switched on.
TerminalReconnect ==
    /\ client = "terminal" /\ Running
    /\ TerminalConnect
    /\ UNCHANGED <<session, phase, host, retry, watchdog, view, dockerVars,
                   metricsVars, terminalVars>>

\* onPersistToggle() when it is switched off: the session is ended first.
TerminalToggle ==
    /\ client = "terminal" /\ Running /\ ~toggling
    /\ toggling' = TRUE
    /\ UNCHANGED <<session, phase, host, ws, sock, timers, view, dockerVars,
                   metricsVars, mounting>>

\* It then connects, whether or not the window is still there.
TerminalToggled ==
    /\ toggling
    /\ toggling' = FALSE
    /\ TerminalConnect
    /\ UNCHANGED <<session, phase, host, retry, watchdog, view, dockerVars,
                   metricsVars, mounting>>

-----------------------------------------------------------------------------
OnOpen(s) == DockerOpen(s) \/ MetricsOpen(s) \/ TamperOpen(s) \/ TerminalOpen(s)
OnMessage(s) == DockerSnapshot(s) \/ MetricsFrame(s) \/ TerminalFrame(s)
OnClose(s) == DockerClose(s) \/ MetricsClose(s) \/ TamperClose(s) \/ TerminalClose(s)

Begin == DockerStart \/ MetricsStart \/ TamperStart \/ TerminalMount
End == DockerStop \/ MetricsStop \/ TamperStop \/ TerminalUnmount
Awaited == TerminalMounted \/ TerminalToggled
Retry == FeedRetry \/ TerminalRetry
Watch == DockerWatch \/ MetricsWatch
Switch(h) == DockerSwitch(h) \/ MetricsSwitch(h) \/ TerminalSwitch(h)

Next ==
    \/ Begin \/ End \/ Awaited
    \/ \E s \in Socks : \/ OnOpen(s) \/ OnMessage(s) \/ MetricsNotice(s)
                       \/ OnClose(s) \/ Drop(s) \/ Die(s)
    \/ Retry \/ Age \/ Watch \/ TerminalBeat \/ Fallback \/ ApplyFrame
    \/ \E c \in Callers : Refresh(c) \/ RefreshTimeout(c)
    \/ \E h \in Hosts : Switch(h) \/ MoveCurrent(h)
    \/ Collect
    \/ Hide \/ Show \/ TerminalReconnect \/ TerminalToggle

\* Timers and events that are due happen, and requests are answered; a server
\* that is asked again and again does accept in the end, and one that is
\* reached again and again does get a frame through.
Fairness ==
    /\ WF_vars(Awaited) /\ WF_vars(Retry) /\ WF_vars(Watch)
    /\ WF_vars(Dead /\ Age)
    /\ WF_vars(Collect)
    /\ WF_vars(TerminalBeat) /\ WF_vars(Fallback) /\ WF_vars(ApplyFrame)
    /\ \A c \in Callers : WF_vars(RefreshTimeout(c))
    /\ \A s \in Socks : WF_vars(OnClose(s))
    /\ SF_vars(\E s \in Socks : OnOpen(s))
    /\ SF_vars(\E s \in Socks : OnMessage(s))

Spec == Init /\ [][Next]_vars /\ Fairness

-----------------------------------------------------------------------------
(* Invariants.                                                             *)

\* There is at most one live connection, and it is the one the client knows:
\* none is left behind by a switch, a retry, an unmount or a logout.  The
\* alerts are out of it: the late close event of the connection of an earlier
\* login makes them forget the one they have, and open a second.
OneLive == client # "tamper" => \A s \in Socks : Live(s) => s = ws

\* A subscriber without a connection has its next attempt scheduled, and a
\* socket it still holds owes it a close event: no order of close events,
\* forced reconnections and timers leaves it waiting for nothing.
NeverStranded ==
    /\ Running /\ ws = None => retry \/ mounting
    /\ ws # None => sock[ws].st # "free"

\* A client that asks for a node is connected to no other: Docker, and metrics
\* of an agent, to the host the page manages now, a pinned terminal to the node
\* it was opened for, however often they reconnected and the page switched.
\* Feeds may be on the hub instead, which is right when the page and the server
\* agree on the current node.  Unpinned terminals and metrics of hosts without
\* an agent ask for nothing and get what is current at the server.
OnTarget == client # "tamper" /\ Named(host) # None =>
    \A s \in Socks : Live(s) =>
        \/ sock[s].host = Named(host)
        \/ client \in Follow /\ sock[s].st # "connecting" /\ sock[s].host = None

\* After stopDocker, stopMetrics and stopTamper nothing remains that could
\* connect, tick or keep a caller waiting.  (A connection the alerts have
\* forgotten may still announce that it opened.)
StoppedQuiet == client \in Feeds /\ phase = "off" =>
    /\ ws = None /\ ~retry /\ beat = None /\ ~watchdog /\ ~fallback
    /\ ~stale /\ ~loading /\ waiting = {}
    /\ connected => client = "tamper"

\* The open connection of a terminal has a heartbeat, and the heartbeat is on
\* no other: the half-open link that announces nothing is noticed.
HeartbeatOnLive == client = "terminal" =>
    \A s \in Socks : sock[s].st \in {"open", "dead"} => beat = s

(* Liveness.                                                               *)

\* As long as it is wanted, a connection comes back.
Reconnects == Running ~> ((\E s \in Socks : sock[s].st \in {"open", "dead"}) \/ ~Running)

\* A caller of refresh() never waits forever (docker.js: the next frame, the
\* loss of the connection or the timeout lets it go on).
RefreshSettles == \A c \in Callers : (c \in waiting) ~> (c \notin waiting)

\* The loading state of the Docker windows ends, unless the link is half-open.
LoadingEnds == loading ~> (~loading \/ Dead)

\* A feed whose link is half-open is marked stale while the page is looked at.
SilenceIsReported ==
    (client \in Follow /\ Dead /\ visible /\ (client = "docker" => shown # None))
        ~> (stale \/ ~Dead \/ ~visible)

\* A half-open terminal connection is given up.
HalfOpenReplaced == (client = "terminal" /\ Dead) ~> ~Dead

\* The metrics feed asked for no node, was accepted while another host, with an
\* agent, was the server's current one, and is bridged to it until it ends.
Astray == client = "metrics" /\ ws # None /\ sock[ws].host \notin {None, host}

\* When the managed host no longer changes, is the server's current one too, and
\* its link works and did not go astray, the data on display is this host's in
\* the end, and stays so: no frame or timer of a former host has the last word.
ShownFollowsHost == \A h \in Hosts :
    <>[](/\ client \in Follow /\ Running /\ visible
         /\ host = h /\ current = h /\ ~Dead /\ ~Astray) => <>[](shown = h)
=============================================================================
