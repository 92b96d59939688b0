--------------------------- MODULE LiveFeedProofs ---------------------------
(***************************************************************************)
(* Proofs about LiveFeed, for any number of sockets, hosts and callers.    *)
(***************************************************************************)
EXTENDS LiveFeed, TLAPS

-----------------------------------------------------------------------------
(* The inductive invariant.                                                *)

\* A feed holds a socket only while it is subscribed.
Wanted == client \in Feeds /\ ws # None => Running

\* The variables of one client are at rest in the others.
OwnState ==
    /\ mounting \/ toggling => client = "terminal"
    /\ client # "docker" => ~fallback /\ ~loading /\ waiting = {}
    /\ client = "tamper" => beat = None /\ ~watchdog /\ ~stale
    /\ phase = "idle" => ws = None /\ ~retry /\ ~mounting /\ ~toggling
                         /\ \A s \in Socks : sock[s].st = "free"

Inv == /\ TypeOK /\ OneLive /\ NeverStranded /\ Wanted /\ OwnState
       /\ OnTarget /\ StoppedQuiet /\ HeartbeatOnLive

\* TypeOK in parts.
LinkTyped ==
    /\ client \in Clients /\ phase \in {"idle", "on", "off"}
    /\ agents \in SUBSET Hosts /\ current \in Hosts /\ hub \in Hosts
    /\ host \in Hosts /\ termNode \in Hosts \cup {None}
    /\ ws \in Socks \cup {None} /\ sock \in [Socks -> SockRecords]
TimersTyped ==
    retry \in BOOLEAN /\ beat \in Socks \cup {None} /\ watchdog \in BOOLEAN
ViewTyped ==
    /\ connected \in BOOLEAN /\ stale \in BOOLEAN /\ fresh \in BOOLEAN
    /\ shown \in Hosts \cup {None}
DockerTyped ==
    loading \in BOOLEAN /\ waiting \in SUBSET Callers /\ fallback \in BOOLEAN
PageTyped ==
    /\ visible \in BOOLEAN /\ frame \in Hosts \cup {None} /\ applying \in BOOLEAN
    /\ mounting \in BOOLEAN /\ toggling \in BOOLEAN

LEMMA TypeParts ==
    /\ TypeOK <=> LinkTyped /\ TimersTyped /\ ViewTyped /\ DockerTyped /\ PageTyped
    /\ TypeOK' <=> LinkTyped' /\ TimersTyped' /\ ViewTyped' /\ DockerTyped' /\ PageTyped'
  BY DEF TypeOK, LinkTyped, TimersTyped, ViewTyped, DockerTyped, PageTyped

LEMMA InitInv == Init => Inv
  <1> SUFFICES ASSUME Init PROVE Inv
    OBVIOUS
  <1>1. LinkTyped
    BY DEF Init, LinkTyped, SockRecords, SockStates, NoSock
  <1>2. TimersTyped /\ ViewTyped /\ DockerTyped /\ PageTyped
    BY DEF Init, TimersTyped, ViewTyped, DockerTyped, PageTyped
  <1>3. \A s \in Socks : sock[s].st = "free"
    BY DEF Init, NoSock
  <1> QED
    BY <1>1, <1>2, <1>3, TypeParts
    DEF Init, Inv, OneLive, NeverStranded, Wanted, OwnState,
        OnTarget, StoppedQuiet, HeartbeatOnLive, Running, Live, Feeds

-----------------------------------------------------------------------------
(* Opening and closing sockets.                                            *)

\* close() leaves no live connection, when there was at most the one closed
\* (which the alerts cannot rely on).
LEMMA ClosedFacts ==
    ASSUME TypeOK, OneLive
    PROVE  /\ Closed(ws) \in [Socks -> SockRecords]
           /\ \A s \in Socks :
                 /\ client # "tamper" => Closed(ws)[s].st \notin {"connecting", "open", "dead"}
                 /\ Closed(ws)[s].st = "free" <=> sock[s].st = "free"
                 /\ s # ws => Closed(ws)[s] = sock[s]
           /\ ws = None => Closed(ws) = sock
  BY LiveFeedAssumption DEF Closed, TypeOK, OneLive, Live, SockRecords, SockStates

\* A new socket was forgotten before, and is the only one that changes.
LEMMA OpenFacts ==
    ASSUME NEW socks \in [Socks -> SockRecords], NEW h \in Hosts \cup {None}, Open(socks, h)
    PROVE  /\ ws' \in Socks /\ ws' # None
           /\ sock' \in [Socks -> SockRecords]
           /\ sock'[ws'].st = "connecting" /\ sock'[ws'].host = h
           /\ socks[ws'].st = "free"
           /\ \A s \in Socks : s # ws' => sock'[s] = socks[s]
  BY LiveFeedAssumption DEF Open, SockRecords, SockStates, NoSock

\* The close event forgets one socket.
LEMMA CloseFacts ==
    ASSUME TypeOK, NEW s \in Socks, Closes(s)
    PROVE  /\ sock' \in [Socks -> SockRecords]
           /\ sock[s].st = "closing" /\ sock'[s].st = "free"
           /\ \A t \in Socks : t # s => sock'[t] = sock[t]
  BY DEF TypeOK, Closes, SockRecords, SockStates, NoSock

LEMMA SourceTyped ==
    ASSUME TypeOK, NEW s \in Socks
    PROVE  Source(s) \in Hosts
  BY DEF Source, TypeOK, SockRecords

LEMMA NamedTyped ==
    ASSUME TypeOK, NEW h \in Hosts
    PROVE  Named(h) \in Hosts \cup {None}
  BY DEF Named, TypeOK

\* A connection that is accepted stays with the node it asked for, or is one of
\* the feeds and goes to the hub.
LEMMA OpensFacts ==
    ASSUME TypeOK, NEW s \in Socks, Opens(s)
    PROVE  /\ sock' \in [Socks -> SockRecords]
           /\ sock[s].st = "connecting" /\ sock'[s].st = "open"
           /\ sock[s].host # None => \/ sock'[s].host = sock[s].host
                                     \/ client # "terminal" /\ sock'[s].host = None
           /\ \A t \in Socks : t # s => sock'[t] = sock[t]
  BY LiveFeedAssumption DEF TypeOK, Opens, Accepted, SockRecords, SockStates, Follow

-----------------------------------------------------------------------------
(* Every action preserves the invariant.                                   *)

LEMMA DockerStartInv ==
    ASSUME Inv, DockerStart
    PROVE  Inv'
  <1> USE DEF Inv, Running, Live, Ready, Feeds, Follow
  <1>0. sock \in [Socks -> SockRecords] /\ host \in Hosts
       /\ \A k \in Hosts : Named(k) \in Hosts \cup {None}
    BY NamedTyped DEF Inv, TypeOK
  <1>1. TypeOK'
    BY <1>0, OpenFacts, ClosedFacts, LiveFeedAssumption
    DEF TypeOK, Clients, DockerStart, session, view, dockerVars, metricsVars,
        terminalVars, timers
  <1>2. OneLive' /\ NeverStranded'
    BY <1>0, OpenFacts, ClosedFacts, LiveFeedAssumption
    DEF TypeOK, OneLive, NeverStranded, Wanted, OwnState, DockerStart, session,
        view, dockerVars, metricsVars, terminalVars, timers
  <1>3. Wanted' /\ OwnState'
    BY <1>0, OpenFacts, ClosedFacts, LiveFeedAssumption
    DEF TypeOK, OneLive, NeverStranded, Wanted, OwnState, DockerStart,
        session, view, dockerVars, metricsVars, terminalVars, timers
  <1>4. OnTarget'
    BY <1>0, OpenFacts, ClosedFacts, LiveFeedAssumption
    DEF TypeOK, OneLive, OnTarget, Named, DockerStart, session, view, dockerVars,
        metricsVars, terminalVars, timers
  <1>5. StoppedQuiet' /\ HeartbeatOnLive'
    BY <1>0, OpenFacts, ClosedFacts, LiveFeedAssumption
    DEF TypeOK, OneLive, Wanted, OwnState, StoppedQuiet, HeartbeatOnLive,
        DockerStart, session, view, dockerVars, metricsVars, terminalVars, timers
  <1> QED
    BY <1>1, <1>2, <1>3, <1>4, <1>5

LEMMA MetricsStartInv ==
    ASSUME Inv, MetricsStart
    PROVE  Inv'
  <1> USE DEF Inv, Running, Live, Ready, Feeds, Follow
  <1>0. sock \in [Socks -> SockRecords] /\ host \in Hosts
       /\ \A k \in Hosts : Named(k) \in Hosts \cup {None}
    BY NamedTyped DEF Inv, TypeOK
  <1>1. TypeOK'
    BY <1>0, OpenFacts, ClosedFacts, LiveFeedAssumption
    DEF TypeOK, Clients, MetricsStart, session, view, dockerVars, metricsVars,
        terminalVars, timers
  <1>2. OneLive' /\ NeverStranded'
    BY <1>0, OpenFacts, ClosedFacts, LiveFeedAssumption
    DEF TypeOK, OneLive, NeverStranded, Wanted, OwnState, MetricsStart, session,
        view, dockerVars, metricsVars, terminalVars, timers
  <1>3. Wanted' /\ OwnState'
    BY <1>0, OpenFacts, ClosedFacts, LiveFeedAssumption
    DEF TypeOK, OneLive, NeverStranded, Wanted, OwnState, MetricsStart,
        session, view, dockerVars, metricsVars, terminalVars, timers
  <1>4. OnTarget'
    BY <1>0, OpenFacts, ClosedFacts, LiveFeedAssumption
    DEF TypeOK, OneLive, OnTarget, Named, MetricsStart, session, view,
        dockerVars, metricsVars, terminalVars, timers
  <1>5. StoppedQuiet' /\ HeartbeatOnLive'
    BY <1>0, OpenFacts, ClosedFacts, LiveFeedAssumption
    DEF TypeOK, OneLive, Wanted, OwnState, StoppedQuiet, HeartbeatOnLive,
        MetricsStart, session, view, dockerVars, metricsVars, terminalVars, timers
  <1> QED
    BY <1>1, <1>2, <1>3, <1>4, <1>5

LEMMA TamperStartInv ==
    ASSUME Inv, TamperStart
    PROVE  Inv'
  <1> USE DEF Inv, Running, Live, Ready, Feeds, Follow
  <1>0. sock \in [Socks -> SockRecords] /\ host \in Hosts
       /\ \A k \in Hosts : Named(k) \in Hosts \cup {None}
    BY NamedTyped DEF Inv, TypeOK
  <1>1. TypeOK'
    BY <1>0, OpenFacts, ClosedFacts, LiveFeedAssumption
    DEF TypeOK, Clients, TamperStart, session, view, dockerVars, metricsVars,
        terminalVars, timers
  <1>2. OneLive' /\ NeverStranded'
    BY <1>0, OpenFacts, ClosedFacts, LiveFeedAssumption
    DEF TypeOK, OneLive, NeverStranded, Wanted, OwnState, TamperStart, session,
        view, dockerVars, metricsVars, terminalVars, timers
  <1>3. Wanted' /\ OwnState'
    BY <1>0, OpenFacts, ClosedFacts, LiveFeedAssumption
    DEF TypeOK, OneLive, NeverStranded, Wanted, OwnState, TamperStart,
        session, view, dockerVars, metricsVars, terminalVars, timers
  <1>4. OnTarget'
    BY <1>0, OpenFacts, ClosedFacts, LiveFeedAssumption
    DEF TypeOK, OneLive, OnTarget, Named, TamperStart, session, view, dockerVars,
        metricsVars, terminalVars, timers
  <1>5. StoppedQuiet' /\ HeartbeatOnLive'
    BY <1>0, OpenFacts, ClosedFacts, LiveFeedAssumption
    DEF TypeOK, OneLive, Wanted, OwnState, StoppedQuiet, HeartbeatOnLive,
        TamperStart, session, view, dockerVars, metricsVars, terminalVars, timers
  <1> QED
    BY <1>1, <1>2, <1>3, <1>4, <1>5

LEMMA TerminalMountInv ==
    ASSUME Inv, TerminalMount
    PROVE  Inv'
  <1> USE DEF Inv, Running, Live, Ready, Feeds, Follow
  <1>1. TypeOK'
    BY LiveFeedAssumption
    DEF TypeOK, Clients, TerminalMount, session, view, dockerVars, metricsVars,
        terminalVars, timers
  <1>2. OneLive' /\ NeverStranded'
    BY LiveFeedAssumption
    DEF TypeOK, OneLive, NeverStranded, Wanted, OwnState, TerminalMount, session,
        view, dockerVars, metricsVars, terminalVars, timers
  <1>3. Wanted' /\ OwnState'
    BY LiveFeedAssumption
    DEF TypeOK, OneLive, NeverStranded, Wanted, OwnState,
        TerminalMount, session, view, dockerVars, metricsVars, terminalVars,
        timers
  <1>4. OnTarget'
    BY LiveFeedAssumption
    DEF TypeOK, OneLive, OnTarget, Named, TerminalMount, session, view,
        dockerVars, metricsVars, terminalVars, timers
  <1>5. StoppedQuiet' /\ HeartbeatOnLive'
    BY LiveFeedAssumption
    DEF TypeOK, OneLive, Wanted, OwnState, StoppedQuiet, HeartbeatOnLive,
        TerminalMount, session, view, dockerVars, metricsVars, terminalVars,
        timers
  <1> QED
    BY <1>1, <1>2, <1>3, <1>4, <1>5

LEMMA DockerStopInv ==
    ASSUME Inv, DockerStop
    PROVE  Inv'
  <1> USE DEF Inv, Running, Live, Ready, Feeds, Follow
  <1>0. sock \in [Socks -> SockRecords] /\ host \in Hosts
       /\ \A k \in Hosts : Named(k) \in Hosts \cup {None}
    BY NamedTyped DEF Inv, TypeOK
  <1>1. TypeOK'
    BY <1>0, ClosedFacts, LiveFeedAssumption
    DEF TypeOK, Clients, DockerStop, session, view, dockerVars, metricsVars,
        terminalVars, timers
  <1>2. OneLive' /\ NeverStranded'
    BY <1>0, ClosedFacts, LiveFeedAssumption
    DEF TypeOK, OneLive, NeverStranded, Wanted, OwnState, DockerStop, session,
        view, dockerVars, metricsVars, terminalVars, timers
  <1>3. Wanted' /\ OwnState'
    BY <1>0, ClosedFacts, LiveFeedAssumption
    DEF TypeOK, OneLive, NeverStranded, Wanted, OwnState, DockerStop,
        session, view, dockerVars, metricsVars, terminalVars, timers
  <1>4. OnTarget'
    BY <1>0, ClosedFacts, LiveFeedAssumption
    DEF TypeOK, OneLive, OnTarget, Named, DockerStop, session, view, dockerVars,
        metricsVars, terminalVars, timers
  <1>5. StoppedQuiet' /\ HeartbeatOnLive'
    BY <1>0, ClosedFacts, LiveFeedAssumption
    DEF TypeOK, OneLive, Wanted, OwnState, StoppedQuiet, HeartbeatOnLive,
        DockerStop, session, view, dockerVars, metricsVars, terminalVars, timers
  <1> QED
    BY <1>1, <1>2, <1>3, <1>4, <1>5

LEMMA MetricsStopInv ==
    ASSUME Inv, MetricsStop
    PROVE  Inv'
  <1> USE DEF Inv, Running, Live, Ready, Feeds, Follow
  <1>0. sock \in [Socks -> SockRecords] /\ host \in Hosts
       /\ \A k \in Hosts : Named(k) \in Hosts \cup {None}
    BY NamedTyped DEF Inv, TypeOK
  <1>1. TypeOK'
    BY <1>0, ClosedFacts, LiveFeedAssumption
    DEF TypeOK, Clients, MetricsStop, session, view, dockerVars, metricsVars,
        terminalVars, timers
  <1>2. OneLive' /\ NeverStranded'
    BY <1>0, ClosedFacts, LiveFeedAssumption
    DEF TypeOK, OneLive, NeverStranded, Wanted, OwnState, MetricsStop, session,
        view, dockerVars, metricsVars, terminalVars, timers
  <1>3. Wanted' /\ OwnState'
    BY <1>0, ClosedFacts, LiveFeedAssumption
    DEF TypeOK, OneLive, NeverStranded, Wanted, OwnState, MetricsStop,
        session, view, dockerVars, metricsVars, terminalVars, timers
  <1>4. OnTarget'
    BY <1>0, ClosedFacts, LiveFeedAssumption
    DEF TypeOK, OneLive, OnTarget, Named, MetricsStop, session, view, dockerVars,
        metricsVars, terminalVars, timers
  <1>5. StoppedQuiet' /\ HeartbeatOnLive'
    BY <1>0, ClosedFacts, LiveFeedAssumption
    DEF TypeOK, OneLive, Wanted, OwnState, StoppedQuiet, HeartbeatOnLive,
        MetricsStop, session, view, dockerVars, metricsVars, terminalVars, timers
  <1> QED
    BY <1>1, <1>2, <1>3, <1>4, <1>5

LEMMA TamperStopInv ==
    ASSUME Inv, TamperStop
    PROVE  Inv'
  <1> USE DEF Inv, Running, Live, Ready, Feeds, Follow
  <1>0. sock \in [Socks -> SockRecords] /\ host \in Hosts
       /\ \A k \in Hosts : Named(k) \in Hosts \cup {None}
    BY NamedTyped DEF Inv, TypeOK
  <1>1. TypeOK'
    <2>1. LinkTyped /\ TimersTyped /\ ViewTyped /\ DockerTyped /\ PageTyped
      BY TypeParts
    <2>2. LinkTyped'
      BY <1>0, ClosedFacts, <2>1, LiveFeedAssumption
      DEF OneLive, LinkTyped, Clients, TamperStop, session, view, dockerVars,
          metricsVars, terminalVars, timers
    <2>3. TimersTyped'
      BY <1>0, ClosedFacts, <2>1
      DEF TimersTyped, TamperStop, session, view, dockerVars, metricsVars,
          terminalVars, timers
    <2>4. ViewTyped'
      BY <2>1
      DEF LinkTyped, ViewTyped, PageTyped, SockRecords, TamperStop, session, view,
          dockerVars, metricsVars, terminalVars, timers
    <2>5. DockerTyped' /\ PageTyped'
      BY <2>1
      DEF LinkTyped, DockerTyped, PageTyped, SockRecords, TamperStop, session,
          view, dockerVars, metricsVars, terminalVars, timers
    <2> QED
      BY <2>2, <2>3, <2>4, <2>5, TypeParts
  <1>2. OneLive' /\ NeverStranded'
    BY <1>0, ClosedFacts, LiveFeedAssumption
    DEF TypeOK, OneLive, NeverStranded, Wanted, OwnState, TamperStop, session,
        view, dockerVars, metricsVars, terminalVars, timers
  <1>3. Wanted' /\ OwnState'
    BY <1>0, ClosedFacts, LiveFeedAssumption
    DEF TypeOK, OneLive, NeverStranded, Wanted, OwnState, TamperStop,
        session, view, dockerVars, metricsVars, terminalVars, timers
  <1>4. OnTarget'
    BY <1>0, ClosedFacts, LiveFeedAssumption
    DEF TypeOK, OneLive, OnTarget, Named, TamperStop, session, view, dockerVars,
        metricsVars, terminalVars, timers
  <1>5. StoppedQuiet' /\ HeartbeatOnLive'
    BY <1>0, ClosedFacts, LiveFeedAssumption
    DEF TypeOK, OneLive, Wanted, OwnState, StoppedQuiet, HeartbeatOnLive,
        TamperStop, session, view, dockerVars, metricsVars, terminalVars, timers
  <1> QED
    BY <1>1, <1>2, <1>3, <1>4, <1>5

LEMMA TerminalUnmountInv ==
    ASSUME Inv, TerminalUnmount
    PROVE  Inv'
  <1> USE DEF Inv, Running, Live, Ready, Feeds, Follow
  <1>0. sock \in [Socks -> SockRecords] /\ host \in Hosts
       /\ \A k \in Hosts : Named(k) \in Hosts \cup {None}
    BY NamedTyped DEF Inv, TypeOK
  <1>1. TypeOK'
    <2>1. LinkTyped /\ TimersTyped /\ ViewTyped /\ DockerTyped /\ PageTyped
      BY TypeParts
    <2>2. LinkTyped'
      BY <1>0, ClosedFacts, <2>1, LiveFeedAssumption
      DEF OneLive, LinkTyped, Clients, TerminalUnmount, session, view, dockerVars,
          metricsVars, terminalVars, timers
    <2>3. TimersTyped'
      BY <1>0, ClosedFacts, <2>1
      DEF TimersTyped, TerminalUnmount, session, view, dockerVars, metricsVars,
          terminalVars, timers
    <2>4. ViewTyped'
      BY <2>1
      DEF LinkTyped, ViewTyped, PageTyped, SockRecords, TerminalUnmount, session,
          view, dockerVars, metricsVars, terminalVars, timers
    <2>5. DockerTyped' /\ PageTyped'
      BY <2>1
      DEF LinkTyped, DockerTyped, PageTyped, SockRecords, TerminalUnmount,
          session, view, dockerVars, metricsVars, terminalVars, timers
    <2> QED
      BY <2>2, <2>3, <2>4, <2>5, TypeParts
  <1>2. OneLive' /\ NeverStranded'
    BY <1>0, ClosedFacts, LiveFeedAssumption
    DEF TypeOK, OneLive, NeverStranded, Wanted, OwnState, TerminalUnmount,
        session, view, dockerVars, metricsVars, terminalVars, timers
  <1>3. Wanted' /\ OwnState'
    BY <1>0, ClosedFacts, LiveFeedAssumption
    DEF TypeOK, OneLive, NeverStranded, Wanted, OwnState,
        TerminalUnmount, session, view, dockerVars, metricsVars, terminalVars,
        timers
  <1>4. OnTarget'
    BY <1>0, ClosedFacts, LiveFeedAssumption
    DEF TypeOK, OneLive, OnTarget, Named, TerminalUnmount, session, view,
        dockerVars, metricsVars, terminalVars, timers
  <1>5. StoppedQuiet' /\ HeartbeatOnLive'
    BY <1>0, ClosedFacts, LiveFeedAssumption
    DEF TypeOK, OneLive, Wanted, OwnState, StoppedQuiet, HeartbeatOnLive,
        TerminalUnmount, session, view, dockerVars, metricsVars, terminalVars,
        timers
  <1> QED
    BY <1>1, <1>2, <1>3, <1>4, <1>5

LEMMA TerminalMountedInv ==
    ASSUME Inv, TerminalMounted
    PROVE  Inv'
  <1> USE DEF Inv, Running, Live, Ready, Feeds, Follow
  <1>0. sock \in [Socks -> SockRecords] /\ host \in Hosts
       /\ \A k \in Hosts : Named(k) \in Hosts \cup {None}
    BY NamedTyped DEF Inv, TypeOK
  <1>1. TypeOK'
    <2>1. LinkTyped /\ TimersTyped /\ ViewTyped /\ DockerTyped /\ PageTyped
      BY TypeParts
    <2>2. LinkTyped'
      BY <1>0, OpenFacts, ClosedFacts, <2>1, LiveFeedAssumption
      DEF OneLive, LinkTyped, Clients, TerminalMounted, session, view, dockerVars,
          metricsVars, terminalVars, timers, TerminalConnect
    <2>3. TimersTyped'
      BY <1>0, OpenFacts, ClosedFacts, <2>1
      DEF TimersTyped, TerminalMounted, session, view, dockerVars, metricsVars,
          terminalVars, timers, TerminalConnect
    <2>4. ViewTyped'
      BY <2>1
      DEF LinkTyped, ViewTyped, PageTyped, SockRecords, TerminalMounted, session,
          view, dockerVars, metricsVars, terminalVars, timers, TerminalConnect
    <2>5. DockerTyped' /\ PageTyped'
      BY <2>1
      DEF LinkTyped, DockerTyped, PageTyped, SockRecords, TerminalMounted,
          session, view, dockerVars, metricsVars, terminalVars, timers,
          TerminalConnect
    <2> QED
      BY <2>2, <2>3, <2>4, <2>5, TypeParts
  <1>2. OneLive' /\ NeverStranded'
    BY <1>0, OpenFacts, ClosedFacts, LiveFeedAssumption
    DEF TypeOK, OneLive, NeverStranded, Wanted, OwnState, TerminalMounted,
        session, view, dockerVars, metricsVars, terminalVars, timers,
        TerminalConnect
  <1>3. Wanted' /\ OwnState'
    BY <1>0, OpenFacts, ClosedFacts, LiveFeedAssumption
    DEF TypeOK, OneLive, NeverStranded, Wanted, OwnState,
        TerminalMounted, session, view, dockerVars, metricsVars, terminalVars,
        timers, TerminalConnect
  <1>4. OnTarget'
    BY <1>0, OpenFacts, ClosedFacts, LiveFeedAssumption
    DEF TypeOK, OneLive, OnTarget, Named, TerminalMounted, session, view,
        dockerVars, metricsVars, terminalVars, timers, TerminalConnect
  <1>5. StoppedQuiet' /\ HeartbeatOnLive'
    BY <1>0, OpenFacts, ClosedFacts, LiveFeedAssumption
    DEF TypeOK, OneLive, Wanted, OwnState, StoppedQuiet, HeartbeatOnLive,
        TerminalMounted, session, view, dockerVars, metricsVars, terminalVars,
        timers, TerminalConnect
  <1> QED
    BY <1>1, <1>2, <1>3, <1>4, <1>5

LEMMA TerminalToggledInv ==
    ASSUME Inv, TerminalToggled
    PROVE  Inv'
  <1> USE DEF Inv, Running, Live, Ready, Feeds, Follow
  <1>0. sock \in [Socks -> SockRecords] /\ host \in Hosts
       /\ \A k \in Hosts : Named(k) \in Hosts \cup {None}
    BY NamedTyped DEF Inv, TypeOK
  <1>1. TypeOK'
    <2>1. LinkTyped /\ TimersTyped /\ ViewTyped /\ DockerTyped /\ PageTyped
      BY TypeParts
    <2>2. LinkTyped'
      BY <1>0, OpenFacts, ClosedFacts, <2>1, LiveFeedAssumption
      DEF OneLive, LinkTyped, Clients, TerminalToggled, session, view, dockerVars,
          metricsVars, terminalVars, timers, TerminalConnect
    <2>3. TimersTyped'
      BY <1>0, OpenFacts, ClosedFacts, <2>1
      DEF TimersTyped, TerminalToggled, session, view, dockerVars, metricsVars,
          terminalVars, timers, TerminalConnect
    <2>4. ViewTyped'
      BY <2>1
      DEF LinkTyped, ViewTyped, PageTyped, SockRecords, TerminalToggled, session,
          view, dockerVars, metricsVars, terminalVars, timers, TerminalConnect
    <2>5. DockerTyped' /\ PageTyped'
      BY <2>1
      DEF LinkTyped, DockerTyped, PageTyped, SockRecords, TerminalToggled,
          session, view, dockerVars, metricsVars, terminalVars, timers,
          TerminalConnect
    <2> QED
      BY <2>2, <2>3, <2>4, <2>5, TypeParts
  <1>2. OneLive' /\ NeverStranded'
    BY <1>0, OpenFacts, ClosedFacts, LiveFeedAssumption
    DEF TypeOK, OneLive, NeverStranded, Wanted, OwnState, TerminalToggled,
        session, view, dockerVars, metricsVars, terminalVars, timers,
        TerminalConnect
  <1>3. Wanted' /\ OwnState'
    BY <1>0, OpenFacts, ClosedFacts, LiveFeedAssumption
    DEF TypeOK, OneLive, NeverStranded, Wanted, OwnState,
        TerminalToggled, session, view, dockerVars, metricsVars, terminalVars,
        timers, TerminalConnect
  <1>4. OnTarget'
    BY <1>0, OpenFacts, ClosedFacts, LiveFeedAssumption
    DEF TypeOK, OneLive, OnTarget, Named, TerminalToggled, session, view,
        dockerVars, metricsVars, terminalVars, timers, TerminalConnect
  <1>5. StoppedQuiet' /\ HeartbeatOnLive'
    BY <1>0, OpenFacts, ClosedFacts, LiveFeedAssumption
    DEF TypeOK, OneLive, Wanted, OwnState, StoppedQuiet, HeartbeatOnLive,
        TerminalToggled, session, view, dockerVars, metricsVars, terminalVars,
        timers, TerminalConnect
  <1> QED
    BY <1>1, <1>2, <1>3, <1>4, <1>5

LEMMA FeedRetryInv ==
    ASSUME Inv, FeedRetry
    PROVE  Inv'
  <1> USE DEF Inv, Running, Live, Ready, Feeds, Follow
  <1>0. sock \in [Socks -> SockRecords] /\ host \in Hosts
       /\ \A k \in Hosts : Named(k) \in Hosts \cup {None}
    BY NamedTyped DEF Inv, TypeOK
  <1>1. TypeOK'
    <2>1. LinkTyped /\ TimersTyped /\ ViewTyped /\ DockerTyped /\ PageTyped
      BY TypeParts
    <2>2. LinkTyped'
      BY <1>0, OpenFacts, ClosedFacts, <2>1, LiveFeedAssumption
      DEF OneLive, LinkTyped, Clients, FeedRetry, session, view, dockerVars,
          metricsVars, terminalVars, timers, Connect
    <2>3. TimersTyped'
      BY <1>0, OpenFacts, ClosedFacts, <2>1
      DEF TimersTyped, FeedRetry, session, view, dockerVars, metricsVars,
          terminalVars, timers, Connect
    <2>4. ViewTyped'
      BY <2>1
      DEF LinkTyped, ViewTyped, PageTyped, SockRecords, FeedRetry, session, view,
          dockerVars, metricsVars, terminalVars, timers, Connect
    <2>5. DockerTyped' /\ PageTyped'
      BY <2>1
      DEF LinkTyped, DockerTyped, PageTyped, SockRecords, FeedRetry, session,
          view, dockerVars, metricsVars, terminalVars, timers, Connect
    <2> QED
      BY <2>2, <2>3, <2>4, <2>5, TypeParts
  <1>2. OneLive' /\ NeverStranded'
    BY <1>0, OpenFacts, ClosedFacts, LiveFeedAssumption
    DEF TypeOK, OneLive, NeverStranded, Wanted, OwnState, FeedRetry, session,
        view, dockerVars, metricsVars, terminalVars, timers, Connect
  <1>3. Wanted' /\ OwnState'
    BY <1>0, OpenFacts, ClosedFacts, LiveFeedAssumption
    DEF TypeOK, OneLive, NeverStranded, Wanted, OwnState, FeedRetry,
        session, view, dockerVars, metricsVars, terminalVars, timers, Connect
  <1>4. OnTarget'
    BY <1>0, OpenFacts, ClosedFacts, LiveFeedAssumption
    DEF TypeOK, OneLive, OnTarget, Named, FeedRetry, session, view, dockerVars,
        metricsVars, terminalVars, timers, Connect
  <1>5. StoppedQuiet' /\ HeartbeatOnLive'
    BY <1>0, OpenFacts, ClosedFacts, LiveFeedAssumption
    DEF TypeOK, OneLive, Wanted, OwnState, StoppedQuiet, HeartbeatOnLive,
        FeedRetry, session, view, dockerVars, metricsVars, terminalVars, timers,
        Connect
  <1> QED
    BY <1>1, <1>2, <1>3, <1>4, <1>5

LEMMA TerminalRetryInv ==
    ASSUME Inv, TerminalRetry
    PROVE  Inv'
  <1> USE DEF Inv, Running, Live, Ready, Feeds, Follow
  <1>0. sock \in [Socks -> SockRecords] /\ host \in Hosts
       /\ \A k \in Hosts : Named(k) \in Hosts \cup {None}
    BY NamedTyped DEF Inv, TypeOK
  <1>1. TypeOK'
    <2>1. LinkTyped /\ TimersTyped /\ ViewTyped /\ DockerTyped /\ PageTyped
      BY TypeParts
    <2>2. LinkTyped'
      BY <1>0, OpenFacts, ClosedFacts, <2>1, LiveFeedAssumption
      DEF OneLive, LinkTyped, Clients, TerminalRetry, session, view, dockerVars,
          metricsVars, terminalVars, timers, TerminalConnect
    <2>3. TimersTyped'
      BY <1>0, OpenFacts, ClosedFacts, <2>1
      DEF TimersTyped, TerminalRetry, session, view, dockerVars, metricsVars,
          terminalVars, timers, TerminalConnect
    <2>4. ViewTyped'
      BY <2>1
      DEF LinkTyped, ViewTyped, PageTyped, SockRecords, TerminalRetry, session,
          view, dockerVars, metricsVars, terminalVars, timers, TerminalConnect
    <2>5. DockerTyped' /\ PageTyped'
      BY <2>1
      DEF LinkTyped, DockerTyped, PageTyped, SockRecords, TerminalRetry, session,
          view, dockerVars, metricsVars, terminalVars, timers, TerminalConnect
    <2> QED
      BY <2>2, <2>3, <2>4, <2>5, TypeParts
  <1>2. OneLive' /\ NeverStranded'
    BY <1>0, OpenFacts, ClosedFacts, LiveFeedAssumption
    DEF TypeOK, OneLive, NeverStranded, Wanted, OwnState, TerminalRetry, session,
        view, dockerVars, metricsVars, terminalVars, timers, TerminalConnect
  <1>3. Wanted' /\ OwnState'
    BY <1>0, OpenFacts, ClosedFacts, LiveFeedAssumption
    DEF TypeOK, OneLive, NeverStranded, Wanted, OwnState,
        TerminalRetry, session, view, dockerVars, metricsVars, terminalVars,
        timers, TerminalConnect
  <1>4. OnTarget'
    BY <1>0, OpenFacts, ClosedFacts, LiveFeedAssumption
    DEF TypeOK, OneLive, OnTarget, Named, TerminalRetry, session, view,
        dockerVars, metricsVars, terminalVars, timers, TerminalConnect
  <1>5. StoppedQuiet' /\ HeartbeatOnLive'
    BY <1>0, OpenFacts, ClosedFacts, LiveFeedAssumption
    DEF TypeOK, OneLive, Wanted, OwnState, StoppedQuiet, HeartbeatOnLive,
        TerminalRetry, session, view, dockerVars, metricsVars, terminalVars,
        timers, TerminalConnect
  <1> QED
    BY <1>1, <1>2, <1>3, <1>4, <1>5

LEMMA AgeInv ==
    ASSUME Inv, Age
    PROVE  Inv'
  <1> USE DEF Inv, Running, Live, Ready, Feeds, Follow
  <1>1. TypeOK'
    <2>1. LinkTyped /\ TimersTyped /\ ViewTyped /\ DockerTyped /\ PageTyped
      BY TypeParts
    <2>2. LinkTyped'
      BY <2>1, LiveFeedAssumption
      DEF OneLive, LinkTyped, Clients, Age, session, view, dockerVars,
          metricsVars, terminalVars, timers
    <2>3. TimersTyped'
      BY <2>1
      DEF TimersTyped, Age, session, view, dockerVars, metricsVars, terminalVars,
          timers
    <2>4. ViewTyped'
      BY <2>1
      DEF LinkTyped, ViewTyped, PageTyped, SockRecords, Age, session, view,
          dockerVars, metricsVars, terminalVars, timers
    <2>5. DockerTyped' /\ PageTyped'
      BY <2>1
      DEF LinkTyped, DockerTyped, PageTyped, SockRecords, Age, session, view,
          dockerVars, metricsVars, terminalVars, timers
    <2> QED
      BY <2>2, <2>3, <2>4, <2>5, TypeParts
  <1>2. OneLive' /\ NeverStranded'
    BY LiveFeedAssumption
    DEF TypeOK, OneLive, NeverStranded, Wanted, OwnState, Age, session, view,
        dockerVars, metricsVars, terminalVars, timers
  <1>3. Wanted' /\ OwnState'
    BY LiveFeedAssumption
    DEF TypeOK, OneLive, NeverStranded, Wanted, OwnState, Age, session,
        view, dockerVars, metricsVars, terminalVars, timers
  <1>4. OnTarget'
    BY LiveFeedAssumption
    DEF TypeOK, OneLive, OnTarget, Named, Age, session, view, dockerVars,
        metricsVars, terminalVars, timers
  <1>5. StoppedQuiet' /\ HeartbeatOnLive'
    BY LiveFeedAssumption
    DEF TypeOK, OneLive, Wanted, OwnState, StoppedQuiet, HeartbeatOnLive, Age,
        session, view, dockerVars, metricsVars, terminalVars, timers
  <1> QED
    BY <1>1, <1>2, <1>3, <1>4, <1>5

LEMMA DockerWatchInv ==
    ASSUME Inv, DockerWatch
    PROVE  Inv'
  <1> USE DEF Inv, Running, Live, Ready, Feeds, Follow
  <1>1. TypeOK'
    BY LiveFeedAssumption
    DEF TypeOK, Clients, DockerWatch, session, view, dockerVars, metricsVars,
        terminalVars, timers
  <1>2. OneLive' /\ NeverStranded'
    BY LiveFeedAssumption
    DEF TypeOK, OneLive, NeverStranded, Wanted, OwnState, DockerWatch, session,
        view, dockerVars, metricsVars, terminalVars, timers
  <1>3. Wanted' /\ OwnState'
    BY LiveFeedAssumption
    DEF TypeOK, OneLive, NeverStranded, Wanted, OwnState, DockerWatch,
        session, view, dockerVars, metricsVars, terminalVars, timers
  <1>4. OnTarget'
    BY LiveFeedAssumption
    DEF TypeOK, OneLive, OnTarget, Named, DockerWatch, session, view, dockerVars,
        metricsVars, terminalVars, timers
  <1>5. StoppedQuiet' /\ HeartbeatOnLive'
    BY LiveFeedAssumption
    DEF TypeOK, OneLive, Wanted, OwnState, StoppedQuiet, HeartbeatOnLive,
        DockerWatch, session, view, dockerVars, metricsVars, terminalVars, timers
  <1> QED
    BY <1>1, <1>2, <1>3, <1>4, <1>5

LEMMA MetricsWatchInv ==
    ASSUME Inv, MetricsWatch
    PROVE  Inv'
  <1> USE DEF Inv, Running, Live, Ready, Feeds, Follow
  <1>1. TypeOK'
    BY LiveFeedAssumption
    DEF TypeOK, Clients, MetricsWatch, session, view, dockerVars, metricsVars,
        terminalVars, timers
  <1>2. OneLive' /\ NeverStranded'
    BY LiveFeedAssumption
    DEF TypeOK, OneLive, NeverStranded, Wanted, OwnState, MetricsWatch, session,
        view, dockerVars, metricsVars, terminalVars, timers
  <1>3. Wanted' /\ OwnState'
    BY LiveFeedAssumption
    DEF TypeOK, OneLive, NeverStranded, Wanted, OwnState, MetricsWatch,
        session, view, dockerVars, metricsVars, terminalVars, timers
  <1>4. OnTarget'
    BY LiveFeedAssumption
    DEF TypeOK, OneLive, OnTarget, Named, MetricsWatch, session, view,
        dockerVars, metricsVars, terminalVars, timers
  <1>5. StoppedQuiet' /\ HeartbeatOnLive'
    BY LiveFeedAssumption
    DEF TypeOK, OneLive, Wanted, OwnState, StoppedQuiet, HeartbeatOnLive,
        MetricsWatch, session, view, dockerVars, metricsVars, terminalVars, timers
  <1> QED
    BY <1>1, <1>2, <1>3, <1>4, <1>5

LEMMA TerminalBeatInv ==
    ASSUME Inv, TerminalBeat
    PROVE  Inv'
  <1> USE DEF Inv, Running, Live, Ready, Feeds, Follow
  <1>0. sock \in [Socks -> SockRecords] /\ host \in Hosts
       /\ \A k \in Hosts : Named(k) \in Hosts \cup {None}
    BY NamedTyped DEF Inv, TypeOK
  <1>1. TypeOK'
    BY <1>0, ClosedFacts, LiveFeedAssumption
    DEF TypeOK, Clients, TerminalBeat, session, view, dockerVars, metricsVars,
        terminalVars, timers
  <1>2. OneLive' /\ NeverStranded'
    BY <1>0, ClosedFacts, LiveFeedAssumption
    DEF TypeOK, OneLive, NeverStranded, Wanted, OwnState, TerminalBeat, session,
        view, dockerVars, metricsVars, terminalVars, timers
  <1>3. Wanted' /\ OwnState'
    BY <1>0, ClosedFacts, LiveFeedAssumption
    DEF TypeOK, OneLive, NeverStranded, Wanted, OwnState, TerminalBeat,
        session, view, dockerVars, metricsVars, terminalVars, timers
  <1>4. OnTarget'
    BY <1>0, ClosedFacts, LiveFeedAssumption
    DEF TypeOK, OneLive, OnTarget, Named, TerminalBeat, session, view,
        dockerVars, metricsVars, terminalVars, timers
  <1>5. StoppedQuiet' /\ HeartbeatOnLive'
    BY <1>0, ClosedFacts, LiveFeedAssumption
    DEF TypeOK, OneLive, Wanted, OwnState, StoppedQuiet, HeartbeatOnLive,
        TerminalBeat, session, view, dockerVars, metricsVars, terminalVars, timers
  <1> QED
    BY <1>1, <1>2, <1>3, <1>4, <1>5

LEMMA FallbackInv ==
    ASSUME Inv, Fallback
    PROVE  Inv'
  <1> USE DEF Inv, Running, Live, Ready, Feeds, Follow
  <1>1. TypeOK'
    <2>1. LinkTyped /\ TimersTyped /\ ViewTyped /\ DockerTyped /\ PageTyped
      BY TypeParts
    <2>2. LinkTyped'
      BY <2>1, LiveFeedAssumption
      DEF OneLive, LinkTyped, Clients, Fallback, session, view, dockerVars,
          metricsVars, terminalVars, timers
    <2>3. TimersTyped'
      BY <2>1
      DEF TimersTyped, Fallback, session, view, dockerVars, metricsVars,
          terminalVars, timers
    <2>4. ViewTyped'
      BY <2>1
      DEF LinkTyped, ViewTyped, PageTyped, SockRecords, Fallback, session, view,
          dockerVars, metricsVars, terminalVars, timers
    <2>5. DockerTyped' /\ PageTyped'
      BY <2>1
      DEF LinkTyped, DockerTyped, PageTyped, SockRecords, Fallback, session, view,
          dockerVars, metricsVars, terminalVars, timers
    <2> QED
      BY <2>2, <2>3, <2>4, <2>5, TypeParts
  <1>2. OneLive' /\ NeverStranded'
    BY LiveFeedAssumption
    DEF TypeOK, OneLive, NeverStranded, Wanted, OwnState, Fallback, session, view,
        dockerVars, metricsVars, terminalVars, timers
  <1>3. Wanted' /\ OwnState'
    BY LiveFeedAssumption
    DEF TypeOK, OneLive, NeverStranded, Wanted, OwnState, Fallback,
        session, view, dockerVars, metricsVars, terminalVars, timers
  <1>4. OnTarget'
    BY LiveFeedAssumption
    DEF TypeOK, OneLive, OnTarget, Named, Fallback, session, view, dockerVars,
        metricsVars, terminalVars, timers
  <1>5. StoppedQuiet' /\ HeartbeatOnLive'
    BY LiveFeedAssumption
    DEF TypeOK, OneLive, Wanted, OwnState, StoppedQuiet, HeartbeatOnLive,
        Fallback, session, view, dockerVars, metricsVars, terminalVars, timers
  <1> QED
    BY <1>1, <1>2, <1>3, <1>4, <1>5

LEMMA ApplyFrameInv ==
    ASSUME Inv, ApplyFrame
    PROVE  Inv'
  <1> USE DEF Inv, Running, Live, Ready, Feeds, Follow
  <1>1. TypeOK'
    <2>1. LinkTyped /\ TimersTyped /\ ViewTyped /\ DockerTyped /\ PageTyped
      BY TypeParts
    <2>2. LinkTyped'
      BY <2>1, LiveFeedAssumption
      DEF OneLive, LinkTyped, Clients, ApplyFrame, session, view, dockerVars,
          metricsVars, terminalVars, timers, Flush
    <2>3. TimersTyped'
      BY <2>1
      DEF TimersTyped, ApplyFrame, session, view, dockerVars, metricsVars,
          terminalVars, timers, Flush
    <2>4. ViewTyped'
      BY <2>1
      DEF LinkTyped, ViewTyped, PageTyped, SockRecords, ApplyFrame, session, view,
          dockerVars, metricsVars, terminalVars, timers, Flush
    <2>5. DockerTyped' /\ PageTyped'
      BY <2>1
      DEF LinkTyped, DockerTyped, PageTyped, SockRecords, ApplyFrame, session,
          view, dockerVars, metricsVars, terminalVars, timers, Flush
    <2> QED
      BY <2>2, <2>3, <2>4, <2>5, TypeParts
  <1>2. OneLive' /\ NeverStranded'
    BY LiveFeedAssumption
    DEF TypeOK, OneLive, NeverStranded, Wanted, OwnState, ApplyFrame, session,
        view, dockerVars, metricsVars, terminalVars, timers, Flush
  <1>3. Wanted' /\ OwnState'
    BY LiveFeedAssumption
    DEF TypeOK, OneLive, NeverStranded, Wanted, OwnState, ApplyFrame,
        session, view, dockerVars, metricsVars, terminalVars, timers, Flush
  <1>4. OnTarget'
    BY LiveFeedAssumption
    DEF TypeOK, OneLive, OnTarget, Named, ApplyFrame, session, view, dockerVars,
        metricsVars, terminalVars, timers, Flush
  <1>5. StoppedQuiet' /\ HeartbeatOnLive'
    BY LiveFeedAssumption
    DEF TypeOK, OneLive, Wanted, OwnState, StoppedQuiet, HeartbeatOnLive,
        ApplyFrame, session, view, dockerVars, metricsVars, terminalVars, timers,
        Flush
  <1> QED
    BY <1>1, <1>2, <1>3, <1>4, <1>5

LEMMA HideInv ==
    ASSUME Inv, Hide
    PROVE  Inv'
  <1> USE DEF Inv, Running, Live, Ready, Feeds, Follow
  <1>1. TypeOK'
    <2>1. LinkTyped /\ TimersTyped /\ ViewTyped /\ DockerTyped /\ PageTyped
      BY TypeParts
    <2>2. LinkTyped'
      BY <2>1, LiveFeedAssumption
      DEF OneLive, LinkTyped, Clients, Hide, session, view, dockerVars,
          metricsVars, terminalVars, timers
    <2>3. TimersTyped'
      BY <2>1
      DEF TimersTyped, Hide, session, view, dockerVars, metricsVars, terminalVars,
          timers
    <2>4. ViewTyped'
      BY <2>1
      DEF LinkTyped, ViewTyped, PageTyped, SockRecords, Hide, session, view,
          dockerVars, metricsVars, terminalVars, timers
    <2>5. DockerTyped' /\ PageTyped'
      BY <2>1
      DEF LinkTyped, DockerTyped, PageTyped, SockRecords, Hide, session, view,
          dockerVars, metricsVars, terminalVars, timers
    <2> QED
      BY <2>2, <2>3, <2>4, <2>5, TypeParts
  <1>2. OneLive' /\ NeverStranded'
    BY LiveFeedAssumption
    DEF TypeOK, OneLive, NeverStranded, Wanted, OwnState, Hide, session, view,
        dockerVars, metricsVars, terminalVars, timers
  <1>3. Wanted' /\ OwnState'
    BY LiveFeedAssumption
    DEF TypeOK, OneLive, NeverStranded, Wanted, OwnState, Hide,
        session, view, dockerVars, metricsVars, terminalVars, timers
  <1>4. OnTarget'
    BY LiveFeedAssumption
    DEF TypeOK, OneLive, OnTarget, Named, Hide, session, view, dockerVars,
        metricsVars, terminalVars, timers
  <1>5. StoppedQuiet' /\ HeartbeatOnLive'
    BY LiveFeedAssumption
    DEF TypeOK, OneLive, Wanted, OwnState, StoppedQuiet, HeartbeatOnLive, Hide,
        session, view, dockerVars, metricsVars, terminalVars, timers
  <1> QED
    BY <1>1, <1>2, <1>3, <1>4, <1>5

LEMMA ShowInv ==
    ASSUME Inv, Show
    PROVE  Inv'
  <1> USE DEF Inv, Running, Live, Ready, Feeds, Follow
  <1>0. sock \in [Socks -> SockRecords] /\ host \in Hosts
       /\ \A k \in Hosts : Named(k) \in Hosts \cup {None}
    BY NamedTyped DEF Inv, TypeOK
  <1>1. TypeOK'
    <2>1. LinkTyped /\ TimersTyped /\ ViewTyped /\ DockerTyped /\ PageTyped
      BY TypeParts
    <2>2. LinkTyped'
      BY <1>0, OpenFacts, ClosedFacts, <2>1, LiveFeedAssumption
      DEF OneLive, LinkTyped, Clients, Show, session, view, dockerVars,
          metricsVars, terminalVars, timers, ForceReconnect, Flush
    <2>3. TimersTyped'
      BY <1>0, OpenFacts, ClosedFacts, <2>1
      DEF TimersTyped, Show, session, view, dockerVars, metricsVars, terminalVars,
          timers, ForceReconnect, Flush
    <2>4. ViewTyped'
      BY <2>1
      DEF LinkTyped, ViewTyped, PageTyped, SockRecords, Show, session, view,
          dockerVars, metricsVars, terminalVars, timers, ForceReconnect, Flush
    <2>5. DockerTyped' /\ PageTyped'
      BY <2>1
      DEF LinkTyped, DockerTyped, PageTyped, SockRecords, Show, session, view,
          dockerVars, metricsVars, terminalVars, timers, ForceReconnect, Flush
    <2> QED
      BY <2>2, <2>3, <2>4, <2>5, TypeParts
  <1>2. OneLive' /\ NeverStranded'
    BY <1>0, OpenFacts, ClosedFacts, LiveFeedAssumption
    DEF TypeOK, OneLive, NeverStranded, Wanted, OwnState, Show, session, view,
        dockerVars, metricsVars, terminalVars, timers, ForceReconnect, Flush
  <1>3. Wanted' /\ OwnState'
    BY <1>0, OpenFacts, ClosedFacts, LiveFeedAssumption
    DEF TypeOK, OneLive, NeverStranded, Wanted, OwnState, Show,
        session, view, dockerVars, metricsVars, terminalVars, timers,
        ForceReconnect, Flush
  <1>4. OnTarget'
    BY <1>0, OpenFacts, ClosedFacts, LiveFeedAssumption
    DEF TypeOK, OneLive, OnTarget, Named, Show, session, view, dockerVars,
        metricsVars, terminalVars, timers, ForceReconnect, Flush
  <1>5. StoppedQuiet' /\ HeartbeatOnLive'
    BY <1>0, OpenFacts, ClosedFacts, LiveFeedAssumption
    DEF TypeOK, OneLive, Wanted, OwnState, StoppedQuiet, HeartbeatOnLive, Show,
        session, view, dockerVars, metricsVars, terminalVars, timers,
        ForceReconnect, Flush
  <1> QED
    BY <1>1, <1>2, <1>3, <1>4, <1>5

LEMMA TerminalReconnectInv ==
    ASSUME Inv, TerminalReconnect
    PROVE  Inv'
  <1> USE DEF Inv, Running, Live, Ready, Feeds, Follow
  <1>0. sock \in [Socks -> SockRecords] /\ host \in Hosts
       /\ \A k \in Hosts : Named(k) \in Hosts \cup {None}
    BY NamedTyped DEF Inv, TypeOK
  <1>1. TypeOK'
    BY <1>0, OpenFacts, ClosedFacts, LiveFeedAssumption
    DEF TypeOK, Clients, TerminalReconnect, session, view, dockerVars,
        metricsVars, terminalVars, timers, TerminalConnect
  <1>2. OneLive' /\ NeverStranded'
    BY <1>0, OpenFacts, ClosedFacts, LiveFeedAssumption
    DEF TypeOK, OneLive, NeverStranded, Wanted, OwnState, TerminalReconnect,
        session, view, dockerVars, metricsVars, terminalVars, timers,
        TerminalConnect
  <1>3. Wanted' /\ OwnState'
    BY <1>0, OpenFacts, ClosedFacts, LiveFeedAssumption
    DEF TypeOK, OneLive, NeverStranded, Wanted, OwnState,
        TerminalReconnect, session, view, dockerVars, metricsVars, terminalVars,
        timers, TerminalConnect
  <1>4. OnTarget'
    BY <1>0, OpenFacts, ClosedFacts, LiveFeedAssumption
    DEF TypeOK, OneLive, OnTarget, Named, TerminalReconnect, session, view,
        dockerVars, metricsVars, terminalVars, timers, TerminalConnect
  <1>5. StoppedQuiet' /\ HeartbeatOnLive'
    BY <1>0, OpenFacts, ClosedFacts, LiveFeedAssumption
    DEF TypeOK, OneLive, Wanted, OwnState, StoppedQuiet, HeartbeatOnLive,
        TerminalReconnect, session, view, dockerVars, metricsVars, terminalVars,
        timers, TerminalConnect
  <1> QED
    BY <1>1, <1>2, <1>3, <1>4, <1>5

LEMMA TerminalToggleInv ==
    ASSUME Inv, TerminalToggle
    PROVE  Inv'
  <1> USE DEF Inv, Running, Live, Ready, Feeds, Follow
  <1>1. TypeOK'
    BY LiveFeedAssumption
    DEF TypeOK, Clients, TerminalToggle, session, view, dockerVars, metricsVars,
        terminalVars, timers
  <1>2. OneLive' /\ NeverStranded'
    BY LiveFeedAssumption
    DEF TypeOK, OneLive, NeverStranded, Wanted, OwnState, TerminalToggle, session,
        view, dockerVars, metricsVars, terminalVars, timers
  <1>3. Wanted' /\ OwnState'
    BY LiveFeedAssumption
    DEF TypeOK, OneLive, NeverStranded, Wanted, OwnState,
        TerminalToggle, session, view, dockerVars, metricsVars, terminalVars,
        timers
  <1>4. OnTarget'
    BY LiveFeedAssumption
    DEF TypeOK, OneLive, OnTarget, Named, TerminalToggle, session, view,
        dockerVars, metricsVars, terminalVars, timers
  <1>5. StoppedQuiet' /\ HeartbeatOnLive'
    BY LiveFeedAssumption
    DEF TypeOK, OneLive, Wanted, OwnState, StoppedQuiet, HeartbeatOnLive,
        TerminalToggle, session, view, dockerVars, metricsVars, terminalVars,
        timers
  <1> QED
    BY <1>1, <1>2, <1>3, <1>4, <1>5

LEMMA DockerOpenInv ==
    ASSUME Inv, NEW s \in Socks, DockerOpen(s)
    PROVE  Inv'
  <1> USE DEF Inv, Running, Live, Ready, Feeds, Follow
  <1>1. TypeOK'
    <2>1. LinkTyped /\ TimersTyped /\ ViewTyped /\ DockerTyped /\ PageTyped
      BY TypeParts
    <2>2. LinkTyped'
      BY <2>1, OpensFacts, LiveFeedAssumption
      DEF OneLive, LinkTyped, Clients, DockerOpen, session, view, dockerVars,
          metricsVars, terminalVars, timers
    <2>3. TimersTyped'
      BY <2>1
      DEF TimersTyped, DockerOpen, session, view, dockerVars, metricsVars,
          terminalVars, timers
    <2>4. ViewTyped'
      BY <2>1
      DEF LinkTyped, ViewTyped, PageTyped, SockRecords, DockerOpen, session, view,
          dockerVars, metricsVars, terminalVars, timers
    <2>5. DockerTyped' /\ PageTyped'
      BY <2>1
      DEF LinkTyped, DockerTyped, PageTyped, SockRecords, DockerOpen, session,
          view, dockerVars, metricsVars, terminalVars, timers
    <2> QED
      BY <2>2, <2>3, <2>4, <2>5, TypeParts
  <1>2. OneLive' /\ NeverStranded'
    BY OpensFacts, LiveFeedAssumption
    DEF TypeOK, OneLive, NeverStranded, Wanted, OwnState, DockerOpen, session,
        view, dockerVars, metricsVars, terminalVars, timers
  <1>3. Wanted' /\ OwnState'
    BY OpensFacts, LiveFeedAssumption
    DEF TypeOK, OneLive, NeverStranded, Wanted, OwnState, DockerOpen,
        session, view, dockerVars, metricsVars, terminalVars, timers
  <1>4. OnTarget'
    BY OpensFacts, LiveFeedAssumption
    DEF TypeOK, OneLive, OnTarget, Named, DockerOpen, session, view, dockerVars,
        metricsVars, terminalVars, timers
  <1>5. StoppedQuiet' /\ HeartbeatOnLive'
    BY OpensFacts, LiveFeedAssumption
    DEF TypeOK, OneLive, Wanted, OwnState, StoppedQuiet, HeartbeatOnLive,
        DockerOpen, session, view, dockerVars, metricsVars, terminalVars, timers
  <1> QED
    BY <1>1, <1>2, <1>3, <1>4, <1>5

LEMMA MetricsOpenInv ==
    ASSUME Inv, NEW s \in Socks, MetricsOpen(s)
    PROVE  Inv'
  <1> USE DEF Inv, Running, Live, Ready, Feeds, Follow
  <1>1. TypeOK'
    <2>1. LinkTyped /\ TimersTyped /\ ViewTyped /\ DockerTyped /\ PageTyped
      BY TypeParts
    <2>2. LinkTyped'
      BY <2>1, OpensFacts, LiveFeedAssumption
      DEF OneLive, LinkTyped, Clients, MetricsOpen, session, view, dockerVars,
          metricsVars, terminalVars, timers
    <2>3. TimersTyped'
      BY <2>1
      DEF TimersTyped, MetricsOpen, session, view, dockerVars, metricsVars,
          terminalVars, timers
    <2>4. ViewTyped'
      BY <2>1
      DEF LinkTyped, ViewTyped, PageTyped, SockRecords, MetricsOpen, session,
          view, dockerVars, metricsVars, terminalVars, timers
    <2>5. DockerTyped' /\ PageTyped'
      BY <2>1
      DEF LinkTyped, DockerTyped, PageTyped, SockRecords, MetricsOpen, session,
          view, dockerVars, metricsVars, terminalVars, timers
    <2> QED
      BY <2>2, <2>3, <2>4, <2>5, TypeParts
  <1>2. OneLive' /\ NeverStranded'
    BY OpensFacts, LiveFeedAssumption
    DEF TypeOK, OneLive, NeverStranded, Wanted, OwnState, MetricsOpen, session,
        view, dockerVars, metricsVars, terminalVars, timers
  <1>3. Wanted' /\ OwnState'
    BY OpensFacts, LiveFeedAssumption
    DEF TypeOK, OneLive, NeverStranded, Wanted, OwnState, MetricsOpen,
        session, view, dockerVars, metricsVars, terminalVars, timers
  <1>4. OnTarget'
    BY OpensFacts, LiveFeedAssumption
    DEF TypeOK, OneLive, OnTarget, Named, MetricsOpen, session, view, dockerVars,
        metricsVars, terminalVars, timers
  <1>5. StoppedQuiet' /\ HeartbeatOnLive'
    BY OpensFacts, LiveFeedAssumption
    DEF TypeOK, OneLive, Wanted, OwnState, StoppedQuiet, HeartbeatOnLive,
        MetricsOpen, session, view, dockerVars, metricsVars, terminalVars, timers
  <1> QED
    BY <1>1, <1>2, <1>3, <1>4, <1>5

LEMMA TamperOpenInv ==
    ASSUME Inv, NEW s \in Socks, TamperOpen(s)
    PROVE  Inv'
  <1> USE DEF Inv, Running, Live, Ready, Feeds, Follow
  <1>1. TypeOK'
    BY OpensFacts, LiveFeedAssumption
    DEF TypeOK, Clients, TamperOpen, session, view, dockerVars, metricsVars,
        terminalVars, timers
  <1>2. OneLive' /\ NeverStranded'
    BY OpensFacts, LiveFeedAssumption
    DEF TypeOK, OneLive, NeverStranded, Wanted, OwnState, TamperOpen, session,
        view, dockerVars, metricsVars, terminalVars, timers
  <1>3. Wanted' /\ OwnState'
    BY OpensFacts, LiveFeedAssumption
    DEF TypeOK, OneLive, NeverStranded, Wanted, OwnState, TamperOpen,
        session, view, dockerVars, metricsVars, terminalVars, timers
  <1>4. OnTarget'
    BY OpensFacts, LiveFeedAssumption
    DEF TypeOK, OneLive, OnTarget, Named, TamperOpen, session, view, dockerVars,
        metricsVars, terminalVars, timers
  <1>5. StoppedQuiet' /\ HeartbeatOnLive'
    BY OpensFacts, LiveFeedAssumption
    DEF TypeOK, OneLive, Wanted, OwnState, StoppedQuiet, HeartbeatOnLive,
        TamperOpen, session, view, dockerVars, metricsVars, terminalVars, timers
  <1> QED
    BY <1>1, <1>2, <1>3, <1>4, <1>5

LEMMA TerminalOpenInv ==
    ASSUME Inv, NEW s \in Socks, TerminalOpen(s)
    PROVE  Inv'
  <1> USE DEF Inv, Running, Live, Ready, Feeds, Follow
  <1>1. TypeOK'
    BY OpensFacts, LiveFeedAssumption
    DEF TypeOK, Clients, TerminalOpen, session, view, dockerVars, metricsVars,
        terminalVars, timers
  <1>2. OneLive' /\ NeverStranded'
    BY OpensFacts, LiveFeedAssumption
    DEF TypeOK, OneLive, NeverStranded, Wanted, OwnState, TerminalOpen, session,
        view, dockerVars, metricsVars, terminalVars, timers
  <1>3. Wanted' /\ OwnState'
    BY OpensFacts, LiveFeedAssumption
    DEF TypeOK, OneLive, NeverStranded, Wanted, OwnState, TerminalOpen,
        session, view, dockerVars, metricsVars, terminalVars, timers
  <1>4. OnTarget'
    BY OpensFacts, LiveFeedAssumption
    DEF TypeOK, OneLive, OnTarget, Named, TerminalOpen, session, view,
        dockerVars, metricsVars, terminalVars, timers
  <1>5. StoppedQuiet' /\ HeartbeatOnLive'
    BY OpensFacts, LiveFeedAssumption
    DEF TypeOK, OneLive, Wanted, OwnState, StoppedQuiet, HeartbeatOnLive,
        TerminalOpen, session, view, dockerVars, metricsVars, terminalVars,
        timers
  <1> QED
    BY <1>1, <1>2, <1>3, <1>4, <1>5

LEMMA DockerSnapshotInv ==
    ASSUME Inv, NEW s \in Socks, DockerSnapshot(s)
    PROVE  Inv'
  <1> USE DEF Inv, Running, Live, Ready, Feeds, Follow
  <1>1. TypeOK'
    <2>1. LinkTyped /\ TimersTyped /\ ViewTyped /\ DockerTyped /\ PageTyped
      BY TypeParts
    <2>2. LinkTyped'
      BY <2>1, LiveFeedAssumption
      DEF OneLive, LinkTyped, Clients, DockerSnapshot, session, view, dockerVars,
          metricsVars, terminalVars, timers
    <2>3. TimersTyped'
      BY SourceTyped, <2>1
      DEF TimersTyped, DockerSnapshot, session, view, dockerVars, metricsVars,
          terminalVars, timers
    <2>4. ViewTyped'
      BY SourceTyped, <2>1
      DEF LinkTyped, ViewTyped, PageTyped, SockRecords, DockerSnapshot, session,
          view, dockerVars, metricsVars, terminalVars, timers
    <2>5. DockerTyped' /\ PageTyped'
      BY SourceTyped, <2>1
      DEF LinkTyped, DockerTyped, PageTyped, SockRecords, DockerSnapshot, session,
          view, dockerVars, metricsVars, terminalVars, timers
    <2> QED
      BY <2>2, <2>3, <2>4, <2>5, TypeParts
  <1>2. OneLive' /\ NeverStranded'
    BY SourceTyped, LiveFeedAssumption
    DEF TypeOK, OneLive, NeverStranded, Wanted, OwnState, DockerSnapshot, session,
        view, dockerVars, metricsVars, terminalVars, timers
  <1>3. Wanted' /\ OwnState'
    BY SourceTyped, LiveFeedAssumption
    DEF TypeOK, OneLive, NeverStranded, Wanted, OwnState,
        DockerSnapshot, session, view, dockerVars, metricsVars, terminalVars,
        timers
  <1>4. OnTarget'
    BY SourceTyped, LiveFeedAssumption
    DEF TypeOK, OneLive, OnTarget, Named, DockerSnapshot, session, view,
        dockerVars, metricsVars, terminalVars, timers
  <1>5. StoppedQuiet' /\ HeartbeatOnLive'
    BY SourceTyped, LiveFeedAssumption
    DEF TypeOK, OneLive, Wanted, OwnState, StoppedQuiet, HeartbeatOnLive,
        DockerSnapshot, session, view, dockerVars, metricsVars, terminalVars,
        timers
  <1> QED
    BY <1>1, <1>2, <1>3, <1>4, <1>5

LEMMA MetricsFrameInv ==
    ASSUME Inv, NEW s \in Socks, MetricsFrame(s)
    PROVE  Inv'
  <1> USE DEF Inv, Running, Live, Ready, Feeds, Follow
  <1>1. TypeOK'
    <2>1. LinkTyped /\ TimersTyped /\ ViewTyped /\ DockerTyped /\ PageTyped
      BY TypeParts
    <2>2. LinkTyped'
      BY <2>1, LiveFeedAssumption
      DEF OneLive, LinkTyped, Clients, MetricsFrame, session, view, dockerVars,
          metricsVars, terminalVars, timers
    <2>3. TimersTyped'
      BY SourceTyped, <2>1
      DEF TimersTyped, MetricsFrame, session, view, dockerVars, metricsVars,
          terminalVars, timers
    <2>4. ViewTyped'
      BY SourceTyped, <2>1
      DEF LinkTyped, ViewTyped, PageTyped, SockRecords, MetricsFrame, session,
          view, dockerVars, metricsVars, terminalVars, timers
    <2>5. DockerTyped' /\ PageTyped'
      BY SourceTyped, <2>1
      DEF LinkTyped, DockerTyped, PageTyped, SockRecords, MetricsFrame, session,
          view, dockerVars, metricsVars, terminalVars, timers
    <2> QED
      BY <2>2, <2>3, <2>4, <2>5, TypeParts
  <1>2. OneLive' /\ NeverStranded'
    BY SourceTyped, LiveFeedAssumption
    DEF TypeOK, OneLive, NeverStranded, Wanted, OwnState, MetricsFrame, session,
        view, dockerVars, metricsVars, terminalVars, timers
  <1>3. Wanted' /\ OwnState'
    BY SourceTyped, LiveFeedAssumption
    DEF TypeOK, OneLive, NeverStranded, Wanted, OwnState, MetricsFrame,
        session, view, dockerVars, metricsVars, terminalVars, timers
  <1>4. OnTarget'
    BY SourceTyped, LiveFeedAssumption
    DEF TypeOK, OneLive, OnTarget, Named, MetricsFrame, session, view,
        dockerVars, metricsVars, terminalVars, timers
  <1>5. StoppedQuiet' /\ HeartbeatOnLive'
    BY SourceTyped, LiveFeedAssumption
    DEF TypeOK, OneLive, Wanted, OwnState, StoppedQuiet, HeartbeatOnLive,
        MetricsFrame, session, view, dockerVars, metricsVars, terminalVars, timers
  <1> QED
    BY <1>1, <1>2, <1>3, <1>4, <1>5

LEMMA MetricsNoticeInv ==
    ASSUME Inv, NEW s \in Socks, MetricsNotice(s)
    PROVE  Inv'
  <1> USE DEF Inv, Running, Live, Ready, Feeds, Follow
  <1>1. TypeOK'
    BY LiveFeedAssumption
    DEF TypeOK, Clients, MetricsNotice, session, view, dockerVars, metricsVars,
        terminalVars, timers
  <1>2. OneLive' /\ NeverStranded'
    BY LiveFeedAssumption
    DEF TypeOK, OneLive, NeverStranded, Wanted, OwnState, MetricsNotice, session,
        view, dockerVars, metricsVars, terminalVars, timers
  <1>3. Wanted' /\ OwnState'
    BY LiveFeedAssumption
    DEF TypeOK, OneLive, NeverStranded, Wanted, OwnState,
        MetricsNotice, session, view, dockerVars, metricsVars, terminalVars,
        timers
  <1>4. OnTarget'
    BY LiveFeedAssumption
    DEF TypeOK, OneLive, OnTarget, Named, MetricsNotice, session, view,
        dockerVars, metricsVars, terminalVars, timers
  <1>5. StoppedQuiet' /\ HeartbeatOnLive'
    BY LiveFeedAssumption
    DEF TypeOK, OneLive, Wanted, OwnState, StoppedQuiet, HeartbeatOnLive,
        MetricsNotice, session, view, dockerVars, metricsVars, terminalVars,
        timers
  <1> QED
    BY <1>1, <1>2, <1>3, <1>4, <1>5

LEMMA TerminalFrameInv ==
    ASSUME Inv, NEW s \in Socks, TerminalFrame(s)
    PROVE  Inv'
  <1> USE DEF Inv, Running, Live, Ready, Feeds, Follow
  <1>1. TypeOK'
    BY LiveFeedAssumption
    DEF TypeOK, Clients, TerminalFrame, session, view, dockerVars, metricsVars,
        terminalVars, timers
  <1>2. OneLive' /\ NeverStranded'
    BY LiveFeedAssumption
    DEF TypeOK, OneLive, NeverStranded, Wanted, OwnState, TerminalFrame, session,
        view, dockerVars, metricsVars, terminalVars, timers
  <1>3. Wanted' /\ OwnState'
    BY LiveFeedAssumption
    DEF TypeOK, OneLive, NeverStranded, Wanted, OwnState,
        TerminalFrame, session, view, dockerVars, metricsVars, terminalVars,
        timers
  <1>4. OnTarget'
    BY LiveFeedAssumption
    DEF TypeOK, OneLive, OnTarget, Named, TerminalFrame, session, view,
        dockerVars, metricsVars, terminalVars, timers
  <1>5. StoppedQuiet' /\ HeartbeatOnLive'
    BY LiveFeedAssumption
    DEF TypeOK, OneLive, Wanted, OwnState, StoppedQuiet, HeartbeatOnLive,
        TerminalFrame, session, view, dockerVars, metricsVars, terminalVars,
        timers
  <1> QED
    BY <1>1, <1>2, <1>3, <1>4, <1>5

LEMMA DockerCloseInv ==
    ASSUME Inv, NEW s \in Socks, DockerClose(s)
    PROVE  Inv'
  <1> USE DEF Inv, Running, Live, Ready, Feeds, Follow
  <1>1. TypeOK'
    <2>1. LinkTyped /\ TimersTyped /\ ViewTyped /\ DockerTyped /\ PageTyped
      BY TypeParts
    <2>2. LinkTyped'
      BY CloseFacts, <2>1, LiveFeedAssumption
      DEF OneLive, LinkTyped, Clients, DockerClose, session, view, dockerVars,
          metricsVars, terminalVars, timers, ScheduleRetry
    <2>3. TimersTyped'
      BY CloseFacts, <2>1
      DEF TimersTyped, DockerClose, session, view, dockerVars, metricsVars,
          terminalVars, timers, ScheduleRetry
    <2>4. ViewTyped'
      BY <2>1
      DEF LinkTyped, ViewTyped, PageTyped, SockRecords, DockerClose, session,
          view, dockerVars, metricsVars, terminalVars, timers, ScheduleRetry
    <2>5. DockerTyped' /\ PageTyped'
      BY <2>1
      DEF LinkTyped, DockerTyped, PageTyped, SockRecords, DockerClose, session,
          view, dockerVars, metricsVars, terminalVars, timers, ScheduleRetry
    <2> QED
      BY <2>2, <2>3, <2>4, <2>5, TypeParts
  <1>2. OneLive' /\ NeverStranded'
    BY CloseFacts, LiveFeedAssumption
    DEF TypeOK, OneLive, NeverStranded, Wanted, OwnState, DockerClose, session,
        view, dockerVars, metricsVars, terminalVars, timers, ScheduleRetry
  <1>3. Wanted' /\ OwnState'
    BY CloseFacts, LiveFeedAssumption
    DEF TypeOK, OneLive, NeverStranded, Wanted, OwnState, DockerClose,
        session, view, dockerVars, metricsVars, terminalVars, timers,
        ScheduleRetry
  <1>4. OnTarget'
    BY CloseFacts, LiveFeedAssumption
    DEF TypeOK, OneLive, OnTarget, Named, DockerClose, session, view, dockerVars,
        metricsVars, terminalVars, timers, ScheduleRetry
  <1>5. StoppedQuiet' /\ HeartbeatOnLive'
    BY CloseFacts, LiveFeedAssumption
    DEF TypeOK, OneLive, Wanted, OwnState, StoppedQuiet, HeartbeatOnLive,
        DockerClose, session, view, dockerVars, metricsVars, terminalVars, timers,
        ScheduleRetry
  <1> QED
    BY <1>1, <1>2, <1>3, <1>4, <1>5

LEMMA MetricsCloseInv ==
    ASSUME Inv, NEW s \in Socks, MetricsClose(s)
    PROVE  Inv'
  <1> USE DEF Inv, Running, Live, Ready, Feeds, Follow
  <1>1. TypeOK'
    <2>1. LinkTyped /\ TimersTyped /\ ViewTyped /\ DockerTyped /\ PageTyped
      BY TypeParts
    <2>2. LinkTyped'
      BY CloseFacts, <2>1, LiveFeedAssumption
      DEF OneLive, LinkTyped, Clients, MetricsClose, session, view, dockerVars,
          metricsVars, terminalVars, timers, ScheduleRetry
    <2>3. TimersTyped'
      BY CloseFacts, <2>1
      DEF TimersTyped, MetricsClose, session, view, dockerVars, metricsVars,
          terminalVars, timers, ScheduleRetry
    <2>4. ViewTyped'
      BY <2>1
      DEF LinkTyped, ViewTyped, PageTyped, SockRecords, MetricsClose, session,
          view, dockerVars, metricsVars, terminalVars, timers, ScheduleRetry
    <2>5. DockerTyped' /\ PageTyped'
      BY <2>1
      DEF LinkTyped, DockerTyped, PageTyped, SockRecords, MetricsClose, session,
          view, dockerVars, metricsVars, terminalVars, timers, ScheduleRetry
    <2> QED
      BY <2>2, <2>3, <2>4, <2>5, TypeParts
  <1>2. OneLive' /\ NeverStranded'
    BY CloseFacts, LiveFeedAssumption
    DEF TypeOK, OneLive, NeverStranded, Wanted, OwnState, MetricsClose, session,
        view, dockerVars, metricsVars, terminalVars, timers, ScheduleRetry
  <1>3. Wanted' /\ OwnState'
    BY CloseFacts, LiveFeedAssumption
    DEF TypeOK, OneLive, NeverStranded, Wanted, OwnState, MetricsClose,
        session, view, dockerVars, metricsVars, terminalVars, timers,
        ScheduleRetry
  <1>4. OnTarget'
    BY CloseFacts, LiveFeedAssumption
    DEF TypeOK, OneLive, OnTarget, Named, MetricsClose, session, view,
        dockerVars, metricsVars, terminalVars, timers, ScheduleRetry
  <1>5. StoppedQuiet' /\ HeartbeatOnLive'
    BY CloseFacts, LiveFeedAssumption
    DEF TypeOK, OneLive, Wanted, OwnState, StoppedQuiet, HeartbeatOnLive,
        MetricsClose, session, view, dockerVars, metricsVars, terminalVars,
        timers, ScheduleRetry
  <1> QED
    BY <1>1, <1>2, <1>3, <1>4, <1>5

LEMMA TamperCloseInv ==
    ASSUME Inv, NEW s \in Socks, TamperClose(s)
    PROVE  Inv'
  <1> USE DEF Inv, Running, Live, Ready, Feeds, Follow
  <1>1. TypeOK'
    <2>1. LinkTyped /\ TimersTyped /\ ViewTyped /\ DockerTyped /\ PageTyped
      BY TypeParts
    <2>2. LinkTyped'
      BY CloseFacts, <2>1, LiveFeedAssumption
      DEF OneLive, LinkTyped, Clients, TamperClose, session, view, dockerVars,
          metricsVars, terminalVars, timers, ScheduleRetry
    <2>3. TimersTyped'
      BY CloseFacts, <2>1
      DEF TimersTyped, TamperClose, session, view, dockerVars, metricsVars,
          terminalVars, timers, ScheduleRetry
    <2>4. ViewTyped'
      BY <2>1
      DEF LinkTyped, ViewTyped, PageTyped, SockRecords, TamperClose, session,
          view, dockerVars, metricsVars, terminalVars, timers, ScheduleRetry
    <2>5. DockerTyped' /\ PageTyped'
      BY <2>1
      DEF LinkTyped, DockerTyped, PageTyped, SockRecords, TamperClose, session,
          view, dockerVars, metricsVars, terminalVars, timers, ScheduleRetry
    <2> QED
      BY <2>2, <2>3, <2>4, <2>5, TypeParts
  <1>2. OneLive' /\ NeverStranded'
    BY CloseFacts, LiveFeedAssumption
    DEF TypeOK, OneLive, NeverStranded, Wanted, OwnState, TamperClose,
        session, view, dockerVars, metricsVars, terminalVars, timers,
        ScheduleRetry
  <1>3. Wanted' /\ OwnState'
    BY CloseFacts, LiveFeedAssumption
    DEF TypeOK, OneLive, NeverStranded, Wanted, OwnState, TamperClose,
        session, view, dockerVars, metricsVars, terminalVars, timers,
        ScheduleRetry
  <1>4. OnTarget'
    BY CloseFacts, LiveFeedAssumption
    DEF TypeOK, OneLive, OnTarget, Named, TamperClose, session, view, dockerVars,
        metricsVars, terminalVars, timers, ScheduleRetry
  <1>5. StoppedQuiet' /\ HeartbeatOnLive'
    BY CloseFacts, LiveFeedAssumption
    DEF TypeOK, OneLive, Wanted, OwnState, StoppedQuiet, HeartbeatOnLive,
        TamperClose, session, view, dockerVars, metricsVars, terminalVars, timers,
        ScheduleRetry
  <1> QED
    BY <1>1, <1>2, <1>3, <1>4, <1>5

LEMMA TerminalCloseInv ==
    ASSUME Inv, NEW s \in Socks, TerminalClose(s)
    PROVE  Inv'
  <1> USE DEF Inv, Running, Live, Ready, Feeds, Follow
  <1>1. TypeOK'
    <2>1. LinkTyped /\ TimersTyped /\ ViewTyped /\ DockerTyped /\ PageTyped
      BY TypeParts
    <2>2. LinkTyped'
      BY CloseFacts, <2>1, LiveFeedAssumption
      DEF OneLive, LinkTyped, Clients, TerminalClose, session, view, dockerVars,
          metricsVars, terminalVars, timers, ScheduleRetry
    <2>3. TimersTyped'
      BY CloseFacts, <2>1
      DEF TimersTyped, TerminalClose, session, view, dockerVars, metricsVars,
          terminalVars, timers, ScheduleRetry
    <2>4. ViewTyped'
      BY <2>1
      DEF LinkTyped, ViewTyped, PageTyped, SockRecords, TerminalClose, session,
          view, dockerVars, metricsVars, terminalVars, timers, ScheduleRetry
    <2>5. DockerTyped' /\ PageTyped'
      BY <2>1
      DEF LinkTyped, DockerTyped, PageTyped, SockRecords, TerminalClose, session,
          view, dockerVars, metricsVars, terminalVars, timers, ScheduleRetry
    <2> QED
      BY <2>2, <2>3, <2>4, <2>5, TypeParts
  <1>2. OneLive' /\ NeverStranded'
    BY CloseFacts, LiveFeedAssumption
    DEF TypeOK, OneLive, NeverStranded, Wanted, OwnState, TerminalClose, session,
        view, dockerVars, metricsVars, terminalVars, timers, ScheduleRetry
  <1>3. Wanted' /\ OwnState'
    BY CloseFacts, LiveFeedAssumption
    DEF TypeOK, OneLive, NeverStranded, Wanted, OwnState,
        TerminalClose, session, view, dockerVars, metricsVars, terminalVars,
        timers, ScheduleRetry
  <1>4. OnTarget'
    BY CloseFacts, LiveFeedAssumption
    DEF TypeOK, OneLive, OnTarget, Named, TerminalClose, session, view,
        dockerVars, metricsVars, terminalVars, timers, ScheduleRetry
  <1>5. StoppedQuiet' /\ HeartbeatOnLive'
    BY CloseFacts, LiveFeedAssumption
    DEF TypeOK, OneLive, Wanted, OwnState, StoppedQuiet, HeartbeatOnLive,
        TerminalClose, session, view, dockerVars, metricsVars, terminalVars,
        timers, ScheduleRetry
  <1> QED
    BY <1>1, <1>2, <1>3, <1>4, <1>5

LEMMA DropInv ==
    ASSUME Inv, NEW s \in Socks, Drop(s)
    PROVE  Inv'
  <1> USE DEF Inv, Running, Live, Ready, Feeds, Follow
  <1>1. TypeOK'
    BY LiveFeedAssumption
    DEF TypeOK, Clients, Drop, session, view, dockerVars, metricsVars,
        terminalVars, timers, SockRecords, SockStates, NoSock
  <1>2. OneLive' /\ NeverStranded'
    BY LiveFeedAssumption
    DEF TypeOK, OneLive, NeverStranded, Wanted, OwnState, Drop, session, view,
        dockerVars, metricsVars, terminalVars, timers, SockRecords, SockStates,
        NoSock
  <1>3. Wanted' /\ OwnState'
    BY LiveFeedAssumption
    DEF TypeOK, OneLive, NeverStranded, Wanted, OwnState, Drop,
        session, view, dockerVars, metricsVars, terminalVars, timers, SockRecords,
        SockStates, NoSock
  <1>4. OnTarget'
    BY LiveFeedAssumption
    DEF TypeOK, OneLive, OnTarget, Named, Drop, session, view, dockerVars,
        metricsVars, terminalVars, timers, SockRecords, SockStates, NoSock
  <1>5. StoppedQuiet' /\ HeartbeatOnLive'
    BY LiveFeedAssumption
    DEF TypeOK, OneLive, Wanted, OwnState, StoppedQuiet, HeartbeatOnLive, Drop,
        session, view, dockerVars, metricsVars, terminalVars, timers, SockRecords,
        SockStates, NoSock
  <1> QED
    BY <1>1, <1>2, <1>3, <1>4, <1>5

LEMMA DieInv ==
    ASSUME Inv, NEW s \in Socks, Die(s)
    PROVE  Inv'
  <1> USE DEF Inv, Running, Live, Ready, Feeds, Follow
  <1>1. TypeOK'
    BY LiveFeedAssumption
    DEF TypeOK, Clients, Die, session, view, dockerVars, metricsVars,
        terminalVars, timers, SockRecords, SockStates, NoSock
  <1>2. OneLive' /\ NeverStranded'
    BY LiveFeedAssumption
    DEF TypeOK, OneLive, NeverStranded, Wanted, OwnState, Die, session, view,
        dockerVars, metricsVars, terminalVars, timers, SockRecords, SockStates,
        NoSock
  <1>3. Wanted' /\ OwnState'
    BY LiveFeedAssumption
    DEF TypeOK, OneLive, NeverStranded, Wanted, OwnState, Die, session,
        view, dockerVars, metricsVars, terminalVars, timers, SockRecords,
        SockStates, NoSock
  <1>4. OnTarget'
    BY LiveFeedAssumption
    DEF TypeOK, OneLive, OnTarget, Named, Die, session, view, dockerVars,
        metricsVars, terminalVars, timers, SockRecords, SockStates, NoSock
  <1>5. StoppedQuiet' /\ HeartbeatOnLive'
    BY LiveFeedAssumption
    DEF TypeOK, OneLive, Wanted, OwnState, StoppedQuiet, HeartbeatOnLive, Die,
        session, view, dockerVars, metricsVars, terminalVars, timers, SockRecords,
        SockStates, NoSock
  <1> QED
    BY <1>1, <1>2, <1>3, <1>4, <1>5

LEMMA RefreshInv ==
    ASSUME Inv, NEW c \in Callers, Refresh(c)
    PROVE  Inv'
  <1> USE DEF Inv, Running, Live, Ready, Feeds, Follow
  <1>1. TypeOK'
    <2>1. LinkTyped /\ TimersTyped /\ ViewTyped /\ DockerTyped /\ PageTyped
      BY TypeParts
    <2>2. LinkTyped'
      BY <2>1, LiveFeedAssumption
      DEF OneLive, LinkTyped, Clients, Refresh, session, view, dockerVars,
          metricsVars, terminalVars, timers
    <2>3. TimersTyped'
      BY <2>1
      DEF TimersTyped, Refresh, session, view, dockerVars, metricsVars,
          terminalVars, timers
    <2>4. ViewTyped'
      BY <2>1
      DEF LinkTyped, ViewTyped, PageTyped, SockRecords, Refresh, session, view,
          dockerVars, metricsVars, terminalVars, timers
    <2>5. DockerTyped' /\ PageTyped'
      BY <2>1
      DEF LinkTyped, DockerTyped, PageTyped, SockRecords, Refresh, session, view,
          dockerVars, metricsVars, terminalVars, timers
    <2> QED
      BY <2>2, <2>3, <2>4, <2>5, TypeParts
  <1>2. OneLive' /\ NeverStranded'
    BY LiveFeedAssumption
    DEF TypeOK, OneLive, NeverStranded, Wanted, OwnState, Refresh, session, view,
        dockerVars, metricsVars, terminalVars, timers
  <1>3. Wanted' /\ OwnState'
    BY LiveFeedAssumption
    DEF TypeOK, OneLive, NeverStranded, Wanted, OwnState, Refresh,
        session, view, dockerVars, metricsVars, terminalVars, timers
  <1>4. OnTarget'
    BY LiveFeedAssumption
    DEF TypeOK, OneLive, OnTarget, Named, Refresh, session, view, dockerVars,
        metricsVars, terminalVars, timers
  <1>5. StoppedQuiet' /\ HeartbeatOnLive'
    BY LiveFeedAssumption
    DEF TypeOK, OneLive, Wanted, OwnState, StoppedQuiet, HeartbeatOnLive, Refresh,
        session, view, dockerVars, metricsVars, terminalVars, timers
  <1> QED
    BY <1>1, <1>2, <1>3, <1>4, <1>5

LEMMA RefreshTimeoutInv ==
    ASSUME Inv, NEW c \in Callers, RefreshTimeout(c)
    PROVE  Inv'
  <1> USE DEF Inv, Running, Live, Ready, Feeds, Follow
  <1>1. TypeOK'
    BY LiveFeedAssumption
    DEF TypeOK, Clients, RefreshTimeout, session, view, dockerVars, metricsVars,
        terminalVars, timers
  <1>2. OneLive' /\ NeverStranded'
    BY LiveFeedAssumption
    DEF TypeOK, OneLive, NeverStranded, Wanted, OwnState, RefreshTimeout, session,
        view, dockerVars, metricsVars, terminalVars, timers
  <1>3. Wanted' /\ OwnState'
    BY LiveFeedAssumption
    DEF TypeOK, OneLive, NeverStranded, Wanted, OwnState,
        RefreshTimeout, session, view, dockerVars, metricsVars, terminalVars,
        timers
  <1>4. OnTarget'
    BY LiveFeedAssumption
    DEF TypeOK, OneLive, OnTarget, Named, RefreshTimeout, session, view,
        dockerVars, metricsVars, terminalVars, timers
  <1>5. StoppedQuiet' /\ HeartbeatOnLive'
    BY LiveFeedAssumption
    DEF TypeOK, OneLive, Wanted, OwnState, StoppedQuiet, HeartbeatOnLive,
        RefreshTimeout, session, view, dockerVars, metricsVars, terminalVars,
        timers
  <1> QED
    BY <1>1, <1>2, <1>3, <1>4, <1>5

LEMMA DockerSwitchInv ==
    ASSUME Inv, NEW h \in Hosts, DockerSwitch(h)
    PROVE  Inv'
  <1> USE DEF Inv, Running, Live, Ready, Feeds, Follow
  <1>0. sock \in [Socks -> SockRecords] /\ host \in Hosts
       /\ \A k \in Hosts : Named(k) \in Hosts \cup {None}
    BY NamedTyped DEF Inv, TypeOK
  <1>1. TypeOK'
    <2>1. LinkTyped /\ TimersTyped /\ ViewTyped /\ DockerTyped /\ PageTyped
      BY TypeParts
    <2>2. LinkTyped'
      BY <1>0, OpenFacts, ClosedFacts, <2>1, LiveFeedAssumption
      DEF OneLive, LinkTyped, Clients, DockerSwitch, session, view, dockerVars,
          metricsVars, terminalVars, timers, ForceReconnect
    <2>3. TimersTyped'
      BY <1>0, OpenFacts, ClosedFacts, <2>1
      DEF TimersTyped, DockerSwitch, session, view, dockerVars, metricsVars,
          terminalVars, timers, ForceReconnect
    <2>4. ViewTyped'
      BY <2>1
      DEF LinkTyped, ViewTyped, PageTyped, SockRecords, DockerSwitch, session,
          view, dockerVars, metricsVars, terminalVars, timers, ForceReconnect
    <2>5. DockerTyped' /\ PageTyped'
      BY <2>1
      DEF LinkTyped, DockerTyped, PageTyped, SockRecords, DockerSwitch, session,
          view, dockerVars, metricsVars, terminalVars, timers, ForceReconnect
    <2> QED
      BY <2>2, <2>3, <2>4, <2>5, TypeParts
  <1>2. OneLive' /\ NeverStranded'
    BY <1>0, OpenFacts, ClosedFacts, LiveFeedAssumption
    DEF TypeOK, OneLive, NeverStranded, Wanted, OwnState, DockerSwitch, session,
        view, dockerVars, metricsVars, terminalVars, timers, ForceReconnect
  <1>3. Wanted' /\ OwnState'
    BY <1>0, OpenFacts, ClosedFacts, LiveFeedAssumption
    DEF TypeOK, OneLive, NeverStranded, Wanted, OwnState, DockerSwitch,
        session, view, dockerVars, metricsVars, terminalVars, timers,
        ForceReconnect
  <1>4. OnTarget'
    BY <1>0, OpenFacts, ClosedFacts, LiveFeedAssumption
    DEF TypeOK, OneLive, Wanted, OnTarget, Named, DockerSwitch, session, view,
        dockerVars, metricsVars, terminalVars, timers, ForceReconnect
  <1>5. StoppedQuiet' /\ HeartbeatOnLive'
    BY <1>0, OpenFacts, ClosedFacts, LiveFeedAssumption
    DEF TypeOK, OneLive, Wanted, OwnState, StoppedQuiet, HeartbeatOnLive,
        DockerSwitch, session, view, dockerVars, metricsVars, terminalVars,
        timers, ForceReconnect
  <1> QED
    BY <1>1, <1>2, <1>3, <1>4, <1>5

LEMMA MetricsSwitchInv ==
    ASSUME Inv, NEW h \in Hosts, MetricsSwitch(h)
    PROVE  Inv'
  <1> USE DEF Inv, Running, Live, Ready, Feeds, Follow
  <1>0. sock \in [Socks -> SockRecords] /\ host \in Hosts
       /\ \A k \in Hosts : Named(k) \in Hosts \cup {None}
    BY NamedTyped DEF Inv, TypeOK
  <1>1. TypeOK'
    <2>1. LinkTyped /\ TimersTyped /\ ViewTyped /\ DockerTyped /\ PageTyped
      BY TypeParts
    <2>2. LinkTyped'
      BY <1>0, OpenFacts, ClosedFacts, <2>1, LiveFeedAssumption
      DEF OneLive, LinkTyped, Clients, MetricsSwitch, session, view, dockerVars,
          metricsVars, terminalVars, timers, ForceReconnect
    <2>3. TimersTyped'
      BY <1>0, OpenFacts, ClosedFacts, <2>1
      DEF TimersTyped, MetricsSwitch, session, view, dockerVars, metricsVars,
          terminalVars, timers, ForceReconnect
    <2>4. ViewTyped'
      BY <2>1
      DEF LinkTyped, ViewTyped, PageTyped, SockRecords, MetricsSwitch, session,
          view, dockerVars, metricsVars, terminalVars, timers, ForceReconnect
    <2>5. DockerTyped' /\ PageTyped'
      BY <2>1
      DEF LinkTyped, DockerTyped, PageTyped, SockRecords, MetricsSwitch, session,
          view, dockerVars, metricsVars, terminalVars, timers, ForceReconnect
    <2> QED
      BY <2>2, <2>3, <2>4, <2>5, TypeParts
  <1>2. OneLive' /\ NeverStranded'
    BY <1>0, OpenFacts, ClosedFacts, LiveFeedAssumption
    DEF TypeOK, OneLive, NeverStranded, Wanted, OwnState, MetricsSwitch, session,
        view, dockerVars, metricsVars, terminalVars, timers, ForceReconnect
  <1>3. Wanted' /\ OwnState'
    BY <1>0, OpenFacts, ClosedFacts, LiveFeedAssumption
    DEF TypeOK, OneLive, NeverStranded, Wanted, OwnState,
        MetricsSwitch, session, view, dockerVars, metricsVars, terminalVars,
        timers, ForceReconnect
  <1>4. OnTarget'
    BY <1>0, OpenFacts, ClosedFacts, LiveFeedAssumption
    DEF TypeOK, OneLive, Wanted, OnTarget, Named, MetricsSwitch, session, view,
        dockerVars, metricsVars, terminalVars, timers, ForceReconnect
  <1>5. StoppedQuiet' /\ HeartbeatOnLive'
    BY <1>0, OpenFacts, ClosedFacts, LiveFeedAssumption
    DEF TypeOK, OneLive, Wanted, OwnState, StoppedQuiet, HeartbeatOnLive,
        MetricsSwitch, session, view, dockerVars, metricsVars, terminalVars,
        timers, ForceReconnect
  <1> QED
    BY <1>1, <1>2, <1>3, <1>4, <1>5

LEMMA TerminalSwitchInv ==
    ASSUME Inv, NEW h \in Hosts, TerminalSwitch(h)
    PROVE  Inv'
  <1> USE DEF Inv, Running, Live, Ready, Feeds, Follow
  <1>1. TypeOK'
    BY LiveFeedAssumption
    DEF TypeOK, Clients, TerminalSwitch, session, view, dockerVars, metricsVars,
        terminalVars, timers
  <1>2. OneLive' /\ NeverStranded'
    BY LiveFeedAssumption
    DEF TypeOK, OneLive, NeverStranded, Wanted, OwnState, TerminalSwitch, session,
        view, dockerVars, metricsVars, terminalVars, timers
  <1>3. Wanted' /\ OwnState'
    BY LiveFeedAssumption
    DEF TypeOK, OneLive, NeverStranded, Wanted, OwnState,
        TerminalSwitch, session, view, dockerVars, metricsVars, terminalVars,
        timers
  <1>4. OnTarget'
    BY LiveFeedAssumption
    DEF TypeOK, OneLive, Wanted, OnTarget, Named, TerminalSwitch, session, view,
        dockerVars, metricsVars, terminalVars, timers
  <1>5. StoppedQuiet' /\ HeartbeatOnLive'
    BY LiveFeedAssumption
    DEF TypeOK, OneLive, Wanted, OwnState, StoppedQuiet, HeartbeatOnLive,
        TerminalSwitch, session, view, dockerVars, metricsVars, terminalVars,
        timers
  <1> QED
    BY <1>1, <1>2, <1>3, <1>4, <1>5

LEMMA MoveCurrentInv ==
    ASSUME Inv, NEW h \in Hosts, MoveCurrent(h)
    PROVE  Inv'
  <1> USE DEF Inv, Running, Live, Ready, Feeds, Follow
  <1>1. TypeOK'
    BY DEF TypeOK, MoveCurrent, view, dockerVars, metricsVars, terminalVars, timers
  <1>2. OneLive' /\ NeverStranded' /\ Wanted' /\ OwnState'
    BY DEF OneLive, NeverStranded, Wanted, OwnState, MoveCurrent, view,
           dockerVars, metricsVars, terminalVars, timers
  <1>3. OnTarget' /\ StoppedQuiet' /\ HeartbeatOnLive'
    BY DEF OnTarget, StoppedQuiet, HeartbeatOnLive, Named, MoveCurrent, view,
           dockerVars, metricsVars, terminalVars, timers
  <1> QED
    BY <1>1, <1>2, <1>3

LEMMA CollectInv ==
    ASSUME Inv, Collect
    PROVE  Inv'
  <1> USE DEF Inv, Running, Live, Ready, Feeds, Follow
  <1>1. TypeOK'
    BY DEF TypeOK, Collect, view, dockerVars, metricsVars, terminalVars, timers
  <1>2. OneLive' /\ NeverStranded' /\ Wanted' /\ OwnState'
    BY DEF OneLive, NeverStranded, Wanted, OwnState, Collect, view,
           dockerVars, metricsVars, terminalVars, timers
  <1>3. OnTarget' /\ StoppedQuiet' /\ HeartbeatOnLive'
    BY DEF OnTarget, StoppedQuiet, HeartbeatOnLive, Named, Collect, view,
           dockerVars, metricsVars, terminalVars, timers
  <1> QED
    BY <1>1, <1>2, <1>3

-----------------------------------------------------------------------------
(* The theorems.                                                           *)

LEMMA NextInv ==
    ASSUME Inv, Next
    PROVE  Inv'
  <1>1. CASE Begin
    BY <1>1, DockerStartInv, MetricsStartInv, TamperStartInv, TerminalMountInv
    DEF Begin
  <1>2. CASE End
    BY <1>2, DockerStopInv, MetricsStopInv, TamperStopInv, TerminalUnmountInv
    DEF End
  <1>3. CASE Awaited
    BY <1>3, TerminalMountedInv, TerminalToggledInv DEF Awaited
  <1>4. ASSUME NEW s \in Socks, OnOpen(s)
        PROVE  Inv'
    BY <1>4, DockerOpenInv, MetricsOpenInv, TamperOpenInv, TerminalOpenInv
    DEF OnOpen
  <1>5. ASSUME NEW s \in Socks, OnMessage(s) \/ MetricsNotice(s)
        PROVE  Inv'
    BY <1>5, DockerSnapshotInv, MetricsFrameInv, TerminalFrameInv, MetricsNoticeInv
    DEF OnMessage
  <1>6. ASSUME NEW s \in Socks, OnClose(s) \/ Drop(s) \/ Die(s)
        PROVE  Inv'
    BY <1>6, DockerCloseInv, MetricsCloseInv, TamperCloseInv, TerminalCloseInv,
       DropInv, DieInv
    DEF OnClose
  <1>7. CASE Retry \/ Age \/ Watch \/ TerminalBeat \/ Fallback \/ ApplyFrame
    BY <1>7, FeedRetryInv, TerminalRetryInv, AgeInv, DockerWatchInv,
       MetricsWatchInv, TerminalBeatInv, FallbackInv, ApplyFrameInv
    DEF Retry, Watch
  <1>8. ASSUME NEW c \in Callers, Refresh(c) \/ RefreshTimeout(c)
        PROVE  Inv'
    BY <1>8, RefreshInv, RefreshTimeoutInv
  <1>9. ASSUME NEW h \in Hosts, Switch(h) \/ MoveCurrent(h)
        PROVE  Inv'
    BY <1>9, DockerSwitchInv, MetricsSwitchInv, TerminalSwitchInv, MoveCurrentInv
    DEF Switch
  <1>10. CASE Collect \/ Hide \/ Show \/ TerminalReconnect \/ TerminalToggle
    BY <1>10, CollectInv, HideInv, ShowInv, TerminalReconnectInv, TerminalToggleInv
  <1> QED
    BY <1>1, <1>2, <1>3, <1>4, <1>5, <1>6, <1>7, <1>8, <1>9, <1>10 DEF Next

LEMMA StutterInv ==
    ASSUME Inv, UNCHANGED vars
    PROVE  Inv'
  <1>1. TypeOK'
    BY DEF Inv, TypeOK, vars, session, timers, view, dockerVars, metricsVars,
           terminalVars
  <1>2. OneLive' /\ NeverStranded' /\ Wanted' /\ OwnState'
    BY DEF Inv, OneLive, NeverStranded, Wanted, OwnState, Live, Running,
           vars, session, timers, view, dockerVars, metricsVars, terminalVars
  <1>3. OnTarget' /\ StoppedQuiet' /\ HeartbeatOnLive'
    BY DEF Inv, OnTarget, StoppedQuiet, HeartbeatOnLive, Named, Live,
           vars, session, timers, view, dockerVars, metricsVars, terminalVars
  <1> QED
    BY <1>1, <1>2, <1>3 DEF Inv

\* The inductive invariant, for any number of sockets, hosts and callers.
THEOREM InvHolds == Spec => []Inv
  <1>1. Inv /\ [Next]_vars => Inv'
    BY NextInv, StutterInv
  <1> QED
    BY InitInv, <1>1, PTL DEF Spec

\* Every variable keeps its type.
THEOREM TypeCorrect == Spec => []TypeOK
  BY InvHolds, PTL DEF Inv

\* There is at most one live connection, and the client knows it (the tamper
\* alerts excepted).
THEOREM ConnectionIsUnique == Spec => []OneLive
  BY InvHolds, PTL DEF Inv

\* A subscriber without a connection has its next attempt scheduled.
THEOREM SubscriberIsNotStranded == Spec => []NeverStranded
  BY InvHolds, PTL DEF Inv

\* A client that asks for a node is connected to that node, now the managed host
\* or a terminal's own, or, if it is a feed, to the hub.
THEOREM ConnectionIsOnTarget == Spec => []OnTarget
  BY InvHolds, PTL DEF Inv

\* A feed that was stopped holds no connection, and has no timer set and no
\* caller waiting.
THEOREM StoppedFeedIsQuiet == Spec => []StoppedQuiet
  BY InvHolds, PTL DEF Inv

\* The heartbeat of a terminal is on its open connection.
THEOREM TerminalIsWatched == Spec => []HeartbeatOnLive
  BY InvHolds, PTL DEF Inv
=============================================================================
