------------------------------ MODULE Desktop ------------------------------
(***************************************************************************)
(* The window manager of the front end (App.vue) and the host its requests *)
(* go to (store/nodes.js, store/requestNode.js, the interceptor of api.js).*)
(*                                                                         *)
(* A panel manages several hosts.  Requests go to the current host, unless *)
(* "unified panel" is on: then a window is bound to the host that was      *)
(* current when it was opened, and what is requested while it has the      *)
(* focus goes to that host.  One variable of the page, `request', carries  *)
(* the host for every window; None stands for the empty string.            *)
(*                                                                         *)
(* Each action is one event handler of the page, run to its end, with the  *)
(* watch on activeWindowId (a microtask) that follows it.  Windows have an *)
(* order by their z.  Of the minimised ones only the active one matters:   *)
(* the others have neither the focus nor the requests, and get both only   *)
(* by being restored.  Positions and sizes are left out, and so is the     *)
(* panel layout (PanelLayout.vue).                                         *)
(***************************************************************************)
EXTENDS Naturals

CONSTANTS
    Hosts,        \* the hosts the panel manages
    None,         \* the empty string: no host, no window
    Kinds,        \* the keys of the windows
    Accounts,     \* the sets of keys an account may open (rights, Star gate)
    LocalKinds,   \* the windows with remoteCap 'local'
    Barred,       \* the remote hosts without an agent
    MaxWindows    \* bound: windows opened in one life of the page

ASSUME DesktopAssumption ==
    /\ Accounts \subseteq SUBSET Kinds
    /\ MaxWindows \in Nat
    /\ None \notin Hosts
    /\ None \notin Nat

VARIABLES
    allowed,      \* the keys the signed-in account may open
    currentId,    \* nodes.currentId: the current host
    unified,      \* settings.unifiedPanel
    request,      \* the host of requestNode.js, or None
    windowSeq,    \* the last window id given out
    windows,      \* openWindows: id -> [key, nodeId]
    below,        \* <<v, w>>: w has the greater z
    minimized,    \* the active window is not drawn
    active        \* activeWindowId, or None

deskVars ==
    <<allowed, currentId, unified, request, windowSeq, windows, below, minimized,
      active>>

Ids == 1 .. MaxWindows
Opened == DOMAIN windows

(* Where a request sent now goes: the interceptor adds X-Graw-Node when a  *)
(* host is set, and the back end takes its current host when none is.      *)
Target == IF request = None THEN currentId ELSE request

DeskInit ==
    /\ allowed \in Accounts
    /\ currentId \in Hosts
    /\ unified \in BOOLEAN
    /\ request = None
    /\ windowSeq = 0
    /\ windows = [w \in {} |-> None]
    /\ below = {}
    /\ minimized = FALSE
    /\ active = None

-----------------------------------------------------------------------------
(* Putting the host of window id of ws into the requests; an id that is    *)
(* not open and a window without a host give the empty string.             *)
ApplyActiveRequestNode(ws, id) ==
    request' = IF unified /\ id \in DOMAIN ws THEN ws[id].nodeId ELSE None

(* z = ++zSeq: the window goes above every other.                          *)
Raise(id) ==
    below' = {p \in below : p[1] # id} \cup ((Opened \ {id}) \X {id})

\* Mutant: the host of the new window is not put into the requests.
PushUnapplied(k, node) ==
    LET id == windowSeq + 1 IN
    /\ windowSeq < MaxWindows
    /\ windowSeq' = id
    /\ windows' = [w \in Opened \cup {id} |->
                      IF w = id THEN [key |-> k, nodeId |-> node] ELSE windows[w]]
    /\ Raise(id)
    /\ active' = id /\ minimized' = FALSE
    /\ UNCHANGED <<allowed, currentId, unified, request>>

(* A window descriptor is pushed and becomes the active one.               *)
Push(k, node) ==
    LET id == windowSeq + 1 IN
    /\ windowSeq < MaxWindows
    /\ windowSeq' = id
    /\ windows' = [w \in Opened \cup {id} |->
                      IF w = id THEN [key |-> k, nodeId |-> node] ELSE windows[w]]
    /\ Raise(id)
    /\ active' = id /\ minimized' = FALSE
    /\ ApplyActiveRequestNode(windows', id)
    /\ UNCHANGED <<allowed, currentId, unified>>

BoundNode == IF unified THEN currentId ELSE None

(* From an icon, the menu or the palette: the guards, then the window is   *)
(* bound to the current host.                                              *)
OpenWindow(k) ==
    /\ k \in allowed
    /\ ~(k \in LocalKinds /\ currentId \in Barred)
    /\ Push(k, BoundNode)

(* The forms opened from inside a window: no guards, and bound to the      *)
(* current host, not to the host of the window they were opened from.      *)
OpenForm(k) == Push(k, BoundNode)

(* Editors, terminals, logs and viewers opened from inside a window: bound *)
(* to no host, whatever the window they were opened from is bound to.      *)
OpenChild(k) == Push(k, None)

\* Mutant: the window gets the focus where it stands.
FocusWindowInPlace(id) ==
    /\ id \in Opened
    /\ active' = id /\ minimized' = FALSE
    /\ ApplyActiveRequestNode(windows, id)
    /\ UNCHANGED <<allowed, currentId, unified, windowSeq, windows, below>>

(* A click on the window, or on its button in the task bar unless it is    *)
(* the active one.                                                         *)
FocusWindow(id) ==
    /\ id \in Opened
    /\ Raise(id)
    /\ active' = id /\ minimized' = FALSE
    /\ ApplyActiveRequestNode(windows, id)
    /\ UNCHANGED <<allowed, currentId, unified, windowSeq, windows>>

(* A click on its button in the title bar, which gives it the focus first, *)
(* or on that in the task bar: the window goes out of sight, and that is   *)
(* all.  It stays the active one, and requests go on to its host.          *)
MinimizeWindow ==
    /\ active # None
    /\ minimized' = TRUE
    /\ UNCHANGED <<allowed, currentId, unified, request, windowSeq, windows, below,
                   active>>

\* Mutant: the closed window stays the active one.
CloseWindowStaysActive(id) ==
    /\ id \in Opened
    /\ windows' = [w \in Opened \ {id} |-> windows[w]]
    /\ below' = {p \in below : p[1] # id /\ p[2] # id}
    /\ UNCHANGED <<allowed, currentId, unified, request, windowSeq, minimized,
                   active>>

\* Mutant: no watch, the requests stay with the closed window's host.
CloseWindowKeepsHost(id) ==
    /\ id \in Opened
    /\ windows' = [w \in Opened \ {id} |-> windows[w]]
    /\ below' = {p \in below : p[1] # id /\ p[2] # id}
    /\ active' = IF active = id THEN None ELSE active
    /\ minimized' = (minimized /\ active # id)
    /\ UNCHANGED <<allowed, currentId, unified, request, windowSeq>>

(* Closing, once a dirty editor was confirmed.  Only when the window was   *)
(* the active one does the watch run, and then no window is active.        *)
CloseWindow(id) ==
    /\ id \in Opened
    /\ windows' = [w \in Opened \ {id} |-> windows[w]]
    /\ below' = {p \in below : p[1] # id /\ p[2] # id}
    /\ minimized' = (minimized /\ active # id)
    /\ IF active = id
       THEN active' = None /\ ApplyActiveRequestNode(windows', None)
       ELSE UNCHANGED <<active, request>>
    /\ UNCHANGED <<allowed, currentId, unified, windowSeq>>

(* The answer to setCurrentNode: the requests leave the host of the        *)
(* focused window, which stays focused.                                    *)
SetCurrentNode(h) ==
    /\ currentId' = h
    /\ request' = None
    /\ UNCHANGED <<allowed, unified, windowSeq, windows, below, minimized, active>>

(* The answer to refreshNodes: any host, the back end may have been        *)
(* switched from another page and the answer may be an old one.            *)
RefreshNodes(h) ==
    /\ currentId' = h
    /\ UNCHANGED <<allowed, unified, request, windowSeq, windows, below, minimized,
                   active>>

(* The check box in the settings: nothing is applied until the next focus. *)
ToggleUnified ==
    /\ unified' = ~unified
    /\ UNCHANGED <<allowed, currentId, request, windowSeq, windows, below,
                   minimized, active>>

-----------------------------------------------------------------------------
DeskTypeOK ==
    /\ allowed \in Accounts
    /\ currentId \in Hosts
    /\ unified \in BOOLEAN
    /\ request \in Hosts \cup {None}
    /\ windowSeq \in 0 .. MaxWindows
    /\ Opened \subseteq 1 .. windowSeq
    /\ windows \in [Opened -> [key : Kinds, nodeId : Hosts \cup {None}]]
    /\ below \subseteq Opened \X Opened
    /\ minimized \in BOOLEAN
    /\ active \in Opened \cup {None}

(* A request carries a host only while the window bound to that host is    *)
(* open and the active one: no order of opening, focusing, minimising,     *)
(* closing, switching the host and toggling the mode leaves the requests   *)
(* of the page on the host of a window that is gone or behind another.     *)
RequestFollowsFocus ==
    request # None => active \in Opened /\ windows[active].nodeId = request

(* No window is drawn over the one that decides where requests go: it is   *)
(* on top of all that are drawn, or minimised, and then on top again when  *)
(* it is restored; and the z of two open windows are never equal.  (That a *)
(* minimised window may decide is what the code does: minimising leaves    *)
(* activeWindowId alone.)                                                  *)
FocusOnTop ==
    /\ active # None => \A w \in Opened \ {active} : <<w, active>> \in below
    /\ \A v, w \in Opened : v # w => (<<v, w>> \in below <=> <<w, v>> \notin below)

(* The requests go where the focus says.                                   *)
Routed ==
    request = IF unified /\ active # None THEN windows[active].nodeId ELSE None

(* The focused window's host gets the requests, as far as the code keeps   *)
(* it: every change of focus, by opening, focusing or closing a window,    *)
(* routes the requests to the host of the window that has it now, and they *)
(* stay there until the mode is toggled or the current host is switched    *)
(* (which sends them to the new current host under the focused window).    *)
(* And no window gets the focus without being drawn.                       *)
FocusRoutes ==
    [][ /\ active' # active => Routed' /\ ~minimized'
        /\ Routed /\ ~Routed' =>
             \/ unified' # unified
             \/ request' = None /\ UNCHANGED <<windows, active>> ]_deskVars
=============================================================================
