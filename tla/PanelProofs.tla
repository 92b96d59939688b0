---------------------------- MODULE PanelProofs ----------------------------
(***************************************************************************)
(* What the desktop keeps for every number of windows, hosts, tasks and    *)
(* files.  The types, the order of the windows, the host of the requests   *)
(* and the selections are one inductive invariant, once it is added that   *)
(* a file manager that is not mounted holds nothing.                       *)
(***************************************************************************)
EXTENDS Panel, TLAPS

(* Nothing is listed, selected or asked for without a mounted file manager.*)
Unmounted == filesWin = None => items = {} /\ chosen = {} /\ ~loading

Inv ==
    /\ DeskTypeOK
    /\ TaskTypeOK
    /\ FilesTypeOK
    /\ RequestFollowsFocus
    /\ FocusOnTop
    /\ SelectionListed
    /\ Unmounted

(* The desktop's own part of the invariant.                                *)
DeskInv == DeskTypeOK /\ RequestFollowsFocus /\ FocusOnTop

-----------------------------------------------------------------------------
(* The id of a new window is not in use, and None is no id.                *)
LEMMA FreshId ==
    ASSUME DeskTypeOK
    PROVE  /\ windowSeq + 1 \notin Opened
           /\ None \notin Opened
           /\ Opened \subseteq Ids
           /\ windowSeq \in Nat
<1>1. /\ windowSeq \in Nat
      /\ windowSeq \in 0 .. MaxWindows
      /\ Opened \subseteq 1 .. windowSeq
      /\ MaxWindows \in Nat
      /\ None \notin Nat
  BY DesktopAssumption DEF DeskTypeOK
<1>2. Opened \subseteq Ids
  BY <1>1 DEF Ids
<1>3. windowSeq + 1 \notin 1 .. windowSeq
  BY <1>1
<1>4. 1 .. windowSeq \subseteq Nat
  BY <1>1
<1> QED
  BY <1>1, <1>2, <1>3, <1>4

(* Putting a window on top of all others keeps the order of the others.    *)
LEMMA RaiseOrders ==
    ASSUME NEW ws, NEW old, NEW new, NEW id \in ws,
           old \subseteq ws \X ws,
           new = {p \in old : p[1] # id} \cup ((ws \ {id}) \X {id}),
           \A v, w \in ws \ {id} : v # w => (<<v, w>> \in old <=> <<w, v>> \notin old)
    PROVE  /\ new \subseteq ws \X ws
           /\ \A w \in ws \ {id} : <<w, id>> \in new
           /\ \A v, w \in ws : v # w => (<<v, w>> \in new <=> <<w, v>> \notin new)
<1>1. new \subseteq ws \X ws
  OBVIOUS
<1>2. \A w \in ws \ {id} : <<w, id>> \in new /\ <<id, w>> \notin new
  OBVIOUS
<1>3. ASSUME NEW v \in ws \ {id}, NEW w \in ws \ {id}
      PROVE  <<v, w>> \in new <=> <<v, w>> \in old
  OBVIOUS
<1> QED
  BY <1>1, <1>2, <1>3

LEMMA PushKeeps ==
    ASSUME DeskInv, NEW k \in Kinds, NEW node \in Hosts \cup {None},
           Push(k, node)
    PROVE  DeskInv'
<1> DEFINE id == windowSeq + 1
<1>1. /\ id \notin Opened
      /\ None \notin Opened
      /\ id \in 1 .. MaxWindows
      /\ windowSeq \in Nat
      /\ id # None
  BY FreshId, DesktopAssumption DEF DeskInv, Push, DeskTypeOK
<1>2. /\ Opened' = Opened \cup {id}
      /\ windows'[id] = [key |-> k, nodeId |-> node]
      /\ \A w \in Opened : windows'[w] = windows[w]
  BY <1>1 DEF Push, Opened
<1>3. /\ active' = id
      /\ minimized' = FALSE
      /\ windowSeq' = id
      /\ UNCHANGED <<allowed, currentId, unified>>
      /\ request' = IF unified THEN node ELSE None
  BY <1>2, Zenon DEF Push, ApplyActiveRequestNode, Opened
<1>4. below' = {p \in below : p[1] # id} \cup ((Opened' \ {id}) \X {id})
  BY <1>1, <1>2 DEF Push, Raise
<1>5. /\ below' \subseteq Opened' \X Opened'
      /\ \A w \in Opened' \ {id} : <<w, id>> \in below'
      /\ \A v, w \in Opened' : v # w => (<<v, w>> \in below' <=> <<w, v>> \notin below')
  <2>1. /\ below \subseteq Opened' \X Opened'
        /\ id \in Opened'
        /\ Opened' \ {id} = Opened
    BY <1>1, <1>2 DEF DeskInv, DeskTypeOK
  <2>2. \A v, w \in Opened' \ {id} :
            v # w => (<<v, w>> \in below <=> <<w, v>> \notin below)
    BY <2>1 DEF DeskInv, FocusOnTop
  <2> QED
    BY <2>1, <2>2, <1>4, RaiseOrders
<1>6. windows' \in [Opened' -> [key : Kinds, nodeId : Hosts \cup {None}]]
  BY <1>2 DEF Push, Opened, DeskInv, DeskTypeOK
<1>7. DeskTypeOK'
  <2>1. Opened' \subseteq 1 .. windowSeq'
    BY <1>1, <1>2, <1>3 DEF DeskInv, DeskTypeOK
  <2>2. windowSeq' \in 0 .. MaxWindows
    BY <1>1, <1>3, DesktopAssumption
  <2> QED
    BY <1>2, <1>3, <1>5, <1>6, <2>1, <2>2 DEF DeskInv, DeskTypeOK
<1>8. RequestFollowsFocus'
  BY <1>2, <1>3 DEF RequestFollowsFocus
<1>9. FocusOnTop'
  BY <1>3, <1>5 DEF FocusOnTop
<1> QED
  BY <1>7, <1>8, <1>9 DEF DeskInv

LEMMA FocusKeeps ==
    ASSUME DeskInv, NEW id, FocusWindow(id)
    PROVE  DeskInv'
<1>1. /\ id \in Opened
      /\ id # None
      /\ active' = id
      /\ minimized' = FALSE
      /\ Opened' = Opened
      /\ UNCHANGED <<allowed, currentId, unified, windowSeq, windows>>
  BY FreshId DEF DeskInv, FocusWindow, Opened
<1>2. request' = IF unified THEN windows[id].nodeId ELSE None
  BY <1>1 DEF FocusWindow, ApplyActiveRequestNode, Opened
<1>3. /\ below' \subseteq Opened \X Opened
      /\ \A w \in Opened \ {id} : <<w, id>> \in below'
      /\ \A v, w \in Opened : v # w => (<<v, w>> \in below' <=> <<w, v>> \notin below')
  <2>1. below' = {p \in below : p[1] # id} \cup ((Opened \ {id}) \X {id})
    BY DEF FocusWindow, Raise
  <2>2. /\ below \subseteq Opened \X Opened
        /\ \A v, w \in Opened \ {id} :
              v # w => (<<v, w>> \in below <=> <<w, v>> \notin below)
    BY DEF DeskInv, DeskTypeOK, FocusOnTop
  <2> QED
    BY <1>1, <2>1, <2>2, RaiseOrders
<1>4. windows[id].nodeId \in Hosts \cup {None}
  BY <1>1 DEF DeskInv, DeskTypeOK
<1>5. DeskTypeOK'
  BY <1>1, <1>2, <1>3, <1>4 DEF DeskInv, DeskTypeOK
<1>6. RequestFollowsFocus'
  BY <1>1, <1>2 DEF RequestFollowsFocus
<1>7. FocusOnTop'
  BY <1>1, <1>3 DEF FocusOnTop
<1> QED
  BY <1>5, <1>6, <1>7 DEF DeskInv

LEMMA CloseKeeps ==
    ASSUME DeskInv, NEW id, CloseWindow(id)
    PROVE  /\ DeskInv'
           /\ Opened' = Opened \ {id}
           /\ \A w \in Opened' : windows'[w] = windows[w]
<1>1. /\ Opened' = Opened \ {id}
      /\ \A w \in Opened' : windows'[w] = windows[w]
      /\ UNCHANGED <<allowed, currentId, unified, windowSeq>>
  BY DEF CloseWindow, Opened
<1>2. /\ None \notin Opened
      /\ None \notin Opened'
  BY <1>1, FreshId DEF DeskInv
<1>3. \/ active = id /\ active' = None /\ request' = None
      \/ active # id /\ active' = active /\ request' = request
  BY <1>2 DEF CloseWindow, ApplyActiveRequestNode, Opened
<1>4. /\ below' \subseteq Opened' \X Opened'
      /\ \A v, w \in Opened' : <<v, w>> \in below' <=> <<v, w>> \in below
  BY <1>1 DEF CloseWindow, DeskInv, DeskTypeOK
<1>5. DeskTypeOK'
  <2>1. windows' \in [Opened' -> [key : Kinds, nodeId : Hosts \cup {None}]]
    BY <1>1 DEF CloseWindow, DeskInv, DeskTypeOK, Opened
  <2>2. active' \in Opened' \cup {None}
    BY <1>1, <1>3 DEF DeskInv, DeskTypeOK
  <2>3. minimized' \in BOOLEAN
    BY DEF CloseWindow
  <2> QED
    BY <1>1, <1>3, <1>4, <2>1, <2>2, <2>3 DEF DeskInv, DeskTypeOK
<1>6. RequestFollowsFocus'
  BY <1>1, <1>3 DEF DeskInv, RequestFollowsFocus
<1>7. FocusOnTop'
  <2>1. \A v, w \in Opened' : v # w => (<<v, w>> \in below' <=> <<w, v>> \notin below')
    BY <1>1, <1>4 DEF DeskInv, FocusOnTop
  <2>2. active' # None => \A w \in Opened' \ {active'} : <<w, active'>> \in below'
    <3> SUFFICES ASSUME active' # None
                 PROVE  \A w \in Opened' \ {active'} : <<w, active'>> \in below'
      OBVIOUS
    <3>1. active' = active /\ active \in Opened'
      BY <1>1, <1>3 DEF DeskInv, DeskTypeOK
    <3>2. \A w \in Opened' \ {active} : <<w, active>> \in below
      BY <1>1, <3>1 DEF DeskInv, FocusOnTop
    <3> QED
      BY <1>4, <3>1, <3>2
  <2> QED
    BY <2>1, <2>2 DEF FocusOnTop
<1> QED
  BY <1>1, <1>5, <1>6, <1>7 DEF DeskInv

(* The host of the requests changes or a window goes out of sight, and the *)
(* windows are the same.                                                   *)
LEMMA SwitchKeeps ==
    ASSUME DeskInv, NEW h \in Hosts,
           SetCurrentNode(h) \/ RefreshNodes(h) \/ ToggleUnified \/ MinimizeWindow
    PROVE  DeskInv'
  BY DEF DeskInv, SetCurrentNode, RefreshNodes, ToggleUnified, MinimizeWindow, DeskTypeOK,
         RequestFollowsFocus, FocusOnTop, Opened

LEMMA DeskStays ==
    ASSUME DeskInv, UNCHANGED deskVars
    PROVE  DeskInv'
  BY DEF DeskInv, deskVars, DeskTypeOK, RequestFollowsFocus, FocusOnTop, Opened

-----------------------------------------------------------------------------
(* A step of the desktop that closes nothing leaves the windows that are   *)
(* open, and with them what the contents hang on.                          *)
LEMMA ContentsStay ==
    ASSUME Inv, DeskInv', UNCHANGED <<taskVars, filesVars>>,
           Opened \subseteq Opened',
           \A w \in Opened : windows'[w] = windows[w]
    PROVE  Inv'
<1>1. UNCHANGED <<taskWin, polling, listed, selected, shownLog, listCalls, logCalls>>
  BY DEF taskVars
<1>2. UNCHANGED <<filesWin, items, chosen, loading, batch>>
  BY DEF filesVars
<1>3. TaskTypeOK'
  BY <1>1 DEF Inv, TaskTypeOK
<1>4. FilesTypeOK'
  BY <1>2 DEF Inv, FilesTypeOK, Ids
<1>5. SelectionListed'
  BY <1>1, <1>2 DEF Inv, SelectionListed, TaskTypeOK, FilesTypeOK
<1>6. Unmounted'
  BY <1>2 DEF Inv, Unmounted
<1> QED
  BY <1>3, <1>4, <1>5, <1>6 DEF Inv, DeskInv

LEMMA DesktopSteps ==
    ASSUME Inv,
           \/ \E k \in Kinds : Open(k)
           \/ EditJob
           \/ EditFile
           \/ \E w \in Ids : OnDesktop(FocusWindow(w))
           \/ OnDesktop(MinimizeWindow)
           \/ OnDesktop(ToggleUnified)
           \/ HostAnswers
    PROVE  Inv'
<1>1. DeskInv
  BY DEF Inv, DeskInv
<1>2. ASSUME NEW k \in Kinds, NEW node \in Hosts \cup {None}, OnDesktop(Push(k, node))
      PROVE  Inv'
  <2>1. DeskInv'
    BY <1>1, <1>2, PushKeeps DEF OnDesktop
  <2>2. windowSeq + 1 \notin Opened
    BY <1>1, FreshId DEF DeskInv
  <2>3. /\ Opened \subseteq Opened'
        /\ \A w \in Opened : windows'[w] = windows[w]
    BY <1>2, <2>2 DEF OnDesktop, Push, Opened
  <2> QED
    BY <1>2, <2>1, <2>3, ContentsStay DEF OnDesktop
<1>3. BoundNode \in Hosts \cup {None}
  BY <1>1 DEF BoundNode, DeskInv, DeskTypeOK
<1>4. CASE \E k \in Kinds : Open(k)
  BY <1>2, <1>3, <1>4 DEF Open, OpenWindow, OnDesktop
<1>5. CASE EditJob
  BY <1>2, <1>3, <1>5, PanelAssumption DEF EditJob, OpenForm
<1>6. CASE EditFile
  BY <1>2, <1>6, PanelAssumption DEF EditFile, OpenChild
<1>7. CASE \E w \in Ids : OnDesktop(FocusWindow(w))
  <2>1. DeskInv' /\ UNCHANGED windows
    BY <1>1, <1>7, FocusKeeps DEF OnDesktop, FocusWindow
  <2> QED
    BY <1>7, <2>1, ContentsStay DEF OnDesktop, Opened
<1>8. CASE OnDesktop(MinimizeWindow) \/ OnDesktop(ToggleUnified) \/ HostAnswers
  <2>1. PICK h \in Hosts :
           OnDesktop(\/ SetCurrentNode(h) \/ RefreshNodes(h)
                     \/ ToggleUnified \/ MinimizeWindow)
    BY <1>1, <1>8 DEF OnDesktop, HostAnswers, DeskInv, DeskTypeOK
  <2>2. DeskInv' /\ UNCHANGED windows
    BY <1>1, <2>1, SwitchKeeps
    DEF OnDesktop, SetCurrentNode, RefreshNodes, ToggleUnified, MinimizeWindow
  <2> QED
    BY <2>1, <2>2, ContentsStay DEF OnDesktop, Opened
<1> QED
  BY <1>4, <1>5, <1>6, <1>7, <1>8

(* Closing a window takes its contents along, and no others.               *)
LEMMA CloseStep ==
    ASSUME Inv, NEW w, Close(w)
    PROVE  Inv'
<1>1. /\ DeskInv'
      /\ Opened' = Opened \ {w}
      /\ \A v \in Opened' : windows'[v] = windows[v]
  BY CloseKeeps DEF Inv, DeskInv, Close
<1>2. \/ taskWin = w /\ UnmountTasks
      \/ taskWin # w /\ UNCHANGED taskVars
  BY DEF Close
<1>3. \/ filesWin = w /\ UnmountFiles
      \/ filesWin # w /\ UNCHANGED filesVars
  BY DEF Close
<1>4. TaskTypeOK'
  BY <1>1, <1>2 DEF Inv, TaskTypeOK, UnmountTasks, taskVars
<1>5. FilesTypeOK'
  BY <1>1, <1>3 DEF Inv, FilesTypeOK, UnmountFiles, filesVars, Ids
<1>6. selected' \in listed' \cup {None}
  BY <1>1, <1>2 DEF Inv, SelectionListed, TaskTypeOK, UnmountTasks, taskVars
<1>7. chosen' \subseteq items'
  BY <1>1, <1>3 DEF Inv, SelectionListed, FilesTypeOK, UnmountFiles, filesVars
<1>8. Unmounted'
  BY <1>3 DEF Inv, Unmounted, UnmountFiles, filesVars
<1> QED
  BY <1>1, <1>4, <1>5, <1>6, <1>7, <1>8 DEF Inv, DeskInv, SelectionListed

-----------------------------------------------------------------------------
(* A step of the task centre: its types and its part of SelectionListed    *)
(* are what is left to show.                                               *)
LEMMA TasksOnly ==
    ASSUME Inv, UNCHANGED <<deskVars, filesVars>>, TaskTypeOK',
           selected' \in listed' \cup {None}
    PROVE  Inv'
<1>1. DeskInv' /\ UNCHANGED windows
  BY DeskStays DEF Inv, DeskInv, deskVars
<1>2. UNCHANGED <<filesWin, items, chosen, loading, batch>>
  BY DEF filesVars
<1>3. FilesTypeOK'
  BY <1>1, <1>2 DEF Inv, FilesTypeOK, Ids, Opened
<1>4. SelectionListed' /\ Unmounted'
  BY <1>1, <1>2 DEF Inv, SelectionListed, Unmounted
<1> QED
  BY <1>1, <1>3, <1>4 DEF Inv, DeskInv

LEMMA TargetIsHost ==
    ASSUME DeskTypeOK
    PROVE  Target \in Hosts
  BY DEF DeskTypeOK, Target

LEMMA TasksSteps ==
    ASSUME Inv,
           \/ TaskSteps
           \/ InTasks(UnmountTasks)
           \/ \E t \in Tasks : InTasks(Select(t))
    PROVE  Inv'
<1>1. /\ TaskTypeOK
      /\ DeskTypeOK
      /\ SelectionListed
      /\ Target \in Hosts
  BY TargetIsHost DEF Inv
<1> DEFINE Kept == TaskTypeOK' /\ selected' \in listed' \cup {None}
<1>2. ASSUME UNCHANGED deskVars
      PROVE  UNCHANGED windows /\ Opened' = Opened
  BY <1>2 DEF deskVars, Opened
<1>3. ASSUME NEW w \in Ids, InTasks(MountTasks(w))
      PROVE  Inv'
  <2>1. Kept
    BY <1>1, <1>2, <1>3 DEF InTasks, MountTasks, TaskTypeOK, SelectionListed
  <2> QED
    BY <1>3, <2>1, TasksOnly DEF InTasks
<1>4. ASSUME InTasks(UnmountTasks)
      PROVE  Inv'
  <2>1. Kept
    BY <1>1, <1>2, <1>4 DEF InTasks, UnmountTasks, TaskTypeOK, SelectionListed
  <2> QED
    BY <1>4, <2>1, TasksOnly DEF InTasks
<1>5. ASSUME NEW h \in Hosts, NEW ts \in SUBSET Tasks,
             InTasks(FirstAnswer(h, ts)) \/ InTasks(ListAnswer(h, ts))
      PROVE  Inv'
  <2>1. /\ listed' = ts
        /\ selected' \in ts \cup {None}
        /\ UNCHANGED <<taskWin, shownLog>>
        /\ listCalls' = listCalls \ {h}
        /\ polling' \in BOOLEAN
        /\ RefreshLog(logCalls, selected')
    BY <1>1, <1>5 DEF InTasks, FirstAnswer, ListAnswer, TaskTypeOK
  <2>2. logCalls' \subseteq Tasks
    BY <1>1, <2>1 DEF RefreshLog, TaskTypeOK
  <2>3. Kept
    BY <1>1, <1>2, <1>5, <2>1, <2>2 DEF InTasks, TaskTypeOK, SelectionListed
  <2> QED
    BY <1>5, <2>3, TasksOnly DEF InTasks
<1>6. ASSUME InTasks(Poll)
      PROVE  Inv'
  <2>1. Kept
    BY <1>1, <1>2, <1>6 DEF InTasks, Poll, TaskTypeOK, SelectionListed
  <2> QED
    BY <1>6, <2>1, TasksOnly DEF InTasks
<1>7. ASSUME NEW h \in Hosts, InTasks(ListFailure(h))
      PROVE  Inv'
  <2>1. Kept
    BY <1>1, <1>2, <1>7 DEF InTasks, ListFailure, RefreshLog, TaskTypeOK, SelectionListed
  <2> QED
    BY <1>7, <2>1, TasksOnly DEF InTasks
<1>8. ASSUME NEW t \in Tasks, InTasks(LogAnswer(t)) \/ InTasks(LogFailure(t))
      PROVE  Inv'
  <2>1. Kept
    BY <1>1, <1>2, <1>8 DEF InTasks, LogAnswer, LogFailure, TaskTypeOK, SelectionListed
  <2> QED
    BY <1>8, <2>1, TasksOnly DEF InTasks
<1>9. ASSUME NEW t \in Tasks, InTasks(Select(t))
       PROVE  Inv'
  <2>1. Kept
    BY <1>1, <1>2, <1>9 DEF InTasks, Select, RefreshLog, TaskTypeOK, SelectionListed
  <2> QED
    BY <1>9, <2>1, TasksOnly DEF InTasks
<1>10. ASSUME InTasks(RemoveAnswer)
       PROVE  Inv'
  <2>1. Kept
    BY <1>1, <1>2, <1>10 DEF InTasks, RemoveAnswer, TaskTypeOK, SelectionListed
  <2> QED
    BY <1>10, <2>1, TasksOnly DEF InTasks
<1> QED
  BY <1>3, <1>4, <1>5, <1>6, <1>7, <1>8, <1>9, <1>10
  DEF TaskSteps, TasksFirst, TasksListed, TasksUnlisted

-----------------------------------------------------------------------------
(* A step of the file window, in the same way.                             *)
LEMMA FilesOnly ==
    ASSUME Inv, UNCHANGED <<deskVars, taskVars>>, FilesTypeOK',
           chosen' \subseteq items',
           Unmounted'
    PROVE  Inv'
<1>1. DeskInv' /\ UNCHANGED windows
  BY DeskStays DEF Inv, DeskInv, deskVars
<1>2. UNCHANGED <<taskWin, polling, listed, selected, shownLog, listCalls, logCalls>>
  BY DEF taskVars
<1>3. TaskTypeOK'
  BY <1>1, <1>2 DEF Inv, TaskTypeOK, Opened
<1>4. SelectionListed'
  BY <1>1, <1>2 DEF Inv, SelectionListed
<1> QED
  BY <1>1, <1>3, <1>4 DEF Inv, DeskInv

LEMMA FilesSteps ==
    ASSUME Inv,
           \/ FileSteps
           \/ InFiles(Navigate)
           \/ \E fs \in SUBSET Files : InFiles(SelectItems(fs))
           \/ InFiles(DeleteKey)
           \/ \E p \in Files : InFiles(MenuDelete(p))
           \/ \E fs \in SUBSET Files : InFiles(DropFiles(fs))
    PROVE  Inv'
<1>1. /\ FilesTypeOK
      /\ SelectionListed
      /\ Unmounted
      /\ Opened \subseteq Ids
      /\ None \notin Opened
  BY FreshId DEF Inv
<1> DEFINE Kept == /\ FilesTypeOK'
                   /\ chosen' \subseteq items'
                   /\ Unmounted'
<1>2. ASSUME UNCHANGED deskVars
      PROVE  UNCHANGED windows /\ Opened' = Opened
  BY <1>2 DEF deskVars, Opened
<1>3. ASSUME NEW w \in Ids, InFiles(MountFiles(w))
      PROVE  Inv'
  <2>1. Kept
    BY <1>1, <1>2, <1>3 DEF InFiles, MountFiles, FilesTypeOK, SelectionListed, Unmounted, Ids
  <2> QED
    BY <1>3, <2>1, FilesOnly DEF InFiles
<1>4. ASSUME NEW fs \in SUBSET Files,
             InFiles(LoadAnswer(fs)) \/ InFiles(SelectItems(fs))
      PROVE  Inv'
  <2>1. CASE InFiles(LoadAnswer(fs))
    <3>1. filesWin # None
      BY <1>1, <2>1 DEF InFiles, LoadAnswer, Unmounted
    <3>2. /\ items' = fs
          /\ chosen' = {}
          /\ loading' = FALSE
          /\ UNCHANGED <<filesWin, batch>>
      BY <2>1 DEF InFiles, LoadAnswer
    <3>3. Kept
      BY <1>1, <1>2, <2>1, <3>1, <3>2
      DEF InFiles, FilesTypeOK, SelectionListed, Unmounted, Ids
    <3> QED
      BY <2>1, <3>3, FilesOnly DEF InFiles
  <2>2. CASE InFiles(SelectItems(fs))
    <3>1. Kept
      BY <1>1, <1>2, <2>2
      DEF InFiles, SelectItems, FilesTypeOK, SelectionListed, Unmounted, Ids
    <3> QED
      BY <2>2, <3>1, FilesOnly DEF InFiles
  <2> QED
    BY <1>4, <2>1, <2>2
<1>5. ASSUME InFiles(LoadFailure) \/ InFiles(Navigate) \/ InFiles(ChangeAnswer)
      PROVE  Inv'
  <2>1. Kept
    BY <1>1, <1>2, <1>5
    DEF InFiles, LoadFailure, Navigate, ChangeAnswer, FilesTypeOK, SelectionListed, Unmounted, Ids
  <2> QED
    BY <1>5, <2>1, FilesOnly DEF InFiles
<1>6. ASSUME NEW ps \in SUBSET Files, InFiles(DeletePaths(ps)), filesWin # None
      PROVE  Inv'
  <2>1. filesWin \in Ids
    BY <1>1, <1>6 DEF FilesTypeOK
  <2>2. batch' \in [of : Ids, paths : SUBSET Files, left : SUBSET Files]
    BY <1>6, <2>1 DEF InFiles, DeletePaths
  <2>3. Kept
    BY <1>1, <1>2, <1>6, <2>2
    DEF InFiles, DeletePaths, FilesTypeOK, SelectionListed, Unmounted, Ids
  <2> QED
    BY <1>6, <2>3, FilesOnly DEF InFiles
<1>7. ASSUME InFiles(DeleteKey)
      PROVE  Inv'
  <2>1. chosen \in SUBSET Files /\ filesWin # None
    BY <1>1, <1>7 DEF InFiles, DeleteKey, FilesTypeOK, Unmounted
  <2> QED
    BY <1>6, <1>7, <2>1 DEF InFiles, DeleteKey
<1>8. ASSUME NEW p \in Files, InFiles(MenuDelete(p))
      PROVE  Inv'
  <2>1. (IF p \in chosen THEN chosen ELSE {p}) \in SUBSET Files
    BY <1>1 DEF FilesTypeOK
  <2>2. /\ InFiles(DeletePaths(IF p \in chosen THEN chosen ELSE {p}))
        /\ filesWin # None
    BY <1>8 DEF InFiles, MenuDelete
  <2> QED
    BY <1>6, <2>1, <2>2
<1>9. ASSUME NEW p \in Files, InFiles(BatchAnswer(p))
      PROVE  Inv'
  <2>1. /\ batch \in [of : Ids, paths : SUBSET Files, left : SUBSET Files]
        /\ UNCHANGED <<filesWin, items>>
    BY <1>1, <1>9 DEF InFiles, BatchAnswer, FilesTypeOK
  <2>2. \/ batch' = None
        \/ batch' \in [of : Ids, paths : SUBSET Files, left : SUBSET Files]
    BY <1>9, <2>1 DEF InFiles, BatchAnswer
  <2>3. /\ chosen' \subseteq chosen
        /\ loading' \in BOOLEAN
        /\ filesWin = None => UNCHANGED <<chosen, loading>>
    <3>1. batch.of # None
      BY <2>1, DesktopAssumption DEF Ids
    <3> QED
      BY <1>1, <1>9, <2>1, <3>1 DEF InFiles, BatchAnswer, FilesTypeOK
  <2>4. Kept
    BY <1>1, <1>2, <1>9, <2>1, <2>2, <2>3
    DEF InFiles, FilesTypeOK, SelectionListed, Unmounted, Ids
  <2> QED
    BY <1>9, <2>4, FilesOnly DEF InFiles
<1>10. ASSUME NEW fs \in SUBSET Files, InFiles(DropFiles(fs))
       PROVE  Inv'
  <2>1. filesWin \in Ids
    BY <1>1, <1>10 DEF InFiles, DropFiles, FilesTypeOK
  <2>2. batch' \in [of : Ids, paths : SUBSET Files, left : SUBSET Files]
    BY <1>10, <2>1 DEF InFiles, DropFiles
  <2>3. Kept
    BY <1>1, <1>2, <1>10, <2>2
    DEF InFiles, DropFiles, FilesTypeOK, SelectionListed, Unmounted, Ids
  <2> QED
    BY <1>10, <2>3, FilesOnly DEF InFiles
<1> QED
  BY <1>3, <1>4, <1>5, <1>7, <1>8, <1>9, <1>10 DEF FileSteps

-----------------------------------------------------------------------------
LEMMA InitInv ==
    ASSUME Init
    PROVE  Inv
<1>1. /\ Opened = {}
      /\ windows \in [Opened -> [key : Kinds, nodeId : Hosts \cup {None}]]
  BY DEF Init, DeskInit, Opened
<1>2. minimized \in BOOLEAN /\ unified \in BOOLEAN
  BY Zenon DEF Init, DeskInit
<1>3. DeskTypeOK
  BY <1>1, <1>2, DesktopAssumption DEF Init, DeskInit, DeskTypeOK
<1> QED
  BY <1>1, <1>3 DEF Init, DeskInit, TaskInit, FilesInit, Inv, TaskTypeOK, FilesTypeOK,
                    RequestFollowsFocus, FocusOnTop, SelectionListed, Unmounted

LEMMA NextInv ==
    ASSUME Inv, [Next]_vars
    PROVE  Inv'
<1>1. CASE Next
  <2>1. ASSUME NEW w \in Ids, Close(w)
        PROVE  Inv'
    BY <2>1, CloseStep
  <2> QED
    BY <1>1, <2>1, DesktopSteps, TasksSteps, FilesSteps DEF Next, UserActs
<1>2. CASE UNCHANGED vars
  <2>1. /\ UNCHANGED <<deskVars, filesVars>>
        /\ UNCHANGED <<taskWin, polling, listed, selected, shownLog, listCalls, logCalls>>
        /\ UNCHANGED windows
    BY <1>2 DEF vars, taskVars, deskVars
  <2>2. TaskTypeOK'
    BY <2>1 DEF Inv, TaskTypeOK, Opened
  <2> QED
    BY <2>1, <2>2, TasksOnly DEF Inv, SelectionListed
<1> QED
  BY <1>1, <1>2

(* The inductive invariant holds in every reachable state.                 *)
THEOREM InvHolds == Spec => []Inv
<1>1. Init => Inv
  BY InitInv
<1>2. Inv /\ [Next]_vars => Inv'
  BY NextInv
<1> QED
  BY <1>1, <1>2, PTL DEF Spec

(* Types, for every number of windows, hosts, tasks and files.             *)
THEOREM TypeCorrect == Spec => []TypeOK
<1>1. Inv => TypeOK
  BY DEF Inv, TypeOK
<1> QED
  BY <1>1, InvHolds, PTL

(* No request is sent to the host of a window that is closed or behind.    *)
THEOREM RequestsFollowFocus == Spec => []RequestFollowsFocus
<1>1. Inv => RequestFollowsFocus
  BY DEF Inv
<1> QED
  BY <1>1, InvHolds, PTL

(* No window is over the one that has the focus, minimised or not.         *)
THEOREM FocusIsOnTop == Spec => []FocusOnTop
<1>1. Inv => FocusOnTop
  BY DEF Inv
<1> QED
  BY <1>1, InvHolds, PTL

(* What is selected is on the screen: the task whose log is shown, and the *)
(* files the Delete key acts on.                                           *)
THEOREM SelectionIsListed == Spec => []SelectionListed
<1>1. Inv => SelectionListed
  BY DEF Inv
<1> QED
  BY <1>1, InvHolds, PTL

-----------------------------------------------------------------------------
(* The body of FocusRoutes.                                                *)
Routes ==
    /\ active' # active => Routed' /\ ~minimized'
    /\ Routed /\ ~Routed' =>
         \/ unified' # unified
         \/ request' = None /\ UNCHANGED <<windows, active>>

LEMMA PushRoutes ==
    ASSUME DeskInv, NEW k, NEW node, Push(k, node)
    PROVE  Routes
<1>1. windowSeq + 1 # None
  BY FreshId, DesktopAssumption DEF DeskInv
<1>2. /\ active' = windowSeq + 1
      /\ minimized' = FALSE
      /\ windowSeq + 1 \in DOMAIN windows'
      /\ unified' = unified
      /\ ApplyActiveRequestNode(windows', windowSeq + 1)
  BY Zenon DEF Push
<1> QED
  BY <1>1, <1>2 DEF Routes, Routed, ApplyActiveRequestNode

LEMMA FocusWindowRoutes ==
    ASSUME DeskInv, NEW id, FocusWindow(id)
    PROVE  Routes
<1>1. id # None
  BY FreshId DEF DeskInv, FocusWindow
<1> QED
  BY <1>1 DEF FocusWindow, Routes, Routed, ApplyActiveRequestNode, Opened

LEMMA CloseRoutes ==
    ASSUME DeskInv, NEW id, CloseWindow(id)
    PROVE  Routes
<1>1. /\ Opened' = Opened \ {id}
      /\ \A w \in Opened' : windows'[w] = windows[w]
  BY CloseKeeps
<1>2. None \notin Opened /\ active \in Opened \cup {None}
  BY FreshId DEF DeskInv, DeskTypeOK
<1>3. CASE active = id
  BY <1>1, <1>2, <1>3 DEF CloseWindow, Routes, Routed, ApplyActiveRequestNode
<1>4. CASE active # id
  BY <1>1, <1>2, <1>4 DEF CloseWindow, Routes, Routed
<1> QED
  BY <1>3, <1>4

LEMMA StepRoutes ==
    ASSUME Inv, [Next]_vars
    PROVE  Routes \/ UNCHANGED deskVars
<1>1. DeskInv
  BY DEF Inv, DeskInv
<1>2. CASE \/ \E k \in Kinds : Open(k)
           \/ EditJob
           \/ EditFile
  BY <1>1, <1>2, PushRoutes DEF Open, OpenWindow, EditJob, EditFile, OpenForm, OpenChild, OnDesktop
<1>3. CASE \E w \in Ids : OnDesktop(FocusWindow(w))
  BY <1>1, <1>3, FocusWindowRoutes DEF OnDesktop
<1>4. CASE \E w \in Ids : Close(w)
  BY <1>1, <1>4, CloseRoutes DEF Close
<1>5. CASE OnDesktop(MinimizeWindow)
  BY <1>5 DEF OnDesktop, MinimizeWindow, Routes, Routed
<1>6. CASE OnDesktop(ToggleUnified)
  <2>1. unified' # unified /\ active' = active
    BY <1>1, <1>6 DEF OnDesktop, ToggleUnified, DeskInv, DeskTypeOK
  <2> QED
    BY <2>1 DEF Routes
<1>7. CASE HostAnswers
  BY <1>7 DEF HostAnswers, OnDesktop, SetCurrentNode, RefreshNodes, Routes, Routed
<1>8. CASE \/ TaskSteps
           \/ InTasks(UnmountTasks)
           \/ \E t \in Tasks : InTasks(Select(t))
  BY <1>8 DEF TaskSteps, InTasks, TasksFirst, TasksListed, TasksUnlisted
<1>9. CASE \/ FileSteps
           \/ InFiles(Navigate)
           \/ \E fs \in SUBSET Files : InFiles(SelectItems(fs))
           \/ InFiles(DeleteKey)
           \/ \E p \in Files : InFiles(MenuDelete(p))
           \/ \E fs \in SUBSET Files : InFiles(DropFiles(fs))
  BY <1>9 DEF FileSteps, InFiles
<1>10. CASE UNCHANGED vars
  BY <1>10 DEF vars
<1> QED
  BY <1>2, <1>3, <1>4, <1>5, <1>6, <1>7, <1>8, <1>9, <1>10 DEF Next, UserActs

(* Every change of focus routes the requests to the window that has it,    *)
(* which is drawn then, and only the mode and the current host take them   *)
(* away from it.                                                           *)
THEOREM FocusIsRouted == Spec => FocusRoutes
<1>1. Inv /\ [Next]_vars => [Routes]_deskVars
  BY StepRoutes
<1>2. [][Routes]_deskVars => FocusRoutes
  <2>1. [Routes]_deskVars =>
          [ /\ active' # active => Routed' /\ ~minimized'
            /\ Routed /\ ~Routed' =>
                 \/ unified' # unified
                 \/ request' = None /\ UNCHANGED <<windows, active>> ]_deskVars
    BY DEF Routes
  <2> QED
    BY <2>1, PTL DEF FocusRoutes
<1> QED
  BY <1>1, <1>2, InvHolds, PTL DEF Spec
=============================================================================
