----------------------------- MODULE TaskCenter -----------------------------
(***************************************************************************)
(* The task centre (TaskCenterWindow.vue) inside a window of the desktop:  *)
(* the list of the installation tasks, one of them selected, and its log,  *)
(* polled every two seconds.  An interval does not wait for the former     *)
(* poll, so calls overlap and are answered in any order.  Every call goes  *)
(* to the Target at the time it is sent.                                   *)
(*                                                                         *)
(* A call is told apart by what its answer changes: a list call by its     *)
(* host, a log call by its task; equal ones in flight are one element, and *)
(* a log call to a host without the task fails and changes nothing, so it  *)
(* is not kept.  What a task centre still does after it was unmounted      *)
(* reaches nothing modelled here.                                          *)
(***************************************************************************)
EXTENDS Desktop

CONSTANTS
    Tasks,        \* ids of the installation tasks
    HostOf        \* the host each task runs on

ASSUME TasksAssumption ==
    /\ HostOf \in [Tasks -> Hosts]
    /\ None \notin Tasks

VARIABLES
    taskWin,      \* the window whose task centre is mounted, or None
    polling,      \* the interval is set
    listed,       \* tasks
    selected,     \* selected, or None
    shownLog,     \* the task whose lines logLines holds, or None
    listCalls,    \* list calls in flight, by host
    logCalls      \* log calls in flight, by task

taskVars == <<taskWin, polling, listed, selected, shownLog, listCalls, logCalls>>

TasksOf(h) == {t \in Tasks : HostOf[t] = h}

TaskInit ==
    /\ taskWin = None
    /\ polling = FALSE
    /\ listed = {}
    /\ selected = None
    /\ shownLog = None
    /\ listCalls = {}
    /\ logCalls = {}

-----------------------------------------------------------------------------
\* Mutant: the log is asked for only while the pane is empty.
RefreshLogIfEmpty(calls, t) ==
    logCalls' = calls \cup
        (IF t # None /\ HostOf[t] = Target /\ shownLog = None THEN {t} ELSE {})

(* refreshLog: asks for the log of the selected task, if there is one.     *)
RefreshLog(calls, t) ==
    logCalls' = calls \cup (IF t # None /\ HostOf[t] = Target THEN {t} ELSE {})

(* onMounted: the first refreshAll; the interval is set after its answer.  *)
MountTasks(w) ==
    /\ taskWin = None
    /\ w \in Opened
    /\ windows[w].key = "tasks"
    /\ taskWin' = w
    /\ listCalls' = {Target}
    /\ UNCHANGED <<polling, listed, selected, shownLog, logCalls>>

(* The other tab of the window, or the window closed: the component and    *)
(* its interval go, its refs with it.                                      *)
UnmountTasks ==
    /\ taskWin # None
    /\ taskWin' = None
    /\ polling' = FALSE
    /\ listed' = {}
    /\ selected' = None
    /\ shownLog' = None
    /\ listCalls' = {}
    /\ logCalls' = {}

(* The first refreshAll is answered (a failure leaves the list empty): a   *)
(* task is selected for the user and the interval is set.                  *)
FirstAnswer(h, ts) ==
    /\ taskWin # None
    /\ ~polling
    /\ h \in listCalls
    /\ ts \subseteq TasksOf(h)
    /\ polling' = TRUE
    /\ listed' = ts
    /\ listCalls' = listCalls \ {h}
    /\ selected' \in (IF ts = {} THEN {None} ELSE ts)
    /\ RefreshLog(logCalls, selected')
    /\ UNCHANGED <<taskWin, shownLog>>

\* Mutant: no polling in the background.
PollInForeground ==
    /\ polling
    /\ active = taskWin
    /\ listCalls' = listCalls \cup {Target}
    /\ UNCHANGED <<taskWin, polling, listed, selected, shownLog, logCalls>>

(* A tick of the interval, or the button.                                  *)
Poll ==
    /\ polling
    /\ listCalls' = listCalls \cup {Target}
    /\ UNCHANGED <<taskWin, polling, listed, selected, shownLog, logCalls>>

(* refreshList: the selection follows the task in the list, or ends.  The  *)
(* log is asked for next, at the host requests go to now.                  *)
ListAnswer(h, ts) ==
    /\ polling
    /\ h \in listCalls
    /\ ts \subseteq TasksOf(h)
    /\ listed' = ts
    /\ listCalls' = listCalls \ {h}
    /\ selected' = IF selected \in ts THEN selected ELSE None
    /\ RefreshLog(logCalls, selected')
    /\ UNCHANGED <<taskWin, polling, shownLog>>

(* A failed list call is ignored and the log is asked for all the same.    *)
ListFailure(h) ==
    /\ polling
    /\ h \in listCalls
    /\ listCalls' = listCalls \ {h}
    /\ RefreshLog(logCalls, selected)
    /\ UNCHANGED <<taskWin, polling, listed, selected, shownLog>>

(* The lines are shown whatever is selected by now.                        *)
LogAnswer(t) ==
    /\ t \in logCalls
    /\ logCalls' = logCalls \ {t}
    /\ shownLog' = t
    /\ UNCHANGED <<taskWin, polling, listed, selected, listCalls>>

LogFailure(t) ==
    /\ t \in logCalls
    /\ logCalls' = logCalls \ {t}
    /\ UNCHANGED <<taskWin, polling, listed, selected, shownLog, listCalls>>

(* A click on a card: the old lines go, the log of the task is asked for.  *)
Select(t) ==
    /\ t \in listed
    /\ selected' = t
    /\ shownLog' = None
    /\ RefreshLog(logCalls, t)
    /\ UNCHANGED <<taskWin, polling, listed, listCalls>>

(* doConfirm: the removal of a task is answered, whichever was selected    *)
(* when its dialog was opened: nothing is selected any more, and the list  *)
(* is asked for.  (The dialog itself and a removal that fails change       *)
(* nothing here.)                                                          *)
RemoveAnswer ==
    /\ polling
    /\ selected' = None
    /\ listCalls' = listCalls \cup {Target}
    /\ UNCHANGED <<taskWin, polling, listed, shownLog, logCalls>>

-----------------------------------------------------------------------------
TaskTypeOK ==
    /\ taskWin \in Opened \cup {None}
    /\ polling \in BOOLEAN
    /\ listed \subseteq Tasks
    /\ selected \in Tasks \cup {None}
    /\ shownLog \in Tasks \cup {None}
    /\ listCalls \subseteq Hosts
    /\ logCalls \subseteq Tasks
=============================================================================
