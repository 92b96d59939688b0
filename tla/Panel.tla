------------------------------- MODULE Panel -------------------------------
(***************************************************************************)
(* The desktop with a task centre and a file window in it.  What the       *)
(* windows ask for depends on what the user does to the desktop, and       *)
(* closing a window unmounts what it holds.  That is so on the desktop,    *)
(* where every open window is mounted, minimised or not; in the panel      *)
(* layout (PanelLayout.vue) KeepAlive keeps the contents of closed tabs,   *)
(* which is not modelled.                                                  *)
(*                                                                         *)
(* At most one window of each of the two keys is open at a time (a bound). *)
(* The other windows are the forms and editors opened from them.           *)
(***************************************************************************)
EXTENDS TaskCenter, FilesWindow

ASSUME PanelAssumption == {"form", "editor"} \subseteq Kinds

vars == <<deskVars, taskVars, filesVars>>

Init == DeskInit /\ TaskInit /\ FilesInit

OnDesktop(A) == A /\ UNCHANGED <<taskVars, filesVars>>
InTasks(A) == A /\ UNCHANGED <<deskVars, filesVars>>
InFiles(A) == A /\ UNCHANGED <<deskVars, taskVars>>

Open(k) ==
    /\ \A w \in Opened : windows[w].key # k
    /\ OnDesktop(OpenWindow(k))

(* openCronTaskForm: a scheduled job is added or edited in a form.         *)
EditJob ==
    /\ \E w \in Opened : windows[w].key = "tasks"
    /\ OnDesktop(OpenForm("form"))

(* openEditor: the file was read, an editor opens on it.                   *)
EditFile ==
    /\ filesWin # None
    /\ items # {}
    /\ OnDesktop(OpenChild("editor"))

Close(w) ==
    /\ CloseWindow(w)
    /\ IF taskWin = w THEN UnmountTasks ELSE UNCHANGED taskVars
    /\ IF filesWin = w THEN UnmountFiles ELSE UNCHANGED filesVars

UserActs ==
    \/ \E k \in Kinds : Open(k)
    \/ EditJob
    \/ EditFile
    \/ \E w \in Ids : OnDesktop(FocusWindow(w))
    \/ OnDesktop(MinimizeWindow)
    \/ \E w \in Ids : Close(w)
    \/ OnDesktop(ToggleUnified)
    \/ InTasks(UnmountTasks)
    \/ \E t \in Tasks : InTasks(Select(t))
    \/ InFiles(Navigate)
    \/ \E fs \in SUBSET Files : InFiles(SelectItems(fs))
    \/ InFiles(DeleteKey)
    \/ \E p \in Files : InFiles(MenuDelete(p))
    \/ \E fs \in SUBSET Files : InFiles(DropFiles(fs))

(* Answers of the back end to calls that leave no other trace here.        *)
HostAnswers ==
    \E h \in Hosts : OnDesktop(SetCurrentNode(h)) \/ OnDesktop(RefreshNodes(h))

TasksFirst(h) == \E ts \in SUBSET Tasks : InTasks(FirstAnswer(h, ts))
TasksListed(h) == \E ts \in SUBSET Tasks : InTasks(ListAnswer(h, ts))
TasksUnlisted(h) == InTasks(ListFailure(h))
TaskSteps ==
    \/ \E w \in Ids : InTasks(MountTasks(w))
    \/ InTasks(Poll)
    \/ \E h \in Hosts : TasksFirst(h) \/ TasksListed(h) \/ TasksUnlisted(h)
    \/ \E t \in Tasks : InTasks(LogAnswer(t)) \/ InTasks(LogFailure(t))
    \/ InTasks(RemoveAnswer)

FileSteps ==
    \/ \E w \in Ids : InFiles(MountFiles(w))
    \/ \E fs \in SUBSET Files : InFiles(LoadAnswer(fs))
    \/ InFiles(LoadFailure)
    \/ InFiles(ChangeAnswer)
    \/ \E p \in Files : InFiles(BatchAnswer(p))

Next == UserActs \/ HostAnswers \/ TaskSteps \/ FileSteps

(* The interval ticks; every call is answered or runs into its time limit  *)
(* (60 s; 120 s and more for files); the calls to a host do not fail for   *)
(* ever.  Nothing is assumed of the user.                                  *)
Fairness ==
    /\ WF_vars(InTasks(Poll))
    /\ \A h \in Hosts :
         /\ WF_vars(TasksFirst(h))
         /\ WF_vars(TasksListed(h) \/ TasksUnlisted(h))
         /\ SF_vars(TasksListed(h))
    /\ \A t \in Tasks :
         /\ WF_vars(InTasks(LogAnswer(t)) \/ InTasks(LogFailure(t)))
         /\ SF_vars(InTasks(LogAnswer(t)))
    /\ WF_vars(\E p \in Files : InFiles(BatchAnswer(p)))

Spec == Init /\ [][Next]_vars /\ Fairness

-----------------------------------------------------------------------------
TypeOK == DeskTypeOK /\ TaskTypeOK /\ FilesTypeOK

(* What is selected is on the screen: the selected task is in the list, so *)
(* the log shown is that of a task one can see, and the selected files are *)
(* in the listing, so the Delete key deletes nothing else, whatever        *)
(* answers come after whatever clicks.  (The menu may: it keeps the item   *)
(* it was opened on, which a listing that came since need not have.  So    *)
(* does the dialog that removes a task.)                                   *)
SelectionListed ==
    /\ selected \in listed \cup {None}
    /\ chosen \subseteq items

(* If requests go to one host from some time on, the task centre, left     *)
(* open, ends up showing that host's tasks and no others, with calls to    *)
(* the former hosts still to be answered.                                  *)
ListCatchesUp ==
    \A h \in Hosts :
        <>[](polling /\ Target = h) => <>[](listed \subseteq TasksOf(h))

(* A task that stays selected, with the requests going to its host, ends   *)
(* up with its own log in the pane, however often the card is clicked: a   *)
(* late answer for a task selected before is overwritten for good.         *)
LogCatchesUp ==
    \A t \in Tasks :
        <>[](selected = t /\ Target = HostOf[t]) =>
            /\ <>[](shownLog \in {t, None})
            /\ []<>(shownLog = t)

(* A deletion the user confirmed and an upload of several files come to    *)
(* their end, also when calls fail, the listing changes under the loop or  *)
(* its window is closed.                                                   *)
BatchEnds == batch # None ~> batch = None
=============================================================================
