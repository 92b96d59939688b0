---------------------------- MODULE FilesWindow ----------------------------
(***************************************************************************)
(* A file window (FilesWindow.vue): a listing, a selection in it, and the  *)
(* loops that delete the selected files or upload dropped ones, one call   *)
(* after the other with the window alive all the while: the user may       *)
(* select, navigate, use the keyboard and close it, and the loop goes on.  *)
(* One loop runs at a time (a bound).                                      *)
(*                                                                         *)
(* An answer may list anything: other programs work on the same disk and   *)
(* the user navigates.  Listing calls in flight are one, for that reason.  *)
(***************************************************************************)
EXTENDS Desktop, FiniteSets

CONSTANT Files    \* paths

VARIABLES
    filesWin,     \* the window whose file manager is mounted, or None
    items,        \* items: the listing
    chosen,       \* selected: the paths selected in it
    loading,      \* a load() is in flight
    batch         \* the running loop: its window, the paths it takes out of
                  \* the selection, the calls left; or None

filesVars == <<filesWin, items, chosen, loading, batch>>

FilesInit ==
    /\ filesWin = None
    /\ items = {}
    /\ chosen = {}
    /\ loading = FALSE
    /\ batch = None

-----------------------------------------------------------------------------
MountFiles(w) ==
    /\ filesWin = None
    /\ w \in Opened
    /\ windows[w].key = "files"
    /\ filesWin' = w
    /\ loading' = TRUE
    /\ UNCHANGED <<items, chosen, batch>>

(* The window is closed.  A first load still in flight then registers the  *)
(* keyboard for a window that is gone: left out, like all it hears.        *)
UnmountFiles ==
    /\ filesWin # None
    /\ filesWin' = None
    /\ items' = {}
    /\ chosen' = {}
    /\ loading' = FALSE
    /\ UNCHANGED batch

(* refresh, go, goUp, a directory opened: load().                          *)
Navigate ==
    /\ filesWin # None
    /\ loading' = TRUE
    /\ UNCHANGED <<filesWin, items, chosen, batch>>

\* Mutant: the selection outlives the listing it was made in.
LoadAnswerKeepsSelection(fs) ==
    /\ loading
    /\ loading' = FALSE
    /\ items' = fs
    /\ UNCHANGED <<filesWin, chosen, batch>>

(* rename, chmod, a new file or folder, an upload was answered: refresh(). *)
ChangeAnswer == Navigate

(* The listing comes with its path, and the selection made meanwhile goes. *)
(* (A menu that is open stays open, for the item it was opened on.)        *)
LoadAnswer(fs) ==
    /\ loading
    /\ loading' = FALSE
    /\ items' = fs
    /\ chosen' = {}
    /\ UNCHANGED <<filesWin, batch>>

LoadFailure ==
    /\ loading
    /\ loading' = FALSE
    /\ UNCHANGED <<filesWin, items, chosen, batch>>

(* A click, Ctrl-click, Shift-click, Ctrl-A, or a click on the blank; a    *)
(* right click selects its item, unless it is one of the selected.         *)
SelectItems(fs) ==
    /\ fs \subseteq items
    /\ chosen' = fs
    /\ UNCHANGED <<filesWin, items, loading, batch>>

DeletePaths(ps) ==
    /\ batch = None
    /\ batch' = [of |-> filesWin, paths |-> ps, left |-> ps]
    /\ UNCHANGED <<filesWin, items, chosen, loading>>

(* The Delete key, heard wherever the focus is; confirmed.                 *)
DeleteKey == chosen # {} /\ DeletePaths(chosen)

(* The menu of item p: the selection if p is in it, else p alone.  p need  *)
(* not be listed any more: any file may have been when the menu opened.    *)
MenuDelete(p) ==
    /\ filesWin # None
    /\ DeletePaths(IF p \in chosen THEN chosen ELSE {p})

(* onDrop: one upload for each of the dropped files.                       *)
DropFiles(fs) ==
    /\ filesWin # None
    /\ fs # {}
    /\ batch = None
    /\ batch' = [of |-> filesWin, paths |-> {}, left |-> fs]
    /\ UNCHANGED <<filesWin, items, chosen, loading>>

\* Mutant: the loop stops with the window that started it.
BatchAnswerWhileOpen(p) ==
    /\ batch # None
    /\ p \in batch.left
    /\ batch.of = filesWin
    /\ batch' = IF batch.left = {p} THEN None ELSE [batch EXCEPT !.left = @ \ {p}]
    /\ chosen' = IF batch.left = {p} THEN chosen \ batch.paths ELSE chosen
    /\ loading' = (loading \/ batch.left = {p})
    /\ UNCHANGED <<filesWin, items>>

(* The call for file p is answered, well or not: the loop goes on, and     *)
(* after the last one the selection loses the paths and load() is called.  *)
BatchAnswer(p) ==
    /\ batch # None
    /\ p \in batch.left
    /\ IF batch.left = {p}
       THEN /\ batch' = None
            /\ IF batch.of = filesWin
               THEN chosen' = chosen \ batch.paths /\ loading' = TRUE
               ELSE UNCHANGED <<chosen, loading>>
       ELSE /\ batch' = [batch EXCEPT !.left = @ \ {p}]
            /\ UNCHANGED <<chosen, loading>>
    /\ UNCHANGED <<filesWin, items>>

-----------------------------------------------------------------------------
FilesTypeOK ==
    /\ filesWin \in Opened \cup {None}
    /\ items \subseteq Files
    /\ chosen \subseteq Files
    /\ loading \in BOOLEAN
    /\ batch = None \/
         batch \in [of : Ids, paths : SUBSET Files, left : SUBSET Files]
=============================================================================
