-------------------------- MODULE FileCollectionSync --------------------------
(***************************************************************************)
(* The renderer's side of a collection that lives in a directory:          *)
(* src/store/useFileCollectionStore.ts, with the dialog that resolves a    *)
(* conflict (features/collections/components/ConflictDialog.tsx).          *)
(*                                                                         *)
(* A collection has two parts, its items and its workflows, each of which  *)
(* stands for one file; a content is a number: 0 is what was opened, user  *)
(* edits and external edits have fresh ones.  A load reads the items, has  *)
(* the watcher replaced and reads the workflows, a save writes one part    *)
(* after the other, each across an await of the main process, whose own    *)
(* writes of items are silent unless the save fails (CollectionSave) and   *)
(* whose writes of workflows are reported like anybody's                   *)
(* (electron/main/handlers/ows-workspace-handler.ts).                      *)
(***************************************************************************)
EXTENDS Naturals

CONSTANTS MaxTasks,     \* bound: how many loads and saves are begun
          MaxUserEdits, \* bound: how many edits in the application
          MaxDiskEdits, \* bound: how many edits of other programs
          MaxFailures   \* bound: how many loads and saves fail

ASSUME SyncAssumption == MaxTasks \in Nat /\ MaxUserEdits \in Nat

Part == {"items", "workflows"}
Task == 1 .. MaxTasks

VARIABLES
    local,     \* the parts as the stores of the renderer have them
    onDisk,    \* the parts as the directory has them
    syncState, \* syncState of the FileCollectionInfo
    conflict,  \* whether conflicts has an entry for the collection
    unemitted, \* the parts of which the watcher has still to emit an event
    unlooked,  \* the parts that a new watcher has still to look at
    reports,   \* the parts of which a file-changed event is on its way
    begun,     \* how many tasks were begun
    why,       \* who began each: the watcher, the user, the conflict dialog
    at,        \* where it is
    holds,     \* the contents it has read or will write
    reloading, \* externalReloads: a reload of the watcher runs
    again,     \* pendingExternalReloads
    userEdits, diskEdits, failures,
    unsaved,   \* observation: the parts with edits that no save has written
    lost,      \* observation: the parts with an edit that nothing reports
    crossed    \* observation: an operation of the user met another operation
               \* or was cut short, or a conflict was closed unresolved

taskVars == <<begun, why, at, holds>>
watcherVars == <<unemitted, unlooked, lost>>
syncVars == <<local, onDisk, syncState, conflict, watcherVars, reports, taskVars, reloading,
              again, userEdits, diskEdits, failures, unsaved, crossed>>

SyncInit ==
    /\ local = [p \in Part |-> 0] /\ onDisk = local
    /\ syncState = "synced" /\ conflict = FALSE
    /\ unemitted = {} /\ unlooked = {} /\ reports = {}
    /\ begun = 0
    /\ why = [t \in Task |-> "nobody"]
    /\ at = [t \in Task |-> "idle"]
    /\ holds = [t \in Task |-> local]
    /\ reloading = FALSE /\ again = FALSE
    /\ userEdits = 0 /\ diskEdits = 0 /\ failures = 0
    /\ unsaved = {} /\ lost = {} /\ crossed = FALSE

Loads == {"reading", "read", "watching", "reading workflows", "workflows read"}
Saves == {"writing", "written", "writing workflows"}
Underway == {t \in Task : at[t] \in Loads \cup Saves}
ByUser == {t \in Underway : why[t] # "watcher"}
SaveUnderway == \E t \in Underway : at[t] \in Saves

Crossing(condition) == crossed' = (crossed \/ condition)

-------------------------------------------------------------------------------
(* A task goes through the awaits of loadCollectionFromDirectory or of     *)
(* syncFileCollection.                                                     *)

Enter(t, who, first) ==
    /\ t = begun + 1
    /\ begun' = t
    /\ why' = [why EXCEPT ![t] = who]
    /\ at' = [at EXCEPT ![t] = first]
    /\ holds' = [holds EXCEPT ![t] = local]

Move(t, next) == at' = [at EXCEPT ![t] = next]

Hold(t, p, content) == holds' = [holds EXCEPT ![t][p] = content]

(* The follow-up reload that is never started.                             *)
LeaveForgetting(t) ==
    /\ IF why[t] = "watcher" THEN reloading' = FALSE /\ again' = FALSE
                             ELSE UNCHANGED <<reloading, again>>
    /\ Move(t, "over")

(* The watcher starts over if something was reported meanwhile.            *)
Leave(t) ==
    IF why[t] = "watcher"
    THEN /\ reloading' = again
         /\ again' = FALSE
         /\ Move(t, IF again THEN "reading" ELSE "over")
    ELSE Move(t, "over") /\ UNCHANGED <<reloading, again>>

(* The dialog forgets its conflict whatever it is answered.                *)
Finish(t) ==
    /\ Leave(t)
    /\ conflict' = (conflict /\ why[t] # "dialog")
    /\ UNCHANGED <<begun, why>>

bounded == <<userEdits, diskEdits, failures>>
otherwise == <<begun, why, reloading, again, conflict, bounded, crossed>>

(* The main process answers with a failure, or the call itself rejects,    *)
(* which the dialog does not catch.                                        *)
GiveUp(t, answered) ==
    /\ failures < MaxFailures
    /\ failures' = failures + 1
    /\ IF answered THEN Finish(t) ELSE Leave(t) /\ UNCHANGED <<conflict, begun, why>>
    /\ UNCHANGED <<holds, userEdits, diskEdits, unsaved>>

ReadItems(t) ==
    /\ at[t] = "reading"
    /\ Move(t, "read")
    /\ Hold(t, "items", onDisk["items"])
    /\ lost' = lost \ {"items"}
    /\ UNCHANGED <<local, onDisk, syncState, unemitted, unlooked, reports, unsaved, otherwise>>

(* A failure is recorded by the reload of the watcher only.                *)
LoadFails(t) ==
    /\ at[t] = "reading"
    /\ \E answered \in BOOLEAN :
         GiveUp(t, answered) /\ Crossing(answered /\ why[t] = "dialog")
    /\ syncState' = IF why[t] = "watcher" THEN "error" ELSE syncState
    /\ UNCHANGED <<local, onDisk, watcherVars, reports>>

(* updateCollection and registerFileCollection: whatever was there.        *)
ApplyItems(t) ==
    /\ at[t] = "read"
    /\ Move(t, "watching")
    /\ local' = [local EXCEPT !["items"] = holds[t]["items"]]
    /\ syncState' = "synced"
    /\ unsaved' = unsaved \ {"items"}
    /\ UNCHANGED <<onDisk, watcherVars, reports, holds, otherwise>>

(* startWatching: the running watcher is closed and emits nothing more, a  *)
(* new one has to look at everything; or the watch is refused.             *)
Watch(t) ==
    /\ at[t] = "watching"
    /\ Move(t, "reading workflows")
    /\ unlooked' \in {unlooked, Part}
    /\ UNCHANGED <<local, onDisk, syncState, unemitted, lost, reports, holds, unsaved,
                   otherwise>>

(* Its call rejects, and so does the load: its workflows are not read.     *)
WatchFails(t) ==
    /\ at[t] = "watching"
    /\ GiveUp(t, FALSE)
    /\ Crossing(why[t] # "watcher")
    /\ syncState' = IF why[t] = "watcher" THEN "error" ELSE syncState
    /\ UNCHANGED <<local, onDisk, watcherVars, reports>>

ReadWorkflows(t) ==
    /\ at[t] = "reading workflows"
    /\ Move(t, "workflows read")
    /\ Hold(t, "workflows", onDisk["workflows"])
    /\ lost' = lost \ {"workflows"}
    /\ UNCHANGED <<local, onDisk, syncState, unemitted, unlooked, reports, unsaved, otherwise>>

(* A workflow cannot be read, or the call for it rejects.                  *)
WorkflowsFail(t) ==
    /\ at[t] = "reading workflows"
    /\ GiveUp(t, TRUE)
    /\ syncState' = "error"
    /\ UNCHANGED <<local, onDisk, watcherVars, reports, crossed>>

(* The stores' own changes are not taken for the user's.                   *)
ApplyWorkflows(t) ==
    /\ at[t] = "workflows read"
    /\ Finish(t)
    /\ local' = [local EXCEPT !["workflows"] = holds[t]["workflows"]]
    /\ unsaved' = unsaved \ {"workflows"}
    /\ UNCHANGED <<onDisk, syncState, watcherVars, reports, holds, bounded, crossed>>

(* The save has not written anything when it fails, or has written all and *)
(* failed after that; its own events are then reported.  A call that       *)
(* rejects leaves the state loading.                                       *)
WriteItems(t) ==
    /\ at[t] = "writing"
    /\ Move(t, "written")
    /\ onDisk' = [onDisk EXCEPT !["items"] = holds[t]["items"]]
    /\ lost' = lost \ {"items"}
    /\ UNCHANGED <<local, syncState, unemitted, unlooked, reports, holds, unsaved, otherwise>>

SaveFails(t) ==
    /\ at[t] \in {"writing", "written"}
    /\ \E answered \in BOOLEAN :
         /\ GiveUp(t, answered)
         /\ syncState' = IF answered THEN "error" ELSE syncState
    /\ unemitted' = IF at[t] = "written" THEN unemitted \cup {"items"} ELSE unemitted
    /\ UNCHANGED <<local, onDisk, unlooked, lost, reports, crossed>>

Clean(t, p) == IF holds[t][p] = local[p] THEN unsaved \ {p} ELSE unsaved

(* markAsSynced; the workflows that will be written are those of now.      *)
ItemsSaved(t) ==
    /\ at[t] = "written"
    /\ Move(t, "writing workflows")
    /\ syncState' = "synced"
    /\ unsaved' = Clean(t, "items")
    /\ Hold(t, "workflows", local["workflows"])
    /\ UNCHANGED <<local, onDisk, watcherVars, reports, otherwise>>

PutWorkflows(t) ==
    /\ onDisk' = [onDisk EXCEPT !["workflows"] = holds[t]["workflows"]]
    /\ unemitted' = unemitted \cup {"workflows"}
    /\ lost' = lost \ {"workflows"}

WriteWorkflows(t) ==
    /\ at[t] = "writing workflows"
    /\ Finish(t)
    /\ PutWorkflows(t)
    /\ unsaved' = Clean(t, "workflows")
    /\ UNCHANGED <<local, syncState, unlooked, reports, holds, bounded, crossed>>

(* One workflow is not saved, this one or another.                         *)
WorkflowsNotSaved(t) ==
    /\ at[t] = "writing workflows"
    /\ GiveUp(t, TRUE)
    /\ PutWorkflows(t) \/ UNCHANGED <<onDisk, unemitted, lost>>
    /\ syncState' = "error"
    /\ UNCHANGED <<local, unlooked, reports, crossed>>

-------------------------------------------------------------------------------
(* The user                                                                *)

UserEdit(p) ==
    /\ userEdits < MaxUserEdits
    /\ userEdits' = userEdits + 1
    /\ local' = [local EXCEPT ![p] = userEdits']
    /\ syncState' = IF syncState = "synced" THEN "modified" ELSE syncState
    /\ unsaved' = unsaved \cup {p}
    /\ Crossing(SaveUnderway)
    /\ UNCHANGED <<onDisk, conflict, watcherVars, reports, taskVars, reloading, again,
                   diskEdits, failures>>

(* A reload asked for, or the one that follows a checkout (useGit.ts).     *)
Reload(t) ==
    /\ Enter(t, "user", "reading")
    /\ Crossing(Underway # {})
    /\ UNCHANGED <<local, onDisk, syncState, conflict, watcherVars, reports, reloading, again,
                   bounded, unsaved>>

Sync(t) ==
    /\ Enter(t, "user", "writing")
    /\ syncState' = "loading"
    /\ Crossing(Underway # {})
    /\ UNCHANGED <<local, onDisk, conflict, watcherVars, reports, reloading, again, bounded,
                   unsaved>>

DialogIdle == conflict /\ \A t \in Underway : why[t] # "dialog"

LoadExternal(t) ==
    /\ DialogIdle
    /\ Enter(t, "dialog", "reading")
    /\ Crossing(Underway # {})
    /\ UNCHANGED <<local, onDisk, syncState, conflict, watcherVars, reports, reloading, again,
                   bounded, unsaved>>

KeepLocal(t) ==
    /\ DialogIdle
    /\ Enter(t, "dialog", "writing")
    /\ syncState' = "loading"
    /\ Crossing(Underway # {})
    /\ UNCHANGED <<local, onDisk, conflict, watcherVars, reports, reloading, again, bounded,
                   unsaved>>

(* onClose of the dialog.                                                  *)
Dismiss ==
    /\ conflict
    /\ conflict' = FALSE
    /\ Crossing(TRUE)
    /\ UNCHANGED <<local, onDisk, syncState, watcherVars, reports, taskVars, reloading, again,
                   bounded, unsaved>>

-------------------------------------------------------------------------------
(* The directory                                                           *)

(* Another program writes a file.  The main process does not report it if  *)
(* its mtime is not newer (mv, cp -p), not even for an earlier edit whose  *)
(* event it then replaces.                                                 *)
DiskEdit(p) ==
    /\ diskEdits < MaxDiskEdits
    /\ diskEdits' = diskEdits + 1
    /\ onDisk' = [onDisk EXCEPT ![p] = MaxUserEdits + diskEdits']
    /\ \/ unemitted' = unemitted \cup {p} /\ lost' = lost \ {p}
       \/ unemitted' \in {unemitted, unemitted \ {p}} /\ lost' = lost \cup {p}
    /\ UNCHANGED <<local, syncState, conflict, unlooked, reports, taskVars, reloading, again,
                   userEdits, failures, unsaved, crossed>>

(* chokidar emits once the file has been stable for 300 ms; handled and    *)
(* debounced, the event reaches the renderer whatever becomes of the       *)
(* watcher.                                                                *)
Emit(p) ==
    /\ p \in unemitted \ unlooked
    /\ unemitted' = unemitted \ {p}
    /\ reports' = reports \cup {p}
    /\ UNCHANGED <<local, onDisk, syncState, conflict, unlooked, lost, taskVars, reloading,
                   again, bounded, unsaved, crossed>>

(* A new watcher takes what it finds for what was there before             *)
(* (ignoreInitial).                                                        *)
LookAt(p) ==
    /\ p \in unlooked
    /\ unlooked' = unlooked \ {p}
    /\ unemitted' = unemitted \ {p}
    /\ lost' = lost \cup ({p} \cap unemitted)
    /\ UNCHANGED <<local, onDisk, syncState, conflict, reports, taskVars, reloading, again,
                   bounded, unsaved, crossed>>

(* onFileChanged                                                           *)
Conflicts == syncState \in {"modified", "loading"}

RaiseConflict ==
    /\ Conflicts
    /\ conflict' = TRUE
    /\ syncState' = "conflict"
    /\ UNCHANGED <<taskVars, reloading, again>>

Coalesce ==
    /\ ~Conflicts /\ reloading
    /\ again' = TRUE
    /\ UNCHANGED <<conflict, syncState, taskVars, reloading>>

StartReload ==
    /\ ~Conflicts /\ ~reloading
    /\ \E t \in Task : Enter(t, "watcher", "reading")
    /\ reloading' = TRUE
    /\ UNCHANGED <<conflict, syncState, again>>

FileChanged(p) ==
    /\ p \in reports
    /\ reports' = reports \ {p}
    /\ RaiseConflict \/ Coalesce \/ StartReload
    /\ Crossing(\E t \in ByUser : ~Conflicts \/ why[t] = "dialog")
    /\ UNCHANGED <<local, onDisk, watcherVars, bounded, unsaved>>

TaskStep(t) ==
    \/ ReadItems(t) \/ LoadFails(t) \/ ApplyItems(t) \/ Watch(t) \/ WatchFails(t)
    \/ ReadWorkflows(t) \/ WorkflowsFail(t) \/ ApplyWorkflows(t)
    \/ WriteItems(t) \/ SaveFails(t) \/ ItemsSaved(t)
    \/ WriteWorkflows(t) \/ WorkflowsNotSaved(t)

SyncNext ==
    \/ \E t \in Task : TaskStep(t) \/ Reload(t) \/ Sync(t) \/ LoadExternal(t) \/ KeepLocal(t)
    \/ \E p \in Part : UserEdit(p) \/ DiskEdit(p) \/ Emit(p) \/ LookAt(p) \/ FileChanged(p)
    \/ Dismiss

SyncSpec == SyncInit /\ [][SyncNext]_syncVars

-------------------------------------------------------------------------------
(* Once nothing is under way or on its way, a collection that is shown as  *)
(* synced, with no conflict, is what the directory holds: the reload that  *)
(* a report finds running is followed by another, an edit made while one   *)
(* runs shows or is overwritten.  There are two kinds of exceptions.  The  *)
(* disk has an edit that the main process does not report, for its mtime   *)
(* is not newer, or the watcher that saw it was replaced by a reload that  *)
(* had read the file before: lost keeps account of these.  And an          *)
(* operation of the user met another: it began beside one, a file event    *)
(* started a reload beside it, the user edited during a save; or a         *)
(* conflict was closed unresolved, dismissed, with its load failed, or     *)
(* raised again while the dialog was resolving it; or a load of the user   *)
(* was cut short by the watch before it: crossed keeps account of those.   *)
SettledIsDisk ==
    /\ Underway = {} /\ unemitted = {} /\ reports = {}
    /\ syncState = "synced" /\ ~conflict /\ ~crossed
    => \A p \in Part : local[p] = onDisk[p] \/ p \in lost

(* "A clean collection can be safely reloaded in place": a reload that a   *)
(* file event starts finds no unsaved edit that it would replace.          *)
OnlyCleanIsReloaded ==
    [][\A t \in Task :
          why'[t] = "watcher" /\ at'[t] = "reading" /\ at[t] # "reading" => unsaved = {}]_syncVars

-------------------------------------------------------------------------------
(* The inductive invariant behind SettledIsDisk                            *)

Stage == {"idle", "over"} \cup Loads \cup Saves

SyncTypeOK ==
    /\ local \in [Part -> Nat] /\ onDisk \in [Part -> Nat]
    /\ syncState \in {"synced", "modified", "loading", "conflict", "error"}
    /\ conflict \in BOOLEAN /\ reports \subseteq Part
    /\ unemitted \subseteq Part /\ unlooked \subseteq Part /\ lost \subseteq Part
    /\ begun \in 0 .. MaxTasks
    /\ why \in [Task -> {"nobody", "watcher", "user", "dialog"}]
    /\ at \in [Task -> Stage]
    /\ holds \in [Task -> [Part -> Nat]]
    /\ reloading \in BOOLEAN /\ again \in BOOLEAN /\ crossed \in BOOLEAN
    /\ userEdits \in Nat /\ diskEdits \in Nat /\ failures \in Nat
    /\ unsaved \subseteq Part

TasksBegun == \A t \in Task : at[t] = "idle" <=> t > begun

(* One reload of the watcher at a time, and nothing else beside it; only   *)
(* the user saves, what a save writes is what the stores have, and it is   *)
(* not shown as synced before its items are written.                       *)
OneTask ==
    /\ \A t, u \in Underway : t = u
    /\ reloading <=> \E t \in Underway : why[t] = "watcher"
    /\ again => reloading
    /\ \A t \in Underway :
          /\ at[t] \in Saves => why[t] # "watcher"
          /\ at[t] \in {"writing", "written"} => syncState # "synced"
          /\ at[t] = "writing" => holds[t]["items"] = local["items"]
          /\ at[t] = "writing workflows" => holds[t]["workflows"] = local["workflows"]

(* The conflict is still to be resolved: the dialog has not got far.       *)
Unresolved ==
    conflict /\ \A t \in Underway : why[t] = "dialog" => at[t] = "reading"

(* A task brings the stores and the directory to the same content of p     *)
(* unless it fails visibly.                                                *)
Settles(t, p) ==
    \/ at[t] = "reading" /\ why[t] = "watcher"
    \/ at[t] = "read" /\ (p = "items" => holds[t][p] = onDisk[p])
    \/ at[t] \in {"watching", "reading workflows"} /\ p = "workflows"
    \/ at[t] = "workflows read" /\ p = "workflows" /\ holds[t][p] = onDisk[p]
    \/ at[t] = "writing workflows" /\ p = "workflows"

(* Whatever differs is reported, shown, in conflict, or about to be read   *)
(* or written; what ends in the state synced may not rely on being shown.  *)
ToCome == unemitted \cup reports \cup lost

Accounted(p) ==
    \/ local[p] = onDisk[p]
    \/ p \in ToCome \/ Unresolved \/ again
    \/ syncState # "synced"
    \/ \E t \in Underway : Settles(t, p)

AppliesSoundly(t) ==
    /\ at[t] = "read" => \/ holds[t]["items"] = onDisk["items"]
                         \/ "items" \in ToCome \/ Unresolved \/ again
    /\ at[t] = "written" => \/ local["items"] = onDisk["items"]
                            \/ "items" \in ToCome \/ Unresolved
    /\ at[t] = "workflows read" => \/ holds[t]["workflows"] = onDisk["workflows"]
                                   \/ "workflows" \in ToCome \/ Unresolved \/ again
                                   \/ syncState # "synced"

Uncrossed ==
    /\ OneTask
    /\ \A p \in Part : Accounted(p)
    /\ \A t \in Underway : AppliesSoundly(t)

SyncInv == SyncTypeOK /\ TasksBegun /\ (~crossed => Uncrossed)
===============================================================================
