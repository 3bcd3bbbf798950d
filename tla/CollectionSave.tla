---------------------------- MODULE CollectionSave ----------------------------
(***************************************************************************)
(* Saving and loading a collection in its directory while somebody else    *)
(* edits it: electron/main/storage/collection-manager.ts                   *)
(* (saveCollectionToDirectory, loadCollectionFromDirectory and the watch   *)
(* that follows it, handleWatchEvent) over                                 *)
(* shared/opencollection/node/fs-writer.ts (saveCollectionToDir,           *)
(* reconcileManagedFiles), for one directory.                              *)
(*                                                                         *)
(* A content stands for its SHA-256: 0 is the collection as it was first   *)
(* loaded, save s writes s, and every external edit a content of its own.  *)
(* The file system and chokidar are external: a step may fail, a failed    *)
(* copy leaves its target removed or untouched, and the watcher notices a  *)
(* difference from what it has seen at any later time.  Of an mtime the    *)
(* model keeps how it compares with the entry of fileModTimes.             *)
(***************************************************************************)
EXTENDS Naturals, Sequences

CONSTANTS File,      \* managed paths of the collection
          Layout,    \* the sets of files a collection may be written as
          FirstFile, \* the one the collection has when it is first loaded
          Absent,    \* the fingerprint null
          Unread,    \* no fingerprint, or no such file, map or save
          MaxSaves,  \* bound: how many saves are explored
          MaxEdits,  \* bound: how many external edits
          MaxLoads,  \* bound: how many loads
          MaxFaults  \* bound: how many failures of the file system

ASSUME SaveAssumption ==
    /\ FirstFile \in File /\ Layout \subseteq SUBSET File
    /\ MaxSaves \in Nat \ {0} /\ MaxEdits \in Nat
    /\ Absent \notin Nat /\ Unread \notin Nat /\ Absent # Unread
    /\ Unread \notin File /\ \A files \in SUBSET File : files # Unread

Save == 1 .. MaxSaves
External == MaxSaves + 1 .. MaxSaves + MaxEdits
Content == 0 .. MaxSaves + MaxEdits

VARIABLES
    disk,     \* the content of each file
    manifest, \* the files in .restura-managed-files.json, Unread without it
    modTime,  \* the entry of each file in fileModTimes: none, older than the
              \* mtime of the file, or current, which stands for not older
    loaded,   \* loadedManagedFiles of the directory, Unread without an entry
    load,     \* where a load is and what it has got of each file
    step,     \* where each save is
    save,     \* its local variables
    current,  \* the save whose SelfWriteState is in selfWriteStates
    active, expected, queued, \* the fields of each save's SelfWriteState
    seen,     \* what chokidar has seen of each file
    blind,    \* the files that a new watcher has still to look at
    watch,    \* the watch events that are being handled
    edits, loads, faults,
    untold,   \* observation: what others wrote to each file and the renderer
              \* was not told of, Unread where there is none
    during,   \* observation: the files whose last edit was made during a save
    adopted,  \* observation: the edits that a save took for the loaded state
              \* or put back after another save had overwritten them
    missed,   \* observation: the files whose last edit kept an mtime that is
              \* not newer, or was made while no watcher was looking
    alarmed,  \* observation: the renderer was told of what a save had done
    overtaken \* observation: a save failed after another had become current

diskVars == <<disk, manifest, modTime>>
loadVars == <<loaded, load, loads>>
stateVars == <<current, active, expected, queued, overtaken>>
watchVars == <<seen, blind, watch>>
told == <<untold, during, adopted, missed, alarmed>>
vars == <<diskVars, loadVars, step, save, stateVars, watchVars, edits, faults, told>>

Started == [previous |-> {}, before |-> [f \in File |-> Unread], manifest |-> Unread,
            next |-> {}, backup |-> [f \in File |-> Absent], todo |-> {}, at |-> Unread,
            mutations |-> <<>>,
            \* observations: the files at the start, those that others or a
            \* failed copy changed since, whether a step of the rollback
            \* failed, and whether no other save ran
            start |-> [f \in File |-> Absent], touched |-> {}, cut |-> FALSE,
            alone |-> TRUE]

NoLoad == [at |-> "none", got |-> [f \in File |-> Unread]]

Init ==
    /\ disk = [f \in File |-> IF f = FirstFile THEN 0 ELSE Absent]
    /\ manifest = Unread
    /\ modTime = [f \in File |-> "none"]
    /\ loaded = {FirstFile} /\ load = NoLoad
    /\ step = [s \in Save |-> "idle"]
    /\ save = [s \in Save |-> Started]
    /\ current = Unread
    /\ active = [s \in Save |-> FALSE]
    /\ expected = [s \in Save |-> [f \in File |-> Unread]]
    /\ queued = [s \in Save |-> {}]
    /\ seen = disk /\ blind = {}
    /\ watch = {}
    /\ edits = 0 /\ loads = 0 /\ faults = 0
    /\ untold = [f \in File |-> Unread]
    /\ during = {} /\ adopted = {} /\ missed = {} /\ alarmed = FALSE
    /\ overtaken = FALSE

Over == {"idle", "saved", "failed"}
Running == {s \in Save : step[s] \notin Over}

Go(s, next) == step' = [step EXCEPT ![s] = next]
Set(s, changes) ==
    save' = [save EXCEPT ![s] = [x \in DOMAIN @ |->
                                    IF x \in DOMAIN changes THEN changes[x] ELSE @[x]]]

-------------------------------------------------------------------------------
(* The first half of saveCollectionToDirectory.                            *)

(* Nothing keeps two saves of a directory apart; the path check may take   *)
(* its time.                                                               *)
Begin(s) ==
    /\ step[s] = "idle" /\ \A t \in Save : t < s => step[t] # "idle"
    /\ step' = [step EXCEPT ![s] = "snapshot"]
    /\ \E next \in Layout :
         save' = [t \in Save |->
             IF t = s
             THEN [Started EXCEPT !.next = next, !.start = disk, !.alone = Running = {}]
             ELSE IF t \in Running THEN [save[t] EXCEPT !.alone = FALSE] ELSE save[t]]
    /\ UNCHANGED <<diskVars, loadVars, stateVars, watchVars, edits, faults, told>>

Managed == IF loaded # Unread THEN loaded ELSE IF manifest # Unread THEN manifest ELSE {}

Snapshot(s) ==
    /\ step[s] = "snapshot"
    /\ Go(s, "activate")
    /\ Set(s, [previous |-> Managed,
               before |-> [f \in File |-> IF f \in Managed THEN disk[f] ELSE Unread]])
    /\ adopted' = adopted \cup {f \in Managed : untold[f] # Unread}
    /\ UNCHANGED <<diskVars, loadVars, stateVars, watchVars, edits, faults, untold, during,
                   missed, alarmed>>

Activate(s) ==
    /\ step[s] = "activate"
    /\ Go(s, "stage")
    /\ Set(s, [manifest |-> manifest])
    /\ current' = s
    /\ active' = [active EXCEPT ![s] = TRUE]
    /\ expected' = [expected EXCEPT ![s] = save[s].before]
    /\ UNCHANGED <<diskVars, loadVars, queued, overtaken, watchVars, edits, faults, told>>

-------------------------------------------------------------------------------
(* saveCollectionToDir and reconcileManagedFiles.                          *)

(* The staged document does not parse back, a directory is refused, a      *)
(* backup cannot be made, a file cannot be read to be compared, or the     *)
(* next manifest cannot be written.                                        *)
StepFails(s) ==
    /\ step[s] \in {"stage", "backup", "mutate"} /\ save[s].at = Unread
    /\ faults < MaxFaults
    /\ faults' = faults + 1
    /\ Go(s, "rollback")
    /\ UNCHANGED <<diskVars, loadVars, save, stateVars, watchVars, edits, told>>

Stale(s) == save[s].previous \ save[s].next

(* assertFingerprintUnchanged of an owned file, assertUnownedTargetAbsent  *)
(* of another.                                                             *)
Unchanged(s, f) ==
    disk[f] = IF f \in save[s].previous THEN save[s].before[f] ELSE Absent

ManifestUnchanged(s) == manifest = save[s].manifest

Verify(s) ==
    /\ step[s] = "stage"
    /\ IF ManifestUnchanged(s) /\ \A f \in save[s].previous \cup save[s].next : Unchanged(s, f)
       THEN Go(s, "backup")
       ELSE Go(s, "rollback")
    /\ UNCHANGED <<diskVars, loadVars, save, stateVars, watchVars, edits, faults, told>>

Backup(s) ==
    /\ step[s] = "backup"
    /\ Go(s, "mutate")
    /\ Set(s, [backup |-> disk, todo |-> save[s].previous \cup save[s].next])
    /\ UNCHANGED <<diskVars, loadVars, stateVars, watchVars, edits, faults, told>>

(* The check right before each mutation; stale files come first.           *)
Check(s, f) ==
    /\ step[s] = "mutate" /\ save[s].at = Unread
    /\ f \in save[s].todo
    /\ f \in Stale(s) \/ save[s].todo \cap Stale(s) = {}
    /\ IF Unchanged(s, f) THEN Set(s, [at |-> f]) /\ UNCHANGED step
                          ELSE Go(s, "rollback") /\ UNCHANGED save
    /\ UNCHANGED <<diskVars, loadVars, stateVars, watchVars, edits, faults, told>>

Written(s, f) == IF f \in Stale(s) THEN Absent ELSE s

(* An unlink that the rollback does not know of.                           *)
RecordCopies(s, f) ==
    IF f \in Stale(s) THEN save[s].mutations ELSE Append(save[s].mutations, f)

Record(s, f) == Append(save[s].mutations, f)

(* What is written now is newer than any mtime seen before.                *)
Touch(f) == modTime' = [modTime EXCEPT ![f] = IF @ = "none" THEN "none" ELSE "older"]

Mutate(s) ==
    /\ step[s] = "mutate" /\ save[s].at # Unread
    /\ LET f == save[s].at IN
         /\ disk' = [disk EXCEPT ![f] = Written(s, f)]
         /\ Touch(f)
         /\ Set(s, [at |-> Unread, todo |-> save[s].todo \ {f}, mutations |-> Record(s, f)])
    /\ UNCHANGED <<manifest, loadVars, step, stateVars, watchVars, edits, faults, told>>

(* A failed unlink or copy is not among the mutations; the target of the   *)
(* copy may be gone.                                                       *)
MutateFails(s) ==
    /\ step[s] = "mutate" /\ save[s].at # Unread /\ faults < MaxFaults
    /\ faults' = faults + 1
    /\ Go(s, "rollback")
    /\ LET f == save[s].at IN
         /\ disk' \in {disk} \cup
                IF f \in Stale(s) THEN {} ELSE {[disk EXCEPT ![f] = Absent]}
         /\ Set(s, [at |-> Unread, touched |-> save[s].touched \cup ({f} \ Stale(s))])
    /\ UNCHANGED <<manifest, modTime, loadVars, stateVars, watchVars, edits, told>>

CheckManifest(s) ==
    /\ step[s] = "mutate" /\ save[s].todo = {}
    /\ Go(s, IF ManifestUnchanged(s) THEN "manifest" ELSE "rollback")
    /\ UNCHANGED <<diskVars, loadVars, save, stateVars, watchVars, edits, faults, told>>

RenameManifest(s) ==
    /\ step[s] = "manifest"
    /\ \/ Go(s, "saving") /\ manifest' = save[s].next /\ UNCHANGED faults
       \/ /\ faults < MaxFaults
          /\ faults' = faults + 1
          /\ Go(s, "rollback") /\ UNCHANGED manifest
    /\ UNCHANGED <<disk, modTime, loadVars, save, stateVars, watchVars, edits, told>>

LastMutation(s) == save[s].mutations[Len(save[s].mutations)]
Undone(s) == SubSeq(save[s].mutations, 1, Len(save[s].mutations) - 1)

(* The rollback restores what still has the content this save wrote.       *)
CheckRollback(s) ==
    /\ step[s] = "rollback" /\ save[s].mutations # <<>> /\ save[s].at = Unread
    /\ LET f == LastMutation(s) IN
         IF disk[f] = Written(s, f)
         THEN Set(s, [at |-> f])
         ELSE Set(s, [mutations |-> Undone(s)])
    /\ UNCHANGED <<diskVars, loadVars, step, stateVars, watchVars, edits, faults, told>>

(* A step of the rollback fails, which leaves these mutations to restore.  *)
Falter(s, mutations, touched) ==
    /\ faults < MaxFaults
    /\ faults' = faults + 1
    /\ Set(s, [at |-> Unread, mutations |-> mutations, cut |-> TRUE, touched |-> touched])

(* A read error ends the rollback.                                         *)
CheckRollbackFails(s) ==
    /\ step[s] = "rollback" /\ save[s].mutations # <<>> /\ save[s].at = Unread
    /\ Falter(s, <<>>, save[s].touched)
    /\ UNCHANGED <<diskVars, loadVars, step, stateVars, watchVars, edits, told>>

Backed(s, f) == save[s].backup[f] # Absent

(* unlink, and copyFile of the backup where there is one, which makes an   *)
(* unlink that failed no matter.                                           *)
Restore(s) ==
    /\ step[s] = "rollback" /\ save[s].at # Unread
    /\ LET f == save[s].at IN
         /\ disk' = [disk EXCEPT ![f] = save[s].backup[f]]
         /\ Touch(f)
         /\ adopted' = adopted \cup {x \in {f} : save[s].backup[x] = untold[x]}
    /\ Set(s, [at |-> Unread, mutations |-> Undone(s)])
    /\ UNCHANGED <<manifest, loadVars, step, stateVars, watchVars, edits, faults, untold,
                   during, missed, alarmed>>

(* Without a backup, a failed unlink is swallowed and the file left as     *)
(* written; with one, a failed copy ends the rollback, and the file is     *)
(* gone if the unlink had succeeded.                                       *)
RestoreFails(s) ==
    /\ step[s] = "rollback" /\ save[s].at # Unread
    /\ LET f == save[s].at IN
         IF Backed(s, f)
         THEN /\ disk' \in {disk, [disk EXCEPT ![f] = Absent]}
              /\ Falter(s, <<>>, save[s].touched \cup {f})
         ELSE /\ UNCHANGED disk
              /\ Falter(s, Undone(s), save[s].touched)
    /\ UNCHANGED <<manifest, modTime, loadVars, step, stateVars, watchVars, edits, told>>

-------------------------------------------------------------------------------
(* The second half of saveCollectionToDirectory.                           *)

(* flushQueuedWatchEvents: every event is handled again, with the content  *)
(* it was queued with.                                                     *)
Flush(s) ==
    /\ queued' = [queued EXCEPT ![s] = {}]
    /\ watch' = watch \cup queued[s]

(* Only what is written is expected, not what is removed.                  *)
ExpectedOfWrites(s) == [f \in File |-> IF f \in save[s].next THEN s ELSE Unread]

Expected(s) ==
    [f \in File |-> IF f \in save[s].next \cup Stale(s) THEN Written(s, f) ELSE Unread]

Forget(s) == save' = [save EXCEPT ![s] = Started]

Succeed(s) ==
    /\ step[s] = "saving"
    /\ Go(s, "saved")
    /\ loaded' = Unread
    /\ expected' = [expected EXCEPT ![s] = Expected(s)]
    /\ active' = [active EXCEPT ![s] = FALSE]
    /\ Forget(s)
    /\ Flush(s)
    /\ UNCHANGED <<diskVars, load, loads, current, overtaken, seen, blind, edits, faults,
                   told>>

(* The error path ends whichever save is current, expects what was there   *)
(* before and keeps the files of the load.                                 *)
AnswerFailed(s) ==
    /\ Go(s, "failed")
    /\ overtaken' = (overtaken \/ current # s)
    /\ active' = [active EXCEPT ![current] = FALSE]
    /\ Forget(s)
    /\ Flush(current)
    /\ UNCHANGED <<diskVars, loadVars, current, expected, seen, blind, edits, told>>

Fail(s) ==
    /\ step[s] = "rollback" /\ save[s].mutations = <<>> /\ save[s].at = Unread
    /\ AnswerFailed(s)
    /\ UNCHANGED faults

(* The backup or the staging directory cannot be removed: the save fails   *)
(* with everything written.                                                *)
CleanupFails(s) ==
    /\ step[s] = "saving" /\ faults < MaxFaults
    /\ faults' = faults + 1
    /\ AnswerFailed(s)

-------------------------------------------------------------------------------
(* The watcher.                                                            *)

Event(f, type, observed, phase, against) ==
    [file |-> f, type |-> type, observed |-> observed, phase |-> phase, against |-> against]

(* chokidar notices a difference.  It waits until a file has been stable   *)
(* for 300 ms, in which the last event of that file has been handled.      *)
Notice(f) ==
    /\ f \notin blind /\ disk[f] # seen[f]
    /\ \A e \in watch : e.file # f
    /\ seen' = [seen EXCEPT ![f] = disk[f]]
    /\ watch' = watch \cup
         {Event(f, IF seen[f] = Absent THEN "add" ELSE IF disk[f] = Absent THEN "unlink"
                   ELSE "change", Unread, "arrived", Unread)}
    /\ UNCHANGED <<diskVars, blind, loadVars, step, save, stateVars, edits, faults, told>>

(* Nobody but one save has touched the files.                              *)
OneSaveOnly == edits = 0 /\ faults = 0 /\ \A s \in Save : s > 1 => step[s] = "idle"

(* sendFileChange; a change is not sent if the file is gone, which its     *)
(* unlink tells, or has an mtime that is not newer.                        *)
Report(e) ==
    IF e.type = "change" /\ (disk[e.file] = Absent \/ modTime[e.file] = "current")
    THEN UNCHANGED <<told, modTime>>
    ELSE /\ untold' = [untold EXCEPT ![e.file] = Unread]
         /\ adopted' = adopted \ {e.file} /\ missed' = missed \ {e.file}
         /\ alarmed' = (alarmed \/ OneSaveOnly)
         /\ modTime' = [modTime EXCEPT ![e.file] = IF e.type = "change" THEN "current"
                                                  ELSE IF e.type = "unlink" THEN "none" ELSE @]
         /\ UNCHANGED during

Compare(e, wanted, actual) ==
    IF wanted = actual THEN UNCHANGED <<told, modTime>> ELSE Report(e)

(* An event that arrives during a save is dropped.                         *)
HandleDropping(e) ==
    /\ e.phase = "arrived"
    /\ IF current # Unread /\ active[current]
       THEN watch' = watch \ {e} /\ UNCHANGED <<told, modTime>>
       ELSE watch' = watch \ {e} /\ Report(e)

(* handleWatchEvent up to its first await, or to its end.                  *)
Saving == current # Unread /\ active[current]
Wanted(f) == IF current = Unread THEN Unread ELSE expected[current][f]

Handle(e) ==
    /\ e.phase = "arrived"
    /\ \/ /\ Saving
          /\ watch' = (watch \ {e}) \cup {[e EXCEPT !.phase = "observe", !.against = current]}
          /\ UNCHANGED <<told, modTime>>
       \/ /\ ~Saving /\ Wanted(e.file) # Unread
          /\ e.observed = Unread /\ e.type # "unlink"
          /\ watch' = (watch \ {e}) \cup
                          {[e EXCEPT !.phase = "compare", !.against = Wanted(e.file)]}
          /\ UNCHANGED <<told, modTime>>
       \/ /\ ~Saving /\ Wanted(e.file) # Unread
          /\ e.observed # Unread \/ e.type = "unlink"
          /\ watch' = watch \ {e}
          /\ Compare(e, Wanted(e.file), IF e.observed # Unread THEN e.observed ELSE Absent)
       \/ /\ ~Saving /\ Wanted(e.file) = Unread
          /\ watch' = watch \ {e}
          /\ Report(e)

HandleStep(e) ==
    /\ Handle(e)
    /\ UNCHANGED <<disk, manifest, loadVars, step, save, stateVars, seen, blind, edits, faults>>

(* The content is known: the event is queued in the state it was taken     *)
(* for, or handled again if that save has ended.                           *)
Observed(e) ==
    /\ e.phase = "observe"
    /\ LET o == [e EXCEPT !.phase = "arrived", !.against = Unread,
                          !.observed = IF e.type = "unlink" THEN Absent ELSE disk[e.file]]
       IN IF active[e.against]
          THEN /\ queued' = [queued EXCEPT ![e.against] = @ \cup {o}]
               /\ watch' = watch \ {e}
          ELSE /\ watch' = (watch \ {e}) \cup {o}
               /\ UNCHANGED queued
    /\ UNCHANGED <<diskVars, loadVars, step, save, current, active, expected, overtaken,
                   seen, blind, edits, faults, told>>

Compared(e) ==
    /\ e.phase = "compare"
    /\ watch' = watch \ {e}
    /\ Compare(e, e.against, disk[e.file])
    /\ UNCHANGED <<disk, manifest, loadVars, step, save, stateVars, seen, blind, edits, faults>>

-------------------------------------------------------------------------------
(* Another program changes or deletes a file.  Only what it writes is owed *)
(* to the renderer: a file may be gone again before chokidar noticed it.   *)
(* Its mtime may be an old one (mv, cp -p).                                *)
MTimes(f) == IF modTime[f] = "none" THEN {"none"} ELSE {"older", "current"}

Edit(f) ==
    /\ edits < MaxEdits
    /\ edits' = edits + 1
    /\ \E c \in {MaxSaves + edits + 1, Absent} : c # disk[f] /\ disk' = [disk EXCEPT ![f] = c]
    /\ \E m \in MTimes(f) :
         /\ modTime' = [modTime EXCEPT ![f] = m]
         /\ missed' = IF m = "current" THEN missed \cup {f} ELSE missed \ {f}
    /\ untold' = [untold EXCEPT ![f] = IF disk'[f] = Absent THEN Unread ELSE disk'[f]]
    /\ during' = IF Running = {} THEN during \ {f} ELSE during \cup {f}
    /\ adopted' = adopted \ {f}
    /\ save' = [s \in Save |-> IF s \in Running
                               THEN [save[s] EXCEPT !.touched = @ \cup {f}] ELSE save[s]]
    /\ UNCHANGED <<manifest, loadVars, step, stateVars, watchVars, faults, alarmed>>

-------------------------------------------------------------------------------
(* loadCollectionFromDirectory reads one file after the other, whatever    *)
(* else runs; the renderer is shown what was read and asks for the watch.  *)
BeginLoad ==
    /\ load.at = "none" /\ loads < MaxLoads
    /\ loads' = loads + 1
    /\ load' = [load EXCEPT !.at = "reading"]
    /\ UNCHANGED <<diskVars, loaded, step, save, stateVars, watchVars, edits, faults, told>>

ReadFile(f) ==
    /\ load.at = "reading" /\ load.got[f] = Unread
    /\ load' = [load EXCEPT !.got[f] = disk[f]]
    /\ UNCHANGED <<diskVars, loaded, loads, step, save, stateVars, watchVars, edits, faults,
                   told>>

AnswerLoad ==
    /\ load.at = "reading" /\ \A f \in File : load.got[f] # Unread
    /\ load' = [load EXCEPT !.at = "answered"]
    /\ loaded' = {f \in File : load.got[f] # Absent}
    /\ LET shown == {f \in File : untold[f] = load.got[f]} IN
         /\ untold' = [f \in File |-> IF f \in shown THEN Unread ELSE untold[f]]
         /\ during' = during \ shown
         /\ adopted' = adopted \ shown /\ missed' = missed \ shown
    /\ UNCHANGED <<diskVars, loads, step, save, stateVars, watchVars, edits, faults, alarmed>>

(* The load fails, or the watch is refused and the old watcher stays.      *)
AbortLoad ==
    /\ load.at # "none" /\ faults < MaxFaults
    /\ faults' = faults + 1
    /\ load' = NoLoad
    /\ UNCHANGED <<diskVars, loaded, loads, step, save, stateVars, watchVars, edits, told>>

(* watchCollectionDirectory closes the watcher, which tells nothing more,  *)
(* and opens one that takes what it finds for what was there before.       *)
Rewatch ==
    /\ load.at = "answered"
    /\ load' = NoLoad
    /\ blind' = File
    /\ UNCHANGED <<diskVars, loaded, loads, step, save, stateVars, seen, watch, edits, faults,
                   told>>

Look(f) ==
    /\ f \in blind
    /\ blind' = blind \ {f}
    /\ seen' = [seen EXCEPT ![f] = disk[f]]
    /\ missed' = IF seen[f] # disk[f] THEN missed \cup {f} ELSE missed
    /\ UNCHANGED <<diskVars, loadVars, step, save, stateVars, watch, edits, faults, untold,
                   during, adopted, alarmed>>

LoadStep ==
    \/ BeginLoad \/ AnswerLoad \/ AbortLoad \/ Rewatch
    \/ \E f \in File : ReadFile(f) \/ Look(f)

SaveStep(s) ==
    \/ Begin(s) \/ Snapshot(s) \/ Activate(s)
    \/ StepFails(s) \/ Verify(s) \/ Backup(s)
    \/ \E f \in File : Check(s, f)
    \/ Mutate(s) \/ MutateFails(s)
    \/ CheckManifest(s) \/ RenameManifest(s)
    \/ CheckRollback(s) \/ CheckRollbackFails(s) \/ Restore(s) \/ RestoreFails(s)
    \/ Succeed(s) \/ Fail(s) \/ CleanupFails(s)

Next ==
    \/ \E s \in Save : SaveStep(s)
    \/ \E f \in File : Notice(f) \/ Edit(f)
    \/ \E e \in watch : HandleStep(e) \/ Observed(e) \/ Compared(e)
    \/ LoadStep

Spec == Init /\ [][Next]_vars

-------------------------------------------------------------------------------
(* A save that ran alone is all or nothing: it leaves every file and the   *)
(* manifest as they were or every one as it is to be, the latter if it     *)
(* answers that it succeeded, and also if it fails only at removing its    *)
(* temporary directories.  This does not hold of the files that another    *)
(* program edited meanwhile and of a file whose own copy, written or put   *)
(* back, failed.  Where a step of the rollback itself failed, each file is *)
(* as it was or as it is to be, not all alike.                             *)
AsWas(s, f) == disk[f] = save[s].start[f]

AsWritten(s, f) ==
    disk[f] = IF f \in save[s].next THEN s
              ELSE IF f \in save[s].previous THEN Absent ELSE save[s].start[f]

Whole(s, answer) ==
    LET kept == File \ save[s].touched IN
    \/ (\A f \in kept : AsWritten(s, f)) /\ manifest = save[s].next
    \/ /\ answer = "failed" /\ manifest = save[s].manifest
       /\ \/ \A f \in kept : AsWas(s, f)
          \/ save[s].cut /\ \A f \in kept : AsWas(s, f) \/ AsWritten(s, f)

SaveIsWhole ==
    [][\A s \in Save : step[s] \in Over \/ step'[s] \notin Over \/ ~save[s].alone
                      \/ Whole(s, step'[s])]_vars

Quiet == Running = {} /\ watch = {} /\ seen = disk

(* An external edit that is still on the disk when all has settled was     *)
(* reported to the renderer, or shown by a load, whenever it was made,     *)
(* before, during, between or after saves and loads that may overlap.  It  *)
(* is lost only if its mtime was not newer than the last one that was      *)
(* reported; if the watcher had not told of it when a load replaced the    *)
(* watcher, after the load had read the file; if a save that began before  *)
(* it was noticed took it for the loaded state; if a save that fails puts  *)
(* it back after another save, running beside it, had overwritten it; and, *)
(* whatever the edit, once a save has failed after another had begun,      *)
(* which ends the other's suppression and leaves its own queue behind.     *)
QuietMeansTold ==
    Quiet /\ ~overtaken =>
        \A f \in File \ (adopted \cup missed) : untold[f] = Unread \/ untold[f] # disk[f]

(* A single save that nobody disturbs is not reported to the renderer,     *)
(* though it writes and removes files under the watcher's eyes and the     *)
(* events may be handled before, while or after it ends.                   *)
OwnWritesAreSilent == ~alarmed

(* The comment at collection-manager.ts:114: concurrent external edits     *)
(* never disappear just because they happen during a save; those missed    *)
(* for another reason are not counted.                                     *)
ConcurrentEditsAreReported == Quiet => \A f \in during \ missed : untold[f] = Unread

-------------------------------------------------------------------------------
(* The inductive invariants behind SaveIsWhole, OwnWritesAreSilent and     *)
(* QuietMeansTold                                                          *)

Known == Nat \cup {Absent}
Phase == Over \cup {"snapshot", "activate", "stage", "backup", "mutate", "manifest",
                    "saving", "rollback"}

Locals ==
    [previous : SUBSET File, before : [File -> Known \cup {Unread}],
     manifest : (SUBSET File) \cup {Unread}, next : SUBSET File,
     backup : [File -> Known], todo : SUBSET File, at : File \cup {Unread},
     mutations : Seq(File), start : [File -> Known], touched : SUBSET File,
     cut : BOOLEAN, alone : BOOLEAN]

Loading == [at : {"none", "reading", "answered"}, got : [File -> Known \cup {Unread}]]

EventType == {"add", "change", "unlink"}
EventPhase == {"arrived", "observe", "compare"}
WatchEvent ==
    [file : File, type : EventType, observed : Known \cup {Unread}, phase : EventPhase,
     against : Known \cup {Unread}]

SaveTypeOK ==
    /\ disk \in [File -> Known] /\ seen \in [File -> Known]
    /\ manifest \in (SUBSET File) \cup {Unread} /\ loaded \in (SUBSET File) \cup {Unread}
    /\ modTime \in [File -> {"none", "older", "current"}] /\ load \in Loading
    /\ blind \subseteq File
    /\ step \in [Save -> Phase] /\ save \in [Save -> Locals]
    /\ current \in Save \cup {Unread} /\ active \in [Save -> BOOLEAN]
    /\ expected \in [Save -> [File -> Known \cup {Unread}]]
    /\ queued \in [Save -> SUBSET WatchEvent] /\ watch \subseteq WatchEvent
    /\ edits \in Nat /\ loads \in Nat /\ faults \in Nat

(* A save that has begun to write has become current.                      *)
CurrentIsSet ==
    \A s \in Save : step[s] \notin {"idle", "snapshot", "activate"} => current \in Save

Targets(s) == save[s].previous \cup save[s].next
Done(s) == Targets(s) \ save[s].todo
Mutated(s) == {save[s].mutations[i] : i \in DOMAIN save[s].mutations}

(* A save that runs alone has the files it did not come to as they were,   *)
(* those it did as they are to be, and knows which; rolling back, it has   *)
(* what it takes to restore the ones that it has not restored yet.         *)
Untouched(s) ==
    \A f \in File \ save[s].touched :
        /\ step[s] \in {"snapshot", "activate", "stage", "backup"} => AsWas(s, f)
        /\ step[s] \in {"mutate", "manifest", "saving"} =>
              /\ save[s].backup[f] = save[s].start[f]
              /\ IF f \in Done(s) THEN disk[f] = Written(s, f) ELSE AsWas(s, f)
        /\ step[s] = "rollback" =>
              \/ AsWas(s, f)
              \/ f \in Mutated(s) /\ disk[f] = Written(s, f)
              \/ save[s].cut /\ AsWritten(s, f)
        /\ step[s] = "rollback" /\ f \in Mutated(s) =>
              save[s].backup[f] = save[s].start[f]

Progress(s) ==
    /\ step[s] \in {"snapshot", "activate", "stage", "backup"} =>
          save[s].at = Unread /\ save[s].mutations = <<>>
    /\ step[s] \in {"mutate", "manifest", "saving"} =>
          /\ save[s].todo \subseteq Targets(s) /\ Mutated(s) = Done(s)
          /\ save[s].at # Unread => step[s] = "mutate" /\ save[s].at \in save[s].todo
    /\ step[s] \in {"manifest", "saving"} => save[s].todo = {}
    /\ IF step[s] = "saving"
       THEN manifest = save[s].next
       ELSE step[s] \notin {"snapshot", "activate"} => manifest = save[s].manifest
    /\ step[s] = "rollback" =>
          /\ Mutated(s) \subseteq Targets(s)
          /\ save[s].at # Unread => save[s].mutations # <<>> /\ save[s].at = LastMutation(s)

AloneIsWhole ==
    \A s \in Running : save[s].alone => Running = {s} /\ Progress(s) /\ Untouched(s)

WholeInv == SaveTypeOK /\ CurrentIsSet /\ AloneIsWhole

(* While nobody disturbs the first save, a file is as it was loaded or as  *)
(* the save leaves it, and an event is of a file of the second kind.       *)
AsLoaded == [f \in File |-> IF f = FirstFile THEN 0 ELSE Absent]

Undisturbed ==
    /\ step[1] # "rollback" /\ step[1] # "failed"
    /\ step[1] \in {"idle", "snapshot"} =>
          /\ loaded = {FirstFile}
          /\ \A f \in File : load.got[f] \in {Unread, AsLoaded[f]}
    /\ step[1] \notin {"idle", "snapshot", "saved"} =>
          save[1].previous = {FirstFile} /\ save[1].before[FirstFile] = 0
    /\ step[1] \in {"idle", "snapshot", "activate", "stage", "backup"} =>
          disk = AsLoaded /\ save[1].at = Unread
    /\ step[1] \in {"idle", "snapshot", "activate", "stage", "backup", "mutate"} =>
          manifest = Unread
    /\ step[1] \in {"stage", "backup", "mutate"} => save[1].manifest = Unread
    /\ step[1] \in {"mutate", "manifest", "saving"} =>
          /\ save[1].at # Unread => save[1].at \in save[1].todo
          /\ save[1].todo \subseteq Targets(1)
          /\ \A f \in File : disk[f] = IF f \in Done(1) THEN Written(1, f) ELSE AsLoaded[f]
    /\ step[1] \in {"manifest", "saving"} => save[1].todo = {}
    /\ step[1] = "saved" => \A f \in File : disk[f] # AsLoaded[f] => expected[1][f] = disk[f]
    /\ IF step[1] \in {"idle", "snapshot", "activate"}
       THEN current = Unread
       ELSE current = 1 /\ (active[1] <=> step[1] # "saved")

EventsOfSave ==
    /\ \A f \in File : seen[f] = AsLoaded[f] \/ seen[f] = disk[f]
    /\ \A e \in watch \cup queued[1] :
          /\ e.file \in File /\ disk[e.file] # AsLoaded[e.file]
          /\ e.type = "unlink" => disk[e.file] = Absent
          /\ e.observed \in {Unread, disk[e.file]}
          /\ e.phase = "observe" => e.against = 1
          /\ e.phase = "compare" => e.against = disk[e.file]

SilentInv ==
    /\ SaveTypeOK /\ CurrentIsSet /\ ~alarmed
    /\ OneSaveOnly => Undisturbed /\ EventsOfSave

(* Every external edit has a content that was never written before it.     *)
IsDated(c) == c \in Nat => c <= MaxSaves + edits

Dated ==
    /\ untold \in [File -> External \cup {Unread}]
    /\ adopted \subseteq File /\ missed \subseteq File
    /\ \A f \in File : IsDated(disk[f]) /\ IsDated(seen[f]) /\ IsDated(untold[f])
    /\ \A s \in Save, f \in File :
          IsDated(save[s].before[f]) /\ IsDated(save[s].backup[f]) /\ IsDated(expected[s][f])

(* No save takes an edit that the renderer is owed for the loaded state,   *)
(* and its mtime is newer than the last one reported.                      *)
Owed(f) == f \notin adopted \cup missed /\ untold[f] # Unread /\ untold[f] = disk[f]

NotTakenForLoaded ==
    \A f \in File \ adopted : untold[f] # Unread =>
        \A s \in Save : untold[f] \notin {save[s].before[f], expected[s][f]}

OwedIsNewer == \A f \in File : Owed(f) => modTime[f] # "current"

(* The queue of a save is flushed when it ends, unless it was overtaken.   *)
QueuesAreFlushed ==
    \A s \in Save :
        /\ active[s] => step[s] \notin {"idle", "snapshot", "activate"}
        /\ queued[s] # {} => active[s]
        /\ active[s] /\ ~overtaken => s \in Running

(* The content of an event is observed for a save, to be handled anew.     *)
ObservedForASave ==
    /\ \A e \in watch : e.phase = "observe" => e.against \in Save
    /\ \A s \in Save : \A e \in queued[s] : e.phase = "arrived"

(* Its report is on its way: chokidar has yet to see it, or an event with  *)
(* its content or none is handled or queued.                               *)
Tells(e, f) ==
    /\ e.file = f /\ e.type # "unlink"
    /\ e.phase = "arrived" => e.observed \in {Unread, disk[f]}
    /\ e.phase = "compare" => e.against # disk[f]

OwedIsUnderWay ==
    \A f \in File : Owed(f) =>
        \/ seen[f] # disk[f]
        \/ \E e \in watch : Tells(e, f)
        \/ \E s \in Save : \E e \in queued[s] : Tells(e, f)

ToldInv ==
    /\ WholeInv /\ Dated /\ NotTakenForLoaded /\ OwedIsNewer /\ ObservedForASave
    /\ ~overtaken => QueuesAreFlushed /\ OwedIsUnderWay
===============================================================================
