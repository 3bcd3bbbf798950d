------------------------------- MODULE GitMerge -------------------------------
(***************************************************************************)
(* A merge in a registered directory: electron/main/handlers/              *)
(* git-merge-handler.ts under the lock of git-runtime.ts.  An operation is *)
(* a plan of git commands with an await after each; any of them may fail,  *)
(* which ends the operation where it is.  A conflict's id is a digest of   *)
(* its stages: here its path and an edition, which the conflicts of        *)
(* another merge have too if its stages are the same.                      *)
(***************************************************************************)
EXTENDS Naturals, Sequences

CONSTANTS Path,
          Nobody,     \* no operation; also the content of a path that is removed
          MaxOps,     \* bound: how many operations are requested
          MaxTerminal \* bound: how many commands another program gives to git

Op == 1 .. MaxOps

ASSUME GitAssumption == MaxOps \in Nat /\ Nobody \notin Op \cup {0}

VARIABLES
    dirLock,   \* the entry of dirLocks: the latest operation of the directory
    behind,    \* the operation that each one waits for
    target,     \* the path and the edition of the conflict to resolve
    plan,      \* the commands each operation has yet to run
    settled,   \* the operations that have ended
    edition,   \* of the stages of the latest merge
    merging,   \* MERGE_HEAD is there
    conflicts, \* the paths on which the merge conflicted
    unmerged,  \* those that still have stages in the index
    content,   \* who put the content of each of the others there
    shown,     \* the conflicts that a renderer was shown, each <<path, edition>>
    terminal,
    torn       \* observation: the paths of which a resolution failed halfway

repoVars == <<edition, merging, conflicts, unmerged, content, torn>>
gitVars == <<dirLock, behind, target, plan, settled, repoVars, shown, terminal>>

(* A merge may have been left by an earlier session, or a terminal.        *)
GitInit ==
    /\ dirLock = Nobody
    /\ behind = [o \in Op |-> Nobody]
    /\ target = [o \in Op |-> Nobody]
    /\ plan = [o \in Op |-> <<>>]
    /\ settled = {}
    /\ edition = 1 /\ merging \in BOOLEAN
    /\ conflicts \in IF merging THEN SUBSET Path ELSE {{}}
    /\ unmerged = conflicts
    /\ content = [p \in Path |-> Nobody]
    /\ shown = unmerged \X {edition}
    /\ terminal = 0 /\ torn = {}

ResolvingPlans ==
    {<<"read conflict", "write", "add">>,          \* edited content
     <<"read conflict", "rm", "write", "add">>,    \* the same, after a rename
     <<"read conflict", "rm">>,                    \* delete
     <<"read conflict", "rm", "update-index", "checkout-index">>} \* a side
OtherPlans ==
    {<<"read idle", "rev-parse", "merge">>, <<"read merge", "abort">>,
     <<"read ready", "load", "commit">>, <<"status">>}

-------------------------------------------------------------------------------
(* withGitLock                                                             *)

Queue(o, what, commands) ==
    /\ o \notin settled /\ plan[o] = <<>> /\ \A q \in Op : q < o => q \in settled \/ plan[q] # <<>>
    /\ target' = [target EXCEPT ![o] = what]
    /\ plan' = [plan EXCEPT ![o] = commands]
    /\ behind' = [behind EXCEPT ![o] = dirLock]
    /\ dirLock' = o
    /\ UNCHANGED <<settled, repoVars, shown, terminal>>

Request(o) ==
    \/ \E c \in shown, commands \in ResolvingPlans : Queue(o, c, commands)
    \/ \E commands \in OtherPlans : Queue(o, Nobody, commands)

Turn(o) == plan[o] # <<>> /\ (behind[o] = Nobody \/ behind[o] \in settled)

(* The entry is dropped though another operation has taken it.             *)
UnlockAlways(o) == dirLock' = Nobody

Unlock(o) == dirLock' = IF dirLock = o THEN Nobody ELSE dirLock

Settle(o) ==
    /\ plan' = [plan EXCEPT ![o] = <<>>]
    /\ settled' = settled \cup {o}
    /\ Unlock(o)
    /\ UNCHANGED <<behind, target, terminal>>

(* What a resolution removed before it failed stays removed.               *)
GitFails(o) ==
    /\ Turn(o)
    /\ Settle(o)
    /\ torn' = IF Head(plan[o]) \in {"write", "add", "update-index"} /\ target[o][1] \notin unmerged
               THEN torn \cup {target[o][1]} ELSE torn
    /\ UNCHANGED <<edition, merging, conflicts, unmerged, content, shown>>

(* The command c of operation o has succeeded.                             *)
Runs(o, c) ==
    /\ Turn(o) /\ Head(plan[o]) = c
    /\ IF Len(plan[o]) > 1
       THEN /\ plan' = [plan EXCEPT ![o] = Tail(@)]
            /\ UNCHANGED <<dirLock, behind, target, settled, terminal>>
       ELSE Settle(o)

(* The last command of most operations is followed by mergeStateFromGit.   *)
Show(o) ==
    shown' = IF Len(plan[o]) = 1 /\ merging' THEN shown \cup (unmerged' \X {edition'}) ELSE shown

-------------------------------------------------------------------------------
Reads(o) ==
    /\ \/ Runs(o, "read idle") /\ ~merging
       \/ Runs(o, "read merge") /\ merging
       \/ Runs(o, "read ready") /\ merging /\ unmerged = {}
       \/ \E c \in {"rev-parse", "load", "write", "checkout-index", "status"} : Runs(o, c)
    /\ UNCHANGED repoVars
    /\ Show(o)

(* A resolution that does not look whether its conflict is still there.    *)
IsCurrentAnyway(c) == merging

IsCurrent(c) == c[1] \in unmerged /\ c[2] = edition

ReadConflict(o) ==
    /\ Runs(o, "read conflict")
    /\ IsCurrent(target[o])
    /\ UNCHANGED <<repoVars, shown>>

(* git rm, add and update-index each put an end to the conflict of a path. *)
Stages(o, c, by) ==
    /\ Runs(o, c)
    /\ unmerged' = unmerged \ {target[o][1]}
    /\ content' = [content EXCEPT ![target[o][1]] = by]
    /\ UNCHANGED <<edition, merging, conflicts, torn>>
    /\ Show(o)

Clear(o) == Stages(o, "rm", IF Len(plan[o]) = 1 THEN o ELSE Nobody)
Add(o) == Stages(o, "add", o)
UpdateIndex(o) == Stages(o, "update-index", o)

NoMerge == merging' = FALSE /\ conflicts' = {} /\ unmerged' = {} /\ UNCHANGED edition

(* Fast-forward, or a merge that waits for its conflicts or its commit.    *)
Merge(o) ==
    /\ Runs(o, "merge") /\ ~merging
    /\ \/ NoMerge
       \/ /\ merging' = TRUE
          /\ edition' \in {edition, edition + 1}
          /\ conflicts' \in SUBSET Path /\ unmerged' = conflicts'
    /\ content' = [p \in Path |-> Nobody] /\ torn' = {}
    /\ Show(o)

Abort(o) ==
    /\ Runs(o, "abort") /\ merging
    /\ NoMerge
    /\ UNCHANGED <<content, torn, shown>>

(* git refuses while a path is unmerged.                                   *)
Commit(o) ==
    /\ Runs(o, "commit") /\ merging /\ unmerged = {}
    /\ NoMerge
    /\ UNCHANGED <<content, torn, shown>>

(* Another program stages a path or ends the merge.                        *)
Terminal ==
    /\ terminal < MaxTerminal
    /\ terminal' = terminal + 1
    /\ merging
    /\ \/ \E p \in conflicts :
            /\ unmerged' = unmerged \ {p}
            /\ content' = [content EXCEPT ![p] = 0]
            /\ torn' = torn \ {p}
            /\ UNCHANGED <<edition, merging, conflicts>>
       \/ NoMerge /\ UNCHANGED <<content, torn>>
    /\ UNCHANGED <<dirLock, behind, target, plan, settled, shown>>

GitStep(o) ==
    \/ Request(o) \/ GitFails(o) \/ Reads(o) \/ ReadConflict(o)
    \/ Clear(o) \/ Add(o) \/ UpdateIndex(o) \/ Merge(o) \/ Abort(o) \/ Commit(o)

GitNext == (\E o \in Op : GitStep(o)) \/ Terminal

GitSpec == GitInit /\ [][GitNext]_gitVars

-------------------------------------------------------------------------------
(* A conflict is resolved once, by one resolution, and as a whole: nothing *)
(* that a resolution put there is replaced by another one of the same      *)
(* merge, and no commit takes the removal with which a resolution that is  *)
(* still running began (of one that failed it does, see torn).             *)
ResolvedWholeAndOnce ==
    [][terminal' = terminal =>
         /\ merging /\ merging' =>
              \A p \in Path : content[p] \in Op => content'[p] = content[p]
         /\ \A o \in Op :
              plan[o] # <<>> /\ Head(plan[o]) = "commit" /\ merging /\ ~merging' /\ o \in settled'
              => \A p \in conflicts : content[p] # Nobody \/ p \in torn]_gitVars

-------------------------------------------------------------------------------
(* The inductive invariant behind ResolvedWholeAndOnce                     *)

PlanEnds ==
    {<<>>, <<"write", "add">>, <<"add">>, <<"rm", "write", "add">>, <<"rm">>,
     <<"rm", "update-index", "checkout-index">>, <<"update-index", "checkout-index">>,
     <<"checkout-index">>, <<"rev-parse", "merge">>, <<"merge">>, <<"abort">>,
     <<"load", "commit">>, <<"commit">>}

Resolves == {"read conflict", "write", "add", "rm", "update-index", "checkout-index"}

(* The commands with which a resolution, once it began, changes a path,    *)
(* and those that may follow its removal of the path.                      *)
Changes == {"rm", "write", "add", "update-index"}
Completes == {"write", "add", "update-index"}

At(o, commands) == plan[o] # <<>> /\ Head(plan[o]) \in commands

GitTypeOK ==
    /\ dirLock \in Op \cup {Nobody}
    /\ behind \in [Op -> Op \cup {Nobody}]
    /\ target \in [Op -> (Path \X Nat) \cup {Nobody}]
    /\ plan \in [Op -> ResolvingPlans \cup OtherPlans \cup PlanEnds]
    /\ settled \subseteq Op
    /\ edition \in Nat /\ merging \in BOOLEAN
    /\ conflicts \subseteq Path /\ unmerged \subseteq Path /\ torn \subseteq Path
    /\ content \in [Path -> Op \cup {Nobody, 0}]
    /\ shown \subseteq Path \X Nat
    /\ terminal \in Nat

(* Operations queue in order, each behind one that is not before any of    *)
(* those that still run, and so they settle in order.                      *)
LockSound ==
    /\ dirLock # Nobody => plan[dirLock] # <<>>
    /\ \A o \in Op :
          /\ o \in settled => plan[o] = <<>> /\ \A q \in Op : q < o => q \in settled
          /\ plan[o] # <<>> \/ o \in settled
                => \A q \in Op : q < o => plan[q] # <<>> \/ q \in settled
          /\ plan[o] # <<>> => dirLock # Nobody /\ o <= dirLock
          /\ \A q \in Op : plan[o] # <<>> /\ plan[q] # <<>> /\ q < o => behind[o] \in q .. o - 1

(* A resolution at work has its turn, and the path is not yet resolved.    *)
ResolutionsSound ==
    \A o \in Op :
        /\ At(o, Resolves) => target[o] \in Path \X Nat
        /\ At(o, Changes) => Turn(o) /\ content[target[o][1]] \notin Op

(* A path of the merge without a resolution is one of the index's          *)
(* conflicts, torn, or being resolved right now.                           *)
PathsSound ==
    /\ \A p \in unmerged : content[p] = Nobody
    /\ merging => \A p \in conflicts :
          \/ p \in unmerged \/ content[p] # Nobody \/ p \in torn
          \/ \E o \in Op : At(o, Completes) /\ target[o][1] = p

GitInv == GitTypeOK /\ LockSound /\ ResolutionsSound /\ PathsSound
===============================================================================
