----------------------------- MODULE GitHistory -----------------------------
(***************************************************************************)
(* The history operations of dsh-next-git: the class HistoryOperations of  *)
(* host/history-operations.ts with history-tree-rewrite.ts.                *)
(*                                                                         *)
(* A plan is previewed, approved and executed once.  Its journal on disk   *)
(* says how far it is, a backup ref keeps the commits it replaces.  Squash,*)
(* fixup and reword build new commits and swing the branch by a compare-   *)
(* and-swap; reorder runs git rebase, cherry-pick and revert run the       *)
(* command of their name.  Those may stop at a conflict and are continued, *)
(* skipped, aborted, or, when they are done, taken back.  Calls of the     *)
(* plugin come one at a time from the queue of the repository (GitCommit). *)
(* Agents use Git beside it, and the host may stop anywhere.               *)
(*                                                                         *)
(* A commit is the sequence of what was put on top of the first one: a     *)
(* plan for each of its steps, a work for each commit of somebody else.    *)
(***************************************************************************)
EXTENDS Naturals, Sequences, FiniteSets, SequencesExt

CONSTANTS
  Plan,       \* previews, each executed at most once
  Choice,     \* the actions each of them may be asked for
  Steps,      \* native steps of a plan
  Work,       \* commits others make
  Branch,     \* the branches of the repository
  First,      \* the one that is checked out first
  MaxAgent,   \* bound: what agents do
  MaxCrash,   \* bound: crashes of the host
  Nil

VARIABLES
  tip,       \* the commit of each branch
  at,        \* the branch that is checked out
  files,     \* whether the checkout differs from HEAD, and why
  native,    \* the operation Git has in progress
  journal,   \* journal.json of each plan
  backup,    \* refs/dsh/history-backups of each plan
  task,      \* the call at work, and how far it is
  agentSteps, crashes,
  during,    \* works that became part of an operation, by whatever way
  doubt      \* plans during whose calls others began an operation

checkout == <<tip, at, files, native>>
ghosts == <<during, doubt>>
bounds == <<agentSteps, crashes>>
historyVars == <<checkout, journal, backup, task, bounds, ghosts>>

\* squash stands for fixup and reword, pick for cherry-pick and revert.
Action == {"squash", "reorder", "pick"}
Commit == Seq(Plan \cup Work)
Phase == {"preview", "cancelled", "running", "stopped", "completed", "failed",
          "aborted", "recovering", "recovered"}
Journal == [action: Action, phase: Phase, head: Commit, ref: Branch,
            done: Commit \cup {Nil}, anchor: Nat \cup {Nil}]
Native == [id: Nat, by: Plan \cup {Nil}, rebase: BOOLEAN,
           orig: Commit, ref: Branch,     \* orig-head and head-name
           head: Commit,                  \* what the sequencer made last
           left: 0..Steps, stuck: BOOLEAN, busy: BOOLEAN]
Act == {"execute", "continue", "skip", "abort", "restore"}
Step == {"backup", "check", "launch", "publish", "verify", "resume", "git",
         "finish", "aborted", "recheck", "swap", "read-tree", "restored", "failed"}

ASSUME GitHistoryAssumption ==
  /\ Plan \cap Work = {}
  /\ Choice \in [Plan -> SUBSET {"squash", "reorder", "pick"}]
  /\ Steps \in Nat \ {0} /\ MaxAgent \in Nat /\ MaxCrash \in Nat
  /\ First \in Branch
  /\ Nil \notin Plan \cup Work \cup Branch \cup Nat \cup Journal

HistoryTypeOK ==
  /\ tip \in [Branch -> Commit] /\ at \in Branch
  /\ files \in {"clean", "moved", "edited"}
  /\ native \in Native \cup {Nil}
  /\ journal \in [Plan -> Journal \cup {Nil}]
  /\ backup \in [Plan -> Commit \cup {Nil}]
  /\ task \in [plan: Plan, act: Act, step: Step] \cup {Nil}
  /\ agentSteps \in 0..MaxAgent /\ crashes \in 0..MaxCrash
  /\ during \subseteq Work /\ doubt \subseteq Plan

HistoryInit ==
  /\ tip = [b \in Branch |-> <<>>] /\ at = First /\ files = "clean"
  /\ native = Nil
  /\ journal = [p \in Plan |-> Nil]
  /\ backup = [p \in Plan |-> Nil]
  /\ task = Nil
  /\ agentSteps = 0 /\ crashes = 0
  /\ during = {} /\ doubt = {}

-----------------------------------------------------------------------------
(* What a call sees *)

\* What others have put into a commit.
Works(c) == ToSet(c) \cap Work

Rebasing == native # Nil /\ native.rebase

\* preservesHistoryTree()
TreeOnly(p) == journal[p].action = "squash"

\* The command a plan runs, or may go on with, is a rebase: plan.rewrites.
Rewrites(p) == journal[p].action # "pick"

\* A rebase works on a detached HEAD.
HEAD == IF Rebasing THEN native.head ELSE tip[at]
HeadRef == IF Rebasing THEN Nil ELSE at
Clean == files = "clean" /\ (native # Nil => ~native.stuck)

\* requireClean()
Ready(treeOnly) == native = Nil /\ (treeOnly \/ Clean)

\* requireBinding(): HEAD and its branch are those that were previewed.
Binding(p) == Ready(TreeOnly(p)) /\ HEAD = journal[p].head /\ HeadRef = journal[p].ref

\* The operation in progress is of the plan's kind and on its branch.
OnItsBranch(p) ==
  /\ native.rebase = Rewrites(p)
  /\ IF native.rebase THEN native.ref = journal[p].ref ELSE at = journal[p].ref

\* Fault: an operation of the same kind is taken for the one that was started.
OwnedByKind(p) ==
  /\ native # Nil
  /\ journal[p].phase \in {"running", "stopped"}
  /\ native.orig = journal[p].head
  /\ OnItsBranch(p)

\* The operation in progress is the one this plan was bound to: snapshot().
Owned(p) ==
  /\ native # Nil
  /\ journal[p].phase \in {"running", "stopped"}
  /\ journal[p].anchor = native.id
  /\ native.orig = journal[p].head
  /\ OnItsBranch(p)

\* inspect(): only the exact result that was recorded is taken back.
CanRestore(p) ==
  /\ journal[p].phase = "completed" /\ native = Nil /\ Clean
  /\ HEAD = journal[p].done /\ HeadRef = journal[p].ref

-----------------------------------------------------------------------------
(* Calls *)

Save(p, to) == journal' = [journal EXCEPT ![p].phase = to]

At(p, step) == task # Nil /\ task.plan = p /\ task.step = step
BeginCall(p, act, step) == task = Nil /\ task' = [plan |-> p, act |-> act, step |-> step]
GoTo(step) == task' = [task EXCEPT !.step = step]
Done == task' = Nil

outside == <<bounds, ghosts>>

Preview(p, action) ==
  /\ task = Nil /\ journal[p] = Nil /\ Ready(action = "squash")
  /\ journal' = [journal EXCEPT ![p] =
       [action |-> action, phase |-> "preview", head |-> HEAD, ref |-> at,
        done |-> Nil, anchor |-> Nil]]
  /\ UNCHANGED <<checkout, backup, task, outside>>

Cancel(p) ==
  /\ task = Nil /\ journal[p] # Nil /\ journal[p].phase = "preview"
  /\ Save(p, "cancelled")
  /\ UNCHANGED <<checkout, backup, task, outside>>

\* execute(): that the plan runs is on disk before Git is.
Execute(p) ==
  /\ journal[p] # Nil /\ journal[p].phase = "preview" /\ Binding(p)
  /\ BeginCall(p, "execute", "backup")
  /\ Save(p, "running")
  /\ UNCHANGED <<checkout, backup, outside>>

\* update-ref with an expected value of zero: the ref must not exist.
KeepBackup(p) ==
  /\ At(p, "backup")
  /\ IF backup[p] = Nil
     THEN backup' = [backup EXCEPT ![p] = journal[p].head] /\ GoTo("check")
     ELSE GoTo("failed") /\ UNCHANGED backup
  /\ UNCHANGED <<checkout, journal, outside>>

\* A backup is no lock on the checkout: everything is looked at again.
Check(p) ==
  /\ At(p, "check")
  /\ GoTo(IF ~Binding(p) THEN "failed"
          ELSE IF TreeOnly(p) THEN "publish" ELSE "launch")
  /\ UNCHANGED <<checkout, journal, backup, outside>>

\* Fault: update-ref without the expected value.
SwapBlindly(b, old, new) == tip' = [tip EXCEPT ![b] = new]

\* update-ref with the expected value.
Swap(b, old, new) == tip[b] = old /\ tip' = [tip EXCEPT ![b] = new]

\* rewriteHistoryTree(): the commits of the plan, made anew with the same tree.
Rewritten(p) == Append(journal[p].head, p)

\* publishTreeRewrite(): the new commits are there, the branch moves to them.
Publish(p) ==
  /\ At(p, "publish")
  /\ LET b == journal[p].ref
     IN  \/ /\ Swap(b, journal[p].head, Rewritten(p))
            /\ GoTo("verify")
         \/ /\ tip[b] # journal[p].head /\ GoTo("failed") /\ UNCHANGED tip
  /\ UNCHANGED <<at, files, native, journal, backup, outside>>

Complete(p, head) ==
  /\ journal' = [journal EXCEPT ![p].phase = "completed", ![p].done = head]
  /\ Done

\* The result is recorded if it is still what was published.
Verify(p) ==
  /\ At(p, "verify")
  /\ IF HEAD = Rewritten(p) /\ HeadRef = journal[p].ref /\ native = Nil
     THEN Complete(p, Rewritten(p))
     ELSE GoTo("failed") /\ UNCHANGED journal
  /\ UNCHANGED <<checkout, backup, outside>>

\* The files of every operation have an identity of their own.
Fresh ==
  LET bound == {journal[q].anchor : q \in {r \in Plan : journal[r] # Nil}}
  IN  CHOOSE i \in 0..Cardinality(bound) : i \notin bound

\* git rebase, cherry-pick or revert: Git refuses a checkout that is at work or
\* changed.  A rebase replays the steps of the plan and nothing else.
Launch(p) ==
  /\ At(p, "launch")
  /\ IF native # Nil \/ ~Clean
     THEN GoTo("failed") /\ UNCHANGED <<native, during>>
     ELSE /\ native' = [id |-> Fresh, by |-> p, rebase |-> Rewrites(p),
                        orig |-> tip[at], ref |-> at,
                        head |-> IF Rewrites(p) THEN journal[p].head ELSE tip[at],
                        left |-> Steps, stuck |-> FALSE, busy |-> TRUE]
          /\ during' = during \cup (Works(tip[at]) \ Works(journal[p].head))
          /\ GoTo("git")
  /\ UNCHANGED <<tip, at, files, journal, backup, bounds, doubt>>

\* finish(): Git said it is done, and it looks as if it were.
Finish(p) ==
  /\ At(p, "finish")
  /\ IF native = Nil /\ Clean /\ HeadRef = journal[p].ref
     THEN Complete(p, HEAD) /\ during' = during \cup (Works(HEAD) \ Works(journal[p].head))
     ELSE GoTo("failed") /\ UNCHANGED <<journal, during>>
  /\ UNCHANGED <<checkout, backup, bounds, doubt>>

\* Any read or command before the end may fail.
Fail(p) ==
  /\ task # Nil /\ task.plan = p /\ task.step \notin {"git", "failed"}
  /\ GoTo("failed")
  /\ UNCHANGED <<checkout, journal, backup, outside>>

\* A plan is bound to the operation it started, once.
Anchor(p) ==
  IF journal[p].phase # "running" THEN journal[p].anchor
  ELSE IF native = Nil THEN Nil ELSE native.id

\* failed(): the plan is stopped if its operation is still there.  Somebody's
\* index.lock hides it (locked).  If this fails in turn, it is as if the host had
\* stopped: see Crash.
Failed(p) ==
  /\ At(p, "failed") /\ Done
  /\ \E locked \in BOOLEAN :
       LET bound == [journal EXCEPT ![p].anchor = Anchor(p)]
           mine == /\ ~locked /\ native # Nil /\ bound[p].phase # "recovering"
                   /\ bound[p].anchor = native.id /\ native.orig = bound[p].head
                   /\ OnItsBranch(p)
       IN  journal' = [bound EXCEPT ![p].phase = IF mine THEN "stopped" ELSE "failed"]
  /\ UNCHANGED <<checkout, backup, outside>>

-----------------------------------------------------------------------------
(* Continue, skip, abort *)

\* recover(): the operation is looked at, and a little later told to go on.
Recover(p, act) ==
  /\ act \in {"continue", "skip", "abort"}
  /\ journal[p] # Nil /\ Owned(p)
  /\ BeginCall(p, act, "resume")
  /\ UNCHANGED <<checkout, journal, backup, outside>>

\* An aborted rebase leaves its branch alone, an aborted pick takes back what it
\* made unless somebody has moved HEAD since.
Rewound ==
  IF native.rebase \/ tip[at] # native.head THEN tip
  ELSE [tip EXCEPT ![at] = native.orig]

Resume(p) ==
  /\ At(p, "resume")
  /\ IF \/ native = Nil \/ native.busy
        \/ task.act = "continue" /\ native.stuck
     THEN GoTo("failed") /\ UNCHANGED <<tip, files, native>>
     ELSE \/ /\ task.act = "abort"
             /\ tip' = Rewound /\ native' = Nil /\ files' = "clean"
             /\ GoTo("aborted")
          \/ /\ task.act # "abort"
             /\ native' = [native EXCEPT !.busy = TRUE, !.stuck = FALSE,
                             !.left = IF task.act = "skip" /\ @ > 0 THEN @ - 1 ELSE @]
             /\ GoTo("git") /\ UNCHANGED <<tip, files>>
  /\ UNCHANGED <<at, journal, backup, outside>>

Aborted(p) ==
  /\ At(p, "aborted")
  /\ IF native = Nil /\ HEAD = journal[p].head /\ HeadRef = journal[p].ref
     THEN Save(p, "aborted") /\ Done
     ELSE GoTo("failed") /\ UNCHANGED journal
  /\ UNCHANGED <<checkout, backup, outside>>

-----------------------------------------------------------------------------
(* Restore *)

\* The checkout is the recorded result and the backup the original.
Restore(p) ==
  /\ journal[p] # Nil /\ CanRestore(p) /\ backup[p] = journal[p].head
  /\ BeginCall(p, "restore", "recheck")
  /\ Save(p, "recovering")
  /\ UNCHANGED <<checkout, backup, outside>>

Recheck(p) ==
  /\ At(p, "recheck")
  /\ GoTo(IF native = Nil /\ Clean /\ HEAD = journal[p].done /\ HeadRef = journal[p].ref
          THEN "swap" ELSE "failed")
  /\ UNCHANGED <<checkout, journal, backup, outside>>

\* The branch goes back; the files still are those of the result.
SwapBack(p) ==
  /\ At(p, "swap")
  /\ LET b == journal[p].ref
     IN  \/ /\ Swap(b, journal[p].done, backup[p])
            /\ files' = IF ~TreeOnly(p) /\ at = b /\ files = "clean"
                        THEN "moved" ELSE files
            /\ GoTo(IF TreeOnly(p) THEN "restored" ELSE "read-tree")
         \/ /\ tip[b] # journal[p].done
            /\ GoTo("failed") /\ UNCHANGED <<tip, files>>
  /\ UNCHANGED <<at, native, journal, backup, outside>>

\* read-tree -u -m: Git refuses to touch what was edited.  On another branch it
\* refuses too, or changes the files there if they are the same.
ReadTree(p) ==
  /\ At(p, "read-tree")
  /\ \/ /\ files = "moved" /\ native = Nil /\ at = journal[p].ref
        /\ files' = "clean" /\ GoTo("restored")
     \/ /\ at # journal[p].ref /\ native = Nil /\ files = "clean"
        /\ files' = "moved" /\ GoTo("restored")
     \/ /\ files # "moved" \/ native # Nil \/ at # journal[p].ref
        /\ GoTo("failed") /\ UNCHANGED files
  /\ UNCHANGED <<tip, at, native, journal, backup, outside>>

Restored(p) ==
  /\ At(p, "restored")
  /\ IF Clean /\ HEAD = backup[p] /\ HeadRef = journal[p].ref
     THEN Save(p, "recovered") /\ Done
     ELSE GoTo("failed") /\ UNCHANGED journal
  /\ UNCHANGED <<checkout, backup, outside>>

-----------------------------------------------------------------------------
(* Git at work *)

\* The task that waits for this process hears of its end.
Hear(step) ==
  task' = IF task # Nil /\ task.step = "git" THEN [task EXCEPT !.step = step] ELSE task

\* The next step is made on top of HEAD.
Pick ==
  /\ native # Nil /\ native.busy /\ native.left > 0
  /\ LET new == Append(HEAD, native.by)
     IN  /\ native' = [native EXCEPT !.head = new, !.left = @ - 1]
         /\ tip' = IF native.rebase THEN tip ELSE [tip EXCEPT ![at] = new]
  /\ UNCHANGED <<at, files, task, journal, backup, outside>>

\* A conflict, or a timeout that ends the process between two steps.
Stop ==
  /\ native # Nil /\ native.busy
  /\ \E stuck \in BOOLEAN :
       /\ stuck => native.left > 0
       /\ native' = [native EXCEPT !.busy = FALSE, !.stuck = stuck]
  /\ Hear("failed")
  /\ UNCHANGED <<tip, at, files, journal, backup, outside>>

\* The end of a rebase moves its branch if nobody else did.
Landed ==
  IF native.rebase /\ tip[native.ref] = native.orig
  THEN [tip EXCEPT ![native.ref] = native.head] ELSE tip

End ==
  /\ native # Nil /\ native.busy /\ native.left = 0
  /\ tip' = Landed /\ native' = Nil
  /\ Hear(IF native.rebase /\ tip[native.ref] # native.orig THEN "failed" ELSE "finish")
  /\ UNCHANGED <<at, files, journal, backup, outside>>

-----------------------------------------------------------------------------
(* Agents, and crashes *)

\* Others act while no process of Git holds the repository.
Agent ==
  /\ agentSteps < MaxAgent /\ agentSteps' = agentSteps + 1
  /\ native # Nil => ~native.busy
  /\ UNCHANGED <<journal, backup, task, crashes>>

AgentCommit(w) ==
  /\ Agent
  /\ native # Nil => ~native.stuck
  /\ \A b \in Branch : w \notin ToSet(tip[b])
  /\ Rebasing => w \notin ToSet(native.head)
  /\ LET new == Append(HEAD, w)
     IN  IF Rebasing
         THEN native' = [native EXCEPT !.head = new] /\ UNCHANGED tip
         ELSE tip' = [tip EXCEPT ![at] = new] /\ UNCHANGED native
  /\ files' = "clean"
  /\ during' = IF native # Nil THEN during \cup {w} ELSE during
  /\ UNCHANGED <<at, doubt>>

AgentEdit ==
  /\ Agent /\ files # "edited" /\ files' = "edited"
  /\ UNCHANGED <<tip, at, native, during, doubt>>

\* git switch, which keeps nothing that is in the way.
AgentSwitch(b) ==
  /\ Agent /\ b # at /\ native = Nil /\ files = "clean"
  /\ at' = b
  /\ UNCHANGED <<tip, files, native, during, doubt>>

\* An operation of their own, which stops at a conflict.
AgentBegin(rebase) ==
  /\ Agent /\ native = Nil /\ files = "clean"
  /\ native' = [id |-> Fresh, by |-> Nil, rebase |-> rebase, orig |-> tip[at],
                ref |-> at, head |-> tip[at], left |-> 0, stuck |-> TRUE, busy |-> FALSE]
  /\ doubt' = IF task = Nil THEN doubt ELSE doubt \cup {task.plan}
  /\ UNCHANGED <<tip, at, files, during>>

AgentResolve ==
  /\ Agent /\ native # Nil /\ native.stuck
  /\ native' = [native EXCEPT !.stuck = FALSE]
  /\ UNCHANGED <<tip, at, files, during, doubt>>

\* git --continue, to the end.
AgentContinue ==
  /\ Agent /\ native # Nil /\ ~native.stuck
  /\ LET head == HEAD \o [i \in 1..native.left |-> native.by]
     IN  tip' = IF ~native.rebase THEN [tip EXCEPT ![at] = head]
                ELSE IF tip[native.ref] = native.orig
                     THEN [tip EXCEPT ![native.ref] = head] ELSE tip
  /\ native' = Nil
  /\ UNCHANGED <<at, files, during, doubt>>

AgentAbort ==
  /\ Agent /\ native # Nil
  /\ tip' = Rewound /\ native' = Nil /\ files' = "clean"
  /\ UNCHANGED <<at, during, doubt>>

\* The host stops; Git goes on if it had begun.
Crash ==
  /\ task # Nil /\ crashes < MaxCrash
  /\ crashes' = crashes + 1 /\ task' = Nil
  /\ UNCHANGED <<checkout, journal, backup, agentSteps, ghosts>>

-----------------------------------------------------------------------------

Call(p) ==
  \/ \E action \in Choice[p] : Preview(p, action)
  \/ Cancel(p) \/ Execute(p) \/ Restore(p)
  \/ \E act \in Act : Recover(p, act)

Continuation(p) ==
  \/ KeepBackup(p) \/ Check(p) \/ Publish(p) \/ Verify(p)
  \/ Launch(p) \/ Finish(p) \/ Fail(p) \/ Failed(p)
  \/ Resume(p) \/ Aborted(p)
  \/ Recheck(p) \/ SwapBack(p) \/ ReadTree(p) \/ Restored(p)

Others ==
  \/ \E w \in Work : AgentCommit(w)
  \/ AgentEdit
  \/ \E b \in Branch : AgentSwitch(b)
  \/ \E rebase \in BOOLEAN : AgentBegin(rebase)
  \/ AgentResolve \/ AgentContinue \/ AgentAbort

HistoryNext ==
  \/ \E p \in Plan : Call(p) \/ Continuation(p)
  \/ Pick \/ Stop \/ End
  \/ Others
  \/ Crash

HistorySpec == HistoryInit /\ [][HistoryNext]_historyVars

-----------------------------------------------------------------------------
(* Properties *)

\* "later work is never overwritten" (history-operations.ts): a commit somebody
\* made stays on its branch, whatever plans run, fail, are taken back or are
\* interrupted.  What was made while an operation was in progress, what it was
\* begun upon unseen and what was recorded as its result go where it goes.
WorkKept ==
  [][\A b \in Branch : Works(tip[b]) \ during \subseteq Works(tip'[b])]_historyVars

\* "Reload/status must never adopt a replacement": continue, skip and abort act
\* on the operation their plan has started, whoever aborted or finished it and
\* began another one in the meantime, unless that happened during a call.
OnlyOwn ==
  [][\A p \in Plan \ doubt :
       At(p, "resume") /\ task' # task /\ native' # native => native.by = p]_historyVars

=============================================================================
