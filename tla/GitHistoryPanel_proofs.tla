--------------------- MODULE GitHistoryPanel_proofs ---------------------
(***************************************************************************)
(* Proofs about GitHistory, for any plans, branches, works of others and   *)
(* bounds: a commit of somebody else stays on its branch, a plan goes on   *)
(* with the operation it has started and no other, and what it replaces    *)
(* has a backup.                                                           *)
(*                                                                         *)
(* Proofs about GitPanel for any files, windows, pages and bounds: the     *)
(* panel shows the diff and the history it was asked for last, and never   *)
(* an older state of the repository than it has shown.                     *)
(***************************************************************************)
EXTENDS GitHistory, GitPanel, FiniteSetTheorems, TLAPS

-----------------------------------------------------------------------------
(* GitHistory: whose operation it is, and whose commits *)

Journaled == {p \in Plan : journal[p] # Nil}

\* What others have done since a plan was begun counts for it: a commit of theirs
\* is off a branch only if it was part of an operation.
Within(c, d) == Works(c) \ during \subseteq Works(d)

\* The commits that were reviewed are on their branch, and a result has no other
\* works than they.
HasResult == {"completed", "recovering"}
ResultOK(p) ==
  /\ Within(journal[p].head, tip[journal[p].ref])
  /\ journal[p].phase \in HasResult => Within(journal[p].done, journal[p].head)
ResultsOK == \A p \in Journaled : ResultOK(p)

\* What the operation in progress puts in the place of a branch.
NativeOK ==
  native # Nil =>
    /\ native.left > 0 => native.by \in Plan
    /\ IF native.rebase THEN Within(native.orig, native.head)
                        ELSE Within(tip[at], native.orig)

\* A plan is bound to what it has started.
Starts(p) == native.by = p \/ p \in doubt
BoundOK ==
  native # Nil => \A p \in Journaled : journal[p].anchor = native.id => Starts(p)

\* A call works on its own operation, or takes back its own result.
Restoring == {"recheck", "swap", "read-tree", "restored"}
TaskOK ==
  task # Nil =>
    /\ journal[task.plan] \in Journal
    /\ IF task.act = "restore"
       THEN /\ task.step \in Restoring \cup {"failed"}
            /\ journal[task.plan].phase = "recovering"
            /\ backup[task.plan] = journal[task.plan].head
       ELSE /\ task.step \notin Restoring
            /\ native # Nil => Starts(task.plan)

HistoryInv ==
  /\ HistoryTypeOK /\ IsFiniteSet(Journaled)
  /\ ResultsOK /\ NativeOK /\ BoundOK /\ TaskOK

-----------------------------------------------------------------------------
(* Commits and what is in them *)

LEMMA WorksAre ==
  ASSUME NEW c \in Commit
  PROVE  /\ Works(c) = {c[i] : i \in DOMAIN c} \cap Work
         /\ Works(c) \subseteq Work
  BY DEF Works, ToSet

\* A step of a plan brings no works with it.
LEMMA StepsAreNoWorks ==
  ASSUME NEW c \in Commit, NEW p \in Plan
  PROVE  Append(c, p) \in Commit /\ Works(Append(c, p)) = Works(c)
<1>1. Append(c, p) \in Commit
  BY DEF Commit
<1>2. p \notin Work
  BY GitHistoryAssumption
<1>3. /\ DOMAIN c = 1..Len(c) /\ Len(c) \in Nat
      /\ DOMAIN Append(c, p) = 1..(Len(c) + 1)
      /\ \A i \in 1..Len(c) : Append(c, p)[i] = c[i]
      /\ Append(c, p)[Len(c) + 1] = p
  BY DEF Commit
<1>4. {Append(c, p)[i] : i \in DOMAIN Append(c, p)} = {c[i] : i \in DOMAIN c} \cup {p}
  <2>1. \A i \in 1..(Len(c) + 1) : i \in 1..Len(c) \/ i = Len(c) + 1
    BY <1>3
  <2>2. 1..Len(c) \subseteq 1..(Len(c) + 1) /\ Len(c) + 1 \in 1..(Len(c) + 1)
    BY <1>3
  <2>3. QED
    BY <1>3, <2>1, <2>2
<1>5. QED
  BY <1>1, <1>2, <1>4, WorksAre

\* A commit of somebody else adds its own.
LEMMA WorksGrow ==
  ASSUME NEW c \in Commit, NEW w \in Work
  PROVE  Append(c, w) \in Commit /\ Works(Append(c, w)) = Works(c) \cup {w}
<1>1. Append(c, w) \in Commit
  BY DEF Commit
<1>2. /\ DOMAIN c = 1..Len(c) /\ Len(c) \in Nat
      /\ DOMAIN Append(c, w) = 1..(Len(c) + 1)
      /\ \A i \in 1..Len(c) : Append(c, w)[i] = c[i]
      /\ Append(c, w)[Len(c) + 1] = w
  BY DEF Commit
<1>3. {Append(c, w)[i] : i \in DOMAIN Append(c, w)} = {c[i] : i \in DOMAIN c} \cup {w}
  <2>1. \A i \in 1..(Len(c) + 1) : i \in 1..Len(c) \/ i = Len(c) + 1
    BY <1>2
  <2>2. 1..Len(c) \subseteq 1..(Len(c) + 1) /\ Len(c) + 1 \in 1..(Len(c) + 1)
    BY <1>2
  <2>3. QED
    BY <1>2, <2>1, <2>2
<1>4. QED
  BY <1>1, <1>3, WorksAre

\* The rest of an operation, made at once.
LEMMA WorksStay ==
  ASSUME NEW c \in Commit, NEW n \in Nat, NEW by, n > 0 => by \in Plan
  PROVE  /\ c \o [i \in 1..n |-> by] \in Commit
         /\ Works(c) \subseteq Works(c \o [i \in 1..n |-> by])
<1> DEFINE rest == [i \in 1..n |-> by]
           all == c \o rest
<1>1. rest \in Seq(Plan \cup Work) /\ Len(rest) = n
  <2>1. \A i \in 1..n : rest[i] \in Plan \cup Work
    OBVIOUS
  <2>2. rest \in [1..n -> Plan \cup Work]
    BY <2>1
  <2>3. QED
    BY <2>2
<1>2. all \in Commit
  BY <1>1 DEF Commit
<1> HIDE DEF rest
<1>3. /\ DOMAIN c = 1..Len(c) /\ Len(c) \in Nat
      /\ DOMAIN all = 1..(Len(c) + n)
      /\ \A i \in 1..Len(c) : all[i] = c[i]
  BY <1>1 DEF Commit
<1>4. 1..Len(c) \subseteq 1..(Len(c) + n)
  BY <1>3
<1> HIDE DEF all
<1>5. {c[i] : i \in DOMAIN c} \subseteq {all[i] : i \in DOMAIN all}
  BY <1>3, <1>4
<1>6. Works(c) \subseteq Works(all)
  BY <1>2, <1>5, WorksAre
<1>7. QED
  BY <1>2, <1>6 DEF all, rest

-----------------------------------------------------------------------------
(* The types *)

LEMMA FreshIsNew ==
  ASSUME IsFiniteSet(Journaled)
  PROVE  Fresh \in Nat /\ \A p \in Journaled : journal[p].anchor # Fresh
<1> DEFINE bound == {journal[q].anchor : q \in Journaled}
           anchor == [q \in Journaled |-> journal[q].anchor]
<1>1. anchor \in Surjection(Journaled, bound)
  BY DEF Surjection
<1> HIDE DEF anchor
<1>2. IsFiniteSet(bound)
  BY <1>1, FS_Surjection
<1>3. Cardinality(bound) \in Nat
  BY <1>2, FS_CardinalityType
<1>4. \E i \in 0..Cardinality(bound) : i \notin bound
  <2>1. SUFFICES ASSUME 0..Cardinality(bound) \subseteq bound PROVE FALSE
    OBVIOUS
  <2> HIDE DEF bound
  <2>2. Cardinality(0..Cardinality(bound)) <= Cardinality(bound)
    BY <1>2, <2>1, FS_Subset
  <2>3. Cardinality(0..Cardinality(bound)) = Cardinality(bound) + 1
    BY <1>3, FS_Interval
  <2>4. QED
    BY <1>3, <2>2, <2>3
<1>5. Fresh = CHOOSE i \in 0..Cardinality(bound) : i \notin bound
  BY DEF Fresh, Journaled
<1>6. Fresh \in 0..Cardinality(bound) /\ Fresh \notin bound
  <2> HIDE DEF bound
  <2>1. QED
    BY <1>4, <1>5
<1>7. Fresh \in Nat
  BY <1>3, <1>6
<1>8. QED
  BY <1>6, <1>7

LEMMA Heads ==
  ASSUME HistoryTypeOK
  PROVE  /\ HEAD \in Commit /\ tip[at] \in Commit
         /\ native # Nil => native \in Native
         /\ \A p \in Journaled : journal[p] \in Journal
  BY DEF HistoryTypeOK, HEAD, Rebasing, Native, Journaled

\* What a call does to the journal of its plan.
JournalStep(p) ==
  \E j \in Journal : journal' = [journal EXCEPT ![p] = j]

LEMMA JournalStepTypes ==
  ASSUME HistoryTypeOK, IsFiniteSet(Journaled), NEW p \in Plan, JournalStep(p)
  PROVE  journal' \in [Plan -> Journal \cup {Nil}] /\ IsFiniteSet(Journaled')
<1>1. PICK j \in Journal : journal' = [journal EXCEPT ![p] = j]
  BY DEF JournalStep
<1>2. journal' \in [Plan -> Journal \cup {Nil}]
  BY <1>1 DEF HistoryTypeOK
<1>3. Journaled' \in SUBSET (Journaled \cup {p})
  BY <1>1 DEF HistoryTypeOK, Journaled
<1>4. IsFiniteSet(Journaled \cup {p})
  BY FS_AddElement
<1>5. QED
  BY <1>2, <1>3, <1>4, FS_Subset

\* Where an operation that goes back, or to its end, leaves the branches.
LEMMA BranchTypes ==
  ASSUME HistoryTypeOK, native # Nil
  PROVE  Rewound \in [Branch -> Commit] /\ Landed \in [Branch -> Commit]
<1>1. native \in Native /\ tip \in [Branch -> Commit] /\ at \in Branch
  BY DEF HistoryTypeOK
<1>2. native.orig \in Commit /\ native.head \in Commit /\ native.ref \in Branch
  BY <1>1 DEF Native
<1>3. Rewound \in [Branch -> Commit]
  BY <1>1, <1>2 DEF Rewound
<1>4. Landed \in [Branch -> Commit]
  BY <1>1, <1>2 DEF Landed
<1>5. QED
  BY <1>3, <1>4

TaskType == [plan: Plan, act: Act, step: Step]

\* The steps a call takes keep the types.
LEMMA CallTypes ==
  ASSUME HistoryInv, NEW p \in Plan, Call(p)
  PROVE  HistoryTypeOK' /\ (UNCHANGED journal \/ JournalStep(p))
<1>1. HistoryTypeOK /\ IsFiniteSet(Journaled)
  BY DEF HistoryInv
<1>2. HEAD \in Commit /\ at \in Branch /\ Nil \notin Nat
  BY <1>1, Heads, GitHistoryAssumption DEF HistoryTypeOK
<1>3. ASSUME NEW action \in Choice[p], Preview(p, action)
      PROVE  UNCHANGED <<checkout, backup, task, outside>> /\ JournalStep(p)
  <2>1. action \in Action
    BY GitHistoryAssumption DEF Action
  <2>2. [action |-> action, phase |-> "preview", head |-> HEAD, ref |-> at,
         done |-> Nil, anchor |-> Nil] \in Journal
    BY <1>2, <2>1 DEF Journal, Phase
  <2>3. QED
    BY <1>3, <2>2 DEF Preview, JournalStep
<1>4. ASSUME NEW to \in Phase, journal[p] # Nil, Save(p, to)
      PROVE  JournalStep(p)
  <2>1. journal[p] \in Journal
    BY <1>1, <1>4, Heads DEF Journaled
  <2>2. [journal[p] EXCEPT !.phase = to] \in Journal
    BY <2>1 DEF Journal
  <2>3. journal' = [journal EXCEPT ![p] = [journal[p] EXCEPT !.phase = to]]
    BY <1>1, <1>4 DEF Save, HistoryTypeOK
  <2>4. QED
    BY <2>2, <2>3 DEF JournalStep
<1>5. ASSUME NEW act \in Act, NEW step \in Step, BeginCall(p, act, step)
      PROVE  task' \in TaskType
  BY <1>5 DEF BeginCall, TaskType
<1>6. ASSUME UNCHANGED <<checkout, backup, outside>>,
             UNCHANGED journal \/ JournalStep(p), UNCHANGED task \/ task' \in TaskType
      PROVE  HistoryTypeOK'
  <2>1. journal' \in [Plan -> Journal \cup {Nil}]
    BY <1>1, <1>6, JournalStepTypes DEF HistoryTypeOK
  <2>2. QED
    BY <1>1, <1>6, <2>1 DEF HistoryTypeOK, checkout, outside, bounds, ghosts, TaskType
<1>7. CASE \E action \in Choice[p] : Preview(p, action)
  BY <1>3, <1>6, <1>7
<1>8. CASE Cancel(p)
  BY <1>4, <1>6, <1>8 DEF Cancel, Phase
<1>9. CASE Execute(p)
  <2>1. JournalStep(p) /\ task' \in TaskType /\ UNCHANGED <<checkout, backup, outside>>
    BY <1>4, <1>5, <1>9 DEF Execute, Phase, Act, Step
  <2>2. QED
    BY <1>6, <2>1
<1>10. CASE Restore(p)
  <2>1. JournalStep(p) /\ task' \in TaskType /\ UNCHANGED <<checkout, backup, outside>>
    BY <1>4, <1>5, <1>10 DEF Restore, Phase, Act, Step
  <2>2. QED
    BY <1>6, <2>1
<1>11. CASE \E act \in Act : Recover(p, act)
  <2>1. task' \in TaskType /\ UNCHANGED <<checkout, backup, outside, journal>>
    BY <1>5, <1>11 DEF Recover, Step
  <2>2. QED
    BY <1>6, <2>1
<1>12. QED
  BY <1>7, <1>8, <1>9, <1>10, <1>11 DEF Call

\* A call that is under way has a journal.
LEMMA TaskFacts ==
  ASSUME HistoryInv, task # Nil
  PROVE  /\ task \in TaskType /\ task.plan \in Plan
         /\ journal[task.plan] \in Journal
  BY DEF HistoryInv, HistoryTypeOK, TaskOK, TaskType

LEMMA GoToTypes ==
  ASSUME HistoryTypeOK, task # Nil, NEW step \in Step, GoTo(step)
  PROVE  task' \in TaskType
  BY DEF HistoryTypeOK, TaskType, GoTo

LEMMA SaveIsStep ==
  ASSUME HistoryTypeOK, NEW p \in Plan, journal[p] \in Journal, NEW to \in Phase, Save(p, to)
  PROVE  JournalStep(p)
<1>1. [journal[p] EXCEPT !.phase = to] \in Journal
  BY DEF Journal
<1>2. journal' = [journal EXCEPT ![p] = [journal[p] EXCEPT !.phase = to]]
  BY DEF Save, HistoryTypeOK
<1>3. QED
  BY <1>1, <1>2 DEF JournalStep

LEMMA CompleteIsStep ==
  ASSUME HistoryTypeOK, NEW p \in Plan, journal[p] \in Journal, NEW c \in Commit, Complete(p, c)
  PROVE  JournalStep(p) /\ task' = Nil
<1> DEFINE j == [journal[p] EXCEPT !.phase = "completed", !.done = c]
<1>1. j \in Journal
  BY DEF Journal, Phase
<1>2. journal' = [journal EXCEPT ![p] = j] /\ task' = Nil
  BY DEF Complete, HistoryTypeOK, Done
<1>3. QED
  BY <1>1, <1>2 DEF JournalStep

LEMMA FailedIsStep ==
  ASSUME HistoryTypeOK, NEW p \in Plan, journal[p] \in Journal, Failed(p)
  PROVE  /\ task' = Nil
         /\ \E to \in {"stopped", "failed"} :
              /\ Anchor(p) \in Nat \cup {Nil}
              /\ journal' = [journal EXCEPT ![p] =
                   [journal[p] EXCEPT !.anchor = Anchor(p), !.phase = to]]
         /\ JournalStep(p)
<1>1. Anchor(p) \in Nat \cup {Nil}
  BY Heads DEF Anchor, Native, Journal
<1> DEFINE j(to) == [journal[p] EXCEPT !.anchor = Anchor(p), !.phase = to]
<1>2. task' = Nil /\ \E to \in {"stopped", "failed"} : journal' = [journal EXCEPT ![p] = j(to)]
  BY DEF Failed, HistoryTypeOK, Done
<1>3. \A to \in {"stopped", "failed"} : j(to) \in Journal
  BY <1>1 DEF Journal, Phase
<1>4. QED
  BY <1>1, <1>2, <1>3 DEF JournalStep

\* So do the steps of a call that is under way.
LEMMA ContinuationTypes ==
  ASSUME HistoryInv, NEW p \in Plan, Continuation(p)
  PROVE  HistoryTypeOK' /\ (UNCHANGED journal \/ JournalStep(p))
<1>1. HistoryTypeOK /\ IsFiniteSet(Journaled) /\ TaskOK
  BY DEF HistoryInv
<1>2. task # Nil /\ task.plan = p
  BY DEF Continuation, KeepBackup, Check, Publish, Verify, Launch, Finish, Fail, Failed,
         Resume, Aborted, Recheck, SwapBack, ReadTree, Restored, At
<1>3. journal[p] \in Journal /\ task \in TaskType
  BY <1>2, TaskFacts
<1>4. /\ journal[p].head \in Commit /\ journal[p].ref \in Branch
      /\ Rewritten(p) \in Commit /\ HEAD \in Commit /\ tip[at] \in Commit
  BY <1>1, <1>3, Heads, StepsAreNoWorks DEF Journal, Rewritten
<1>5. ASSUME UNCHANGED journal \/ JournalStep(p),
             tip' \in [Branch -> Commit], native' \in Native \cup {Nil},
             files' \in {"clean", "moved", "edited"}, backup' \in [Plan -> Commit \cup {Nil}],
             task' \in TaskType \cup {Nil}, during' \subseteq Work,
             UNCHANGED <<at, bounds, doubt>>
      PROVE  HistoryTypeOK'
  <2>1. journal' \in [Plan -> Journal \cup {Nil}]
    BY <1>1, <1>5, JournalStepTypes DEF HistoryTypeOK
  <2>2. at' \in Branch /\ agentSteps' \in 0..MaxAgent /\ crashes' \in 0..MaxCrash /\ doubt' \subseteq Plan
    BY <1>1, <1>5 DEF HistoryTypeOK, bounds
  <2>3. QED
    BY <1>5, <2>1, <2>2 DEF HistoryTypeOK, TaskType
<1>6. ASSUME UNCHANGED journal \/ JournalStep(p), NEW step \in Step, GoTo(step) \/ task' = Nil,
             UNCHANGED <<checkout, backup, bounds, doubt>>, during' \subseteq Work
      PROVE  HistoryTypeOK'
  <2>1. task' \in TaskType \cup {Nil}
    BY <1>1, <1>2, <1>6, GoToTypes
  <2>2. /\ tip' \in [Branch -> Commit] /\ native' \in Native \cup {Nil}
        /\ files' \in {"clean", "moved", "edited"} /\ backup' \in [Plan -> Commit \cup {Nil}]
        /\ UNCHANGED at
    BY <1>1, <1>6 DEF HistoryTypeOK, checkout
  <2>3. QED
    BY <1>5, <1>6, <2>1, <2>2
<1>7. during \subseteq Work
  BY <1>1 DEF HistoryTypeOK
<1>8. CASE KeepBackup(p)
  <2>1. \E step \in Step : GoTo(step)
    BY <1>8 DEF KeepBackup, Step
  <2>2. task' \in TaskType
    BY <1>1, <1>2, <2>1, GoToTypes
  <2>3. backup' \in [Plan -> Commit \cup {Nil}]
    BY <1>1, <1>4, <1>8 DEF KeepBackup, HistoryTypeOK
  <2>4. /\ UNCHANGED <<tip, native, files, journal, at, bounds, doubt, during>>
    BY <1>8 DEF KeepBackup, checkout, outside, ghosts
  <2>5. QED
    BY <1>1, <1>5, <2>2, <2>3, <2>4 DEF HistoryTypeOK
<1>9. CASE Check(p) \/ Fail(p) \/ Recheck(p)
  <2>1. \E step \in Step : GoTo(step)
    BY <1>9 DEF Check, Fail, Recheck, Step
  <2>2. UNCHANGED <<checkout, backup, bounds, doubt, during, journal>>
    BY <1>9 DEF Check, Fail, Recheck, outside, ghosts
  <2>3. QED
    BY <1>6, <1>7, <2>1, <2>2
<1>10. CASE Publish(p)
  <2>1. \E step \in Step : GoTo(step)
    BY <1>10 DEF Publish, Step
  <2>2. task' \in TaskType
    BY <1>1, <1>2, <2>1, GoToTypes
  <2>3. tip' \in [Branch -> Commit]
    BY <1>1, <1>4, <1>10 DEF Publish, Swap, HistoryTypeOK
  <2>4. UNCHANGED <<native, files, journal, backup, at, bounds, doubt, during>>
    BY <1>10 DEF Publish, outside, ghosts
  <2>5. QED
    BY <1>1, <1>5, <2>2, <2>3, <2>4 DEF HistoryTypeOK
<1>11. CASE Verify(p)
  <2>1. UNCHANGED <<checkout, backup, bounds, doubt, during>>
    BY <1>11 DEF Verify, outside, ghosts
  <2>2. CASE Complete(p, Rewritten(p))
    BY <1>1, <1>3, <1>4, <1>6, <1>7, <2>1, <2>2, CompleteIsStep DEF Step
  <2>3. CASE GoTo("failed") /\ UNCHANGED journal
    BY <1>6, <1>7, <2>1, <2>3 DEF Step
  <2>4. QED
    BY <1>11, <2>2, <2>3 DEF Verify
<1>12. CASE Launch(p)
  <2>1. \E step \in Step : GoTo(step)
    BY <1>12 DEF Launch, Step
  <2>2. task' \in TaskType
    BY <1>1, <1>2, <2>1, GoToTypes
  <2>3. [id |-> Fresh, by |-> p, rebase |-> Rewrites(p), orig |-> tip[at], ref |-> at,
         head |-> IF Rewrites(p) THEN journal[p].head ELSE tip[at],
         left |-> Steps, stuck |-> FALSE, busy |-> TRUE] \in Native
    <3>1. Fresh \in Nat /\ Steps \in 0..Steps /\ at \in Branch /\ Rewrites(p) \in BOOLEAN
      BY <1>1, FreshIsNew, GitHistoryAssumption DEF HistoryTypeOK, Rewrites
    <3>2. QED
      BY <1>4, <3>1 DEF Native
  <2>4. native' \in Native \cup {Nil} /\ during' \subseteq Work
    <3>1. Works(tip[at]) \subseteq Work
      BY <1>4, WorksAre
    <3>2. QED
      BY <1>1, <1>7, <1>12, <2>3, <3>1 DEF Launch, HistoryTypeOK
  <2>5. UNCHANGED <<tip, files, journal, backup, at, bounds, doubt>>
    BY <1>12 DEF Launch
  <2>6. QED
    BY <1>1, <1>5, <2>2, <2>4, <2>5 DEF HistoryTypeOK
<1>13. CASE Finish(p)
  <2>1. UNCHANGED <<checkout, backup, bounds, doubt>>
    BY <1>13 DEF Finish
  <2>2. CASE Complete(p, HEAD) /\ during' = during \cup (Works(HEAD) \ Works(journal[p].head))
    <3>1. Works(HEAD) \subseteq Work
      BY <1>4, WorksAre
    <3>2. QED
      BY <1>1, <1>3, <1>4, <1>6, <1>7, <2>1, <2>2, <3>1, CompleteIsStep DEF Step
  <2>3. CASE GoTo("failed") /\ UNCHANGED <<journal, during>>
    BY <1>6, <1>7, <2>1, <2>3 DEF Step
  <2>4. QED
    BY <1>13, <2>2, <2>3 DEF Finish
<1>14. CASE Failed(p)
  <2>1. UNCHANGED <<checkout, backup, bounds, doubt, during>>
    BY <1>14 DEF Failed, outside, ghosts
  <2>2. QED
    BY <1>1, <1>3, <1>6, <1>7, <1>14, <2>1, FailedIsStep DEF Step
<1>15. CASE Resume(p)
  <2>1. \E step \in Step : GoTo(step)
    BY <1>15 DEF Resume, Step
  <2>2. task' \in TaskType
    BY <1>1, <1>2, <2>1, GoToTypes
  <2>3. UNCHANGED <<journal, backup, at, bounds, doubt, during>>
    BY <1>15 DEF Resume, outside, ghosts
  <2>4. CASE UNCHANGED <<tip, files, native>>
    BY <1>1, <1>5, <2>2, <2>3, <2>4 DEF HistoryTypeOK
  <2>5. CASE native # Nil /\ tip' = Rewound /\ native' = Nil /\ files' = "clean"
    BY <1>1, <1>5, <2>2, <2>3, <2>5, BranchTypes DEF HistoryTypeOK
  <2>6. CASE /\ native # Nil /\ UNCHANGED <<tip, files>>
             /\ native' = [native EXCEPT !.busy = TRUE, !.stuck = FALSE,
                             !.left = IF task.act = "skip" /\ @ > 0 THEN @ - 1 ELSE @]
    <3>1. native \in Native /\ Steps \in Nat
      BY <1>1, <2>6, Heads, GitHistoryAssumption
    <3>2. native.left > 0 => native.left - 1 \in 0..Steps
      BY <3>1 DEF Native
    <3>3. native' \in Native
      BY <2>6, <3>1, <3>2 DEF Native
    <3>4. QED
      BY <1>1, <1>5, <2>2, <2>3, <2>6, <3>3 DEF HistoryTypeOK
  <2>7. QED
    BY <1>15, <2>4, <2>5, <2>6 DEF Resume
<1>16. CASE Aborted(p)
  <2>1. UNCHANGED <<checkout, backup, bounds, doubt, during>>
    BY <1>16 DEF Aborted, outside, ghosts
  <2>2. CASE Save(p, "aborted") /\ Done
    BY <1>1, <1>3, <1>6, <1>7, <2>1, <2>2, SaveIsStep DEF Step, Phase, Done
  <2>3. CASE GoTo("failed") /\ UNCHANGED journal
    BY <1>6, <1>7, <2>1, <2>3 DEF Step
  <2>4. QED
    BY <1>16, <2>2, <2>3 DEF Aborted
<1>17. CASE SwapBack(p)
  <2>1. \E step \in Step : GoTo(step)
    BY <1>17 DEF SwapBack, Step
  <2>2. task' \in TaskType
    BY <1>1, <1>2, <2>1, GoToTypes
  <2>3. backup[p] \in Commit
    <3>1. task.act = "restore"
      BY <1>1, <1>2, <1>17 DEF TaskOK, SwapBack, At, Restoring
    <3>2. QED
      BY <1>1, <1>2, <1>4, <3>1 DEF TaskOK
  <2>4. tip' \in [Branch -> Commit] /\ files' \in {"clean", "moved", "edited"}
    BY <1>1, <1>4, <1>17, <2>3 DEF SwapBack, Swap, HistoryTypeOK
  <2>5. UNCHANGED <<native, journal, backup, at, bounds, doubt, during>>
    BY <1>17 DEF SwapBack, outside, ghosts
  <2>6. QED
    BY <1>1, <1>5, <2>2, <2>4, <2>5 DEF HistoryTypeOK
<1>18. CASE ReadTree(p)
  <2>1. \E step \in Step : GoTo(step)
    BY <1>18 DEF ReadTree, Step
  <2>2. task' \in TaskType
    BY <1>1, <1>2, <2>1, GoToTypes
  <2>3. /\ UNCHANGED <<tip, native, journal, backup, at, bounds, doubt, during>>
        /\ files' \in {"clean", "moved", "edited"}
    BY <1>1, <1>18 DEF ReadTree, outside, ghosts, HistoryTypeOK
  <2>4. QED
    BY <1>1, <1>5, <2>2, <2>3 DEF HistoryTypeOK
<1>19. CASE Restored(p)
  <2>1. UNCHANGED <<checkout, backup, bounds, doubt, during>>
    BY <1>19 DEF Restored, outside, ghosts
  <2>2. CASE Save(p, "recovered") /\ Done
    BY <1>1, <1>3, <1>6, <1>7, <2>1, <2>2, SaveIsStep DEF Step, Phase, Done
  <2>3. CASE GoTo("failed") /\ UNCHANGED journal
    BY <1>6, <1>7, <2>1, <2>3 DEF Step
  <2>4. QED
    BY <1>19, <2>2, <2>3 DEF Restored
<1>20. UNCHANGED journal \/ JournalStep(p)
  <2>1. CASE Verify(p)
    BY <1>1, <1>3, <1>4, <2>1, CompleteIsStep DEF Verify
  <2>2. CASE Finish(p)
    BY <1>1, <1>3, <1>4, <2>2, CompleteIsStep DEF Finish
  <2>3. CASE Failed(p)
    BY <1>1, <1>3, <2>3, FailedIsStep
  <2>4. CASE Aborted(p) \/ Restored(p)
    BY <1>1, <1>3, <2>4, SaveIsStep DEF Aborted, Restored, Phase
  <2>5. QED
    BY <2>1, <2>2, <2>3, <2>4 DEF Continuation, KeepBackup, Check, Publish, Launch, Fail,
       Resume, Recheck, SwapBack, ReadTree
<1>21. QED
  BY <1>8, <1>9, <1>10, <1>11, <1>12, <1>13, <1>14, <1>15, <1>16, <1>17, <1>18, <1>19, <1>20
  DEF Continuation

\* Git, agents and crashes leave the journals alone.
LEMMA OtherTypes ==
  ASSUME HistoryInv, Pick \/ Stop \/ End \/ Others \/ Crash
  PROVE  HistoryTypeOK' /\ UNCHANGED <<journal, backup>>
<1>1. HistoryTypeOK /\ IsFiniteSet(Journaled) /\ NativeOK
  BY DEF HistoryInv
<1>2. UNCHANGED <<journal, backup>>
  BY DEF Pick, Stop, End, Crash, Others, AgentCommit, AgentEdit, AgentSwitch, AgentBegin,
     AgentResolve, AgentContinue, AgentAbort, Agent
<1>3. HEAD \in Commit /\ at \in Branch /\ (native # Nil => native \in Native)
  BY <1>1, Heads DEF HistoryTypeOK
<1> DEFINE Tips == [Branch -> Commit]
           Checkouts == {"clean", "moved", "edited"}
           Few == 0..MaxAgent
           Rare == 0..MaxCrash
<1>4. ASSUME tip' \in Tips, at' \in Branch, native' \in Native \cup {Nil},
             files' \in Checkouts, task' \in TaskType \cup {Nil},
             agentSteps' \in Few, crashes' \in Rare,
             during' \subseteq Work, doubt' \subseteq Plan
      PROVE  HistoryTypeOK'
  BY <1>1, <1>2, <1>4 DEF HistoryTypeOK, TaskType
<1>5. /\ tip \in Tips /\ at \in Branch /\ native \in Native \cup {Nil}
      /\ files \in Checkouts /\ task \in TaskType \cup {Nil}
      /\ agentSteps \in Few /\ crashes \in Rare /\ "clean" \in Checkouts /\ "edited" \in Checkouts
      /\ during \subseteq Work /\ doubt \subseteq Plan
  BY <1>1 DEF HistoryTypeOK, TaskType
<1> HIDE DEF Tips, Checkouts, Few, Rare
<1>6. ASSUME NEW step \in Step, Hear(step)
      PROVE  task' \in TaskType \cup {Nil}
  BY <1>5, <1>6 DEF Hear, TaskType
<1>7. CASE Pick
  <2>1. native \in Native /\ native.left > 0 /\ native.by \in Plan /\ native # Nil
    BY <1>1, <1>3, <1>7 DEF Pick, NativeOK
  <2>2. Append(HEAD, native.by) \in Commit
    BY <1>3, <2>1, StepsAreNoWorks
  <2>3. native.left - 1 \in 0..Steps
    BY <2>1, GitHistoryAssumption DEF Native
  <2>4. native' \in Native /\ tip' \in Tips
    BY <1>5, <1>7, <2>1, <2>2, <2>3 DEF Pick, Native, Tips
  <2>5. UNCHANGED <<at, files, task, bounds, ghosts>>
    BY <1>7 DEF Pick, outside
  <2>6. QED
    BY <1>2, <1>4, <1>5, <2>4, <2>5 DEF bounds, ghosts
<1>8. CASE Stop
  <2>1. native' \in Native /\ task' \in TaskType \cup {Nil}
    BY <1>3, <1>6, <1>8 DEF Stop, Native, Step
  <2>2. UNCHANGED <<tip, at, files, bounds, ghosts>>
    BY <1>8 DEF Stop, outside
  <2>3. QED
    BY <1>2, <1>4, <1>5, <2>1, <2>2 DEF bounds, ghosts
<1>9. CASE End
  <2>1. tip' \in Tips /\ native' = Nil
    BY <1>1, <1>9, BranchTypes DEF End, Tips
  <2>2. \E step \in {"failed", "finish"} : Hear(step)
    BY <1>9 DEF End
  <2>3. task' \in TaskType \cup {Nil}
    BY <1>6, <2>2 DEF Step
  <2>4. UNCHANGED <<at, files, bounds, ghosts>>
    BY <1>9 DEF End, outside
  <2>5. QED
    BY <1>2, <1>4, <1>5, <2>1, <2>3, <2>4 DEF bounds, ghosts
<1>10. CASE Crash
  <2>1. task' = Nil /\ crashes' \in Rare
    BY <1>5, <1>10, GitHistoryAssumption DEF Crash, Rare
  <2>2. UNCHANGED <<tip, at, files, native, agentSteps, during, doubt>>
    BY <1>10 DEF Crash, checkout, ghosts
  <2>3. QED
    BY <1>2, <1>4, <1>5, <2>1, <2>2
<1>11. ASSUME Agent
       PROVE  agentSteps' \in Few /\ UNCHANGED <<task, crashes>>
  BY <1>5, <1>11, GitHistoryAssumption DEF Agent, Few
<1>12. ASSUME NEW w \in Work, AgentCommit(w)
       PROVE  HistoryTypeOK'
  <2>1. Agent /\ files' = "clean" /\ UNCHANGED <<at, doubt>>
    BY <1>12 DEF AgentCommit
  <2>2. Append(HEAD, w) \in Commit
    BY <1>3, WorksGrow
  <2>3. tip' \in Tips /\ native' \in Native \cup {Nil}
    BY <1>3, <1>5, <1>12, <2>2 DEF AgentCommit, Rebasing, Native, Tips
  <2>4. during' \subseteq Work
    BY <1>5, <1>12 DEF AgentCommit
  <2>5. QED
    BY <1>4, <1>5, <1>11, <2>1, <2>3, <2>4
<1>13. CASE AgentEdit
  BY <1>2, <1>4, <1>5, <1>11, <1>13 DEF AgentEdit
<1>14. ASSUME NEW b \in Branch, AgentSwitch(b)
       PROVE  HistoryTypeOK'
  BY <1>4, <1>5, <1>11, <1>14 DEF AgentSwitch
<1>15. ASSUME NEW rebase \in BOOLEAN, AgentBegin(rebase)
       PROVE  HistoryTypeOK'
  <2>1. Fresh \in Nat /\ tip[at] \in Commit /\ 0 \in 0..Steps
    BY <1>1, <1>5, FreshIsNew, GitHistoryAssumption DEF Tips
  <2>2. native' \in Native
    BY <1>5, <1>15, <2>1 DEF AgentBegin, Native
  <2>3. doubt' \subseteq Plan
    BY <1>5, <1>15 DEF AgentBegin, TaskType
  <2>4. QED
    BY <1>4, <1>5, <1>11, <1>15, <2>2, <2>3 DEF AgentBegin
<1>16. CASE AgentResolve
  <2>1. native' \in Native
    BY <1>3, <1>16 DEF AgentResolve, Native
  <2>2. QED
    BY <1>2, <1>4, <1>5, <1>11, <1>16, <2>1 DEF AgentResolve
<1>17. CASE AgentContinue
  <2>1. native \in Native /\ native.left \in Nat /\ (native.left > 0 => native.by \in Plan)
    BY <1>1, <1>3, <1>17 DEF AgentContinue, NativeOK, Native
  <2>2. HEAD \o [i \in 1..native.left |-> native.by] \in Commit
    BY <1>3, <2>1, WorksStay
  <2>3. tip' \in Tips
    BY <1>5, <1>17, <2>1, <2>2 DEF AgentContinue, Native, Tips
  <2>4. QED
    BY <1>2, <1>4, <1>5, <1>11, <1>17, <2>3 DEF AgentContinue
<1>18. CASE AgentAbort
  BY <1>1, <1>2, <1>4, <1>5, <1>11, <1>18, BranchTypes DEF AgentAbort, Tips
<1>19. QED
  BY <1>2, <1>7, <1>8, <1>9, <1>10, <1>12, <1>13, <1>14, <1>15, <1>16, <1>17, <1>18 DEF Others

LEMMA TypesStay ==
  ASSUME HistoryInv, [HistoryNext]_historyVars
  PROVE  HistoryTypeOK' /\ IsFiniteSet(Journaled')
<1>1. HistoryTypeOK /\ IsFiniteSet(Journaled)
  BY DEF HistoryInv
<1>2. CASE \E p \in Plan : Call(p) \/ Continuation(p)
  <2>1. PICK p \in Plan : Call(p) \/ Continuation(p)
    BY <1>2
  <2>2. HistoryTypeOK' /\ (UNCHANGED journal \/ JournalStep(p))
    BY <2>1, CallTypes, ContinuationTypes
  <2>3. UNCHANGED journal => Journaled' = Journaled
    BY DEF Journaled
  <2>4. QED
    BY <1>1, <2>2, <2>3, JournalStepTypes
<1>3. CASE Pick \/ Stop \/ End \/ Others \/ Crash
  <2>1. HistoryTypeOK' /\ UNCHANGED journal
    BY <1>3, OtherTypes
  <2>2. Journaled' = Journaled
    BY <2>1 DEF Journaled
  <2>3. QED
    BY <1>1, <2>1, <2>2
<1>4. CASE UNCHANGED historyVars
  BY <1>1, <1>4 DEF historyVars, checkout, bounds, ghosts, HistoryTypeOK, Journaled
<1>5. QED
  BY <1>2, <1>3, <1>4 DEF HistoryNext

-----------------------------------------------------------------------------
(* The commits of others *)

\* No operation that ends takes a commit of others off its branch.
LEMMA OperationsKeep ==
  ASSUME HistoryInv, native # Nil, NEW b \in Branch
  PROVE  Within(tip[b], Rewound[b]) /\ Within(tip[b], Landed[b])
<1>1. HistoryTypeOK /\ NativeOK /\ native \in Native
  BY Heads DEF HistoryInv
<1>2. tip \in [Branch -> Commit] /\ at \in Branch /\ native.rebase \in BOOLEAN
  BY <1>1 DEF HistoryTypeOK, Native
<1>3. Within(tip[b], tip[b])
  BY DEF Within
<1>4. Within(tip[b], Rewound[b])
  <2>1. CASE Rewound = tip
    BY <1>3, <2>1
  <2>2. CASE ~native.rebase /\ Rewound = [tip EXCEPT ![at] = native.orig]
    <3>1. Within(tip[at], native.orig)
      BY <1>1, <2>2 DEF NativeOK
    <3>2. Rewound[b] = IF b = at THEN native.orig ELSE tip[b]
      BY <1>2, <2>2
    <3>3. QED
      BY <1>3, <3>1, <3>2
  <2>3. QED
    BY <2>1, <2>2 DEF Rewound
<1>5. Within(tip[b], Landed[b])
  <2>1. CASE Landed = tip
    BY <1>3, <2>1
  <2>2. CASE /\ native.rebase /\ tip[native.ref] = native.orig
             /\ Landed = [tip EXCEPT ![native.ref] = native.head]
    <3>1. Within(native.orig, native.head)
      BY <1>1, <2>2 DEF NativeOK
    <3>2. Landed[b] = IF b = native.ref THEN native.head ELSE tip[b]
      BY <1>2, <2>2
    <3>3. QED
      BY <1>3, <2>2, <3>1, <3>2
  <2>3. QED
    BY <2>1, <2>2 DEF Landed
<1>6. QED
  BY <1>4, <1>5

BranchesKeep == \A b \in Branch : Within(tip[b], tip'[b])

LEMMA SameKeeps ==
  ASSUME UNCHANGED tip
  PROVE  BranchesKeep
  BY DEF BranchesKeep, Within

\* One branch moves.
LEMMA MoveKeeps ==
  ASSUME HistoryTypeOK, NEW b \in Branch, NEW c, tip' = [tip EXCEPT ![b] = c], Within(tip[b], c)
  PROVE  BranchesKeep
<1>1. \A d \in Branch : tip'[d] = IF d = b THEN c ELSE tip[d]
  BY DEF HistoryTypeOK
<1>2. \A d \in Branch : Within(tip[d], tip[d])
  BY DEF Within
<1>3. QED
  BY <1>1, <1>2 DEF BranchesKeep

\* What every step does to the works on a branch: this is WorkKept.
LEMMA EveryStepKeeps ==
  ASSUME HistoryInv, [HistoryNext]_historyVars
  PROVE  BranchesKeep /\ during \subseteq during'
<1>1. HistoryTypeOK /\ ResultsOK /\ NativeOK /\ TaskOK
  BY DEF HistoryInv
<1>2. HEAD \in Commit /\ tip[at] \in Commit /\ tip \in [Branch -> Commit] /\ at \in Branch
  BY <1>1, Heads DEF HistoryTypeOK
<1>3. \A c \in Commit, p \in Plan : Within(c, Append(c, p))
  BY StepsAreNoWorks DEF Within
<1>4. \A c \in Commit, w \in Work : Within(c, Append(c, w))
  BY WorksGrow DEF Within
<1>5. ASSUME NEW p \in Plan, Call(p)
      PROVE  BranchesKeep /\ during \subseteq during'
  <2>1. UNCHANGED <<tip, during>>
    BY <1>5 DEF Call, Preview, Cancel, Execute, Restore, Recover, checkout, outside, ghosts
  <2>2. QED
    BY <2>1, SameKeeps
<1>6. ASSUME NEW p \in Plan, Publish(p)
      PROVE  BranchesKeep /\ during \subseteq during'
  <2>1. journal[p] \in Journal /\ UNCHANGED during
    BY <1>6, TaskFacts DEF Publish, At, outside, ghosts
  <2>2. journal[p].head \in Commit /\ journal[p].ref \in Branch
    BY <2>1 DEF Journal
  <2>3. CASE Swap(journal[p].ref, journal[p].head, Rewritten(p))
    BY <1>1, <1>3, <2>1, <2>2, <2>3, MoveKeeps DEF Swap, Rewritten
  <2>4. QED
    BY <1>6, <2>1, <2>3, SameKeeps DEF Publish
<1>7. ASSUME NEW p \in Plan, SwapBack(p)
      PROVE  BranchesKeep /\ during \subseteq during'
  <2>1. journal[p] \in Journal /\ task # Nil /\ task.plan = p /\ UNCHANGED during
    BY <1>7, TaskFacts DEF SwapBack, At, outside, ghosts
  <2>2. journal[p].ref \in Branch
    BY <2>1 DEF Journal
  <2>3. journal[p].phase = "recovering" /\ backup[p] = journal[p].head
    BY <1>1, <1>7, <2>1 DEF SwapBack, At, TaskOK, Restoring
  <2>4. p \in Journaled
    BY <2>1, GitHistoryAssumption DEF Journaled
  <2>5. Within(journal[p].done, backup[p])
    BY <1>1, <2>3, <2>4 DEF ResultsOK, ResultOK, HasResult
  <2>6. CASE Swap(journal[p].ref, journal[p].done, backup[p])
    BY <1>1, <2>1, <2>2, <2>5, <2>6, MoveKeeps DEF Swap
  <2>7. QED
    BY <1>7, <2>1, <2>6, SameKeeps DEF SwapBack
<1>8. ASSUME NEW p \in Plan, Resume(p)
      PROVE  BranchesKeep /\ during \subseteq during'
  <2>1. UNCHANGED during
    BY <1>8 DEF Resume, outside, ghosts
  <2>2. CASE native # Nil /\ tip' = Rewound
    BY <2>1, <2>2, OperationsKeep DEF BranchesKeep
  <2>3. QED
    BY <1>8, <2>1, <2>2, SameKeeps DEF Resume
<1>9. ASSUME NEW p \in Plan, Continuation(p), ~Publish(p), ~SwapBack(p), ~Resume(p)
      PROVE  BranchesKeep /\ during \subseteq during'
  <2>1. UNCHANGED tip /\ during \subseteq during'
    BY <1>9 DEF Continuation, KeepBackup, Check, Verify, Launch, Finish, Fail, Failed, Aborted,
       Recheck, ReadTree, Restored, checkout, outside, ghosts
  <2>2. QED
    BY <2>1, SameKeeps
<1>10. CASE Pick
  <2>1. native.left > 0 /\ native # Nil /\ UNCHANGED during
    BY <1>10 DEF Pick, outside, ghosts
  <2>2. native.by \in Plan
    BY <1>1, <2>1 DEF NativeOK
  <2>3. tip' = IF native.rebase THEN tip ELSE [tip EXCEPT ![at] = Append(HEAD, native.by)]
    BY <1>10 DEF Pick
  <2>4. CASE ~native.rebase
    <3>1. HEAD = tip[at]
      BY <2>4 DEF HEAD, Rebasing
    <3>2. Within(tip[at], Append(HEAD, native.by))
      BY <1>2, <1>3, <2>2, <3>1
    <3>3. QED
      BY <1>1, <1>2, <2>1, <2>3, <2>4, <3>2, MoveKeeps
  <2>5. QED
    BY <2>1, <2>3, <2>4, SameKeeps
<1>11. CASE End
  <2>1. native # Nil /\ tip' = Landed /\ UNCHANGED during
    BY <1>11 DEF End, outside, ghosts
  <2>2. QED
    BY <2>1, OperationsKeep DEF BranchesKeep
<1>12. ASSUME NEW w \in Work, AgentCommit(w)
       PROVE  BranchesKeep /\ during \subseteq during'
  <2>1. during \subseteq during'
    BY <1>12 DEF AgentCommit
  <2>2. CASE Rebasing
    BY <1>12, <2>1, <2>2, SameKeeps DEF AgentCommit
  <2>3. CASE ~Rebasing
    <3>1. HEAD = tip[at] /\ tip' = [tip EXCEPT ![at] = Append(HEAD, w)]
      BY <1>12, <2>3 DEF AgentCommit, HEAD
    <3>2. Within(tip[at], Append(HEAD, w))
      BY <1>2, <1>4, <3>1
    <3>3. QED
      BY <1>1, <1>2, <2>1, <3>1, <3>2, MoveKeeps
  <2>4. QED
    BY <2>2, <2>3
<1>13. CASE AgentContinue
  <2> DEFINE rest == [i \in 1..native.left |-> native.by]
             head == HEAD \o rest
  <2>1. native # Nil /\ UNCHANGED during /\ native \in Native
    BY <1>1, <1>13, Heads DEF AgentContinue
  <2>2. native.left \in Nat /\ native.ref \in Branch /\ (native.left > 0 => native.by \in Plan)
    BY <1>1, <2>1 DEF NativeOK, Native
  <2>3. Works(HEAD) \subseteq Works(head)
    BY <1>2, <2>2, WorksStay
  <2>4. tip' = IF ~native.rebase THEN [tip EXCEPT ![at] = head]
               ELSE IF tip[native.ref] = native.orig
                    THEN [tip EXCEPT ![native.ref] = head] ELSE tip
    BY <1>13 DEF AgentContinue
  <2> HIDE DEF head
  <2>5. CASE ~native.rebase
    <3>1. HEAD = tip[at]
      BY <2>5 DEF HEAD, Rebasing
    <3>2. Within(tip[at], head)
      BY <2>3, <3>1 DEF Within
    <3>3. QED
      BY <1>1, <1>2, <2>1, <2>4, <2>5, <3>2, MoveKeeps
  <2>6. CASE native.rebase /\ tip[native.ref] = native.orig
    <3>1. HEAD = native.head
      BY <2>1, <2>6 DEF HEAD, Rebasing
    <3>2. Within(native.orig, native.head)
      BY <1>1, <2>1, <2>6 DEF NativeOK
    <3>3. Within(tip[native.ref], head)
      BY <2>3, <2>6, <3>1, <3>2 DEF Within
    <3>4. QED
      BY <1>1, <2>1, <2>2, <2>4, <2>6, <3>3, MoveKeeps
  <2>7. QED
    BY <2>1, <2>4, <2>5, <2>6, SameKeeps
<1>14. CASE AgentAbort
  <2>1. native # Nil /\ tip' = Rewound /\ UNCHANGED during
    BY <1>14 DEF AgentAbort
  <2>2. QED
    BY <2>1, OperationsKeep DEF BranchesKeep
<1>15. CASE \/ Stop \/ Crash \/ AgentEdit \/ AgentResolve \/ (\E b \in Branch : AgentSwitch(b))
            \/ (\E rebase \in BOOLEAN : AgentBegin(rebase)) \/ UNCHANGED historyVars
  <2>1. UNCHANGED <<tip, during>>
    BY <1>15 DEF Stop, Crash, AgentEdit, AgentResolve, AgentSwitch, AgentBegin, outside, ghosts,
       checkout, historyVars
  <2>2. QED
    BY <2>1, SameKeeps
<1>16. QED
  BY <1>5, <1>6, <1>7, <1>8, <1>9, <1>10, <1>11, <1>12, <1>13, <1>14, <1>15 DEF HistoryNext, Others

\* The journal of q still tells what it told of the result.
Remembers(q) ==
  /\ q \in Journaled /\ journal'[q] \in Journal
  /\ journal'[q].head = journal[q].head /\ journal'[q].ref = journal[q].ref
  /\ journal'[q].phase \in HasResult =>
       journal[q].phase \in HasResult /\ journal'[q].done = journal[q].done

LEMMA RemembersOK ==
  ASSUME HistoryInv, BranchesKeep, during \subseteq during', NEW q \in Plan, Remembers(q)
  PROVE  ResultOK(q)'
<1>1. journal[q] \in Journal /\ ResultOK(q)
  BY Heads DEF HistoryInv, ResultsOK, Remembers
<1>2. journal[q].ref \in Branch
  BY <1>1 DEF Journal
<1>3. Within(journal[q].head, tip[journal[q].ref])
  BY <1>1 DEF ResultOK
<1>4. Within(tip[journal[q].ref], tip'[journal[q].ref])
  BY <1>2 DEF BranchesKeep
<1>5. Works(journal[q].head) \ during' \subseteq Works(tip'[journal[q].ref])
  BY <1>3, <1>4 DEF Within
<1>6. journal[q].phase \in HasResult =>
        Works(journal[q].done) \ during' \subseteq Works(journal[q].head)
  BY <1>1 DEF ResultOK, Within
<1>7. /\ Works(journal'[q].head) \ during' \subseteq Works(tip'[journal'[q].ref])
      /\ journal'[q].phase \in HasResult =>
           Works(journal'[q].done) \ during' \subseteq Works(journal'[q].head)
  BY <1>5, <1>6 DEF Remembers
<1>8. QED
  BY <1>7 DEF ResultOK, Within, Works, HasResult

\* A result that is recorded is one that was reviewed.
LEMMA CompleteOK ==
  ASSUME HistoryInv, BranchesKeep, during \subseteq during', NEW p \in Plan, journal[p] \in Journal,
         NEW c \in Commit, Complete(p, c), Works(c) \ during' \subseteq Works(journal[p].head)
  PROVE  ResultOK(p)'
<1>1. HistoryTypeOK /\ p \in Journaled
  BY GitHistoryAssumption DEF HistoryInv, Journaled
<1>2. /\ journal'[p].head = journal[p].head /\ journal'[p].ref = journal[p].ref
      /\ journal'[p].done = c
  <2>1. journal'[p] = [journal[p] EXCEPT !.phase = "completed", !.done = c]
    BY <1>1 DEF Complete, HistoryTypeOK
  <2>2. QED
    BY <2>1 DEF Journal
<1>3. Within(journal[p].head, tip[journal[p].ref]) /\ journal[p].ref \in Branch
  BY <1>1 DEF HistoryInv, ResultsOK, ResultOK, Journal
<1>4. Within(tip[journal[p].ref], tip'[journal[p].ref])
  BY <1>3 DEF BranchesKeep
<1>5. Works(journal'[p].head) \ during' \subseteq Works(tip'[journal'[p].ref])
  BY <1>2, <1>3, <1>4 DEF Within
<1>6. Works(journal'[p].done) \ during' \subseteq Works(journal'[p].head)
  BY <1>2
<1>7. QED
  BY <1>5, <1>6 DEF ResultOK, Within, Works

LEMMA SaveRemembers ==
  ASSUME HistoryInv, NEW p \in Plan, journal[p] \in Journal, NEW to \in Phase, Save(p, to),
         to \in HasResult => journal[p].phase \in HasResult
  PROVE  Remembers(p)
<1>1. HistoryTypeOK /\ p \in Journaled
  BY GitHistoryAssumption DEF HistoryInv, Journaled
<1>2. journal'[p] = [journal[p] EXCEPT !.phase = to]
  BY <1>1 DEF Save, HistoryTypeOK
<1>3. QED
  BY <1>1, <1>2 DEF Remembers, Journal

LEMMA ResultsStay ==
  ASSUME HistoryInv, [HistoryNext]_historyVars
  PROVE  ResultsOK'
<1>1. BranchesKeep /\ during \subseteq during'
  BY EveryStepKeeps
<1>2. HistoryTypeOK /\ TaskOK /\ IsFiniteSet(Journaled)
  BY DEF HistoryInv
<1>3. HEAD \in Commit /\ \A q \in Journaled : journal[q] \in Journal
  BY <1>2, Heads
<1>4. ASSUME UNCHANGED journal PROVE ResultsOK'
  <2>1. \A q \in Journaled : Remembers(q)
    BY <1>3, <1>4 DEF Remembers
  <2>2. Journaled' = Journaled
    BY <1>4 DEF Journaled
  <2>3. QED
    BY <1>1, <2>1, <2>2, RemembersOK DEF ResultsOK, Journaled
<1>5. ASSUME NEW p \in Plan, JournalStep(p), ResultOK(p)' PROVE ResultsOK'
  <2>1. SUFFICES ASSUME NEW q \in Journaled' PROVE ResultOK(q)'
    BY DEF ResultsOK
  <2>2. CASE q # p
    <3>1. journal'[q] = journal[q] /\ q \in Plan
      BY <1>2, <1>5, <2>2 DEF JournalStep, HistoryTypeOK, Journaled
    <3>2. q \in Journaled
      BY <2>1, <3>1 DEF Journaled
    <3>3. Remembers(q)
      BY <1>3, <3>1, <3>2 DEF Remembers
    <3>4. QED
      BY <1>1, <3>1, <3>3, RemembersOK
  <2>3. QED
    BY <1>5, <2>2
<1>6. ASSUME NEW p \in Plan, JournalStep(p), Remembers(p) PROVE ResultsOK'
  BY <1>1, <1>5, <1>6, RemembersOK
<1>7. ASSUME NEW p \in Plan, Call(p) PROVE ResultsOK'
  <2>1. UNCHANGED journal \/ JournalStep(p)
    BY <1>7, CallTypes
  <2>2. ASSUME NEW action \in Choice[p], Preview(p, action) PROVE ResultOK(p)'
    <3>1. /\ native = Nil /\ UNCHANGED tip
          /\ journal'[p] = [action |-> action, phase |-> "preview", head |-> HEAD, ref |-> at,
                            done |-> Nil, anchor |-> Nil]
      BY <1>2, <2>2 DEF Preview, Ready, HistoryTypeOK, checkout
    <3>2. HEAD = tip[at]
      BY <3>1 DEF HEAD, Rebasing
    <3>3. /\ Works(journal'[p].head) \ during' \subseteq Works(tip'[journal'[p].ref])
          /\ journal'[p].phase \notin HasResult
      BY <3>1, <3>2 DEF HasResult
    <3>4. QED
      BY <3>3 DEF ResultOK, Within, Works, HasResult
  <2>3. CASE Cancel(p) \/ Execute(p)
    <3>1. journal[p] \in Journal /\ (Save(p, "cancelled") \/ Save(p, "running"))
      BY <1>3, <2>3 DEF Cancel, Execute, Journaled
    <3>2. Remembers(p)
      BY <3>1, SaveRemembers DEF Phase, HasResult
    <3>3. QED
      BY <1>4, <1>6, <2>1, <3>2
  <2>4. CASE Restore(p)
    <3>1. journal[p] \in Journal /\ Save(p, "recovering") /\ journal[p].phase = "completed"
      BY <1>3, <2>4 DEF Restore, CanRestore, Journaled
    <3>2. Remembers(p)
      BY <3>1, SaveRemembers DEF Phase, HasResult
    <3>3. QED
      BY <1>4, <1>6, <2>1, <3>2
  <2>5. CASE \E act \in Act : Recover(p, act)
    BY <1>4, <2>5 DEF Recover
  <2>6. CASE \E action \in Choice[p] : Preview(p, action)
    BY <1>4, <1>5, <2>1, <2>2, <2>6
  <2>7. QED
    BY <1>7, <2>3, <2>4, <2>5, <2>6 DEF Call
<1>8. ASSUME NEW p \in Plan, Continuation(p) PROVE ResultsOK'
  <2>1. UNCHANGED journal \/ JournalStep(p)
    BY <1>8, ContinuationTypes
  <2>2. task # Nil /\ task.plan = p
    BY <1>8 DEF Continuation, KeepBackup, Check, Publish, Verify, Launch, Finish, Fail, Failed,
           Resume, Aborted, Recheck, SwapBack, ReadTree, Restored, At
  <2>3. journal[p] \in Journal /\ journal[p].head \in Commit
    BY <2>2, TaskFacts DEF Journal
  <2>4. CASE Complete(p, Rewritten(p))
    <3>1. Rewritten(p) \in Commit /\ Works(Rewritten(p)) = Works(journal[p].head)
      BY <2>3, StepsAreNoWorks DEF Rewritten
    <3>2. ResultOK(p)'
      BY <1>1, <2>3, <2>4, <3>1, CompleteOK
    <3>3. QED
      BY <1>4, <1>5, <2>1, <3>2
  <2>5. CASE Complete(p, HEAD) /\ during' = during \cup (Works(HEAD) \ Works(journal[p].head))
    <3>1. ResultOK(p)'
      BY <1>1, <1>3, <2>3, <2>5, CompleteOK
    <3>2. QED
      BY <1>4, <1>5, <2>1, <3>1
  <2>6. CASE Save(p, "aborted") \/ Save(p, "recovered")
    <3>1. Remembers(p)
      BY <2>3, <2>6, SaveRemembers DEF Phase, HasResult
    <3>2. QED
      BY <1>4, <1>6, <2>1, <3>1
  <2>7. CASE Failed(p)
    <3>1. PICK to \in {"stopped", "failed"} :
            /\ Anchor(p) \in Nat \cup {Nil}
            /\ journal' = [journal EXCEPT ![p] =
                 [journal[p] EXCEPT !.anchor = Anchor(p), !.phase = to]]
      BY <1>2, <2>3, <2>7, FailedIsStep
    <3>2. journal'[p] = [journal[p] EXCEPT !.anchor = Anchor(p), !.phase = to] /\ p \in Journaled
      BY <1>2, <2>3, <3>1, GitHistoryAssumption DEF HistoryTypeOK, Journaled
    <3>3. to \in Phase /\ to \notin HasResult
      BY <3>1 DEF Phase, HasResult
    <3>4. /\ journal'[p] \in Journal /\ journal'[p].phase = to
          /\ journal'[p].head = journal[p].head /\ journal'[p].ref = journal[p].ref
      <4>1. ASSUME NEW anchor \in Nat \cup {Nil}
            PROVE  LET j == [journal[p] EXCEPT !.anchor = anchor, !.phase = to]
                   IN  /\ j \in Journal /\ j.phase = to
                       /\ j.head = journal[p].head /\ j.ref = journal[p].ref
        BY <2>3, <3>3 DEF Journal
      <4>2. QED
        BY <3>1, <3>2, <4>1
    <3>5. Remembers(p)
      BY <3>2, <3>3, <3>4 DEF Remembers
    <3>6. QED
      BY <1>4, <1>6, <2>1, <3>5
  <2>8. CASE UNCHANGED journal
    BY <1>4, <2>8
  <2>9. QED
    BY <1>8, <2>4, <2>5, <2>6, <2>7, <2>8 DEF Continuation, KeepBackup, Check, Publish, Verify,
       Launch, Finish, Fail, Resume, Aborted, Recheck, SwapBack, ReadTree, Restored
<1>9. CASE Pick \/ Stop \/ End \/ Others \/ Crash
  BY <1>4, <1>9, OtherTypes
<1>10. CASE UNCHANGED historyVars
  BY <1>4, <1>10 DEF historyVars
<1>11. QED
  BY <1>7, <1>8, <1>9, <1>10 DEF HistoryNext

-----------------------------------------------------------------------------
(* The operation in progress *)

\* The operation goes on; what it was begun upon stays.
Proceeds ==
  /\ native # Nil /\ UNCHANGED <<at, doubt>>
  /\ native'.id = native.id /\ native'.by = native.by
  /\ native'.rebase = native.rebase /\ native'.orig = native.orig
  /\ native'.left > 0 => native.left > 0
  /\ IF native.rebase THEN Works(native.head) \subseteq Works(native'.head)
     ELSE Works(tip'[at]) \ during' \subseteq Works(tip[at])

\* It is one that this call, or somebody else, has just begun.
Begun ==
  /\ native = Nil /\ native' \in Native /\ UNCHANGED <<tip, at, journal, backup>>
  /\ native'.id = Fresh /\ native'.orig = tip[at]
  /\ native'.rebase => Works(tip[at]) \ during' \subseteq Works(native'.head)
  /\ \/ /\ task # Nil /\ native'.by = task.plan /\ UNCHANGED doubt
        /\ task.step = "launch" /\ GoTo("git")
     \/ /\ native'.by = Nil /\ native'.left = 0 /\ UNCHANGED task
        /\ doubt' = IF task = Nil THEN doubt ELSE doubt \cup {task.plan}

LEMMA NoneNew ==
  ASSUME HistoryInv, native # Nil, UNCHANGED <<native, at, doubt, tip>>, during \subseteq during'
  PROVE  Proceeds
  BY DEF Proceeds

\* Every step lets the operation go on, ends it or begins one.
LEMMA NativeSteps ==
  ASSUME HistoryInv, [HistoryNext]_historyVars
  PROVE  native' = Nil \/ Proceeds \/ Begun
<1> SUFFICES ASSUME native' # Nil PROVE Proceeds \/ Begun
  OBVIOUS
<1>0. native' \in Native
  BY TypesStay DEF HistoryTypeOK
<1>1. during \subseteq during'
  BY EveryStepKeeps
<1>2. HistoryTypeOK /\ ResultsOK /\ NativeOK /\ TaskOK
  BY DEF HistoryInv
<1>3. /\ HEAD \in Commit /\ tip[at] \in Commit /\ tip \in [Branch -> Commit] /\ at \in Branch
      /\ (native # Nil => native \in Native)
  BY <1>2, Heads DEF HistoryTypeOK
<1>4. ASSUME UNCHANGED <<native, at, doubt, tip>>
      PROVE  Proceeds
  BY <1>1, <1>4, NoneNew
<1>5. ASSUME NEW p \in Plan, Call(p) PROVE Proceeds
  BY <1>4, <1>5 DEF Call, Preview, Cancel, Execute, Restore, Recover, checkout, outside, ghosts
<1>6. ASSUME NEW b \in Branch, NEW c, NEW d, UNCHANGED <<native, at, doubt>>,
             tip[b] = c, tip' = [tip EXCEPT ![b] = d], Works(d) \ during' \subseteq Works(c)
      PROVE  Proceeds
  <2>1. Works(tip'[at]) \ during' \subseteq Works(tip[at])
    BY <1>3, <1>6
  <2>2. QED
    BY <1>6, <2>1 DEF Proceeds
<1>7. ASSUME NEW p \in Plan, Publish(p) PROVE Proceeds
  <2>1. journal[p] \in Journal /\ UNCHANGED <<native, at, doubt>>
    BY <1>7, TaskFacts DEF Publish, At, outside, ghosts
  <2>2. journal[p].head \in Commit /\ journal[p].ref \in Branch
    BY <2>1 DEF Journal
  <2>3. Works(Rewritten(p)) = Works(journal[p].head)
    BY <2>2, StepsAreNoWorks DEF Rewritten
  <2>4. CASE Swap(journal[p].ref, journal[p].head, Rewritten(p))
    BY <1>6, <2>1, <2>2, <2>3, <2>4 DEF Swap
  <2>5. QED
    BY <1>4, <1>7, <2>1, <2>4 DEF Publish
<1>8. ASSUME NEW p \in Plan, SwapBack(p) PROVE Proceeds
  <2>1. /\ journal[p] \in Journal /\ task # Nil /\ task.plan = p
        /\ UNCHANGED <<native, at, doubt, during>>
    BY <1>8, TaskFacts DEF SwapBack, At, outside, ghosts
  <2>2. journal[p].ref \in Branch
    BY <2>1 DEF Journal
  <2>3. backup[p] = journal[p].head /\ p \in Journaled
    BY <1>2, <1>8, <2>1, GitHistoryAssumption DEF SwapBack, At, TaskOK, Restoring, Journaled
  <2>4. Within(backup[p], tip[journal[p].ref])
    BY <1>2, <2>3 DEF ResultsOK, ResultOK
  <2>5. CASE Swap(journal[p].ref, journal[p].done, backup[p])
    <3>1. Works(backup[p]) \ during' \subseteq Works(journal[p].done)
      BY <2>1, <2>4, <2>5 DEF Within, Swap
    <3>2. QED
      BY <1>6, <2>1, <2>2, <2>5, <3>1 DEF Swap
  <2>6. QED
    BY <1>4, <1>8, <2>1, <2>5 DEF SwapBack
<1>9. ASSUME NEW p \in Plan, Launch(p) PROVE Proceeds \/ Begun
  <2>1. UNCHANGED <<tip, at, journal, backup, doubt>> /\ task # Nil /\ task.plan = p /\ task.step = "launch"
    BY <1>9 DEF Launch, At
  <2>2. CASE UNCHANGED native
    BY <1>4, <2>1, <2>2
  <2>3. CASE /\ native = Nil
             /\ native' = [id |-> Fresh, by |-> p, rebase |-> Rewrites(p),
                  orig |-> tip[at], ref |-> at,
                  head |-> IF Rewrites(p) THEN journal[p].head ELSE tip[at],
                  left |-> Steps, stuck |-> FALSE, busy |-> TRUE]
             /\ during' = during \cup (Works(tip[at]) \ Works(journal[p].head))
             /\ GoTo("git")
    BY <1>0, <2>1, <2>3 DEF Begun
  <2>4. QED
    BY <1>9, <2>2, <2>3 DEF Launch
<1>10. ASSUME NEW p \in Plan, Resume(p) PROVE Proceeds
  <2>1. UNCHANGED <<at, doubt>> /\ (UNCHANGED <<tip, native>> \/ native # Nil)
    BY <1>10 DEF Resume, outside, ghosts
  <2>2. CASE UNCHANGED <<tip, native>>
    BY <1>4, <2>1, <2>2
  <2>3. CASE /\ native # Nil /\ UNCHANGED tip
             /\ native' = [native EXCEPT !.busy = TRUE, !.stuck = FALSE,
                             !.left = IF task.act = "skip" /\ @ > 0 THEN @ - 1 ELSE @]
    <3>1. native \in Native /\ native.left \in Nat
      BY <1>3, <2>3, GitHistoryAssumption DEF Native
    <3>2. /\ native'.id = native.id /\ native'.by = native.by /\ native'.rebase = native.rebase
          /\ native'.orig = native.orig /\ native'.head = native.head
          /\ native'.left > 0 => native.left > 0
      BY <2>3, <3>1 DEF Native
    <3>3. QED
      BY <2>1, <2>3, <3>2 DEF Proceeds
  <2>4. QED
    BY <1>10, <2>2, <2>3 DEF Resume
<1>11. ASSUME NEW p \in Plan, Continuation(p), ~Publish(p), ~SwapBack(p), ~Launch(p), ~Resume(p)
       PROVE  Proceeds
  BY <1>4, <1>11 DEF Continuation, KeepBackup, Check, Verify, Finish, Fail, Failed, Aborted,
     Recheck, ReadTree, Restored, checkout, outside, ghosts
<1>12. CASE Pick
  <2>1. /\ native # Nil /\ native \in Native /\ native.left > 0 /\ native.by \in Plan
        /\ UNCHANGED <<at, doubt>>
    BY <1>2, <1>3, <1>12 DEF Pick, NativeOK, outside, ghosts
  <2> DEFINE new == Append(HEAD, native.by)
  <2>2. Works(new) = Works(HEAD)
    BY <1>3, <2>1, StepsAreNoWorks
  <2>3. /\ native' = [native EXCEPT !.head = new, !.left = native.left - 1]
        /\ tip' = IF native.rebase THEN tip ELSE [tip EXCEPT ![at] = new]
    BY <1>12 DEF Pick
  <2> HIDE DEF new
  <2>4. /\ native'.id = native.id /\ native'.by = native.by /\ native'.rebase = native.rebase
        /\ native'.orig = native.orig /\ native'.head = new
    BY <2>1, <2>3 DEF Native
  <2>5. HEAD = IF native.rebase THEN native.head ELSE tip[at]
    BY <2>1 DEF HEAD, Rebasing
  <2>6. ~native.rebase => tip'[at] = new
    BY <1>3, <2>3
  <2>7. QED
    BY <2>1, <2>2, <2>4, <2>5, <2>6 DEF Proceeds
<1>13. CASE Stop
  <2>1. /\ native # Nil /\ native \in Native /\ UNCHANGED <<at, doubt, tip>>
        /\ \E stuck \in BOOLEAN : native' = [native EXCEPT !.busy = FALSE, !.stuck = stuck]
    BY <1>3, <1>13 DEF Stop, outside, ghosts
  <2>2. /\ native'.id = native.id /\ native'.by = native.by /\ native'.rebase = native.rebase
        /\ native'.orig = native.orig /\ native'.head = native.head
        /\ native'.left = native.left
    BY <2>1 DEF Native
  <2>3. QED
    BY <2>1, <2>2 DEF Proceeds
<1>14. ASSUME NEW w \in Work, AgentCommit(w) PROVE Proceeds
  <2>1. /\ native # Nil /\ native \in Native /\ UNCHANGED <<at, doubt>>
        /\ during' = during \cup {w}
    BY <1>3, <1>14 DEF AgentCommit, Rebasing
  <2>2. Works(Append(HEAD, w)) = Works(HEAD) \cup {w}
    BY <1>3, WorksGrow
  <2>3. CASE native.rebase
    <3>1. /\ native' = [native EXCEPT !.head = Append(HEAD, w)] /\ HEAD = native.head
      BY <1>14, <2>1, <2>3 DEF AgentCommit, Rebasing, HEAD
    <3>2. /\ native'.id = native.id /\ native'.by = native.by /\ native'.rebase = native.rebase
          /\ native'.orig = native.orig /\ native'.head = Append(HEAD, w)
          /\ native'.left = native.left
      BY <2>1, <3>1 DEF Native
    <3>3. QED
      BY <2>1, <2>2, <2>3, <3>1, <3>2 DEF Proceeds
  <2>4. CASE ~native.rebase
    <3>1. UNCHANGED native /\ HEAD = tip[at] /\ tip'[at] = Append(HEAD, w)
      BY <1>3, <1>14, <2>1, <2>4 DEF AgentCommit, Rebasing, HEAD
    <3>2. QED
      BY <2>1, <2>2, <2>4, <3>1 DEF Proceeds
  <2>5. QED
    BY <2>3, <2>4
<1>15. ASSUME NEW rebase \in BOOLEAN, AgentBegin(rebase) PROVE Begun
  BY <1>0, <1>15 DEF AgentBegin, Agent, Begun
<1>16. CASE AgentResolve
  <2>1. /\ native # Nil /\ native \in Native /\ UNCHANGED <<at, doubt, tip>>
        /\ native' = [native EXCEPT !.stuck = FALSE]
    BY <1>3, <1>16 DEF AgentResolve
  <2>2. /\ native'.id = native.id /\ native'.by = native.by /\ native'.rebase = native.rebase
        /\ native'.orig = native.orig /\ native'.head = native.head
        /\ native'.left = native.left
    BY <2>1 DEF Native
  <2>3. QED
    BY <2>1, <2>2 DEF Proceeds
<1>17. CASE AgentEdit \/ Crash \/ UNCHANGED historyVars
  BY <1>4, <1>17 DEF AgentEdit, Crash, historyVars, checkout, ghosts
<1>18. CASE End \/ (\E b \in Branch : AgentSwitch(b)) \/ AgentContinue \/ AgentAbort
  BY <1>18 DEF End, AgentSwitch, AgentContinue, AgentAbort
<1>19. QED
  BY <1>5, <1>7, <1>8, <1>9, <1>10, <1>11, <1>12, <1>13, <1>14, <1>15, <1>16, <1>17, <1>18
  DEF HistoryNext, Others

LEMMA NativeStays ==
  ASSUME HistoryInv, [HistoryNext]_historyVars
  PROVE  NativeOK'
<1>1. during \subseteq during' /\ (native' = Nil \/ Proceeds \/ Begun)
  BY EveryStepKeeps, NativeSteps
<1>2. HistoryTypeOK /\ NativeOK /\ HistoryTypeOK'
  BY TypesStay DEF HistoryInv
<1>3. CASE native' = Nil
  BY <1>3 DEF NativeOK
<1>4. CASE Proceeds
  <2>1. native # Nil /\ UNCHANGED at
    BY <1>4 DEF Proceeds
  <2>2. /\ native.left > 0 => native.by \in Plan
        /\ native.rebase => Works(native.orig) \ during \subseteq Works(native.head)
        /\ ~native.rebase => Works(tip[at]) \ during \subseteq Works(native.orig)
    BY <1>2, <2>1 DEF NativeOK, Within
  <2>3. native'.left > 0 => native'.by \in Plan
    BY <1>4, <2>2 DEF Proceeds
  <2>4. native'.rebase => Works(native'.orig) \ during' \subseteq Works(native'.head)
    BY <1>1, <1>4, <2>2 DEF Proceeds
  <2>5. ~native'.rebase => Works(tip'[at']) \ during' \subseteq Works(native'.orig)
    BY <1>1, <1>4, <2>1, <2>2 DEF Proceeds
  <2>6. QED
    BY <2>3, <2>4, <2>5 DEF NativeOK, Within, Works
<1>5. CASE Begun
  <2>1. native'.left > 0 => native'.by \in Plan
    <3>1. native'.left = 0 \/ (task # Nil /\ native'.by = task.plan)
      BY <1>5 DEF Begun
    <3>2. task # Nil => task.plan \in Plan
      BY <1>2 DEF HistoryTypeOK
    <3>3. QED
      BY <3>1, <3>2
  <2>2. native'.rebase => Works(native'.orig) \ during' \subseteq Works(native'.head)
    BY <1>5 DEF Begun
  <2>3. Works(tip'[at']) \ during' \subseteq Works(native'.orig)
    BY <1>5 DEF Begun
  <2>4. QED
    BY <2>1, <2>2, <2>3 DEF NativeOK, Within, Works
<1>6. QED
  BY <1>1, <1>3, <1>4, <1>5

-----------------------------------------------------------------------------
(* Whose operation it is *)

\* A plan is bound to the operation in progress by a call of its own only.
Bindings ==
  \A q \in Journaled' :
    \/ q \in Journaled /\ journal'[q].anchor = journal[q].anchor
    \/ journal'[q].anchor = Nil
    \/ /\ native # Nil /\ Starts(q) /\ UNCHANGED <<native, doubt>>

LEMMA OwnBindings ==
  ASSUME HistoryInv, [HistoryNext]_historyVars
  PROVE  Bindings
<1>1. HistoryTypeOK /\ TaskOK
  BY DEF HistoryInv
<1>2. CASE UNCHANGED journal
  BY <1>2 DEF Bindings, Journaled
<1>3. ASSUME NEW p \in Plan, journal[p] \in Journal, NEW to \in Phase, Save(p, to)
      PROVE  Bindings
  <2>1. \A q \in Plan : journal'[q] =
          IF q = p THEN [journal[p] EXCEPT !.phase = to] ELSE journal[q]
    BY <1>1, <1>3 DEF Save, HistoryTypeOK
  <2>2. [journal[p] EXCEPT !.phase = to].anchor = journal[p].anchor
    BY <1>3 DEF Journal
  <2>3. p \in Journaled
    BY <1>3, GitHistoryAssumption DEF Journaled
  <2>4. QED
    BY <2>1, <2>2, <2>3 DEF Bindings, Journaled
<1>4. ASSUME NEW p \in Plan, Call(p) PROVE Bindings
  <2>1. ASSUME NEW action \in Choice[p], Preview(p, action) PROVE Bindings
    <3>1. \A q \in Plan : q # p => journal'[q] = journal[q]
      BY <1>1, <2>1 DEF Preview, HistoryTypeOK
    <3>2. journal'[p].anchor = Nil
      BY <1>1, <2>1 DEF Preview, HistoryTypeOK
    <3>3. QED
      BY <3>1, <3>2 DEF Bindings, Journaled
  <2>2. CASE Cancel(p) \/ Execute(p) \/ Restore(p)
    <3>1. /\ journal[p] \in Journal
          /\ Save(p, "cancelled") \/ Save(p, "running") \/ Save(p, "recovering")
      BY <1>1, <2>2, Heads DEF Cancel, Execute, Restore, Journaled
    <3>2. QED
      BY <1>3, <3>1 DEF Phase
  <2>3. CASE \E act \in Act : Recover(p, act)
    BY <1>2, <2>3 DEF Recover
  <2>4. QED
    BY <1>4, <2>1, <2>2, <2>3 DEF Call
<1>5. ASSUME NEW p \in Plan, Continuation(p) PROVE Bindings
  <2>1. task # Nil /\ task.plan = p
    BY <1>5 DEF Continuation, KeepBackup, Check, Publish, Verify, Launch, Finish, Fail, Failed,
           Resume, Aborted, Recheck, SwapBack, ReadTree, Restored, At
  <2>2. journal[p] \in Journal /\ p \in Journaled
    BY <2>1, TaskFacts, GitHistoryAssumption DEF Journaled
  <2>3. ASSUME NEW c, Complete(p, c) PROVE Bindings
    <3>1. \A q \in Plan : journal'[q] =
            IF q = p THEN [journal[p] EXCEPT !.phase = "completed", !.done = c] ELSE journal[q]
      BY <1>1, <2>3 DEF Complete, HistoryTypeOK
    <3>2. [journal[p] EXCEPT !.phase = "completed", !.done = c].anchor = journal[p].anchor
      BY <2>2 DEF Journal
    <3>3. QED
      BY <2>2, <3>1, <3>2 DEF Bindings, Journaled
  <2>4. CASE Save(p, "aborted") \/ Save(p, "recovered")
    BY <1>3, <2>2, <2>4 DEF Phase
  <2>5. CASE Failed(p)
    <3>1. PICK to \in {"stopped", "failed"} :
            journal' = [journal EXCEPT ![p] =
                 [journal[p] EXCEPT !.anchor = Anchor(p), !.phase = to]]
      BY <1>1, <2>2, <2>5, FailedIsStep
    <3>2. \A q \in Plan : journal'[q] =
            IF q = p THEN [journal[p] EXCEPT !.anchor = Anchor(p), !.phase = to] ELSE journal[q]
      BY <1>1, <3>1 DEF HistoryTypeOK
    <3>3. journal'[p].anchor = Anchor(p)
      <4>1. ASSUME NEW anchor PROVE [journal[p] EXCEPT !.anchor = anchor, !.phase = to].anchor = anchor
        BY <2>2 DEF Journal
      <4>2. QED
        BY <3>2, <4>1
    <3>4. Anchor(p) = journal[p].anchor \/ Anchor(p) = Nil \/ (native # Nil /\ journal[p].phase = "running")
      BY DEF Anchor
    <3>5. native # Nil /\ journal[p].phase = "running" => Starts(p)
      BY <1>1, <2>1 DEF TaskOK
    <3>6. UNCHANGED <<native, doubt>>
      BY <2>5 DEF Failed, checkout, outside, ghosts
    <3>7. QED
      BY <2>2, <3>2, <3>3, <3>4, <3>5, <3>6 DEF Bindings, Journaled
  <2>6. CASE UNCHANGED journal
    BY <1>2, <2>6
  <2>7. QED
    BY <1>5, <2>3, <2>4, <2>5, <2>6 DEF Continuation, KeepBackup, Check, Publish, Verify,
       Launch, Finish, Fail, Resume, Aborted, Recheck, SwapBack, ReadTree, Restored
<1>6. CASE Pick \/ Stop \/ End \/ Others \/ Crash
  BY <1>2, <1>6, OtherTypes
<1>7. CASE UNCHANGED historyVars
  BY <1>2, <1>7 DEF historyVars
<1>8. QED
  BY <1>4, <1>5, <1>6, <1>7 DEF HistoryNext

LEMMA BoundStays ==
  ASSUME HistoryInv, [HistoryNext]_historyVars
  PROVE  BoundOK'
<1>1. HistoryTypeOK /\ BoundOK /\ IsFiniteSet(Journaled) /\ HistoryTypeOK'
  BY TypesStay DEF HistoryInv
<1>2. Bindings /\ (native' = Nil \/ Proceeds \/ Begun)
  BY OwnBindings, NativeSteps
<1>3. SUFFICES ASSUME native' # Nil, NEW q \in Journaled', journal'[q].anchor = native'.id
               PROVE  Starts(q)'
  BY DEF BoundOK
<1>4. native' \in Native /\ native'.id \in Nat /\ native'.id # Nil
  BY <1>1, <1>3, GitHistoryAssumption DEF HistoryTypeOK, Native
<1>5. \/ q \in Journaled /\ journal'[q].anchor = journal[q].anchor
      \/ native # Nil /\ Starts(q) /\ UNCHANGED <<native, doubt>>
  BY <1>2, <1>3, <1>4 DEF Bindings
<1>6. CASE native # Nil /\ Starts(q) /\ UNCHANGED <<native, doubt>>
  BY <1>6 DEF Starts
<1>7. CASE q \in Journaled /\ journal'[q].anchor = journal[q].anchor /\ Proceeds
  BY <1>1, <1>3, <1>7 DEF BoundOK, Proceeds, Starts
<1>8. CASE q \in Journaled /\ journal'[q].anchor = journal[q].anchor /\ Begun
  BY <1>1, <1>3, <1>8, FreshIsNew DEF Begun
<1>9. QED
  BY <1>2, <1>3, <1>5, <1>6, <1>7, <1>8

-----------------------------------------------------------------------------
(* The call at work *)

\* It goes from one of its steps to the next; a restore keeps to its own.
GoesTo(step) ==
  /\ GoTo(step) /\ UNCHANGED journal /\ (UNCHANGED backup \/ task.step = "backup")
  /\ task.step # "failed" /\ (step = "failed" \/ (step \in Restoring <=> task.step \in Restoring))

LEMMA TaskMoves ==
  ASSUME NEW p \in Plan, Continuation(p)
  PROVE  task' = Nil \/ \E step \in Step : GoesTo(step)
<1>1. "failed" \in Step
  BY DEF Step
<1>2. ASSUME KeepBackup(p) PROVE GoesTo("check") \/ GoesTo("failed")
  BY <1>2 DEF KeepBackup, At, GoesTo, Restoring
<1>3. ASSUME Check(p) PROVE GoesTo("failed") \/ GoesTo("publish") \/ GoesTo("launch")
  BY <1>3 DEF Check, At, GoesTo, Restoring
<1>4. ASSUME Publish(p) PROVE GoesTo("verify") \/ GoesTo("failed")
  BY <1>4 DEF Publish, At, GoesTo, Restoring
<1>5. ASSUME Verify(p) PROVE task' = Nil \/ GoesTo("failed")
  BY <1>5 DEF Verify, At, Complete, Done, GoesTo
<1>6. ASSUME Launch(p) PROVE GoesTo("failed") \/ GoesTo("git")
  BY <1>6 DEF Launch, At, GoesTo, Restoring
<1>7. ASSUME Finish(p) PROVE task' = Nil \/ GoesTo("failed")
  BY <1>7 DEF Finish, At, Complete, Done, GoesTo
<1>8. ASSUME Fail(p) PROVE GoesTo("failed")
  BY <1>8 DEF Fail, GoesTo
<1>9. ASSUME Failed(p) PROVE task' = Nil
  BY <1>9 DEF Failed, Done
<1>10. ASSUME Resume(p) PROVE GoesTo("failed") \/ GoesTo("aborted") \/ GoesTo("git")
  BY <1>10 DEF Resume, At, GoesTo, Restoring
<1>11. ASSUME Aborted(p) PROVE task' = Nil \/ GoesTo("failed")
  BY <1>11 DEF Aborted, At, Done, GoesTo
<1>12. ASSUME Recheck(p) PROVE GoesTo("swap") \/ GoesTo("failed")
  BY <1>12 DEF Recheck, At, GoesTo, Restoring
<1>13. ASSUME SwapBack(p) PROVE GoesTo("restored") \/ GoesTo("read-tree") \/ GoesTo("failed")
  BY <1>13 DEF SwapBack, At, GoesTo, Restoring
<1>14. ASSUME ReadTree(p) PROVE GoesTo("restored") \/ GoesTo("failed")
  BY <1>14 DEF ReadTree, At, GoesTo, Restoring
<1>15. ASSUME Restored(p) PROVE task' = Nil \/ GoesTo("failed")
  BY <1>15 DEF Restored, At, Done, GoesTo
<1>16. {"check", "failed", "publish", "launch", "verify", "git", "aborted", "swap",
        "restored", "read-tree"} \subseteq Step
  BY DEF Step
<1>17. QED
  BY <1>2, <1>3, <1>4, <1>5, <1>6, <1>7, <1>8, <1>9, <1>10, <1>11, <1>12, <1>13, <1>14, <1>15,
     <1>16 DEF Continuation

\* What is in progress while a call goes on is its own, or somebody else began it.
LEMMA StartsStay ==
  ASSUME HistoryInv, [HistoryNext]_historyVars, task # Nil,
         native # Nil => Starts(task.plan), native' # Nil
  PROVE  native'.by = task.plan \/ task.plan \in doubt'
<1>1. Proceeds \/ Begun
  BY NativeSteps
<1>2. QED
  BY <1>1 DEF Proceeds, Begun, Starts

LEMMA TaskStays ==
  ASSUME HistoryInv, [HistoryNext]_historyVars
  PROVE  TaskOK'
<1>1. /\ HistoryTypeOK /\ TaskOK /\ BoundOK /\ HistoryTypeOK'
  BY TypesStay DEF HistoryInv
<1>2. CASE task' = Nil
  BY <1>2 DEF TaskOK
<1>3. ASSUME task # Nil
      PROVE  /\ task \in TaskType /\ task.plan \in Plan /\ journal[task.plan] \in Journal
             /\ task.act = "restore" =>
                  /\ task.step \in Restoring \cup {"failed"}
                  /\ journal[task.plan].phase = "recovering"
                  /\ backup[task.plan] = journal[task.plan].head
             /\ task.act # "restore" =>
                  /\ task.step \notin Restoring
                  /\ native # Nil => Starts(task.plan)
  BY <1>1, <1>3, TaskFacts DEF TaskOK
<1>4. CASE task # Nil /\ UNCHANGED <<task, journal, backup>>
  <2>1. /\ task'.plan = task.plan /\ task'.act = task.act /\ task'.step = task.step
        /\ journal'[task'.plan] = journal[task.plan]
        /\ backup'[task'.plan] = backup[task.plan]
    BY <1>4
  <2>2. task.act # "restore" /\ native' # Nil => native'.by = task'.plan \/ task'.plan \in doubt'
    BY <1>3, <1>4, <2>1, StartsStay
  <2>3. QED
    BY <1>3, <1>4, <2>1, <2>2 DEF TaskOK, Starts
<1>5. ASSUME task # Nil, NEW step \in Step, GoesTo(step)
      PROVE  TaskOK'
  <2>1. task'.plan = task.plan /\ task'.act = task.act /\ task'.step = step
    BY <1>3, <1>5 DEF GoesTo, GoTo, TaskType
  <2>2. journal'[task'.plan] = journal[task.plan]
    BY <1>5, <2>1 DEF GoesTo
  <2>3. CASE task.act = "restore"
    <3>1. task.step # "backup" /\ backup'[task'.plan] = backup[task.plan]
      BY <1>3, <1>5, <2>1, <2>3 DEF GoesTo, Restoring
    <3>2. step \in Restoring \cup {"failed"}
      <4>1. task.step \in Restoring \/ task.step = "failed"
        BY <1>3, <1>5, <2>3
      <4>2. QED
        BY <1>5, <4>1 DEF GoesTo, Restoring
    <3>3. QED
      BY <1>3, <1>5, <2>1, <2>2, <2>3, <3>1, <3>2 DEF TaskOK
  <2>4. CASE task.act # "restore"
    <3>1. step \notin Restoring
      BY <1>3, <1>5, <2>4 DEF GoesTo, Restoring
    <3>2. native' # Nil => native'.by = task'.plan \/ task'.plan \in doubt'
      BY <1>3, <1>5, <2>1, <2>4, StartsStay
    <3>3. QED
      BY <1>3, <1>5, <2>1, <2>2, <2>4, <3>1, <3>2 DEF TaskOK, Starts
  <2>5. QED
    BY <2>3, <2>4
<1>6. ASSUME NEW step \in {"failed", "finish"}, Hear(step), UNCHANGED <<journal, backup>>
      PROVE  TaskOK'
  <2>1. CASE task # Nil /\ task.step = "git"
    <3>1. GoesTo(step) /\ step \in Step
      BY <1>6, <2>1 DEF Hear, GoTo, GoesTo, Restoring, Step
    <3>2. QED
      BY <1>5, <2>1, <3>1
  <2>2. CASE task = Nil
    BY <1>2, <1>6, <2>2 DEF Hear
  <2>3. CASE task # Nil /\ task.step # "git"
    BY <1>4, <1>6, <2>3 DEF Hear
  <2>4. QED
    BY <2>1, <2>2, <2>3
<1>7. CASE task = Nil /\ UNCHANGED task
  BY <1>2, <1>7
<1>8. ASSUME NEW p \in Plan, Call(p)
      PROVE  TaskOK'
  <2>1. UNCHANGED <<native, doubt>>
    BY <1>8 DEF Call, Preview, Cancel, Execute, Restore, Recover, checkout, outside, ghosts
  <2>2. CASE (\E action \in Choice[p] : Preview(p, action)) \/ Cancel(p)
    BY <1>7, <2>2 DEF Preview, Cancel
  <2>3. ASSUME NEW act \in Act, NEW step \in Step, BeginCall(p, act, step)
        PROVE  task'.plan = p /\ task'.act = act /\ task'.step = step
    BY <2>3 DEF BeginCall
  <2>4. ASSUME journal[p] # Nil, NEW to \in Phase, Save(p, to)
        PROVE  /\ journal'[p] \in Journal /\ journal'[p].phase = to
               /\ journal'[p].head = journal[p].head
    <3>1. journal[p] \in Journal
      BY <1>1, <2>4 DEF HistoryTypeOK
    <3>2. journal'[p] = [journal[p] EXCEPT !.phase = to]
      BY <1>1, <2>4 DEF Save, HistoryTypeOK
    <3>3. QED
      BY <3>1, <3>2 DEF Journal
  <2>5. CASE Execute(p)
    <3>1. task'.plan = p /\ task'.act = "execute" /\ task'.step = "backup"
      BY <2>3, <2>5 DEF Execute, Act, Step
    <3>2. journal'[p] \in Journal
      BY <2>4, <2>5 DEF Execute, Phase
    <3>3. native' = Nil
      BY <2>1, <2>5 DEF Execute, Binding, Ready
    <3>4. QED
      BY <3>1, <3>2, <3>3 DEF TaskOK, Restoring
  <2>6. CASE Restore(p)
    <3>1. task'.plan = p /\ task'.act = "restore" /\ task'.step = "recheck"
      BY <2>3, <2>6 DEF Restore, Act, Step
    <3>2. /\ journal'[p] \in Journal /\ journal'[p].phase = "recovering"
          /\ journal'[p].head = journal[p].head
      BY <2>4, <2>6 DEF Restore, Phase
    <3>3. backup'[p] = journal[p].head
      BY <2>6 DEF Restore
    <3>4. QED
      BY <3>1, <3>2, <3>3 DEF TaskOK, Restoring
  <2>7. ASSUME NEW act \in Act, Recover(p, act) PROVE TaskOK'
    <3>1. /\ task'.plan = p /\ task'.act = act /\ task'.step = "resume" /\ act # "restore"
          /\ UNCHANGED journal
      BY <2>3, <2>7 DEF Recover, Step
    <3>2. journal[p] \in Journal /\ p \in Journaled
      BY <1>1, <2>7 DEF Recover, HistoryTypeOK, Journaled
    <3>3. Starts(p)
      BY <1>1, <2>7, <3>2 DEF Recover, Owned, BoundOK
    <3>4. native'.by = p \/ p \in doubt'
      BY <2>1, <3>3 DEF Starts
    <3>5. journal'[task'.plan] \in Journal
      BY <3>1, <3>2
    <3>6. task'.act # "restore" /\ task'.step \notin Restoring
      BY <3>1 DEF Restoring
    <3>7. QED
      BY <3>1, <3>4, <3>5, <3>6 DEF TaskOK, Starts
  <2>8. QED
    BY <1>8, <2>2, <2>5, <2>6, <2>7 DEF Call
<1>9. ASSUME NEW p \in Plan, Continuation(p)
      PROVE  TaskOK'
  <2>1. task # Nil
    BY <1>9 DEF Continuation, KeepBackup, Check, Publish, Verify, Launch, Finish, Fail, Failed,
           Resume, Aborted, Recheck, SwapBack, ReadTree, Restored, At
  <2>2. QED
    BY <1>2, <1>5, <1>9, <2>1, TaskMoves
<1>10. CASE Pick \/ Others \/ UNCHANGED historyVars
  <2>1. UNCHANGED <<task, journal, backup>>
    BY <1>10 DEF Pick, Others, AgentCommit, AgentEdit, AgentSwitch, AgentBegin, AgentResolve,
       AgentContinue, AgentAbort, Agent, historyVars
  <2>2. QED
    BY <1>4, <1>7, <2>1
<1>11. CASE Stop \/ End
  <2>1. UNCHANGED <<journal, backup>> /\ \E step \in {"failed", "finish"} : Hear(step)
    BY <1>11 DEF Stop, End
  <2>2. QED
    BY <1>6, <2>1
<1>12. CASE Crash
  BY <1>2, <1>12 DEF Crash
<1>13. QED
  BY <1>8, <1>9, <1>10, <1>11, <1>12 DEF HistoryNext

-----------------------------------------------------------------------------
(* The invariant, and what follows from it *)

LEMMA HistoryInvHoldsAtFirst ==
  ASSUME HistoryInit
  PROVE  HistoryInv
<1>1. Journaled = {}
  BY DEF HistoryInit, Journaled
<1>2. IsFiniteSet(Journaled)
  BY <1>1, FS_EmptySet
<1>3. <<>> \in Commit
  BY DEF Commit
<1>4. HistoryTypeOK
  BY <1>3, GitHistoryAssumption DEF HistoryInit, HistoryTypeOK
<1>5. ResultsOK /\ NativeOK /\ BoundOK /\ TaskOK
  BY <1>1 DEF HistoryInit, ResultsOK, NativeOK, BoundOK, TaskOK
<1>6. QED
  BY <1>2, <1>4, <1>5 DEF HistoryInv

LEMMA HistoryInvHolds == HistorySpec => []HistoryInv
<1>1. HistoryInit => HistoryInv
  BY HistoryInvHoldsAtFirst
<1>2. HistoryInv /\ [HistoryNext]_historyVars => HistoryInv'
  <2>1. SUFFICES ASSUME HistoryInv, [HistoryNext]_historyVars PROVE HistoryInv'
    OBVIOUS
  <2>2. HistoryTypeOK' /\ IsFiniteSet(Journaled')
    BY <2>1, TypesStay
  <2>3. ResultsOK' /\ NativeOK' /\ BoundOK' /\ TaskOK'
    BY <2>1, ResultsStay, NativeStays, BoundStays, TaskStays
  <2>4. QED
    BY <2>2, <2>3 DEF HistoryInv
<1>3. QED
  BY <1>1, <1>2, PTL DEF HistorySpec

\* A plan's journal, its backup ref, the operation Git has in progress and the
\* call at work are what history-operations.ts writes and reads, at every moment
\* of every interleaving with agents, Git and crashes.
THEOREM HistoryTypeCorrect == HistorySpec => []HistoryTypeOK
<1>1. HistoryInv => HistoryTypeOK
  BY DEF HistoryInv
<1>2. QED
  BY <1>1, HistoryInvHolds, PTL

\* Later work is never overwritten: no rewrite, replay, abort or restore of a plan
\* takes a commit somebody else made off its branch, unless it was made while an
\* operation was in progress or became part of one.
THEOREM LaterWorkIsKept == HistorySpec => WorkKept
<1>1. HistoryInv /\ [HistoryNext]_historyVars =>
        [\A b \in Branch : Works(tip[b]) \ during \subseteq Works(tip'[b])]_historyVars
  <2>1. SUFFICES ASSUME HistoryInv, [HistoryNext]_historyVars
                 PROVE  \A b \in Branch : Works(tip[b]) \ during \subseteq Works(tip'[b])
    OBVIOUS
  <2>2. QED
    BY <2>1, EveryStepKeeps DEF BranchesKeep, Within
<1>2. QED
  BY <1>1, HistoryInvHolds, PTL DEF HistorySpec, WorkKept

\* Continue, skip and abort change the operation their plan has started and no
\* other that looks like it, unless somebody began one during a call of the plan.
THEOREM OwnOperationOnly == HistorySpec => OnlyOwn
<1>1. ASSUME HistoryInv, [HistoryNext]_historyVars, NEW p \in Plan \ doubt,
             At(p, "resume"), task' # task, native' # native
      PROVE  native.by = p
  <2>1. TaskOK /\ task # Nil /\ task.plan = p /\ task.step = "resume"
    BY <1>1 DEF HistoryInv, At
  <2>2. native # Nil => Starts(p)
    BY <2>1 DEF TaskOK, Restoring
  <2>3. native # Nil
    <3>1. ~Begun
      BY <1>1, <2>1 DEF Begun
    <3>2. native' = Nil \/ Proceeds
      BY <1>1, <3>1, NativeSteps
    <3>3. QED
      BY <1>1, <3>2 DEF Proceeds
  <2>4. QED
    BY <1>1, <2>2, <2>3 DEF Starts
<1>2. HistoryInv /\ [HistoryNext]_historyVars =>
        [\A p \in Plan \ doubt :
           At(p, "resume") /\ task' # task /\ native' # native => native.by = p]_historyVars
  BY <1>1
<1>3. QED
  BY <1>2, HistoryInvHolds, PTL DEF HistorySpec, OnlyOwn

-----------------------------------------------------------------------------
(* The commits that were replaced *)

\* The backup ref of a plan holds the commit that was reviewed.
Kept(p) == journal[p] # Nil /\ backup[p] = journal[p].head
KeptThen(p) == journal'[p] # Nil /\ backup'[p] = journal'[p].head

\* A plan that has a result, whose operation is in progress or that is about to
\* move its branch.
Moved == {"completed", "recovering", "recovered"}
Moves(p) ==
  \/ journal[p] # Nil /\ journal[p].phase \in Moved
  \/ native # Nil /\ native.by = p
  \/ At(p, "publish")
OriginalsKept == \A p \in Plan \ doubt : Moves(p) => Kept(p)

\* The backup comes before everything else a call does.
Sure == {"check", "publish", "verify", "launch"}
Likely == {"resume", "git", "finish"}
OwnersKept ==
  /\ native # Nil /\ native.by \in Plan => Kept(native.by)
  /\ task # Nil =>
       /\ task.step \in Sure => Kept(task.plan)
       /\ task.step \in Likely => task.plan \in doubt \/ Kept(task.plan)

\* A journal keeps its commit, and has a result only when a call recorded one.
GoesFor(q) ==
  \/ journal[q] = Nil /\ journal'[q].phase = "preview"
  \/ /\ journal[q] # Nil /\ journal'[q].head = journal[q].head
     /\ journal'[q].phase \in Moved =>
          journal[q].phase \in Moved \/ At(q, "verify") \/ At(q, "finish")

LEMMA JournalsGoOn ==
  ASSUME HistoryInv, [HistoryNext]_historyVars, NEW q \in Plan, journal'[q] # Nil
  PROVE  GoesFor(q)
<1>1. HistoryTypeOK /\ TaskOK
  BY DEF HistoryInv
<1>2. ASSUME journal'[q] = journal[q]
      PROVE  GoesFor(q)
  BY <1>2 DEF GoesFor
<1>3. ASSUME NEW p \in Plan, journal[p] \in Journal, NEW to \in Phase, Save(p, to),
             to \in Moved => journal[p].phase \in Moved
      PROVE  GoesFor(q)
  <2>1. CASE q # p
    BY <1>1, <1>2, <1>3, <2>1 DEF Save, HistoryTypeOK
  <2>2. CASE q = p
    <3>1. journal'[q] = [journal[q] EXCEPT !.phase = to] /\ journal[q] \in Journal
      BY <1>1, <1>3, <2>2 DEF Save, HistoryTypeOK
    <3>2. journal'[q].head = journal[q].head /\ journal'[q].phase = to
      BY <3>1 DEF Journal
    <3>3. journal[q] # Nil
      BY <3>1, GitHistoryAssumption
    <3>4. QED
      BY <1>3, <2>2, <3>2, <3>3 DEF GoesFor
  <2>3. QED
    BY <2>1, <2>2
<1>4. ASSUME NEW p \in Plan, Call(p)
      PROVE  GoesFor(q)
  <2>1. ASSUME NEW action \in Choice[p], Preview(p, action) PROVE GoesFor(q)
    <3>1. q # p => journal'[q] = journal[q]
      BY <1>1, <2>1 DEF Preview, HistoryTypeOK
    <3>2. journal'[p].phase = "preview" /\ journal[p] = Nil
      BY <1>1, <2>1 DEF Preview, HistoryTypeOK
    <3>3. QED
      BY <1>2, <3>1, <3>2 DEF GoesFor
  <2>2. CASE Cancel(p) \/ Execute(p)
    <3>1. journal[p] \in Journal /\ (Save(p, "cancelled") \/ Save(p, "running"))
      BY <1>1, <2>2, Heads DEF Cancel, Execute, Journaled
    <3>2. QED
      BY <1>3, <3>1 DEF Phase, Moved
  <2>3. CASE Restore(p)
    <3>1. journal[p] \in Journal /\ journal[p].phase \in Moved /\ Save(p, "recovering")
      BY <1>1, <2>3, Heads DEF Restore, CanRestore, Journaled, Moved
    <3>2. QED
      BY <1>3, <3>1 DEF Phase
  <2>4. CASE \E act \in Act : Recover(p, act)
    BY <1>2, <2>4 DEF Recover
  <2>5. QED
    BY <1>4, <2>1, <2>2, <2>3, <2>4 DEF Call
<1>5. ASSUME NEW p \in Plan, Continuation(p)
      PROVE  GoesFor(q)
  <2>1. task # Nil /\ task.plan = p
    BY <1>5 DEF Continuation, KeepBackup, Check, Publish, Verify, Launch, Finish, Fail, Failed,
           Resume, Aborted, Recheck, SwapBack, ReadTree, Restored, At
  <2>2. journal[p] \in Journal /\ journal[p] # Nil
    BY <2>1, TaskFacts, GitHistoryAssumption
  <2>3. ASSUME NEW c, Complete(p, c), At(p, "verify") \/ At(p, "finish") PROVE GoesFor(q)
    <3>1. journal'[q] =
            IF q = p THEN [journal[p] EXCEPT !.phase = "completed", !.done = c] ELSE journal[q]
      BY <1>1, <2>3 DEF Complete, HistoryTypeOK
    <3>2. [journal[p] EXCEPT !.phase = "completed", !.done = c].head = journal[p].head
      BY <2>2 DEF Journal
    <3>3. QED
      BY <1>2, <2>2, <2>3, <3>1, <3>2 DEF GoesFor
  <2>4. CASE Aborted(p) /\ Save(p, "aborted")
    BY <1>3, <2>2, <2>4 DEF Phase, Moved
  <2>5. CASE Restored(p) /\ Save(p, "recovered")
    <3>1. task.act = "restore" /\ journal[p].phase \in Moved
      BY <1>1, <2>1, <2>5 DEF Restored, At, TaskOK, Restoring, Moved
    <3>2. QED
      BY <1>3, <2>2, <2>5, <3>1 DEF Phase
  <2>6. CASE Failed(p)
    <3>1. PICK to \in {"stopped", "failed"} :
            journal' = [journal EXCEPT ![p] =
                 [journal[p] EXCEPT !.anchor = Anchor(p), !.phase = to]]
      BY <1>1, <2>2, <2>6, FailedIsStep
    <3>2. journal'[q] =
            IF q = p THEN [journal[p] EXCEPT !.anchor = Anchor(p), !.phase = to] ELSE journal[q]
      BY <1>1, <3>1 DEF HistoryTypeOK
    <3>3. ASSUME NEW anchor
          PROVE  /\ [journal[p] EXCEPT !.anchor = anchor, !.phase = to].head = journal[p].head
                 /\ [journal[p] EXCEPT !.anchor = anchor, !.phase = to].phase \notin Moved
      BY <2>2 DEF Journal, Moved
    <3>4. QED
      BY <1>2, <2>2, <3>2, <3>3 DEF GoesFor
  <2>7. CASE UNCHANGED journal
    BY <1>2, <2>7
  <2>8. QED
    BY <1>5, <2>3, <2>4, <2>5, <2>6, <2>7 DEF Continuation, KeepBackup, Check, Publish, Verify,
       Launch, Finish, Fail, Resume, Aborted, Recheck, SwapBack, ReadTree, Restored
<1>6. CASE Pick \/ Stop \/ End \/ Others \/ Crash
  BY <1>2, <1>6, OtherTypes
<1>7. CASE UNCHANGED historyVars
  BY <1>2, <1>7 DEF historyVars
<1>8. QED
  BY <1>4, <1>5, <1>6, <1>7 DEF HistoryNext

\* update-ref with an expected value of zero: a backup is made once.
LEMMA BackupsStay ==
  ASSUME HistoryInv, [HistoryNext]_historyVars, NEW q \in Plan, journal[q] # Nil
  PROVE  backup'[q] = backup[q] \/ (backup'[q] = journal[q].head /\ UNCHANGED journal)
<1>1. HistoryTypeOK
  BY DEF HistoryInv
<1>2. ASSUME NEW p \in Plan, KeepBackup(p)
      PROVE  backup'[q] = backup[q] \/ (backup'[q] = journal[q].head /\ UNCHANGED journal)
  BY <1>1, <1>2 DEF KeepBackup, HistoryTypeOK
<1>3. ASSUME NEW p \in Plan, Continuation(p), ~KeepBackup(p)
      PROVE  UNCHANGED backup
  BY <1>3 DEF Continuation, Check, Publish, Verify, Launch, Finish, Fail, Failed, Resume,
     Aborted, Recheck, SwapBack, ReadTree, Restored
<1>4. ASSUME NEW p \in Plan, Call(p)
      PROVE  UNCHANGED backup
  BY <1>4 DEF Call, Preview, Cancel, Execute, Restore, Recover
<1>5. CASE Pick \/ Stop \/ End \/ Others \/ Crash
  BY <1>5, OtherTypes
<1>6. CASE UNCHANGED historyVars
  BY <1>6 DEF historyVars
<1>7. QED
  BY <1>2, <1>3, <1>4, <1>5, <1>6 DEF HistoryNext

LEMMA JournalsStay ==
  ASSUME HistoryInv, [HistoryNext]_historyVars, NEW q \in Plan, journal[q] # Nil
  PROVE  journal'[q] # Nil
<1>1. HistoryTypeOK
  BY DEF HistoryInv
<1>2. ASSUME NEW p \in Plan, JournalStep(p)
      PROVE  journal'[q] # Nil
  <2>1. PICK j \in Journal : journal' = [journal EXCEPT ![p] = j]
    BY <1>2 DEF JournalStep
  <2>2. j # Nil
    BY GitHistoryAssumption
  <2>3. QED
    BY <1>1, <2>1, <2>2 DEF HistoryTypeOK
<1>3. ASSUME NEW p \in Plan, Call(p) \/ Continuation(p)
      PROVE  UNCHANGED journal \/ JournalStep(p)
  BY <1>3, CallTypes, ContinuationTypes
<1>4. CASE Pick \/ Stop \/ End \/ Others \/ Crash
  BY <1>4, OtherTypes
<1>5. CASE UNCHANGED historyVars
  BY <1>5 DEF historyVars
<1>6. QED
  BY <1>2, <1>3, <1>4, <1>5 DEF HistoryNext

\* What is kept stays so.
LEMMA KeptStays ==
  ASSUME HistoryInv, [HistoryNext]_historyVars, NEW q \in Plan, Kept(q)
  PROVE  KeptThen(q)
<1>1. journal[q] # Nil /\ backup[q] = journal[q].head
  BY DEF Kept
<1>2. journal'[q] # Nil
  BY <1>1, JournalsStay
<1>3. journal'[q].head = journal[q].head
  BY <1>1, <1>2, JournalsGoOn DEF GoesFor
<1>4. backup'[q] = backup[q] \/ backup'[q] = journal[q].head
  BY <1>1, BackupsStay
<1>5. QED
  BY <1>1, <1>2, <1>3, <1>4 DEF KeptThen

\* How a call comes to each of its steps.
Proceeding ==
  /\ task # Nil /\ task'.plan = task.plan
  /\ task'.step \in Sure => task.step \in Sure \/ KeptThen(task.plan)
  /\ task'.step \in Likely => task.step \in Sure \cup Likely
Recovering ==
  /\ task'.plan \in Plan /\ Owned(task'.plan) /\ task'.step = "resume"
  /\ journal[task'.plan] # Nil /\ UNCHANGED <<native, doubt>>

LEMMA TaskGoesOn ==
  ASSUME HistoryInv, [HistoryNext]_historyVars, task' # Nil
  PROVE  Proceeding \/ Recovering \/ task'.step \notin Sure \cup Likely
<1>1. HistoryTypeOK /\ (task # Nil => task \in TaskType)
  BY TaskFacts DEF HistoryInv
<1>2. CASE UNCHANGED task
  BY <1>2 DEF Proceeding
<1>3. ASSUME NEW p \in Plan, Call(p)
      PROVE  \/ Proceeding \/ Recovering \/ task'.step \notin Sure \cup Likely
  <2>1. UNCHANGED <<native, doubt>>
    BY <1>3 DEF Call, Preview, Cancel, Execute, Restore, Recover, checkout, outside, ghosts
  <2>2. CASE (\E action \in Choice[p] : Preview(p, action)) \/ Cancel(p)
    BY <1>2, <2>2 DEF Preview, Cancel
  <2>3. CASE Execute(p) \/ Restore(p)
    BY <2>3 DEF Execute, Restore, BeginCall, Sure, Likely
  <2>4. CASE \E act \in Act : Recover(p, act)
    BY <2>1, <2>4 DEF Recover, BeginCall, Recovering
  <2>5. QED
    BY <1>3, <2>2, <2>3, <2>4 DEF Call
<1>4. ASSUME task # Nil, NEW step, GoTo(step),
             step \in Sure => task.step \in Sure \/ KeptThen(task.plan),
             step \in Likely => task.step \in Sure \cup Likely
      PROVE  Proceeding
  <2>1. task'.plan = task.plan /\ task'.step = step
    BY <1>1, <1>4 DEF GoTo, TaskType
  <2>2. QED
    BY <1>4, <2>1 DEF Proceeding
<1>5. ASSUME task # Nil, NEW step, GoTo(step), step \notin Sure \cup Likely
      PROVE  Proceeding
  BY <1>4, <1>5
<1>6. {"failed", "aborted", "swap", "restored", "read-tree"} \cap (Sure \cup Likely) = {}
  BY DEF Sure, Likely
<1>7. ASSUME NEW p \in Plan, Continuation(p)
      PROVE  Proceeding
  <2>1. task # Nil /\ task.plan = p
    BY <1>7 DEF Continuation, KeepBackup, Check, Publish, Verify, Launch, Finish, Fail, Failed,
           Resume, Aborted, Recheck, SwapBack, ReadTree, Restored, At
  <2>2. CASE GoTo("failed") \/ GoTo("aborted") \/ GoTo("swap") \/ GoTo("restored") \/ GoTo("read-tree")
    BY <1>5, <1>6, <2>1, <2>2
  <2>3. CASE KeepBackup(p) /\ GoTo("check")
    <3>1. backup'[p] = journal[p].head /\ journal' = journal
      BY <1>1, <1>6, <2>3, <2>1 DEF KeepBackup, HistoryTypeOK, GoTo, TaskType, Sure
    <3>2. journal[p] # Nil
      BY <2>1, TaskFacts, GitHistoryAssumption
    <3>3. KeptThen(task.plan)
      BY <2>1, <3>1, <3>2 DEF KeptThen
    <3>4. QED
      BY <1>4, <2>1, <2>3, <3>3 DEF Likely
  <2>4. CASE Check(p) /\ (GoTo("publish") \/ GoTo("launch"))
    BY <1>4, <2>1, <2>4 DEF Check, At, Sure, Likely
  <2>5. CASE Publish(p) /\ GoTo("verify")
    BY <1>4, <2>1, <2>5 DEF Publish, At, Sure, Likely
  <2>6. CASE (Launch(p) \/ Resume(p)) /\ GoTo("git")
    BY <1>4, <2>1, <2>6 DEF Launch, Resume, At, Sure, Likely
  <2>7. QED
    BY <1>7, <2>2, <2>3, <2>4, <2>5, <2>6 DEF Continuation, KeepBackup, Check, Publish, Verify,
       Launch, Finish, Fail, Failed, Resume, Aborted, Recheck, SwapBack, ReadTree, Restored,
       Complete, Done
<1>8. CASE Stop \/ End
  <2>1. \E step \in {"failed", "finish"} : Hear(step)
    BY <1>8 DEF Stop, End
  <2>2. CASE task # Nil /\ task.step = "git"
    BY <1>4, <2>1, <2>2 DEF Hear, GoTo, Sure, Likely
  <2>3. QED
    BY <1>2, <2>1, <2>2 DEF Hear
<1>9. CASE Pick \/ Others \/ UNCHANGED historyVars
  BY <1>2, <1>9 DEF Pick, Others, AgentCommit, AgentEdit, AgentSwitch, AgentBegin, AgentResolve,
     AgentContinue, AgentAbort, Agent, historyVars
<1>10. QED
  BY <1>3, <1>7, <1>8, <1>9 DEF HistoryNext, Crash

LEMMA DoubtsStay ==
  ASSUME [HistoryNext]_historyVars
  PROVE  doubt \subseteq doubt'
BY DEF HistoryNext, Call, Preview, Cancel, Execute, Restore, Recover,
   Continuation, KeepBackup, Check, Publish, Verify, Launch, Finish, Fail, Failed,
   Resume, Aborted, Recheck, SwapBack, ReadTree, Restored, Pick, Stop, End, Others,
   AgentCommit, AgentEdit, AgentSwitch, AgentBegin, AgentResolve, AgentContinue, AgentAbort,
   Crash, historyVars, outside, ghosts

LEMMA OwnersStayKept ==
  ASSUME HistoryInv, OwnersKept, [HistoryNext]_historyVars
  PROVE  OwnersKept'
<1>1. HistoryTypeOK /\ BoundOK /\ doubt \subseteq doubt'
  BY DoubtsStay DEF HistoryInv
<1>2. \A q \in Plan : Kept(q) => KeptThen(q)
  BY KeptStays
<1>3. native' # Nil /\ native'.by \in Plan => KeptThen(native'.by)
  <2>1. CASE Proceeds
    BY <1>2, <2>1 DEF Proceeds, OwnersKept
  <2>2. CASE Begun
    <3>1. Nil \notin Plan
      BY GitHistoryAssumption
    <3>2. CASE task # Nil /\ native'.by = task.plan /\ task.step = "launch"
      BY <1>2, <3>2 DEF OwnersKept, Sure
    <3>3. QED
      BY <2>2, <3>1, <3>2 DEF Begun
  <2>3. QED
    BY <2>1, <2>2, NativeSteps
<1>4. ASSUME task' # Nil
      PROVE  /\ task'.step \in Sure => KeptThen(task'.plan)
             /\ task'.step \in Likely => task'.plan \in doubt' \/ KeptThen(task'.plan)
  <2>1. Sure \cap Likely = {} /\ "resume" \in Likely
    BY DEF Sure, Likely
  <2>2. CASE Proceeding
    <3>1. task # Nil /\ task.plan \in Plan /\ task'.plan = task.plan
      BY <1>1, <2>2, TaskFacts DEF Proceeding
    <3>2. /\ task.step \in Sure => KeptThen(task.plan)
          /\ task.step \in Likely => task.plan \in doubt' \/ KeptThen(task.plan)
      BY <1>1, <1>2, <3>1 DEF OwnersKept
    <3>3. QED
      BY <2>2, <3>1, <3>2 DEF Proceeding
  <2>3. CASE Recovering
    <3>1. native # Nil /\ task'.plan \in Journaled /\ journal[task'.plan].anchor = native.id
      BY <2>3 DEF Recovering, Owned, Journaled
    <3>2. native.by = task'.plan \/ task'.plan \in doubt
      BY <1>1, <3>1 DEF BoundOK, Starts
    <3>3. native.by = task'.plan => KeptThen(task'.plan)
      BY <1>2, <2>3, <3>1 DEF OwnersKept, Recovering
    <3>4. QED
      BY <1>1, <2>1, <2>3, <3>2, <3>3 DEF Recovering
  <2>4. QED
    BY <1>4, <2>2, <2>3, TaskGoesOn
<1>5. QED
  BY <1>3, <1>4 DEF OwnersKept, Kept, KeptThen

LEMMA OriginalsStayKept ==
  ASSUME HistoryInv, OwnersKept, OriginalsKept, [HistoryNext]_historyVars
  PROVE  OriginalsKept'
<1>1. OwnersKept' /\ doubt \subseteq doubt'
  BY OwnersStayKept, DoubtsStay
<1>2. SUFFICES ASSUME NEW p \in Plan, p \notin doubt, p \notin doubt', Moves(p)' PROVE Kept(p)'
  BY <1>1 DEF OriginalsKept
<1>3. Kept(p) => Kept(p)'
  BY KeptStays DEF Kept, KeptThen
<1>4. CASE journal'[p] # Nil /\ journal'[p].phase \in Moved
  <2>1. journal[p] # Nil /\ (journal[p].phase \in Moved \/ At(p, "verify") \/ At(p, "finish"))
    BY <1>4, JournalsGoOn DEF GoesFor, Moved
  <2>2. At(p, "verify") \/ At(p, "finish") => Kept(p)
    BY <1>2 DEF OwnersKept, At, Sure, Likely
  <2>3. QED
    BY <1>2, <1>3, <2>1, <2>2 DEF OriginalsKept, Moves
<1>5. CASE native' # Nil /\ native'.by = p
  BY <1>1, <1>5 DEF OwnersKept
<1>6. CASE At(p, "publish")'
  BY <1>1, <1>6 DEF OwnersKept, At, Sure
<1>7. QED
  BY <1>2, <1>4, <1>5, <1>6 DEF Moves

\* What execute() keeps first, at all times after: whoever is about to move a
\* branch, has an operation in progress or a result, has the commit that was
\* reviewed in its backup ref, so that it can be restored.  Not so a plan during
\* whose call somebody else began an operation on the same commit: failed() binds
\* it to that one, even if it had made no backup.
THEOREM OriginalsAreKept == HistorySpec => []OriginalsKept
<1>1. HistoryInit => OriginalsKept /\ OwnersKept
  BY DEF HistoryInit, OriginalsKept, OwnersKept, Moves, At
<1>2. HistoryInv /\ OriginalsKept /\ OwnersKept /\ [HistoryNext]_historyVars =>
        OriginalsKept' /\ OwnersKept'
  BY OriginalsStayKept, OwnersStayKept
<1>3. QED
  BY <1>1, <1>2, HistoryInvHolds, PTL DEF HistorySpec

-----------------------------------------------------------------------------
(* GitPanel: what is read and shown *)

\* The reads of diffs and histories.
DiffReads ==
  [kind : {"diff"}, loader : Loader \cup {None}, current : BOOLEAN,
   answer : Refused \cup {None, <<>>}, path : Path]
HistoryReads ==
  [kind : {"history"}, loader : Loader \cup {None}, current : BOOLEAN,
   answer : Seq(Nat) \cup Refused \cup {None},
   head : Nat, anchor : Nat, left : Nat, commits : Seq(Nat)]
Histories ==
  [limit : Nat, head : Nat, anchor : Nat, commits : Seq(Nat), more : BOOLEAN]

\* What was read of a log is its beginning, and a page goes on where that ends.
Begins(commits, anchor) ==
  Len(commits) <= anchor /\ commits = SubSeq(Log(anchor), 1, Len(commits))
GoesOn(r) ==
  r.answer # None /\ r.answer \notin Refused =>
    \E count \in 0..r.left : r.answer = Page(r.anchor, Len(r.commits), count)

\* The current read of a diff is that of the path, and the histories go on.
Fine(r, path) ==
  /\ r \in DiffReads \cup HistoryReads
  /\ r.kind = "diff" /\ r.current => r.path = path
  /\ r.kind = "history" => Begins(r.commits, r.anchor) /\ GoesOn(r)

Shows ==
  /\ history \in Histories /\ Begins(history.commits, history.anchor)
  /\ shown \in Answer \cup {None}
  /\ repo.head \in Nat
  /\ view \in [path : Path \cup {None}, diff : Path \cup {None}, open : BOOLEAN]
  /\ DiffOfView
  /\ \A r \in reads : Fine(r, view.path)

\* The types of the rest; how far versions go is a matter of counting.
Loads == [at : {"asked", "visible"}, revision : Nat, answer : Answer \cup Refused \cup {None}]
Writes == [kind : Kind \cup {None}, at : {"none", "sent", "visible", "reload", "over"},
           answer : Answer \cup Refused \cup {None}]
Fields ==
  /\ repo \in [version : Nat, head : Nat] /\ ready \in BOOLEAN /\ disposed \in BOOLEAN
  /\ overlapped \in BOOLEAN /\ hook \in BOOLEAN /\ setup \in BOOLEAN
  /\ phase \in {"loading", "ready", "degraded", "failed"}
  /\ failure \in Refused \cup {None}
  /\ busy \in Write \cup {None} /\ revision \in Nat
  /\ refresh \in [running : BOOLEAN, pending : BOOLEAN]
  /\ retry \in [count : 0..SESSION_RETRY_LIMIT, timer : BOOLEAN, retrying : BOOLEAN]
  /\ load \in [Loader -> Loads \cup {None}]
  /\ write \in [Write -> Writes]
  /\ setup => "create" \in Kind
  /\ hook => "commit" \in Kind
  /\ \A w \in Write : write[w].answer = Hook => write[w].kind = "commit"

\* Every change of the repository was counted as an event, or its write was.
Pending == {w \in Write : write[w].at = "sent" /\ write[w].answer = None}
Count ==
  /\ events \in 0..MaxEvents
  /\ repo.version + Cardinality(Pending) <= events
  /\ repo.head <= FirstHead + repo.version

Base == Fields /\ Count /\ Shows

\* Writes do not overlap, and the panel names the one that is in flight.
Free == ~overlapped /\ ~disposed
OneWrite == ~overlapped => \A v, w \in Write : InFlight(v) /\ InFlight(w) => v = w
Named == Free => \A w \in Write : InFlight(w) => busy = w
Reloads == \A w \in Write : load[w] # None => write[w].at = "reload"

\* Nobody knows more of the repository than there is, and who may still be shown
\* knows no less than what is shown.
Asking(l) == load[l] # None /\ load[l].at = "asked"
Revisions == \A l \in Loader : Asking(l) => load[l].revision <= revision
Known(answer) == answer \in Answer => answer.version <= repo.version
Past == /\ Known(shown)
        /\ \A l \in Loader : Asking(l) => Known(load[l].answer)
        /\ \A w \in Write : write[w].at = "sent" => Known(write[w].answer)
NewerThan(answer, state) ==
  answer \in Answer /\ state # None => answer.version >= state.version
Newer(answer) == NewerThan(answer, shown)
Order ==
  Free =>
    /\ Asking(Refresh) /\ load[Refresh].revision = revision /\ busy = None
         => Newer(load[Refresh].answer)
    /\ \A w \in Write : Asking(w) => Newer(load[w].answer)
    /\ \A w \in Write : write[w].at = "sent" => Newer(write[w].answer)

-----------------------------------------------------------------------------
(* Logs and their pages *)

LEMMA LeastFacts ==
  ASSUME NEW m \in Nat, NEW n \in Nat
  PROVE  Least(m, n) \in Nat /\ Least(m, n) <= m /\ Least(m, n) <= n
BY DEF Least

LEMMA LogFacts ==
  ASSUME NEW head \in Nat
  PROVE  /\ Log(head) \in Seq(Nat) /\ Len(Log(head)) = head
         /\ \A i \in 1..head : Log(head)[i] = head - i + 1 /\ Log(head)[i] \in Nat
<1>1. \A i \in 1..head : head - i + 1 \in Nat
  OBVIOUS
<1>2. Log(head) \in [1..head -> Nat]
  BY <1>1 DEF Log
<1>3. QED
  BY <1>2 DEF Log

\* A part of a log that lies within it.
LEMMA PartFacts ==
  ASSUME NEW head \in Nat, NEW m \in Nat \ {0}, NEW n \in Nat, m <= n + 1, n <= head
  PROVE  /\ SubSeq(Log(head), m, n) \in Seq(Nat)
         /\ Len(SubSeq(Log(head), m, n)) = n - m + 1
         /\ \A i \in 1..(n - m + 1) : SubSeq(Log(head), m, n)[i] = Log(head)[m + i - 1]
<1>1. Log(head) \in Seq(Nat) /\ Len(Log(head)) = head
  BY LogFacts
<1>2. QED
  BY <1>1

\* A page that begins where the commits before it end makes one window with them.
LEMMA PageJoins ==
  ASSUME NEW anchor \in Nat, NEW commits, Begins(commits, anchor), commits \in Seq(Nat),
         NEW count \in Nat
  PROVE  LET page == Page(anchor, Len(commits), count)
         IN  /\ page \in Seq(Nat) /\ commits \o page \in Seq(Nat)
             /\ Begins(commits \o page, anchor)
<1> DEFINE skip == Len(commits)
           end == Least(anchor, skip + count)
           page == Page(anchor, skip, count)
           joined == commits \o page
           whole == SubSeq(Log(anchor), 1, end)
<1>1. skip \in Nat /\ skip <= anchor
  BY DEF Begins
<1>2. end \in Nat /\ end <= anchor /\ skip <= end
  BY <1>1 DEF Least
<1>3. page = SubSeq(Log(anchor), skip + 1, end)
  BY DEF Page
<1>4. page \in Seq(Nat) /\ Len(page) = end - skip
      /\ \A i \in 1..(end - skip) : page[i] = Log(anchor)[skip + i]
  <2> DEFINE m == skip + 1
  <2>1. m \in Nat \ {0} /\ m <= end + 1 /\ end - m + 1 = end - skip
        /\ \A i \in Nat : m + i - 1 = skip + i
    BY <1>1, <1>2
  <2>2. page = SubSeq(Log(anchor), m, end)
    BY <1>3
  <2> HIDE DEF m, page, end, skip
  <2>3. /\ SubSeq(Log(anchor), m, end) \in Seq(Nat)
        /\ Len(SubSeq(Log(anchor), m, end)) = end - m + 1
        /\ \A i \in 1..(end - m + 1) : SubSeq(Log(anchor), m, end)[i] = Log(anchor)[m + i - 1]
    BY <1>2, <2>1, PartFacts
  <2>4. ASSUME NEW i \in 1..(end - skip) PROVE page[i] = Log(anchor)[skip + i]
    <3>1. i \in 1..(end - m + 1) /\ i \in Nat
      BY <1>1, <1>2, <2>1
    <3>2. page[i] = Log(anchor)[m + i - 1]
      BY <2>2, <2>3, <3>1
    <3>3. m + i - 1 = skip + i
      BY <2>1, <3>1
    <3>4. QED
      BY <3>2, <3>3
  <2>5. Len(page) = end - skip /\ page \in Seq(Nat)
    BY <2>1, <2>2, <2>3
  <2>6. QED
    BY <2>4, <2>5
<1>5. whole \in Seq(Nat) /\ Len(whole) = end /\ \A i \in 1..end : whole[i] = Log(anchor)[i]
  <2> HIDE DEF end
  <2>1. 1 \in Nat \ {0} /\ 1 <= end + 1
    BY <1>2
  <2>2. /\ SubSeq(Log(anchor), 1, end) \in Seq(Nat)
        /\ Len(SubSeq(Log(anchor), 1, end)) = end - 1 + 1
        /\ \A i \in 1..(end - 1 + 1) : SubSeq(Log(anchor), 1, end)[i] = Log(anchor)[1 + i - 1]
    BY <1>2, <2>1, PartFacts
  <2>3. end - 1 + 1 = end /\ \A i \in Nat : 1 + i - 1 = i
    BY <1>2
  <2>4. QED
    BY <2>2, <2>3
<1>6. \A i \in 1..skip : commits[i] = Log(anchor)[i]
  <2>1. commits = SubSeq(Log(anchor), 1, skip)
    BY DEF Begins
  <2>2. \A i \in 1..skip : SubSeq(Log(anchor), 1, skip)[i] = Log(anchor)[i]
    BY <1>1, PartFacts
  <2>3. QED
    BY <2>1, <2>2
<1>7. commits \in Seq(Nat) /\ Len(commits) = skip
  OBVIOUS
<1> HIDE DEF page, whole, end, skip
<1>8. joined \in Seq(Nat) /\ Len(joined) = end
  BY <1>1, <1>2, <1>4, <1>7
<1>9. \A i \in 1..end : joined[i] = Log(anchor)[i]
  <2> SUFFICES ASSUME NEW i \in 1..end PROVE joined[i] = Log(anchor)[i]
    OBVIOUS
  <2>1. CASE i <= skip
    BY <1>1, <1>4, <1>6, <1>7, <2>1
  <2>2. CASE i > skip
    <3>1. i - skip \in 1..(end - skip)
      BY <1>1, <1>2, <2>2
    <3>2. joined[i] = page[i - skip]
      BY <1>1, <1>2, <1>4, <1>7, <2>2
    <3>3. page[i - skip] = Log(anchor)[skip + (i - skip)]
      BY <1>4, <3>1
    <3>4. skip + (i - skip) = i
      BY <1>1, <1>2
    <3>5. QED
      BY <3>2, <3>3, <3>4
  <2>3. i <= skip \/ i > skip
    BY <1>1, <1>2
  <2>4. QED
    BY <2>1, <2>2, <2>3
<1> HIDE DEF joined
<1>10. joined = whole
  <2>1. /\ DOMAIN joined = 1..end /\ DOMAIN whole = 1..end
        /\ joined = [i \in DOMAIN joined |-> joined[i]] /\ whole = [i \in DOMAIN whole |-> whole[i]]
    BY <1>5, <1>8
  <2>2. \A i \in 1..end : joined[i] = whole[i]
    BY <1>5, <1>9
  <2>3. QED
    BY <2>1, <2>2
<1>11. Begins(joined, anchor)
  BY <1>2, <1>8, <1>10 DEF whole, Begins
<1>12. page = Page(anchor, Len(commits), count) /\ joined = commits \o page
  BY DEF page, skip, joined
<1>13. QED
  BY <1>4, <1>8, <1>11, <1>12

LEMMA NothingBegins ==
  ASSUME NEW anchor \in Nat PROVE Begins(<<>>, anchor) /\ <<>> \in Seq(Nat)
<1>1. SubSeq(Log(anchor), 1, 0) = <<>>
  <2>1. SubSeq(Log(anchor), 1, 0) \in Seq(Nat) /\ Len(SubSeq(Log(anchor), 1, 0)) = 0
    BY PartFacts
  <2>2. QED
    BY <2>1
<1>2. QED
  BY <1>1 DEF Begins

-----------------------------------------------------------------------------
(* The panel shows what it was asked for last *)

LEMMA LateIsFine ==
  ASSUME NEW path, NEW other, NEW kind, \A r \in reads : Fine(r, path),
         kind = "diff" \/ other = path
  PROVE  \A r \in Late(kind) : Fine(r, other)
<1> SUFFICES ASSUME NEW q \in reads
             PROVE  Fine(IF q.kind = kind THEN [q EXCEPT !.current = FALSE] ELSE q, other)
  BY DEF Late
<1> DEFINE r == [q EXCEPT !.current = FALSE]
<1>1. Fine(q, path)
  OBVIOUS
<1>2. CASE q \in DiffReads
  <2>1. r \in DiffReads /\ r.current = FALSE /\ r.kind = "diff" /\ q.kind = "diff"
    BY <1>2 DEF DiffReads
  <2>2. QED
    BY <1>1, <2>1, <1>2 DEF Fine
<1>3. CASE q \in HistoryReads
  <2>1. /\ r \in HistoryReads /\ r.kind = "history" /\ q.kind = "history"
        /\ r.answer = q.answer /\ r.anchor = q.anchor /\ r.commits = q.commits
        /\ r.left = q.left
    BY <1>3 DEF HistoryReads
  <2> HIDE DEF r
  <2>2. Fine(r, other) /\ Fine(q, other)
    BY <1>1, <1>3, <2>1 DEF Fine, GoesOn
  <2>3. QED
    BY <2>2 DEF r
<1>4. QED
  BY <1>1, <1>2, <1>3 DEF Fine

LEMMA DiffIsFine ==
  ASSUME NEW l \in Loader \cup {None}, NEW path \in Path
  PROVE  Fine(DiffRead(l, path), path)
BY DEF Fine, DiffRead, DiffReads

LEMMA HistoryIsFine ==
  ASSUME NEW l \in Loader \cup {None}, NEW state \in Answer \cup {None}, NEW count \in Nat,
         NEW anchor \in Nat, NEW previous \in Seq(Nat), Begins(previous, anchor), NEW path
  PROVE  Fine(HistoryRead(l, state, count, anchor, previous), path)
<1> DEFINE r == HistoryRead(l, state, count, anchor, previous)
<1>1. HeadOf(state) \in Nat
  BY GitPanelAssumption DEF HeadOf, Answer
<1>2. r \in HistoryReads
  BY <1>1 DEF HistoryRead, HistoryReads
<1>3. r.kind = "history" /\ r.commits = previous /\ r.anchor = anchor /\ r.answer = None
  BY DEF HistoryRead
<1> HIDE DEF r
<1>4. Fine(r, path)
  BY <1>2, <1>3 DEF Fine, GoesOn
<1>5. QED
  BY <1>4 DEF r

LEMMA WholeIsFine ==
  ASSUME NEW l \in Loader \cup {None}, NEW state \in Answer \cup {None}, NEW limit \in Nat,
         NEW path
  PROVE  Fine(WholeHistory(l, state, limit), path)
<1>1. HeadOf(state) \in Nat
  BY GitPanelAssumption DEF HeadOf, Answer
<1>2. QED
  BY <1>1, NothingBegins, HistoryIsFine DEF WholeHistory

\* What does not touch the reads, the view and the history.
LEMMA ShowsKept ==
  ASSUME Shows, UNCHANGED <<reads, view, history>>,
         shown' \in {shown, None} \cup Answer, repo'.head \in Nat
  PROVE  Shows'
BY DEF Shows, DiffOfView, Fine, GoesOn

LEMMA VisibleShows ==
  ASSUME Shows, NEW l \in Loader, NEW state \in Answer, RefreshVisible(l, state),
         shown' = state, UNCHANGED <<history, repo>>
  PROVE  Shows'
<1>1. CASE view.path # None
  <2> DEFINE r == DiffRead(l, view.path)
  <2>1. reads' = Late("diff") \cup {r} /\ view' = [view EXCEPT !.diff = None]
    BY <1>1 DEF RefreshVisible
  <2>2. view'.path = view.path /\ view'.diff = None /\ view.path \in Path
        /\ view' \in [path : Path \cup {None}, diff : Path \cup {None}, open : BOOLEAN]
    BY <1>1, <2>1 DEF Shows
  <2>3. \A q \in Late("diff") : Fine(q, view.path)
    BY LateIsFine DEF Shows
  <2>4. Fine(r, view.path)
    BY <2>2, DiffIsFine
  <2> HIDE DEF r
  <2>5. \A q \in reads' : Fine(q, view'.path)
    BY <2>1, <2>2, <2>3, <2>4
  <2>6. QED
    BY <2>2, <2>5 DEF Shows, DiffOfView, Fine, GoesOn
<1>2. CASE view.path = None /\ view.open
  <2> DEFINE r == WholeHistory(l, state, history.limit)
  <2>1. reads' = Late("history") \cup {r} /\ view' = view
    BY <1>2 DEF RefreshVisible
  <2>2. \A q \in Late("history") : Fine(q, view.path)
    BY LateIsFine DEF Shows
  <2>3. Fine(r, view.path)
    BY WholeIsFine DEF Shows, Histories
  <2> HIDE DEF r
  <2>4. \A q \in reads' : Fine(q, view'.path)
    BY <2>1, <2>2, <2>3
  <2>5. QED
    BY <2>1, <2>4 DEF Shows, DiffOfView, Fine, GoesOn
<1>3. CASE view.path = None /\ ~view.open
  BY <1>3, ShowsKept DEF RefreshVisible, Shows
<1>4. QED
  BY <1>1, <1>2, <1>3 DEF RefreshVisible

\* A read that is replaced by one that is as fine.
LEMMA ReplacedShows ==
  ASSUME Shows, NEW r \in reads, NEW S, reads' = (reads \ {r}) \cup S,
         \A q \in S : Fine(q, view.path), UNCHANGED <<view, history, shown, repo>>
  PROVE  Shows'
BY DEF Shows, DiffOfView, Fine, GoesOn

LEMMA ServesShows ==
  ASSUME Shows, NEW r \in reads, HostServes(r)
  PROVE  Shows'
<1>1. Fine(r, view.path) /\ r.answer = None
  BY DEF Shows, HostServes
<1>2. UNCHANGED <<view, history, shown, repo>>
  BY DEF HostServes, hostVars, shownVars
<1>3. ASSUME NEW answer \in Refused, reads' = (reads \ {r}) \cup {[r EXCEPT !.answer = answer]}
      PROVE  Shows'
  <2> DEFINE q == [r EXCEPT !.answer = answer]
  <2>1. CASE r \in DiffReads
    <3>1. q \in DiffReads /\ q.kind = "diff" /\ q.current = r.current /\ q.path = r.path
          /\ r.kind = "diff"
      BY <2>1 DEF DiffReads
    <3>2. Fine(q, view.path)
      BY <1>1, <3>1 DEF Fine
    <3>3. QED
      BY <1>2, <1>3, <3>2, ReplacedShows
  <2>2. CASE r \in HistoryReads
    <3>1. /\ q \in HistoryReads /\ q.kind = "history" /\ r.kind = "history"
          /\ q.answer = answer /\ q.anchor = r.anchor /\ q.commits = r.commits
      BY <2>2 DEF HistoryReads
    <3> HIDE DEF q
    <3>2. Fine(q, view.path)
      BY <1>1, <3>1 DEF Fine, GoesOn
    <3>3. QED
      BY <1>2, <1>3, <3>2, ReplacedShows DEF q
  <2>3. QED
    BY <1>1, <2>1, <2>2 DEF Fine
<1>4. CASE r \in DiffReads /\ reads' = (reads \ {r}) \cup {[r EXCEPT !.answer = <<>>]}
  <2> DEFINE q == [r EXCEPT !.answer = <<>>]
  <2>1. q \in DiffReads /\ q.kind = "diff" /\ q.current = r.current /\ q.path = r.path
        /\ r.kind = "diff"
    BY <1>4 DEF DiffReads
  <2>2. Fine(q, view.path)
    BY <1>1, <2>1 DEF Fine
  <2>3. QED
    BY <1>2, <1>4, <2>2, ReplacedShows
<1>5. CASE r \in HistoryReads
           /\ reads' = (reads \ {r}) \cup {[r EXCEPT !.answer = PageOf(r), !.anchor = From(r)]}
  <2> DEFINE q == [r EXCEPT !.answer = PageOf(r), !.anchor = From(r)]
             count == Least(r.left, PageCap)
  <2>1. r.anchor \in Nat /\ r.left \in Nat /\ r.commits \in Seq(Nat) /\ r.kind = "history"
    BY <1>5 DEF HistoryReads
  <2>2. From(r) \in Nat /\ Begins(r.commits, From(r))
    <3>1. CASE r.anchor # 0
      BY <1>1, <2>1, <3>1 DEF From, Fine
    <3>2. CASE r.anchor = 0
      <4>1. Len(r.commits) <= 0
        BY <1>1, <2>1, <3>2 DEF Fine, Begins
      <4>2. r.commits = <<>>
        BY <2>1, <4>1
      <4>3. QED
        BY <3>2, <4>2, NothingBegins DEF From, Shows
    <3>3. QED
      BY <3>1, <3>2
  <2>3. count \in 0..r.left
    <3>1. PageCap \in Nat
      BY GitPanelAssumption
    <3>2. ASSUME NEW left \in Nat, NEW cap \in Nat PROVE Least(left, cap) \in 0..left
      BY DEF Least
    <3>3. QED
      BY <2>1, <3>1, <3>2
  <2>4. PageOf(r) = Page(From(r), Len(r.commits), count)
    BY DEF PageOf
  <2> HIDE DEF count
  <2>5. PageOf(r) \in Seq(Nat)
    BY <2>1, <2>2, <2>3, <2>4, PageJoins
  <2>6. /\ q \in HistoryReads /\ q.kind = "history" /\ q.answer = PageOf(r)
        /\ q.anchor = From(r) /\ q.commits = r.commits /\ q.left = r.left
    BY <1>5, <2>2, <2>5 DEF HistoryReads
  <2> HIDE DEF q
  <2>7. Fine(q, view.path)
    BY <2>2, <2>3, <2>4, <2>6 DEF Fine, GoesOn
  <2>8. QED
    BY <1>2, <1>5, <2>7, ReplacedShows DEF q
<1>6. r \in DiffReads => r.kind = "diff"
  BY DEF DiffReads
<1>7. r \in HistoryReads => r.kind # "diff"
  BY DEF HistoryReads
<1>8. QED
  BY <1>1, <1>3, <1>4, <1>5, <1>6, <1>7 DEF HostServes, Fine

LEMMA HearsShows ==
  ASSUME Shows, NEW r \in reads, HearServed(r)
  PROVE  Shows'
<1>1. Fine(r, view.path) /\ r.answer # None
  BY DEF Shows, HearServed
<1>2. UNCHANGED repo
  BY DEF HearServed, hostVars
<1>3. CASE HearDiff(r)
  <2>1. reads' = reads \ {r} /\ UNCHANGED <<history, shown>> /\ r \in DiffReads
    BY <1>1, <1>3 DEF HearDiff, Fine, shownVars, HistoryReads
  <2>2. CASE UNCHANGED view
    BY <1>2, <2>1, <2>2 DEF Shows, DiffOfView, Fine, GoesOn
  <2>3. CASE r.current /\ view' = [view EXCEPT !.diff = r.path]
    <3>1. r.path = view.path /\ r.path \in Path
      BY <1>1, <1>3, <2>1, <2>3 DEF HearDiff, Fine, DiffReads
    <3>2. view'.path = view.path /\ view'.diff = r.path
          /\ view' \in [path : Path \cup {None}, diff : Path \cup {None}, open : BOOLEAN]
      BY <2>3, <3>1 DEF Shows
    <3>3. QED
      BY <1>2, <2>1, <3>1, <3>2 DEF Shows, DiffOfView, Fine, GoesOn
  <2>4. QED
    BY <1>3, <2>2, <2>3 DEF HearDiff
<1>4. CASE HearHistory(r)
  <2> DEFINE commits == r.commits \o r.answer
             left == r.left - Len(r.answer)
             more == Len(commits) < Len(Log(r.anchor)) /\ r.answer # <<>>
             q == [r EXCEPT !.commits = commits, !.left = left, !.answer = None]
             h == [limit |-> history.limit, head |-> r.head, anchor |-> r.anchor,
                   commits |-> commits, more |-> more]
  <2>1. view' = view /\ shown' = shown /\ r.kind = "history" /\ r \in HistoryReads
    BY <1>1, <1>4 DEF HearHistory, Fine, shownVars, DiffReads
  <2>2. CASE reads' = reads \ {r} /\ UNCHANGED history
    BY <1>2, <2>1, <2>2 DEF Shows, DiffOfView, Fine, GoesOn
  <2>3. CASE r.answer \notin Refused
    <3>1. /\ r.anchor \in Nat /\ r.commits \in Seq(Nat) /\ r.left \in Nat
          /\ Begins(r.commits, r.anchor) /\ r.head \in Nat
      BY <1>1, <2>1 DEF HistoryReads, Fine
    <3>2. PICK count \in 0..r.left : r.answer = Page(r.anchor, Len(r.commits), count)
      BY <1>1, <2>1, <2>3 DEF Fine, GoesOn
    <3>3. count \in Nat
      BY <3>1, <3>2
    <3>4. /\ r.answer \in Seq(Nat) /\ commits \in Seq(Nat) /\ Begins(commits, r.anchor)
      BY <3>1, <3>2, <3>3, PageJoins
    <3> HIDE DEF commits
    <3>5. CASE left > 0 /\ more /\ reads' = (reads \ {r}) \cup {q} /\ UNCHANGED history
      <4>1. left \in Nat
        BY <3>1, <3>4, <3>5
      <4> HIDE DEF left
      <4>2. /\ q \in HistoryReads /\ q.kind = "history" /\ q.answer = None
            /\ q.commits = commits /\ q.anchor = r.anchor
        BY <2>1, <3>4, <4>1 DEF HistoryReads
      <4> HIDE DEF q
      <4>3. Fine(q, view.path)
        BY <3>4, <4>2 DEF Fine, GoesOn
      <4>4. QED
        BY <1>2, <2>1, <3>5, <4>3, ReplacedShows
    <3>6. CASE reads' = reads \ {r} /\ history' = h
      <4>1. h \in Histories /\ h.commits = commits /\ h.anchor = r.anchor
        BY <3>1, <3>4 DEF Histories, Shows
      <4> HIDE DEF h
      <4>2. QED
        BY <1>2, <2>1, <3>4, <3>6, <4>1 DEF Shows, DiffOfView, Fine, GoesOn
    <3>7. QED
      BY <1>4, <2>2, <2>3, <3>5, <3>6 DEF HearHistory, commits
  <2>4. QED
    BY <1>4, <2>2, <2>3 DEF HearHistory
<1>5. QED
  BY <1>3, <1>4 DEF HearServed

\* The reads of the other kind become late too when the diff is closed.
LEMMA BothLate ==
  ASSUME NEW path, NEW other, \A r \in reads : Fine(r, path)
  PROVE  \A r \in {IF q.kind = "history" THEN [q EXCEPT !.current = FALSE] ELSE q :
                     q \in Late("diff")} : Fine(r, other)
<1> SUFFICES ASSUME NEW q \in Late("diff")
             PROVE  Fine(IF q.kind = "history" THEN [q EXCEPT !.current = FALSE] ELSE q, other)
  OBVIOUS
<1> DEFINE r == [q EXCEPT !.current = FALSE]
<1>1. Fine(q, other)
  BY LateIsFine
<1>2. CASE q \in DiffReads
  BY <1>1, <1>2 DEF DiffReads
<1>3. CASE q \in HistoryReads
  <2>1. /\ r \in HistoryReads /\ r.kind = "history" /\ q.kind = "history"
        /\ r.answer = q.answer /\ r.anchor = q.anchor /\ r.commits = q.commits
        /\ r.left = q.left
    BY <1>3 DEF HistoryReads
  <2> HIDE DEF r
  <2>2. Fine(r, other) /\ Fine(q, other)
    BY <1>1, <1>3, <2>1 DEF Fine, GoesOn
  <2>3. QED
    BY <2>2 DEF r
<1>4. QED
  BY <1>1, <1>2, <1>3 DEF Fine

LEMMA LooksShow ==
  ASSUME Shows, CloseDiff \/ ToggleHistory \/ LoadMore \/ \E p \in Path : OpenDiff(p)
  PROVE  Shows'
<1> DEFINE View == [path : Path \cup {None}, diff : Path \cup {None}, open : BOOLEAN]
<1>1. UNCHANGED <<shown, repo>> /\ view \in View /\ history.limit \in Nat
  BY DEF CloseDiff, ToggleHistory, LoadMore, OpenDiff, Looks, shownVars, hostVars, Shows, Histories
<1>2. CASE CloseDiff
  <2>1. view'.path = None /\ view'.diff = None /\ view' \in View
    BY <1>1, <1>2 DEF CloseDiff
  <2>2. \A r \in Late("diff") : Fine(r, None)
    BY LateIsFine DEF Shows
  <2>3. Fine(WholeHistory(None, shown, history.limit), None)
    BY <1>1, WholeIsFine DEF Shows
  <2>4. \A r \in {IF q.kind = "history" THEN [q EXCEPT !.current = FALSE] ELSE q :
                    q \in Late("diff")} : Fine(r, None)
    BY BothLate DEF Shows
  <2>5. \A r \in reads' : Fine(r, None)
    BY <1>2, <2>2, <2>3, <2>4 DEF CloseDiff
  <2>6. QED
    BY <1>1, <1>2, <2>1, <2>5 DEF CloseDiff, Shows, DiffOfView, Fine, GoesOn
<1>3. CASE ToggleHistory
  <2>1. view'.path = view.path /\ view'.diff = view.diff /\ view' \in View
    BY <1>1, <1>3 DEF ToggleHistory
  <2>2. \A r \in Late("history") : Fine(r, view.path)
    BY LateIsFine DEF Shows
  <2>3. Fine(WholeHistory(None, shown, history.limit), view.path)
    BY <1>1, WholeIsFine DEF Shows
  <2>4. \A r \in reads' : Fine(r, view.path)
    BY <1>3, <2>2, <2>3 DEF ToggleHistory, Shows
  <2>5. QED
    BY <1>1, <1>3, <2>1, <2>4 DEF ToggleHistory, Shows, DiffOfView, Fine, GoesOn
<1>4. CASE LoadMore
  <2> DEFINE limit == Len(history.commits) + Window
             whole == WholeHistory(None, shown, limit)
             next == HistoryRead(None, shown, Window, history.anchor, history.commits)
  <2>1. history.commits \in Seq(Nat) /\ history.anchor \in Nat /\ Window \in Nat
        /\ Begins(history.commits, history.anchor) /\ shown \in Answer \cup {None}
    BY GitPanelAssumption DEF Shows, Histories
  <2>2. limit \in Nat
    BY <2>1
  <2> HIDE DEF limit
  <2>3. Fine(whole, view.path)
    BY <2>1, <2>2, WholeIsFine
  <2>4. Fine(next, view.path)
    BY <2>1, HistoryIsFine
  <2>5. \A r \in Late("history") : Fine(r, view.path)
    BY LateIsFine DEF Shows
  <2>6. /\ view' = view /\ history' = [history EXCEPT !.limit = limit]
        /\ reads' = Late("history") \cup {IF history.head # HeadOf(shown) THEN whole ELSE next}
    BY <1>4 DEF LoadMore, limit
  <2> HIDE DEF whole, next
  <2>7. \A r \in reads' : Fine(r, view.path)
    BY <2>3, <2>4, <2>5, <2>6
  <2>8. history' \in Histories /\ history'.commits = history.commits
        /\ history'.anchor = history.anchor
    BY <2>2, <2>6 DEF Shows, Histories
  <2>9. QED
    BY <1>1, <2>6, <2>7, <2>8 DEF Shows, DiffOfView, Fine, GoesOn
<1>5. CASE \E p \in Path : OpenDiff(p)
  <2>1. PICK p \in Path : OpenDiff(p)
    BY <1>5
  <2>2. view'.path = p /\ view'.diff = None /\ view' \in View
    BY <1>1, <2>1 DEF OpenDiff
  <2>3. \A r \in Late("diff") : Fine(r, p)
    BY LateIsFine DEF Shows
  <2>4. Fine(DiffRead(None, p), p)
    BY DiffIsFine
  <2>5. reads' = Late("diff") \cup {DiffRead(None, p)} /\ history' = history
    BY <2>1 DEF OpenDiff
  <2>6. \A r \in reads' : Fine(r, p)
    BY <2>3, <2>4, <2>5
  <2>7. QED
    BY <1>1, <2>2, <2>5, <2>6 DEF Shows, DiffOfView, Fine, GoesOn
<1>6. QED
  BY <1>2, <1>3, <1>4, <1>5

LEMMA WriteShows ==
  ASSUME Shows, NEW w \in Write, HearWrite(w)
  PROVE  Shows'
<1>1. UNCHANGED <<repo, history>>
  BY DEF HearWrite, hostVars
<1>2. CASE HearFailed(w)
  BY <1>1, <1>2, ShowsKept DEF HearFailed, Shows
<1>3. CASE HearDone(w)
  <2>1. CASE \E state \in Answer : RefreshVisible(w, state) /\ shown' = state
    BY <1>1, <2>1, VisibleShows DEF Loader
  <2>2. CASE UNCHANGED <<view, reads>> /\ shown' \in {shown} \cup Answer
    BY <1>1, <2>2, ShowsKept DEF Shows
  <2>3. QED
    BY <1>3, <2>1, <2>2 DEF HearDone, shownVars
<1>4. QED
  BY <1>2, <1>3 DEF HearWrite

LEMMA LoadShows ==
  ASSUME Shows, NEW l \in Loader, HearLoad(l)
  PROVE  Shows'
<1>1. UNCHANGED <<repo, history>>
  BY DEF HearLoad, hostVars
<1>2. CASE \E state \in Answer : RefreshVisible(l, state) /\ shown' = state
  BY <1>1, <1>2, VisibleShows
<1>3. CASE UNCHANGED <<view, reads>> /\ shown' \in {shown, None}
  BY <1>1, <1>3, ShowsKept DEF Shows
<1>4. QED
  BY <1>2, <1>3 DEF HearLoad, NotReady, shownVars

LEMMA ShowsNext == Fields /\ Shows /\ [Next]_vars => Shows'
<1> SUFFICES ASSUME Fields, Shows, [Next]_vars PROVE Shows'
  OBVIOUS
<1> USE DEF hostVars, shownVars, viewVars
<1>0. repo.head \in Nat /\ \A commits \in {0, 1} : Changed(commits).head \in Nat
  BY DEF Shows, Changed
<1>1. CASE UNCHANGED vars
  BY <1>0, <1>1, ShowsKept DEF vars
<1>2. CASE Foreign
  BY <1>0, <1>2, ShowsKept DEF Foreign
<1>3. ASSUME NEW w \in Write, HostWrites(w) PROVE Shows'
  <2>1. repo'.head \in Nat
    BY <1>0, <1>3 DEF HostWrites
  <2>2. QED
    BY <1>3, <2>1, ShowsKept DEF HostWrites
<1>4. CASE SessionMoves \/ Trigger \/ AskSetup \/ Dispose \/ RefreshSettles \/ RetryFires
  BY <1>0, <1>4, ShowsKept
  DEF SessionMoves, Trigger, AskSetup, Dispose, RefreshSettles, RetryFires
<1>5. ASSUME NEW w \in Write, StartWrite(w) \/ StartCreate(w) \/ RetryCommit(w) \/ WriteSettles(w)
      PROVE  Shows'
  BY <1>0, <1>5, ShowsKept DEF StartWrite, StartCreate, RetryCommit, WriteSettles, Begin
<1>6. ASSUME NEW l \in Loader, HostReads(l) PROVE Shows'
  BY <1>0, <1>6, ShowsKept DEF HostReads
<1>7. Refresh \in Loader /\ Write \subseteq Loader
  BY DEF Loader
<1>8. CASE User
  BY <1>4, <1>5, <1>8, LooksShow DEF User
<1>9. CASE RefreshSteps \/ ReadSteps \/ \E w \in Write : WriteSteps(w)
  BY <1>3, <1>4, <1>5, <1>6, <1>7, <1>9, WriteShows, LoadShows, ServesShows, HearsShows
  DEF RefreshSteps, ReadSteps, WriteSteps
<1>10. QED
  BY <1>1, <1>2, <1>4, <1>8, <1>9 DEF Next

-----------------------------------------------------------------------------
(* How many changes there have been *)

LEMMA PendingFacts ==
  /\ IsFiniteSet(Pending) /\ Cardinality(Pending) \in Nat
  /\ \A w \in Pending : Cardinality(Pending \ {w}) + 1 = Cardinality(Pending)
  /\ \A w : w \notin Pending => Cardinality(Pending \cup {w}) = Cardinality(Pending) + 1
<1>1. IsFiniteSet(Write)
  BY FS_Interval, GitPanelAssumption DEF Write
<1>2. IsFiniteSet(Pending)
  BY <1>1, FS_Subset DEF Pending
<1>3. QED
  BY <1>2, FS_CardinalityType, FS_AddElement, FS_RemoveElement

\* What the host has is an answer it may give, and so is what a write leaves.
LEMMA RepoIsAnswer ==
  ASSUME Fields, Count
  PROVE  repo \in Answer
<1>1. Cardinality(Pending) \in Nat
  BY PendingFacts
<1>2. {MaxEvents, FirstHead} \subseteq Nat
  BY GitPanelAssumption
<1>3. repo.version \in 0..MaxEvents /\ repo.head \in 0..(FirstHead + MaxEvents)
  BY <1>1, <1>2 DEF Fields, Count
<1>4. QED
  BY <1>3 DEF Fields, Answer

LEMMA CountKept ==
  ASSUME Fields, Count, UNCHANGED repo, Pending' = Pending, UNCHANGED events \/ Event
  PROVE  Count'
<1>1. Cardinality(Pending) \in Nat /\ repo.version \in Nat /\ MaxEvents \in Nat
  BY PendingFacts, GitPanelAssumption DEF Fields
<1>2. QED
  BY <1>1 DEF Count, Event

LEMMA CountOfHost ==
  ASSUME Fields, Count, NEW w \in Write, HostWrites(w)
  PROVE  Count' /\ repo' \in [version : Nat, head : Nat]
         /\ write' \in [Write -> Writes]
         /\ \A v \in Write : write'[v].answer = Hook => write'[v].kind = "commit"
<1>1. w \in Pending
  BY DEF HostWrites, Pending
<1>2. Cardinality(Pending) \in Nat /\ Cardinality(Pending \ {w}) + 1 = Cardinality(Pending)
      /\ Cardinality(Pending \ {w}) \in Nat
  <2>1. Cardinality(Pending \ {w}) \in Nat
    BY PendingFacts, FS_Subset, FS_CardinalityType
  <2>2. QED
    BY <1>1, <2>1, PendingFacts
<1>3. MaxEvents \in Nat /\ FirstHead \in Nat /\ repo.version \in Nat /\ repo.head \in Nat
      /\ events \in Nat /\ events <= MaxEvents
  BY GitPanelAssumption DEF Fields, Count
<1>4. /\ events' = events \/ (events' = events + 1 /\ events < MaxEvents)
      /\ \/ repo' = repo
         \/ \E commits \in {0, 1} : repo' = Changed(commits)
  BY DEF HostWrites, CallFails, Event
<1>5. repo'.version <= repo.version + 1 /\ repo'.version \in Nat /\ repo'.head \in Nat
      /\ repo'.head <= FirstHead + repo'.version
      /\ repo' \in [version : Nat, head : Nat]
  BY <1>3, <1>4 DEF Changed, Count, Fields
<1>6. events' \in 0..MaxEvents /\ events <= events'
  BY <1>3, <1>4
<1>7. repo' \in Answer
  <2>1. repo'.version <= events
    BY <1>2, <1>3, <1>5 DEF Count
  <2>2. repo'.version \in 0..MaxEvents /\ repo'.head \in 0..(FirstHead + MaxEvents)
    BY <1>3, <1>5, <2>1
  <2>3. QED
    BY <1>5, <2>2 DEF Answer
<1>8. PICK answer \in Answer \cup Refused :
        /\ write' = [write EXCEPT ![w].answer = answer]
        /\ answer = Hook => write[w].kind = "commit"
  BY <1>7, GitPanelAssumption DEF HostWrites, Refused, CallFails
<1>9. write' \in [Write -> Writes]
  <2>1. [write[w] EXCEPT !.answer = answer] \in Writes
    <3>1. write[w] \in Writes
      BY DEF Fields
    <3>2. answer \in Answer \cup Refused \cup {None}
      OBVIOUS
    <3>3. QED
      BY <3>1, <3>2 DEF Writes
  <2>2. QED
    BY <1>8, <2>1 DEF Fields
<1>10. Pending' = Pending \ {w}
  <2>1. answer # None
    BY GitPanelAssumption
  <2>2. write'[w].answer = answer /\ \A v \in Write : v # w => write'[v] = write[v]
    BY <1>8 DEF Fields, Writes
  <2>3. QED
    BY <2>1, <2>2 DEF Pending
<1>11. Count'
  BY <1>2, <1>3, <1>5, <1>6, <1>10 DEF Count
<1>12. \A v \in Write : write'[v].answer = Hook => write'[v].kind = "commit"
  <2>1. write'[w].answer = answer /\ write'[w].kind = write[w].kind
        /\ \A v \in Write : v # w => write'[v] = write[v]
    BY <1>8 DEF Fields, Writes
  <2>2. QED
    BY <1>8, <2>1 DEF Fields
<1>13. QED
  BY <1>5, <1>9, <1>11, <1>12

LEMMA CountOfBegin ==
  ASSUME Fields, Count, NEW w \in Write, NEW kind \in Kind, Begin(w, kind)
  PROVE  Count' /\ write' \in [Write -> Writes] /\ busy' \in Write
         /\ write[w].at = "none" /\ write'[w].at = "sent" /\ write'[w].answer = None
         /\ \A v \in Write : v # w => write'[v] = write[v]
<1> DEFINE new == [kind |-> kind, at |-> "sent", answer |-> None]
<1>1. write[w].at = "none"
  <2>1. w \in Int
    BY DEF Write
  <2>2. QED
    BY <2>1 DEF Begin
<1>2. w \notin Pending
  BY <1>1 DEF Pending
<1>3. Cardinality(Pending \cup {w}) = Cardinality(Pending) + 1 /\ Cardinality(Pending) \in Nat
  BY <1>2, PendingFacts
<1>4. new \in Writes /\ write' = [write EXCEPT ![w] = new]
  BY DEF Begin, Writes
<1> HIDE DEF new
<1>5. write' \in [Write -> Writes] /\ write'[w] = new /\ \A v \in Write : v # w => write'[v] = write[v]
  BY <1>4 DEF Fields
<1>6. new.at = "sent" /\ new.answer = None
  BY DEF new
<1>7. Pending' = Pending \cup {w}
  BY <1>5, <1>6 DEF Pending
<1>8. repo' = repo /\ events < MaxEvents /\ events' = events + 1
  BY DEF Begin, Event, hostVars
<1>9. repo.version \in Nat /\ MaxEvents \in Nat
  BY GitPanelAssumption DEF Fields
<1>10. Count'
  BY <1>3, <1>7, <1>8, <1>9 DEF Count
<1>11. QED
  BY <1>1, <1>5, <1>6, <1>10 DEF Begin

\* The buttons offer what there is.
LEMMA KindOfBegin ==
  ASSUME Fields, NEW w, StartWrite(w) \/ StartCreate(w) \/ RetryCommit(w)
  PROVE  \E kind \in Kind : Begin(w, kind)
BY DEF Fields, StartWrite, StartCreate, RetryCommit

LEMMA CountNext == Fields /\ Count /\ [Next]_vars => Count'
<1> SUFFICES ASSUME Fields, Count, [Next]_vars PROVE Count'
  OBVIOUS
<1> USE DEF hostVars, shownVars, viewVars
<1>1. CASE UNCHANGED vars
  BY <1>1, CountKept DEF vars, Pending
<1>2. CASE Foreign
  <2>1. Pending' = Pending
    BY <1>2 DEF Foreign, Pending
  <2>2. PICK commits \in {0, 1} : repo' = Changed(commits)
    BY <1>2 DEF Foreign
  <2>3. repo'.version = repo.version + 1 /\ repo'.head = repo.head + commits
    BY <2>2 DEF Changed
  <2>4. repo.version \in Nat /\ repo.head \in Nat /\ Cardinality(Pending) \in Nat
        /\ MaxEvents \in Nat /\ FirstHead \in Nat
    BY PendingFacts, GitPanelAssumption DEF Fields
  <2>5. events < MaxEvents /\ events' = events + 1
    BY <1>2 DEF Foreign, Event
  <2>6. QED
    BY <2>1, <2>3, <2>4, <2>5 DEF Count
<1>3. CASE SessionMoves \/ AskSetup \/ Trigger \/ Dispose \/ RetryFires \/ RefreshSettles
  <2>1. Pending' = Pending
    BY <1>3 DEF SessionMoves, AskSetup, Trigger, Dispose, RetryFires, RefreshSettles, Pending
  <2>2. QED
    BY <1>3, <2>1, CountKept DEF SessionMoves, AskSetup, Trigger, Dispose, RetryFires, RefreshSettles
<1>4. ASSUME NEW l \in Loader, HostReads(l) \/ HearLoad(l) PROVE Count'
  <2>1. Pending' = Pending
    BY <1>4 DEF HostReads, HearLoad, Pending
  <2>2. QED
    BY <1>4, <2>1, CountKept DEF HostReads, HearLoad, CallFails
<1>5. ASSUME NEW r, HostServes(r) \/ HearServed(r) PROVE Count'
  <2>1. Pending' = Pending
    BY <1>5 DEF HostServes, HearServed, Pending
  <2>2. QED
    BY <1>5, <2>1, CountKept DEF HostServes, HearServed, CallFails
<1>6. CASE CloseDiff \/ ToggleHistory \/ LoadMore \/ \E p \in Path : OpenDiff(p)
  <2>1. Pending' = Pending
    BY <1>6 DEF CloseDiff, ToggleHistory, LoadMore, OpenDiff, Looks, Pending
  <2>2. QED
    BY <1>6, <2>1, CountKept DEF CloseDiff, ToggleHistory, LoadMore, OpenDiff, Looks
<1>7. ASSUME NEW w \in Write, HearWrite(w) \/ WriteSettles(w) PROVE Count'
  <2>1. \A v \in Write : v # w => write'[v] = write[v]
    BY <1>7 DEF HearWrite, HearDone, HearFailed, WriteSettles, Ended, Fields
  <2>2. ~(write[w].at = "sent" /\ write[w].answer = None)
    BY <1>7 DEF HearWrite, WriteSettles, WriteSettled
  <2>3. write'[w].at # "sent"
    BY <1>7 DEF HearWrite, HearDone, HearFailed, WriteSettles, Ended, Fields, Writes
  <2>4. Pending' = Pending
    BY <2>1, <2>2, <2>3 DEF Pending
  <2>5. QED
    BY <1>7, <2>4, CountKept DEF HearWrite, WriteSettles
<1>8. ASSUME NEW w \in Write, StartWrite(w) \/ StartCreate(w) \/ RetryCommit(w) PROVE Count'
  BY <1>8, CountOfBegin, KindOfBegin
<1>9. Refresh \in Loader /\ Write \subseteq Loader
  BY DEF Loader
<1>10. CASE User
  BY <1>3, <1>6, <1>8, <1>10 DEF User
<1>11. CASE RefreshSteps \/ ReadSteps \/ \E w \in Write : WriteSteps(w)
  BY <1>3, <1>4, <1>5, <1>7, <1>9, <1>11, CountOfHost DEF RefreshSteps, ReadSteps, WriteSteps
<1>12. QED
  BY <1>1, <1>2, <1>3, <1>10, <1>11 DEF Next

-----------------------------------------------------------------------------
(* The rest of the types *)

LEMMA AskedTyped ==
  ASSUME Fields, NEW l \in Loader, Asked(l)
  PROVE  /\ load' \in [Loader -> Loads \cup {None}]
         /\ load'[l].at = "asked" /\ load'[l].revision = revision /\ load'[l].answer = None
         /\ \A k \in Loader : k # l => load'[k] = load[k]
<1> DEFINE new == [at |-> "asked", revision |-> revision, answer |-> None]
<1>1. new \in Loads /\ load' = [load EXCEPT ![l] = new]
  BY DEF Asked, Fields, Loads
<1>2. new.at = "asked" /\ new.revision = revision /\ new.answer = None
  OBVIOUS
<1> HIDE DEF new
<1>3. QED
  BY <1>1, <1>2 DEF Fields

LEMMA RetryTyped ==
  ASSUME Fields
  PROVE  LET Retries == [count : 0..SESSION_RETRY_LIMIT, timer : BOOLEAN, retrying : BOOLEAN]
         IN  /\ Cleared(retry) \in Retries /\ Attempted(retry) \in Retries
             /\ \A t, u \in BOOLEAN : [retry EXCEPT !.timer = t, !.retrying = u] \in Retries
             /\ \A u \in BOOLEAN : [retry EXCEPT !.retrying = u] \in Retries
             /\ [retry EXCEPT !.count = Least(@ + 1, SESSION_RETRY_LIMIT), !.timer = TRUE]
                  \in Retries
<1>1. SESSION_RETRY_LIMIT \in Nat
  BY GitPanelAssumption
<1>2. Least(retry.count + 1, SESSION_RETRY_LIMIT) \in 0..SESSION_RETRY_LIMIT
  BY <1>1 DEF Fields, Least
<1>3. 0 \in 0..SESSION_RETRY_LIMIT
  BY <1>1
<1>4. QED
  BY <1>2, <1>3 DEF Fields, Cleared, Attempted

LEMMA FieldsOfRefresh ==
  ASSUME Fields, Trigger \/ RetryFires \/ RefreshSettles
  PROVE  Fields'
<1> USE DEF hostVars, shownVars, viewVars
<1>1. Refresh \in Loader
  BY DEF Loader
<1>2. Asked(Refresh) => load' \in [Loader -> Loads \cup {None}]
  BY <1>1, AskedTyped
<1>3. phase' \in {"loading", "ready", "degraded", "failed"}
  BY DEF Trigger, RetryFires, RefreshSettles, Loading, Fields
<1>4. refresh' \in [running : BOOLEAN, pending : BOOLEAN]
  <2>1. /\ [refresh EXCEPT !.pending = TRUE] \in [running : BOOLEAN, pending : BOOLEAN]
        /\ [refresh EXCEPT !.pending = FALSE] \in [running : BOOLEAN, pending : BOOLEAN]
        /\ [refresh EXCEPT !.running = TRUE] \in [running : BOOLEAN, pending : BOOLEAN]
        /\ [running |-> FALSE, pending |-> FALSE] \in [running : BOOLEAN, pending : BOOLEAN]
    BY DEF Fields
  <2>2. QED
    BY <2>1 DEF Trigger, RetryFires, RefreshSettles
<1>5. retry' \in [count : 0..SESSION_RETRY_LIMIT, timer : BOOLEAN, retrying : BOOLEAN]
  <2>1. TRUE \in BOOLEAN /\ FALSE \in BOOLEAN
    OBVIOUS
  <2>2. refresh.running \in BOOLEAN
    BY DEF Fields
  <2>3. (~refresh.running) \in BOOLEAN
    BY <2>2
  <2>4. QED
    BY <2>1, <2>3, RetryTyped DEF Trigger, RetryFires, RefreshSettles, Fields
<1>6. load' \in [Loader -> Loads \cup {None}]
  BY <1>2 DEF Trigger, RetryFires, RefreshSettles, Fields
<1>7. UNCHANGED <<repo, ready, failure, hook, busy, revision, write, setup, disposed, overlapped>>
  BY DEF Trigger, RetryFires, RefreshSettles
<1>8. QED
  BY <1>3, <1>4, <1>5, <1>6, <1>7 DEF Fields

LEMMA FieldsOfLoad ==
  ASSUME Fields, Count, NEW l \in Loader, HostReads(l) \/ HearLoad(l)
  PROVE  Fields'
<1> USE DEF hostVars, shownVars, viewVars
<1>1. CASE HostReads(l)
  <2>1. PICK answer \in Answer \cup Refused : load' = [load EXCEPT ![l].answer = answer]
    BY <1>1, RepoIsAnswer DEF HostReads
  <2>2. load[l] \in Loads
    BY <1>1 DEF HostReads, Fields
  <2>3. [load[l] EXCEPT !.answer = answer] \in Loads
    BY <2>2 DEF Loads
  <2>4. load' \in [Loader -> Loads \cup {None}]
    BY <2>1, <2>3 DEF Fields
  <2>5. QED
    BY <1>1, <2>4 DEF HostReads, Fields
<1>2. CASE HearLoad(l)
  <2>1. [load[l] EXCEPT !.at = "visible"] \in Loads
    BY <1>2 DEF HearLoad, Fields, Loads
  <2>2. load' \in [Loader -> Loads \cup {None}]
    BY <1>2, <2>1 DEF HearLoad, Fields
  <2>3. failure' \in Refused \cup {None} /\ phase' \in {"loading", "ready", "degraded", "failed"}
        /\ hook' = hook
    <3>1. load[l].answer \in Answer \cup Refused
      BY <1>2 DEF HearLoad, Fields, Loads
    <3>2. failure \in Refused \cup {None} /\ Session \in Refused
          /\ phase \in {"loading", "ready", "degraded", "failed"}
      BY DEF Fields, Refused
    <3>3. CASE UNCHANGED shownVars
      BY <3>2, <3>3
    <3>4. CASE load[l].answer \in Answer /\ ~UNCHANGED shownVars
      BY <1>2, <3>2, <3>4 DEF HearLoad
    <3>5. CASE load[l].answer \in Refused /\ load[l].answer \notin Answer /\ ~UNCHANGED shownVars
      BY <1>2, <3>2, <3>5 DEF HearLoad, NotReady
    <3>6. QED
      BY <3>1, <3>3, <3>4, <3>5
  <2>4. retry' \in [count : 0..SESSION_RETRY_LIMIT, timer : BOOLEAN, retrying : BOOLEAN]
    BY <1>2, RetryTyped DEF HearLoad, NotReady, Fields
  <2>5. UNCHANGED <<repo, ready, busy, revision, refresh, write, setup, disposed, overlapped>>
    BY <1>2 DEF HearLoad
  <2>6. QED
    BY <2>2, <2>3, <2>4, <2>5 DEF Fields
<1>3. QED
  BY <1>1, <1>2

\* What a step of a write may do to its record.
LEMMA MovedTyped ==
  ASSUME Fields, NEW w \in Write, NEW to \in {"visible", "reload", "over"},
         write' = [write EXCEPT ![w].at = to]
  PROVE  /\ write' \in [Write -> Writes]
         /\ write'[w].at = to /\ write'[w].answer = write[w].answer
         /\ write'[w].kind = write[w].kind
         /\ \A v \in Write : v # w => write'[v] = write[v]
         /\ \A v \in Write : write'[v].answer = Hook => write'[v].kind = "commit"
<1>1. write[w] \in Writes
  BY DEF Fields
<1>2. [write[w] EXCEPT !.at = to] \in Writes
  BY <1>1 DEF Writes
<1>3. write' \in [Write -> Writes]
  BY <1>2 DEF Fields
<1>4. /\ write'[w].at = to /\ write'[w].answer = write[w].answer
      /\ write'[w].kind = write[w].kind /\ \A v \in Write : v # w => write'[v] = write[v]
  BY <1>1 DEF Fields, Writes
<1>5. QED
  BY <1>3, <1>4 DEF Fields

LEMMA FieldsOfHear ==
  ASSUME Fields, NEW w \in Write, HearWrite(w) \/ WriteSettles(w)
  PROVE  /\ Fields'
         /\ \E to \in {"visible", "reload", "over"} : write' = [write EXCEPT ![w].at = to]
<1> USE DEF hostVars, shownVars, viewVars
<1>1. PICK to \in {"visible", "reload", "over"} : write' = [write EXCEPT ![w].at = to]
  BY DEF HearWrite, HearDone, HearFailed, WriteSettles, Ended
<1>2. /\ write' \in [Write -> Writes]
      /\ \A v \in Write : write'[v].answer = Hook => write'[v].kind = "commit"
  BY <1>1, MovedTyped
<1>3. write[w] \in Writes
  BY DEF Fields
<1>4. w \in Loader
  BY DEF Loader
<1>5. load' \in [Loader -> Loads \cup {None}]
  BY <1>4, AskedTyped DEF HearWrite, HearDone, HearFailed, WriteSettles, Fields
<1>6. retry' \in [count : 0..SESSION_RETRY_LIMIT, timer : BOOLEAN, retrying : BOOLEAN]
  BY RetryTyped DEF HearWrite, HearDone, HearFailed, WriteSettles, Fields
<1>7. phase' \in {"loading", "ready", "degraded", "failed"}
  BY DEF HearWrite, HearDone, HearFailed, WriteSettles, Loading, Reported, Fields
<1>8. failure' \in Refused \cup {None}
  <2>1. failure \in Refused \cup {None}
    BY DEF Fields
  <2>2. failure' \in {failure, None, write[w].answer}
    BY DEF HearWrite, HearDone, HearFailed, WriteSettles, Reported
  <2>3. failure' = write[w].answer => failure' \in Refused \cup {failure, None}
    BY DEF HearWrite, HearDone, HearFailed, WriteSettles, Reported
  <2>4. QED
    BY <2>1, <2>2, <2>3
<1>9. /\ hook' \in BOOLEAN
      /\ hook' => hook \/ write[w].answer = Hook
  <2>1. hook \in BOOLEAN
    BY DEF Fields
  <2>2. CASE hook' = hook
    BY <2>1, <2>2
  <2>3. CASE hook' = (hook /\ write[w].kind # "commit")
    BY <2>1, <2>3
  <2>4. CASE hook' = (hook \/ (write[w].answer = Hook /\ ~disposed))
    BY <2>1, <2>4
  <2>5. QED
    BY <2>2, <2>3, <2>4 DEF HearWrite, HearDone, HearFailed, WriteSettles
<1>10. hook' => "commit" \in Kind
  <2>1. write[w].answer = Hook => write[w].kind = "commit"
    BY DEF Fields
  <2>2. write[w].kind \in Kind \cup {None}
    BY <1>3 DEF Writes
  <2>3. None # "commit"
    BY GitPanelAssumption DEF Kinds
  <2>4. QED
    BY <1>9, <2>1, <2>2, <2>3 DEF Fields
<1>11. busy' \in Write \cup {None} /\ revision' \in Nat
  BY DEF HearWrite, HearDone, HearFailed, WriteSettles, Ended, Fields
<1>12. UNCHANGED <<repo, ready, refresh, setup, disposed, overlapped>>
  BY DEF HearWrite, WriteSettles
<1>13. Fields'
  BY <1>2, <1>5, <1>6, <1>7, <1>8, <1>9, <1>10, <1>11, <1>12 DEF Fields
<1>14. QED
  BY <1>1, <1>13

LEMMA FieldsOfStart ==
  ASSUME Fields, Count, NEW w \in Write, StartWrite(w) \/ StartCreate(w) \/ RetryCommit(w)
  PROVE  Fields'
<1> USE DEF hostVars, shownVars, viewVars
<1>1. PICK kind \in Kind : Begin(w, kind)
  BY KindOfBegin
<1>2. /\ write' \in [Write -> Writes] /\ busy' \in Write /\ write'[w].answer = None
      /\ \A v \in Write : v # w => write'[v] = write[v]
  BY <1>1, CountOfBegin
<1>3. \A v \in Write : write'[v].answer = Hook => write'[v].kind = "commit"
  BY <1>2, GitPanelAssumption DEF Fields
<1>4. hook' \in BOOLEAN /\ (hook' => hook)
  <2>1. hook \in BOOLEAN
    BY DEF Fields
  <2>2. CASE hook' = hook
    BY <2>1, <2>2
  <2>3. CASE hook' = FALSE
    BY <2>1, <2>3
  <2>4. CASE \E k \in Kind : hook' = (hook /\ k # "commit")
    BY <2>1, <2>4
  <2>5. QED
    BY <2>2, <2>3, <2>4 DEF StartWrite, StartCreate, RetryCommit
<1>5. setup' \in BOOLEAN /\ (setup' => setup)
  <2>1. setup \in BOOLEAN
    BY DEF Fields
  <2>2. setup' = setup \/ setup' = FALSE
    BY DEF StartWrite, StartCreate, RetryCommit
  <2>3. CASE setup' = setup
    BY <2>1, <2>3
  <2>4. CASE setup' = FALSE
    BY <2>1, <2>4
  <2>5. QED
    BY <2>2, <2>3, <2>4
<1>6. revision' \in Nat
  BY DEF StartWrite, StartCreate, RetryCommit, Fields
<1>7. overlapped' \in BOOLEAN
  <2>1. overlapped' = (overlapped \/ \E v \in Write : InFlight(v))
    BY <1>1 DEF Begin
  <2>2. QED
    BY <2>1
<1>8. failure' = None /\ UNCHANGED <<repo, ready, phase, refresh, retry, load, disposed>>
  BY <1>1 DEF Begin
<1>9. QED
  BY <1>2, <1>3, <1>4, <1>5, <1>6, <1>7, <1>8 DEF Fields

LEMMA FieldsNext == Fields /\ Count /\ [Next]_vars => Fields'
<1> SUFFICES ASSUME Fields, Count, [Next]_vars PROVE Fields'
  OBVIOUS
<1> USE DEF hostVars, shownVars, viewVars
<1>1. CASE UNCHANGED vars
  BY <1>1 DEF vars, Fields
<1>2. CASE Foreign
  <2>1. repo' \in [version : Nat, head : Nat]
    BY <1>2 DEF Foreign, Changed, Fields
  <2>2. QED
    BY <1>2, <2>1 DEF Foreign, Fields
<1>3. CASE SessionMoves
  <2>1. ready' \in BOOLEAN
    BY <1>3, Zenon DEF SessionMoves, Fields
  <2>2. QED
    BY <1>3, <2>1 DEF SessionMoves, Fields
<1>4. CASE AskSetup
  BY <1>4 DEF AskSetup, Fields
<1>5. CASE Dispose
  <2>1. retry' \in [count : 0..SESSION_RETRY_LIMIT, timer : BOOLEAN, retrying : BOOLEAN]
    BY <1>5, RetryTyped DEF Dispose
  <2>2. disposed' \in BOOLEAN
    BY <1>5 DEF Dispose
  <2>3. QED
    BY <1>5, <2>1, <2>2 DEF Dispose, Fields
<1>6. ASSUME NEW r, HostServes(r) PROVE Fields'
  BY <1>6 DEF HostServes, Fields
<1>7. ASSUME NEW r \in reads, HearServed(r) PROVE Fields'
  <2>1. failure' \in {failure, r.answer} /\ (failure' = r.answer => failure' \in Refused \cup {failure})
        /\ phase' \in {phase, "degraded"} /\ hook' = hook
    BY <1>7 DEF HearServed, HearDiff, HearHistory, Reported
  <2>2. QED
    BY <1>7, <2>1 DEF HearServed, Fields
<1>8. CASE CloseDiff \/ ToggleHistory \/ LoadMore \/ \E p \in Path : OpenDiff(p)
  <2>1. UNCHANGED <<hostVars, shownVars, busy, revision, refresh, retry, load, write,
                    setup, disposed, overlapped>>
    BY <1>8 DEF CloseDiff, ToggleHistory, LoadMore, OpenDiff, Looks
  <2>2. QED
    BY <2>1 DEF Fields
<1>9. ASSUME NEW w \in Write, HostWrites(w) PROVE Fields'
  <2>1. repo' \in [version : Nat, head : Nat] /\ write' \in [Write -> Writes]
        /\ \A v \in Write : write'[v].answer = Hook => write'[v].kind = "commit"
    BY <1>9, CountOfHost
  <2>2. QED
    BY <1>9, <2>1 DEF HostWrites, Fields
<1>10. Refresh \in Loader /\ Write \subseteq Loader
  BY DEF Loader
<1>11. CASE User
  BY <1>4, <1>5, <1>8, <1>11, FieldsOfRefresh, FieldsOfStart DEF User
<1>12. CASE RefreshSteps \/ ReadSteps \/ \E w \in Write : WriteSteps(w)
  BY <1>6, <1>7, <1>9, <1>10, <1>12, FieldsOfRefresh, FieldsOfLoad, FieldsOfHear
  DEF RefreshSteps, ReadSteps, WriteSteps
<1>13. QED
  BY <1>1, <1>2, <1>3, <1>11, <1>12 DEF Next

LEMMA BaseInit == Init => Base
<1> SUFFICES ASSUME Init PROVE Base
  OBVIOUS
<1>1. {FirstHead, Window, MaxEvents, SESSION_RETRY_LIMIT} \subseteq Nat
  BY GitPanelAssumption
<1>2. Shows
  <2>1. history \in Histories /\ Begins(history.commits, history.anchor)
    BY <1>1, NothingBegins DEF Init, Histories
  <2>2. QED
    BY <1>1, <2>1 DEF Init, Shows, DiffOfView
<1>3. Count
  <2>1. Pending = {}
    BY DEF Init, Pending
  <2>2. QED
    BY <1>1, <2>1, FS_EmptySet DEF Init, Count
<1>4. Fields
  <2>1. repo \in [version : Nat, head : Nat]
    BY <1>1 DEF Init
  <2>2. load \in [Loader -> Loads \cup {None}]
    <3>1. [at |-> "asked", revision |-> 0, answer |-> None] \in Loads
      BY DEF Loads
    <3>2. QED
      BY <3>1 DEF Init
  <2>3. write \in [Write -> Writes]
    BY DEF Init, Writes
  <2>4. retry \in [count : 0..SESSION_RETRY_LIMIT, timer : BOOLEAN, retrying : BOOLEAN]
    BY <1>1 DEF Init
  <2>5. \A w \in Write : write[w].answer # Hook
    BY GitPanelAssumption DEF Init
  <2>6. QED
    BY <2>1, <2>2, <2>3, <2>4, <2>5 DEF Init, Fields
<1>5. QED
  BY <1>2, <1>3, <1>4 DEF Base

LEMMA BaseNext == Base /\ [Next]_vars => Base'
BY FieldsNext, CountNext, ShowsNext DEF Base

-----------------------------------------------------------------------------
(* Who writes, and who may still be shown *)

\* The invariant behind NeverOlder.
Versions ==
  OneWrite /\ Named /\ Reloads /\ Revisions /\ Past /\ Order

LEMMA VersionsInit == Init => Versions
<1> SUFFICES ASSUME Init PROVE Versions
  OBVIOUS
<1>1. \A w \in Write : ~InFlight(w) /\ w # Refresh
  BY DEF Init, InFlight, Write, Refresh
<1>2. \A l \in Loader : load[l] = None \/ l = Refresh
  BY DEF Init
<1>3. Refresh \in Loader /\ Write \subseteq Loader
  BY DEF Loader
<1>4. load[Refresh].answer = None /\ load[Refresh].revision = 0
  BY <1>3 DEF Init
<1>5. None \notin Answer
  BY GitPanelAssumption
<1>6. OneWrite /\ Named /\ Reloads
  BY <1>1, <1>2, <1>3 DEF OneWrite, Named, Reloads
<1>7. Revisions
  BY <1>2, <1>4 DEF Revisions, Asking, Init
<1>8. Past
  BY <1>2, <1>4, <1>5 DEF Past, Asking, Known, Init
<1>9. Order
  BY <1>2, <1>4, <1>5 DEF Order, Asking, Newer, NewerThan, Init
<1>10. QED
  BY <1>6, <1>7, <1>8, <1>9 DEF Versions

\* Where writes are in flight as before.
LEMMA WritersKept ==
  ASSUME Versions,
         disposed => disposed', UNCHANGED <<busy, overlapped>>,
         \A w \in Write : InFlight(w)' => InFlight(w)
  PROVE  OneWrite' /\ Named'
BY DEF Versions, OneWrite, Named, Free

\* While a write is in flight no other is, and the panel names it.
LEMMA OnlyWriter ==
  ASSUME Versions, Free, NEW w \in Write, InFlight(w)
  PROVE  /\ busy = w /\ busy # None
         /\ \A v \in Write : v # w => ~InFlight(v) /\ load[v] = None
<1>1. None \notin Write
  BY GitPanelAssumption DEF Write
<1>2. busy = w /\ \A v \in Write : v # w => ~InFlight(v)
  BY DEF Versions, OneWrite, Named, Free
<1>3. \A v \in Write : load[v] # None => InFlight(v)
  BY DEF Versions, Reloads, InFlight
<1>4. QED
  BY <1>1, <1>2, <1>3

\* The repository goes on, and nobody hears of it.
LEMMA VersionsKept ==
  ASSUME Base, Versions, UNCHANGED <<write, shown, busy, revision, overlapped, load>>,
         disposed => disposed',
         repo'.version \in Nat, repo.version <= repo'.version
  PROVE  Versions'
<1>1. OneWrite' /\ Named'
  BY WritersKept DEF InFlight
<1>2. Reloads' /\ Revisions'
  BY DEF Versions, Reloads, Revisions, Asking
<1>3. \A answer : answer \in Answer => answer.version \in Nat
  BY DEF Answer
<1>4. repo.version \in Nat
  BY DEF Base, Fields
<1>5. \A answer : Known(answer) => Known(answer)'
  BY <1>3, <1>4 DEF Known
<1>6. Past'
  BY <1>5 DEF Versions, Past, Asking
<1>7. Order'
  BY DEF Versions, Order, Free, Asking, Newer
<1>8. QED
  BY <1>1, <1>2, <1>6, <1>7 DEF Versions

LEMMA VersionsOfReads ==
  ASSUME Base, Versions, NEW l \in Loader, HostReads(l)
  PROVE  Versions'
<1> USE DEF hostVars, shownVars
<1>1. PICK answer \in Answer \cup Refused :
        /\ load' = [load EXCEPT ![l].answer = answer]
        /\ answer \in Answer => answer = repo
  BY RepoIsAnswer, GitPanelAssumption DEF HostReads, Base
<1>2. /\ load[l] # None /\ load[l].at = "asked" /\ load[l] \in Loads
      /\ UNCHANGED <<repo, write, shown, busy, revision, overlapped, disposed>>
  BY DEF HostReads, Base, Fields
<1>3. /\ load'[l].at = "asked" /\ load'[l].answer = answer
      /\ load'[l].revision = load[l].revision
      /\ \A k \in Loader : k # l => load'[k] = load[k]
  BY <1>1, <1>2 DEF Base, Fields, Loads
<1>4. \A k \in Loader : Asking(k)' => Asking(k) /\ load'[k].revision = load[k].revision
  BY <1>2, <1>3 DEF Asking
<1>5. Refresh \in Loader /\ Write \subseteq Loader
  BY DEF Loader
<1>6. Known(answer) /\ Newer(answer)
  <2>1. answer \in Answer => answer.version = repo.version /\ repo.version \in Nat
    BY <1>1 DEF Base, Fields
  <2>2. shown # None => shown \in Answer
    BY DEF Base, Shows
  <2>3. Known(shown)
    BY DEF Versions, Past
  <2>4. QED
    BY <2>1, <2>2, <2>3 DEF Known, Newer, NewerThan, Answer
<1>7. OneWrite' /\ Named'
  BY <1>2, WritersKept DEF InFlight
<1>8. Reloads'
  <2>1. \A w \in Write : load[w] = None => w # l
    BY <1>2
  <2>2. QED
    BY <1>2, <1>3, <1>5, <2>1 DEF Versions, Reloads
<1>9. Revisions'
  BY <1>2, <1>4 DEF Versions, Revisions
<1>10. Past'
  BY <1>2, <1>3, <1>4, <1>6 DEF Versions, Past, Known
<1>11. Order'
  <2> SUFFICES ASSUME Free'
               PROVE  /\ Asking(Refresh)' /\ load'[Refresh].revision = revision /\ busy = None
                           => Newer(load'[Refresh].answer)
                      /\ \A w \in Write : Asking(w)' => Newer(load'[w].answer)
                      /\ \A w \in Write : write[w].at = "sent" => Newer(write[w].answer)
    BY <1>2 DEF Order, Newer
  <2>1. Free
    BY <1>2 DEF Free
  <2>2. QED
    BY <1>3, <1>4, <1>5, <1>6, <2>1 DEF Versions, Order
<1>12. QED
  BY <1>7, <1>8, <1>9, <1>10, <1>11 DEF Versions

\* The scheduler sends a read, or ends.
LEMMA VersionsOfRefresh ==
  ASSUME Base, Versions, Trigger \/ RetryFires \/ RefreshSettles
  PROVE  Versions'
<1> USE DEF hostVars, shownVars
<1>1. /\ UNCHANGED <<repo, write, shown, busy, revision, overlapped, disposed>>
      /\ \/ UNCHANGED load
         \/ Asked(Refresh)
         \/ load' = [load EXCEPT ![Refresh] = None]
  BY DEF Trigger, RetryFires, RefreshSettles
<1>2. Refresh \in Loader /\ Write \subseteq Loader /\ Refresh \notin Write
  BY DEF Loader, Refresh, Write
<1>3. repo.version \in Nat
  BY DEF Base, Fields
<1>4. CASE UNCHANGED load
  BY <1>1, <1>3, <1>4, VersionsKept
<1>5. CASE ~UNCHANGED load
  <2>1. \A k \in Loader : k # Refresh => load'[k] = load[k]
    BY <1>1, <1>2, AskedTyped DEF Base, Fields
  <2>2. Asking(Refresh)' => load'[Refresh].answer = None /\ load'[Refresh].revision = revision
    BY <1>1, <1>2, <1>5, AskedTyped DEF Base, Fields, Asking
  <2>3. None \notin Answer /\ revision \in Nat
    BY GitPanelAssumption DEF Base, Fields
  <2>4. OneWrite' /\ Named'
    BY <1>1, WritersKept DEF InFlight
  <2>5. Reloads'
    BY <1>1, <1>2, <2>1 DEF Versions, Reloads
  <2>6. Revisions'
    BY <1>1, <2>1, <2>2, <2>3 DEF Versions, Revisions, Asking
  <2>7. Past'
    BY <1>1, <2>1, <2>2, <2>3 DEF Versions, Past, Known, Asking
  <2>8. Order'
    BY <1>1, <1>2, <2>1, <2>2, <2>3 DEF Versions, Order, Newer, NewerThan, Asking, Free
  <2>9. QED
    BY <2>4, <2>5, <2>6, <2>7, <2>8 DEF Versions
<1>6. QED
  BY <1>4, <1>5

\* An answer is shown only when it is no older than what is shown.
LEMMA LoadIsNewer ==
  ASSUME Base, Versions, Free, NEW l \in Loader, HearLoad(l), shown' # shown
  PROVE  \/ shown' = None
         \/ /\ shown' = load[l].answer /\ shown' \in Answer /\ Newer(shown') /\ Known(shown')
            /\ l = Refresh => busy = None
<1>1. CASE load[l].answer \in Answer
  <2>1. shown' = load[l].answer /\ ~IsLate(l) /\ Asking(l)
    BY <1>1 DEF HearLoad, shownVars, Asking
  <2>2. load[l].answer \notin Refused
    BY <1>1, GitPanelAssumption
  <2>3. load[l].revision = revision /\ (l = Refresh => busy = None)
    BY <2>1, <2>2 DEF IsLate
  <2>4. l = Refresh \/ l \in Write
    BY DEF Loader
  <2>5. Newer(shown')
    BY <2>1, <2>3, <2>4 DEF Versions, Order
  <2>6. Known(shown')
    BY <2>1 DEF Versions, Past
  <2>7. QED
    BY <1>1, <2>1, <2>3, <2>5, <2>6
<1>2. CASE load[l].answer \notin Answer
  BY <1>2 DEF HearLoad, NotReady, shownVars
<1>3. QED
  BY <1>1, <1>2

LEMMA VersionsOfLoad ==
  ASSUME Base, Versions, NEW l \in Loader, HearLoad(l)
  PROVE  Versions'
<1> USE DEF hostVars
<1>1. /\ load[l] # None /\ load[l] \in Loads /\ load' = [load EXCEPT ![l].at = "visible"]
      /\ UNCHANGED <<repo, write, busy, revision, overlapped, disposed>>
  BY DEF HearLoad, Base, Fields
<1>2. load'[l].at = "visible" /\ \A k \in Loader : k # l => load'[k] = load[k]
  BY <1>1 DEF Base, Fields, Loads
<1>3. \A k \in Loader : Asking(k)' => k # l /\ Asking(k) /\ load'[k] = load[k]
  BY <1>2 DEF Asking
<1>4. Refresh \in Loader /\ Write \subseteq Loader
  BY DEF Loader
<1>5. OneWrite' /\ Named'
  BY <1>1, WritersKept DEF InFlight
<1>6. Reloads'
  BY <1>1, <1>2, <1>4 DEF Versions, Reloads
<1>7. Revisions'
  BY <1>1, <1>3 DEF Versions, Revisions
<1>8. Known(shown')
  <2>1. shown' \in {shown, None} \/ (shown' = load[l].answer /\ Asking(l))
    BY DEF HearLoad, NotReady, shownVars, Asking
  <2>2. Known(shown) /\ (Asking(l) => Known(load[l].answer))
    BY DEF Versions, Past
  <2>3. None \notin Answer
    BY GitPanelAssumption
  <2>4. QED
    BY <2>1, <2>2, <2>3 DEF Known
<1>9. Past'
  BY <1>1, <1>3, <1>4, <1>8 DEF Versions, Past, Known
<1>10. Order'
  <2> SUFFICES ASSUME Free'
               PROVE  /\ Asking(Refresh)' /\ load'[Refresh].revision = revision /\ busy = None
                           => NewerThan(load'[Refresh].answer, shown')
                      /\ \A w \in Write : Asking(w)' => NewerThan(load'[w].answer, shown')
                      /\ \A w \in Write : write[w].at = "sent"
                                         => NewerThan(write[w].answer, shown')
    BY <1>1 DEF Order, Newer
  <2>1. Free
    BY <1>1 DEF Free
  <2>2. CASE shown' = shown
    BY <1>1, <1>3, <1>4, <2>1, <2>2 DEF Versions, Order, Newer
  <2>3. CASE shown' = None
    BY <1>1, <2>3 DEF NewerThan
  <2>4. CASE shown' # shown /\ shown' # None
    <3>1. l = Refresh => \A w \in Write : ~InFlight(w) /\ load[w] = None
      <4>1. l = Refresh => busy = None
        BY <2>1, <2>4, LoadIsNewer
      <4>2. \A w \in Write : busy = None => ~InFlight(w)
        BY <2>1, OnlyWriter
      <4>3. \A w \in Write : ~InFlight(w) => load[w] = None
        BY DEF Versions, Reloads, InFlight
      <4>4. QED
        BY <4>1, <4>2, <4>3
    <3>2. l \in Write => write[l].at = "reload" /\ InFlight(l)
      BY <1>1 DEF Versions, Reloads, InFlight
    <3>3. l \in Write => /\ busy # None
                         /\ \A v \in Write : v # l => ~InFlight(v) /\ load[v] = None
      BY <2>1, <3>2, OnlyWriter
    <3>4. \A w \in Write : ~Asking(w)' /\ write[w].at # "sent"
      BY <1>3, <1>4, <3>1, <3>2, <3>3 DEF Asking, InFlight, Loader
    <3>5. ~(Asking(Refresh)' /\ busy = None)
      BY <1>3, <3>3 DEF Loader
    <3>6. QED
      BY <3>4, <3>5
  <2>5. QED
    BY <2>2, <2>3, <2>4
<1>11. QED
  BY <1>5, <1>6, <1>7, <1>9, <1>10 DEF Versions

\* The host carries a write out: it answers with what is there now.
LEMMA VersionsOfHost ==
  ASSUME Base, Versions, NEW w \in Write, HostWrites(w)
  PROVE  Versions'
<1> USE DEF hostVars, shownVars
<1>1. /\ UNCHANGED <<load, shown, busy, revision, overlapped, disposed>>
      /\ write[w].at = "sent" /\ write[w] \in Writes
  BY DEF HostWrites, Base, Fields
<1>2. /\ repo.version \in Nat /\ repo'.version \in Nat /\ repo.version <= repo'.version
  BY CountOfHost DEF HostWrites, Changed, Base, Fields
<1>3. PICK answer : /\ write' = [write EXCEPT ![w].answer = answer]
                    /\ answer \in Answer => answer = repo'
  <2>1. \A answer \in Refused : answer \notin Answer
    BY GitPanelAssumption
  <2>2. Hook \notin Answer
    BY GitPanelAssumption
  <2>3. Refusal \subseteq Refused
    BY DEF Refused
  <2>4. QED
    BY <2>1, <2>2, <2>3 DEF HostWrites
<1>4. /\ write'[w].at = "sent" /\ write'[w].answer = answer
      /\ \A v \in Write : v # w => write'[v] = write[v]
  BY <1>1, <1>3 DEF Base, Fields, Writes
<1>5. \A v \in Write : write'[v].at = write[v].at
  BY <1>1, <1>4
<1>6. OneWrite' /\ Named'
  BY <1>1, <1>5, WritersKept DEF InFlight
<1>7. Reloads' /\ Revisions'
  BY <1>1, <1>5 DEF Versions, Reloads, Revisions, Asking
<1>8. \A a : Known(a) => Known(a)'
  BY <1>2 DEF Known, Answer
<1>9. Known(answer)'
  BY <1>2, <1>3 DEF Known
<1>10. Past'
  BY <1>1, <1>4, <1>8, <1>9 DEF Versions, Past, Asking
<1>11. NewerThan(answer, shown)
  <2>1. shown # None => shown \in Answer /\ shown.version \in Nat
    BY DEF Base, Shows, Answer
  <2>2. Known(shown)
    BY DEF Versions, Past
  <2>3. QED
    BY <1>2, <1>3, <2>1, <2>2 DEF Known, NewerThan
<1>12. Order'
  BY <1>1, <1>4, <1>11 DEF Versions, Order, Free, Asking, Newer
<1>13. QED
  BY <1>6, <1>7, <1>10, <1>12 DEF Versions

\* A write begins.
LEMMA VersionsOfBegin ==
  ASSUME Base, Versions, NEW w \in Write, StartWrite(w) \/ StartCreate(w) \/ RetryCommit(w)
  PROVE  Versions'
<1> USE DEF hostVars, shownVars
<1>1. PICK kind \in Kind : Begin(w, kind)
  BY KindOfBegin DEF Base
<1>2. /\ busy' = w /\ write[w].at = "none" /\ write'[w].at = "sent"
      /\ write'[w].answer = None /\ \A v \in Write : v # w => write'[v] = write[v]
      /\ overlapped' = (overlapped \/ \E v \in Write : InFlight(v))
      /\ UNCHANGED <<repo, shown, load, disposed>>
  BY <1>1, CountOfBegin DEF Begin, Base
<1>3. revision \in Nat /\ revision' \in {revision, revision + 1}
  BY DEF StartWrite, StartCreate, RetryCommit, Base, Fields
<1>4. ~overlapped' => ~overlapped /\ \A v \in Write : ~InFlight(v)
  BY <1>2
<1>5. \A v \in Write : v # w => (InFlight(v)' <=> InFlight(v))
  BY <1>2 DEF InFlight
<1>6. OneWrite' /\ Named'
  BY <1>2, <1>4, <1>5 DEF OneWrite, Named, Free
<1>7. Reloads'
  BY <1>2 DEF Versions, Reloads
<1>8. \A l \in Loader : load[l] \in Loads \cup {None}
  BY DEF Base, Fields
<1>9. Revisions'
  BY <1>2, <1>3, <1>8 DEF Versions, Revisions, Asking, Loads
<1>10. None \notin Answer /\ None \notin Write
  BY GitPanelAssumption DEF Write
<1>11. Past'
  BY <1>2, <1>10 DEF Versions, Past, Known, Asking
<1>12. Order'
  BY <1>2, <1>4, <1>5, <1>10 DEF Versions, Order, Free, Asking, Newer, NewerThan, InFlight
<1>13. QED
  BY <1>6, <1>7, <1>9, <1>11, <1>12 DEF Versions

\* What hearing a write, and its end, may do.
LEMMA MovesOfWrite ==
  ASSUME Base, Versions, NEW w \in Write, HearWrite(w) \/ WriteSettles(w)
  PROVE  /\ InFlight(w) /\ UNCHANGED <<repo, overlapped, disposed>>
         /\ \A v \in Write : v # w => write'[v] = write[v]
         /\ \/ write'[w].at = "over" /\ revision' = revision + 1
              /\ (~disposed => busy' = None)
            \/ write'[w].at \in {"visible", "reload"} /\ UNCHANGED <<revision, busy>>
         /\ \A l \in Loader : l # w => load'[l] = load[l]
         /\ \/ load'[w] = None
            \/ /\ write'[w].at = "reload"
               /\ load'[w].revision = revision /\ load'[w].answer = None
         /\ \/ shown' = shown
            \/ write[w].at = "sent" /\ shown' = write[w].answer /\ shown' \in Answer
<1> USE DEF hostVars, shownVars
<1>1. PICK to \in {"visible", "reload", "over"} : write' = [write EXCEPT ![w].at = to]
  BY FieldsOfHear DEF Base
<1>2. write'[w].at = to /\ \A v \in Write : v # w => write'[v] = write[v]
  BY <1>1, MovedTyped DEF Base
<1>3. InFlight(w) /\ UNCHANGED <<repo, overlapped, disposed>>
  BY DEF HearWrite, WriteSettles, WriteSettled, InFlight
<1>4. w \in Loader
  BY DEF Loader
<1>5. Asked(w) => /\ \A l \in Loader : l # w => load'[l] = load[l]
                  /\ load'[w].revision = revision /\ load'[w].answer = None
  BY <1>4, AskedTyped DEF Base
<1>6. CASE WriteSettles(w)
  <2>1. write' = [write EXCEPT ![w].at = "over"]
    BY <1>6 DEF WriteSettles, Ended
  <2>2. write'[w].at = "over"
    BY <2>1, MovedTyped DEF Base
  <2>3. load'[w] = None /\ \A l \in Loader : l # w => load'[l] = load[l]
    BY <1>4, <1>6 DEF WriteSettles, Base, Fields
  <2>4. revision' = revision + 1 /\ (~disposed => busy' = None) /\ shown' = shown
    BY <1>6 DEF WriteSettles, Ended
  <2>5. QED
    BY <1>2, <1>3, <2>2, <2>3, <2>4
<1>7. CASE HearWrite(w)
  <2>1. write[w].at = "sent" /\ load[w] = None
    BY <1>7 DEF HearWrite, Versions, Reloads
  <2>2. \A a \in {"visible", "reload", "over"} :
          write' = [write EXCEPT ![w].at = a] => write'[w].at = a
    BY MovedTyped DEF Base
  <2>3. \/ write'[w].at = "over" /\ revision' = revision + 1 /\ (~disposed => busy' = None)
           /\ UNCHANGED load
        \/ write'[w].at = "visible" /\ UNCHANGED <<revision, busy, load>>
        \/ write'[w].at = "reload" /\ UNCHANGED <<revision, busy>> /\ Asked(w)
    BY <1>7, <2>2 DEF HearWrite, HearDone, HearFailed, Ended
  <2>4. shown' = shown \/ (shown' = write[w].answer /\ shown' \in Answer)
    BY <1>7 DEF HearWrite, HearDone, HearFailed
  <2>5. QED
    BY <1>2, <1>3, <1>5, <2>1, <2>3, <2>4
<1>8. QED
  BY <1>6, <1>7

LEMMA VersionsOfWrite ==
  ASSUME Base, Versions, NEW w \in Write, HearWrite(w) \/ WriteSettles(w)
  PROVE  Versions'
<1>1. /\ InFlight(w) /\ UNCHANGED <<repo, overlapped, disposed>>
      /\ \A v \in Write : v # w => write'[v] = write[v]
      /\ \A l \in Loader : l # w => load'[l] = load[l]
  BY MovesOfWrite
<1>2. \/ write'[w].at = "over" /\ revision' = revision + 1 /\ (~disposed => busy' = None)
      \/ write'[w].at \in {"visible", "reload"} /\ UNCHANGED <<revision, busy>>
  BY MovesOfWrite
<1>3. \/ load'[w] = None
      \/ /\ write'[w].at = "reload" /\ load'[w].revision = revision /\ load'[w].answer = None
  BY MovesOfWrite
<1>4. \/ shown' = shown
      \/ write[w].at = "sent" /\ shown' = write[w].answer /\ shown' \in Answer
  BY MovesOfWrite
<1>5. Refresh \in Loader /\ Write \subseteq Loader /\ Refresh # w /\ revision \in Nat
      /\ \A l \in Loader : load[l] \in Loads \cup {None}
  BY DEF Loader, Refresh, Write, Base, Fields
<1>6. None \notin Answer /\ w # None
  BY GitPanelAssumption DEF Write
<1>7. \A v \in Write : InFlight(v)' => InFlight(v) /\ (v = w => write'[w].at # "over")
  BY <1>1 DEF InFlight
<1>8. OneWrite'
  BY <1>1, <1>7 DEF Versions, OneWrite
<1>9. Named'
  BY <1>1, <1>2, <1>7 DEF Versions, OneWrite, Named, Free
<1>10. Reloads'
  BY <1>1, <1>3, <1>5 DEF Versions, Reloads
<1>11. Revisions'
  BY <1>1, <1>2, <1>3, <1>5 DEF Versions, Revisions, Asking, Loads
<1>12. Past'
  <2>1. Known(shown')
    BY <1>4 DEF Versions, Past
  <2>2. \A l \in Loader : Asking(l)' => Known(load'[l].answer)
    BY <1>1, <1>3, <1>6 DEF Versions, Past, Asking, Known
  <2>3. \A v \in Write : write'[v].at = "sent" => Known(write'[v].answer)
    BY <1>1, <1>2 DEF Versions, Past
  <2>4. QED
    BY <1>1, <2>1, <2>2, <2>3 DEF Past, Known
<1>13. Order'
  <2> SUFFICES ASSUME Free'
               PROVE  /\ Asking(Refresh)' /\ load'[Refresh].revision = revision' /\ busy' = None
                           => NewerThan(load'[Refresh].answer, shown')
                      /\ \A v \in Write : Asking(v)' => NewerThan(load'[v].answer, shown')
                      /\ \A v \in Write : write'[v].at = "sent"
                                         => NewerThan(write'[v].answer, shown')
    BY DEF Order, Newer
  <2>1. Free
    BY <1>1 DEF Free
  <2>2. busy = w /\ \A v \in Write : v # w => ~InFlight(v) /\ load[v] = None
    BY <1>1, <2>1, OnlyWriter
  <2>3. ~(Asking(Refresh)' /\ load'[Refresh].revision = revision' /\ busy' = None)
    <3>1. CASE write'[w].at = "over" /\ revision' = revision + 1
      <4>1. Asking(Refresh)' => load'[Refresh].revision <= revision
                                /\ load'[Refresh].revision \in Nat
        BY <1>1, <1>5 DEF Versions, Revisions, Asking, Loads
      <4>2. QED
        BY <1>5, <3>1, <4>1
    <3>2. CASE busy' = busy
      BY <1>6, <2>2, <3>2
    <3>3. QED
      BY <1>2, <3>1, <3>2
  <2>4. \A v \in Write : Asking(v)' => NewerThan(load'[v].answer, shown')
    BY <1>1, <1>3, <1>5, <1>6, <2>2 DEF Asking, NewerThan
  <2>5. \A v \in Write : write'[v].at # "sent"
    BY <1>1, <1>2, <2>2 DEF InFlight
  <2>6. QED
    BY <2>3, <2>4, <2>5
<1>14. QED
  BY <1>8, <1>9, <1>10, <1>11, <1>12, <1>13 DEF Versions

LEMMA VersionsNext == Base /\ Versions /\ [Next]_vars => Versions'
<1> SUFFICES ASSUME Base, Versions, [Next]_vars PROVE Versions'
  OBVIOUS
<1> USE DEF hostVars, shownVars, viewVars
<1>1. repo.version \in Nat
  BY DEF Base, Fields
<1>2. CASE UNCHANGED vars
  BY <1>1, <1>2, VersionsKept DEF vars
<1>3. CASE Foreign
  <2>1. repo'.version = repo.version + 1
    BY <1>3 DEF Foreign, Changed
  <2>2. QED
    BY <1>1, <1>3, <2>1, VersionsKept DEF Foreign
<1>4. CASE SessionMoves
  BY <1>1, <1>4, VersionsKept DEF SessionMoves
<1>5. CASE AskSetup \/ Dispose
  BY <1>1, <1>5, VersionsKept DEF AskSetup, Dispose
<1>6. CASE CloseDiff \/ ToggleHistory \/ LoadMore \/ \E p \in Path : OpenDiff(p)
  <2>1. UNCHANGED <<hostVars, shownVars, busy, revision, load, write, disposed, overlapped>>
    BY <1>6 DEF CloseDiff, ToggleHistory, LoadMore, OpenDiff, Looks
  <2>2. QED
    BY <1>1, <2>1, VersionsKept
<1>7. ASSUME NEW r, HostServes(r) PROVE Versions'
  BY <1>1, <1>7, VersionsKept DEF HostServes
<1>8. ASSUME NEW r, HearServed(r) PROVE Versions'
  <2>1. shown' = shown
    BY <1>8 DEF HearServed, HearDiff, HearHistory
  <2>2. QED
    BY <1>1, <1>8, <2>1, VersionsKept DEF HearServed
<1>9. Refresh \in Loader /\ Write \subseteq Loader
  BY DEF Loader
<1>10. CASE User
  BY <1>5, <1>6, <1>10, VersionsOfRefresh, VersionsOfBegin DEF User
<1>11. CASE RefreshSteps
  BY <1>9, <1>11, VersionsOfReads, VersionsOfLoad, VersionsOfRefresh DEF RefreshSteps
<1>12. CASE ReadSteps
  BY <1>7, <1>8, <1>12 DEF ReadSteps
<1>13. ASSUME NEW w \in Write, WriteSteps(w) PROVE Versions'
  BY <1>9, <1>13, VersionsOfHost, VersionsOfReads, VersionsOfLoad, VersionsOfWrite
  DEF WriteSteps
<1>14. QED
  BY <1>2, <1>3, <1>4, <1>10, <1>11, <1>12, <1>13 DEF Next

-----------------------------------------------------------------------------
(* The theorems *)

LEMMA BaseHolds == Spec => []Base
BY BaseInit, BaseNext, PTL DEF Spec

\* The variables of the panel, of its scheduler and of its calls have their
\* types, for all files, windows and bounds: in particular no state is ever
\* shown that the host could not have answered (PanelStore).
THEOREM TypeCorrect == Spec => []TypeOK
<1>1. Base => TypeOK
  <2> SUFFICES ASSUME Base PROVE TypeOK
    OBVIOUS
  <2>1. repo \in Answer
    BY RepoIsAnswer DEF Base
  <2>2. history.limit \in Nat
    BY DEF Base, Shows, Histories
  <2>3. \A r \in reads : r.loader \in Loader \cup {None} /\ r.current \in BOOLEAN
    <3> SUFFICES ASSUME NEW r \in reads
                 PROVE  r.loader \in Loader \cup {None} /\ r.current \in BOOLEAN
      OBVIOUS
    <3>1. r \in DiffReads \cup HistoryReads
      BY DEF Base, Shows, Fine
    <3>2. CASE r \in DiffReads
      BY <3>2 DEF DiffReads
    <3>3. CASE r \in HistoryReads
      BY <3>3 DEF HistoryReads
    <3>4. QED
      BY <3>1, <3>2, <3>3
  <2>4. load \in [Loader -> {None} \cup
          [at : {"asked", "visible"}, revision : Nat, answer : Answer \cup Refused \cup {None}]]
    BY DEF Base, Fields, Loads
  <2>5. write \in [Write ->
          [kind : Kind \cup {None}, at : {"none", "sent", "visible", "reload", "over"},
           answer : Answer \cup Refused \cup {None}]]
    BY DEF Base, Fields, Writes
  <2>6. shown \in Answer \cup {None}
        /\ view \in [path : Path \cup {None}, diff : Path \cup {None}, open : BOOLEAN]
    BY DEF Base, Shows
  <2>7. QED
    BY <2>1, <2>2, <2>3, <2>4, <2>5, <2>6 DEF TypeOK, Base, Fields
<1>2. QED
  BY <1>1, BaseHolds, PTL

\* The diff that is shown is that of the file that was opened last, and the
\* history is one window of one log, though pages of it are read one by one
\* while commits are made and requests overtake one another (the request
\* counters of openDiff and of the history, the anchor of readHistory).
THEOREM ShowsTheAsked == Spec => []ShowsWhatWasAsked
<1>1. Base => ShowsWhatWasAsked
  BY DEF Base, Shows, Begins, ShowsWhatWasAsked, HistoryIsOneWindow
<1>2. QED
  BY <1>1, BaseHolds, PTL

\* What is shown is only replaced by what the host read at the same time or
\* later, unless a creation and another write have been in flight together
\* (the revision that load takes before its call and compares after it).
THEOREM NeverShowsOlder == Spec => NeverOlder
<1> DEFINE Changes == overlapped' \/ shown = None \/ shown' = None
                   \/ shown'.version >= shown.version
<1>1. Base /\ Versions /\ [Next]_vars => [Changes]_vars
  <2> SUFFICES ASSUME Base, Versions, Next, ~overlapped', shown # None, shown' # None,
                      shown' # shown
               PROVE  shown'.version >= shown.version
    <3>1. Base /\ shown # None => shown.version \in Nat /\ shown.version >= shown.version
      BY DEF Base, Shows, Answer
    <3>2. QED
      BY <3>1
  <2> USE DEF hostVars, shownVars, viewVars
  <2>1. CASE Foreign \/ SessionMoves \/ User
    <3>1. shown' = shown
      BY <2>1 DEF Foreign, SessionMoves, User, Trigger, AskSetup, CloseDiff, ToggleHistory,
         LoadMore, Dispose, OpenDiff, Looks, StartWrite, StartCreate, RetryCommit, Begin
    <3>2. QED
      BY <3>1
  <2>2. CASE ReadSteps
    <3>1. shown' = shown
      BY <2>2 DEF ReadSteps, HostServes, HearServed, HearDiff, HearHistory
    <3>2. QED
      BY <3>1
  <2>3. ASSUME NEW l \in Loader, HearLoad(l) PROVE shown'.version >= shown.version
    <3>1. Free
      BY <2>3 DEF HearLoad, IsLate, Free
    <3>2. shown' \in Answer /\ Newer(shown')
      BY <2>3, <3>1, LoadIsNewer
    <3>3. QED
      BY <3>2 DEF Newer, NewerThan
  <2>4. ASSUME NEW w \in Write, HearWrite(w) \/ WriteSettles(w)
        PROVE  shown'.version >= shown.version
    <3>1. ~disposed /\ ~overlapped
      BY <2>4 DEF HearWrite, HearDone, HearFailed, WriteSettles
    <3>2. write[w].at = "sent" /\ shown' = write[w].answer /\ shown' \in Answer
      BY <2>4, MovesOfWrite
    <3>3. Newer(shown')
      BY <3>1, <3>2 DEF Versions, Order, Free
    <3>4. QED
      BY <3>2, <3>3 DEF Newer, NewerThan
  <2>5. \A l \in Loader : HostReads(l) => shown' = shown
    BY DEF HostReads
  <2>6. \A w \in Write : HostWrites(w) => shown' = shown
    BY DEF HostWrites
  <2>7. RefreshSettles \/ RetryFires => shown' = shown
    BY DEF RefreshSettles, RetryFires
  <2>8. Refresh \in Loader /\ Write \subseteq Loader
    BY DEF Loader
  <2>9. CASE RefreshSteps
    BY <2>3, <2>5, <2>7, <2>8, <2>9 DEF RefreshSteps
  <2>10. CASE \E w \in Write : WriteSteps(w)
    BY <2>3, <2>4, <2>5, <2>6, <2>8, <2>10 DEF WriteSteps
  <2>11. QED
    BY <2>1, <2>2, <2>9, <2>10 DEF Next
<1>2. Spec => []Versions
  BY BaseInit, BaseNext, VersionsInit, VersionsNext, PTL DEF Spec
<1>3. QED
  BY <1>1, <1>2, BaseHolds, PTL DEF Spec, NeverOlder

=============================================================================
