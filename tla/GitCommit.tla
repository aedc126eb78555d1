----------------------------- MODULE GitCommit -----------------------------
(***************************************************************************)
(* Changes to one repository: the mutation queue and the cancellations of  *)
(* dsh-next-git/src/host/git-runner.ts, stage() and commitTransaction() of *)
(* git-service.ts, and the rollback of index-rollback.ts.                  *)
(*                                                                         *)
(* A request waits for its turn in the queue of the repository and calls   *)
(* Git.  A call is answered as GitCall promises: GitProcess shows that the *)
(* code does.  Agents run Git beside the plugin; they respect index.lock.  *)
(*                                                                         *)
(* The index is the set of changes in it that the properties tell apart,   *)
(* HEAD a count.                                                           *)
(***************************************************************************)
EXTENDS Naturals, FiniteSets

CONSTANTS
  Request,    \* what the panel asks for
  CommitAll,  \* those that stage and commit; the others stage
  Key,        \* the request id of each, used again for another try
  LockRetries, MaxAgent,  \* bounds: retries, and steps of agents
  None

Holder == {"add", "commit", "agent", "rollback", "stale"}
Process == [kind: {"add", "commit"}, phase: {"started", "locked", "hooks", "done"},
            stopped: {"no", "cancelled", "timeout"}]

ASSUME GitCommitAssumption ==
  /\ CommitAll \subseteq Request
  /\ DOMAIN Key = CommitAll
  /\ LockRetries \in Nat /\ MaxAgent \in Nat
  /\ None \notin Request \cup Nat \cup Holder \cup Process

VARIABLES
  index, lock, head,  \* the index, who holds index.lock, and HEAD
  child,              \* the Git process of each request
  pc,                 \* how far a request is
  retries,            \* collisions with the lock it has seen
  prev,               \* the request it waits for in the queue
  tail,               \* the last in the queue
  quarantined,        \* a shutdown could not be confirmed
  controllers,        \* the registered request of each id
  aborted,            \* requests whose signal was raised
  saved, staged,      \* the index before its add, and the tree after it
  agentSteps,         \* what agents did so far
  landed,             \* requests at work that moved HEAD
  disturbed           \* requests during whose work others changed something

repo == <<index, lock, head>>
queueVars == <<prev, tail, quarantined>>
cancelVars == <<controllers, aborted>>
ghosts == <<landed, disturbed>>
vars == <<repo, child, pc, retries, queueVars, cancelVars, saved, staged,
          agentSteps, ghosts>>

Change == {"user", "work", "agent", "hook"}
Working == {"prepare", "capture", "add", "tree", "check", "commit", "rollback",
            "compare", "verify", "install"}
Heads == 0..MaxAgent + Cardinality(Request)

TypeOK ==
  /\ index \in SUBSET Change
  /\ lock \in Holder \cup {None}
  /\ head \in Heads
  /\ child \in [Request -> Process \cup {None}]
  /\ pc \in [Request -> {"new", "discover", "queued", "over"} \cup Working]
  /\ retries \in [Request -> 0..LockRetries]
  /\ prev \in [Request -> Request \cup {None}]
  /\ tail \in Request \cup {None}
  /\ quarantined \in BOOLEAN
  /\ \A k \in DOMAIN controllers : controllers[k] \in CommitAll \cup {None}
  /\ aborted \subseteq CommitAll
  /\ saved \in [Request -> [index: SUBSET Change, head: Heads] \cup {None}]
  /\ staged \in [Request -> (SUBSET Change) \cup {None}]
  /\ agentSteps \in 0..MaxAgent
  /\ landed \subseteq CommitAll /\ disturbed \subseteq Request

Ids == {Key[r] : r \in CommitAll}

Init ==
  /\ index = {"user"} /\ lock = None /\ head = 0
  /\ child = [r \in Request |-> None]
  /\ pc = [r \in Request |-> "new"]
  /\ retries = [r \in Request |-> 0]
  /\ prev = [r \in Request |-> None]
  /\ tail = None /\ quarantined = FALSE
  /\ controllers = [k \in Ids |-> None]
  /\ aborted = {}
  /\ saved = [r \in Request |-> None]
  /\ staged = [r \in Request |-> None]
  /\ agentSteps = 0
  /\ landed = {} /\ disturbed = {}

\* Requests that hold the repository.
Holding == {r \in Request : pc[r] \in Working}

GoTo(r, step) == pc' = [pc EXCEPT ![r] = step]

-----------------------------------------------------------------------------
(* Requests and their queue *)

\* Signals that were raised end the calls that listen to them.
Raise(R) ==
  /\ aborted' = aborted \cup R
  /\ child' = [r \in Request |->
       IF r \in R /\ r \in Holding /\ child[r] # None /\ child[r].stopped = "no"
       THEN [child[r] EXCEPT !.stopped = "cancelled"] ELSE child[r]]

\* begin(): the request takes the place of an earlier one with its id.
Submit(r) ==
  /\ pc[r] = "new" /\ GoTo(r, "discover")
  /\ IF r \in CommitAll
     THEN /\ Raise({controllers[Key[r]]} \ {None})
          /\ controllers' = [controllers EXCEPT ![Key[r]] = r]
     ELSE UNCHANGED <<child, cancelVars>>
  /\ UNCHANGED <<repo, retries, queueVars, saved, staged, agentSteps, ghosts>>

\* cancel()
Cancel(k) ==
  /\ controllers[k] # None
  /\ Raise({controllers[k]})
  /\ controllers' = [controllers EXCEPT ![k] = None]
  /\ UNCHANGED <<repo, pc, retries, queueVars, saved, staged, agentSteps, ghosts>>

\* Fault: whoever is registered is dropped.
EndAny(r) == [controllers EXCEPT ![Key[r]] = None]

\* end(): a request drops only its own controller.
End(r) == [controllers EXCEPT ![Key[r]] = IF @ = r THEN None ELSE @]

\* What a request knew is gone with its answer.
Forget(r) ==
  /\ saved' = [saved EXCEPT ![r] = None] /\ staged' = [staged EXCEPT ![r] = None]
  /\ retries' = [retries EXCEPT ![r] = 0]
  /\ landed' = landed \ {r} /\ disturbed' = disturbed \ {r}

Answer(r) ==
  /\ GoTo(r, "over")
  /\ controllers' = IF r \in CommitAll THEN End(r) ELSE controllers

\* Fault: the queue is forgotten by everyone who leaves it.
LeaveAnyway(r) == None

\* Only the last one in the queue takes it away.
Leave(r) == IF tail = r THEN None ELSE tail

\* mutate() is over, and the next request may begin.
Finish(r) == Answer(r) /\ tail' = Leave(r) /\ Forget(r)

\* The request goes on with the next step.
Onward(r, step) == GoTo(r, step) /\ UNCHANGED <<controllers, tail>>

\* The repository is looked up, and the request gets in line.
Discover(r) ==
  /\ pc[r] = "discover"
  /\ \/ Answer(r) /\ UNCHANGED <<prev, tail>>
     \/ /\ r \notin aborted
        /\ GoTo(r, "queued")
        /\ prev' = [prev EXCEPT ![r] = tail] /\ tail' = r
        /\ UNCHANGED controllers
  /\ UNCHANGED <<repo, child, retries, quarantined, aborted, saved, staged,
                 agentSteps, ghosts>>

\* Fault: a repository is used again though a process may be left in it.
SafeAnyway == TRUE

Safe == ~quarantined

TakeTurn(r) ==
  /\ pc[r] = "queued"
  /\ prev[r] # None => pc[prev[r]] = "over"
  /\ prev' = [prev EXCEPT ![r] = None]
  /\ \/ Safe /\ Onward(r, "prepare") /\ UNCHANGED <<retries, saved, staged, ghosts>>
     \/ ~Safe /\ Finish(r)
  /\ UNCHANGED <<repo, child, quarantined, aborted, agentSteps>>

-----------------------------------------------------------------------------
(* Staging and committing *)

\* What the steps of a request leave alone.
elsewhere == <<index, head, prev, aborted, agentSteps>>
memory == <<retries, saved, staged, ghosts>>

\* assertResolved(): nothing is unmerged, and an amended commit is the one that
\* was reviewed.
Prepare(r) ==
  /\ pc[r] = "prepare"
  /\ \/ /\ r \notin aborted
        /\ Onward(r, IF r \in CommitAll THEN "capture" ELSE "add") /\ UNCHANGED memory
     \/ Finish(r)
  /\ UNCHANGED <<elsewhere, lock, child, quarantined>>

\* captureIndexSnapshot(): not while somebody holds the lock, and it may fail.
Capture(r) ==
  /\ pc[r] = "capture"
  /\ saved' \in {saved} \cup IF lock # None THEN {}
                             ELSE {[saved EXCEPT ![r] = [index |-> index, head |-> head]]}
  /\ Onward(r, "add")
  /\ UNCHANGED <<elsewhere, lock, child, quarantined, retries, staged, ghosts>>

\* run(): Git is not started for a signal that was raised.
Call(r, kind) ==
  /\ pc[r] = kind /\ child[r] = None
  /\ r \notin aborted
  /\ child' = [child EXCEPT ![r] = [kind |-> kind, phase |-> "started", stopped |-> "no"]]
  /\ UNCHANGED <<elsewhere, lock, pc, controllers, tail, quarantined, memory>>

\* Fault: only what failed in git commit is rolled back.
FailCommitOnly(r) ==
  IF saved[r] # None /\ staged[r] # None /\ pc[r] = "commit"
  THEN Onward(r, "rollback") /\ UNCHANGED memory ELSE Finish(r)

\* The work failed: the index is restored if the tree of its add is known.
FailWork(r) ==
  IF saved[r] # None /\ staged[r] # None
  THEN Onward(r, "rollback") /\ UNCHANGED memory ELSE Finish(r)

\* The call that was not made for a raised signal.
CallRefused(r) ==
  /\ pc[r] \in {"add", "commit"} /\ child[r] = None
  /\ r \in aborted
  /\ FailWork(r)
  /\ UNCHANGED <<elsewhere, lock, child, quarantined>>

\* What follows a call that answered 0.
Succeed(r) ==
  IF pc[r] = "add" /\ r \in CommitAll
  THEN Onward(r, "tree") /\ UNCHANGED memory ELSE Finish(r)

Calling(r) == r \in Holding /\ child[r] # None

\* The processes of r are gone and the call is answered: 0 when nothing cut it
\* short.
Answered(r) ==
  /\ Calling(r) /\ child[r].phase = "done"
  /\ child' = [child EXCEPT ![r] = None]
  /\ IF child[r].stopped = "no" THEN Succeed(r) ELSE FailWork(r)
  /\ UNCHANGED <<elsewhere, lock, quarantined>>

\* Git ended without having done its work, by itself or by a signal.  It
\* removes its lock, unless it was killed.
Broken(r) ==
  /\ Calling(r) /\ child[r].phase # "done"
  /\ child' = [child EXCEPT ![r] = None]
  /\ lock' \in IF child[r].phase # "locked" THEN {lock}
               ELSE {None} \cup IF child[r].stopped # "no" THEN {"stale"} ELSE {}
  /\ FailWork(r)
  /\ UNCHANGED <<elsewhere, quarantined>>

MayRetry(r) == retries[r] < LockRetries

\* Git meets the lock of somebody else, and is called again some time later.
Collide(r) ==
  /\ Calling(r) /\ child[r].phase = "started" /\ child[r].stopped = "no"
  /\ lock # None
  /\ child' = [child EXCEPT ![r] = None]
  /\ IF MayRetry(r)
     THEN /\ retries' = [retries EXCEPT ![r] = @ + 1]
          /\ Onward(r, pc[r]) /\ UNCHANGED <<saved, staged, ghosts>>
     ELSE FailWork(r)
  /\ UNCHANGED <<elsewhere, lock, quarantined>>

\* The call lasts too long.
Timeout(r) ==
  /\ Calling(r) /\ child[r].stopped = "no"
  /\ child' = [child EXCEPT ![r].stopped = "timeout"]
  /\ UNCHANGED <<elsewhere, lock, pc, controllers, tail, quarantined, memory>>

\* The end of the processes could not be confirmed and they may go on: nothing
\* is rolled back, and the queue is closed to everyone.
Unconfirmed(r) ==
  /\ Calling(r) /\ child[r].stopped # "no"
  /\ quarantined' = TRUE
  /\ Finish(r)
  /\ UNCHANGED <<elsewhere, lock, child>>

\* write-tree, which ignores the signal.
WriteTree(r) ==
  /\ pc[r] = "tree"
  /\ \/ /\ staged' = [staged EXCEPT ![r] = index]
        /\ Onward(r, "check") /\ UNCHANGED <<retries, saved, ghosts>>
     \/ Finish(r)
  /\ UNCHANGED <<elsewhere, lock, child, quarantined>>

\* assertResolved() again.
Check(r) ==
  /\ pc[r] = "check"
  /\ \/ /\ r \notin aborted
        /\ retries' = [retries EXCEPT ![r] = 0]
        /\ Onward(r, "commit") /\ UNCHANGED <<saved, staged, ghosts>>
     \/ FailWork(r)
  /\ UNCHANGED <<elsewhere, lock, child, quarantined>>

-----------------------------------------------------------------------------
(* Git *)

plugin == <<pc, retries, queueVars, cancelVars, saved, staged, agentSteps>>

Advance(r, phase) == child' = [child EXCEPT ![r].phase = phase]

In(r, kind, phase) ==
  child[r] # None /\ child[r].kind = kind /\ child[r].phase = phase

AddLocks(r) ==
  /\ In(r, "add", "started") /\ lock = None
  /\ lock' = "add" /\ Advance(r, "locked")
  /\ UNCHANGED <<index, head, plugin, ghosts>>

\* All that differs in the working tree is staged.
AddInstalls(r) ==
  /\ In(r, "add", "locked")
  /\ index' = (index \ {"user"}) \cup {"work"}
  /\ lock' = None /\ Advance(r, "done")
  /\ UNCHANGED <<head, plugin, ghosts>>

\* The index is refreshed under the lock before the hooks run without it.
CommitLocks(r) ==
  /\ In(r, "commit", "started") /\ lock = None
  /\ lock' = "commit" /\ Advance(r, "locked")
  /\ UNCHANGED <<index, head, plugin, ghosts>>

CommitRefreshed(r) ==
  /\ In(r, "commit", "locked")
  /\ lock' = None /\ Advance(r, "hooks")
  /\ UNCHANGED <<index, head, plugin, ghosts>>

HookStages(r) ==
  /\ In(r, "commit", "hooks") /\ lock = None /\ "hook" \notin index
  /\ index' = index \cup {"hook"}
  /\ disturbed' = disturbed \cup Holding
  /\ UNCHANGED <<lock, head, child, plugin, landed>>

CommitLands(r) ==
  /\ In(r, "commit", "hooks")
  /\ head' = head + 1
  /\ landed' = landed \cup ({r} \cap Holding)
  /\ Advance(r, "done")
  /\ UNCHANGED <<index, lock, plugin, disturbed>>

\* A process nobody waits for any more ends.
OrphanEnds(r) ==
  /\ child[r] # None /\ r \notin Holding
  /\ child' = [child EXCEPT ![r] = None]
  /\ lock' \in IF child[r].phase = "locked" THEN {None, "stale"} ELSE {lock}
  /\ UNCHANGED <<index, head, plugin, ghosts>>

\* An agent takes the lock, changes the index and gives the lock back, or
\* moves HEAD.
AgentStep ==
  /\ \/ /\ lock = None /\ lock' = "agent"
        /\ agentSteps < MaxAgent /\ agentSteps' = agentSteps + 1
        /\ UNCHANGED <<index, head>>
     \/ /\ lock = "agent" /\ lock' = None
        /\ index' = index \cup {"agent"}
        /\ UNCHANGED <<head, agentSteps>>
     \/ /\ head' = head + 1
        /\ agentSteps < MaxAgent /\ agentSteps' = agentSteps + 1
        /\ UNCHANGED <<index, lock>>
  /\ disturbed' = disturbed \cup Holding
  /\ UNCHANGED <<child, pc, retries, queueVars, cancelVars, saved, staged, landed>>

-----------------------------------------------------------------------------
(* restoreIndexSnapshot(), whose errors leave the index alone *)

\* The rollback ends, and with it the request.
EndRollback(r) ==
  /\ lock' = IF pc[r] = "rollback" THEN lock ELSE None
  /\ Finish(r)
  /\ UNCHANGED <<head, child, prev, quarantined, aborted, agentSteps>>

RollbackLocks(r) ==
  /\ pc[r] = "rollback" /\ lock = None
  /\ lock' = "rollback"
  /\ Onward(r, "compare")
  /\ UNCHANGED <<elsewhere, child, quarantined, memory>>

\* Fault: the index is not compared.
AsStagedAnyway(r) == TRUE

\* The index holds just what the add staged.
AsStaged(r) == index = staged[r]

\* Fault: HEAD is not compared.
HeadKeptAnyway(r) == TRUE

HeadKept(r) == head = saved[r].head

Compare(r) ==
  /\ pc[r] = "compare"
  /\ HeadKept(r) /\ AsStaged(r)
  /\ Onward(r, "verify")
  /\ UNCHANGED <<elsewhere, lock, child, quarantined, memory>>

\* The saved index has been written into the lock; HEAD is looked at again.
Verify(r) ==
  /\ pc[r] = "verify"
  /\ HeadKept(r)
  /\ Onward(r, "install")
  /\ UNCHANGED <<elsewhere, lock, child, quarantined, memory>>

Install(r) ==
  /\ pc[r] = "install"
  /\ index' = saved[r].index
  /\ EndRollback(r)

\* Fault: the rollback waits for the lock.
LockWaited(r) == FALSE

LockTaken(r) == pc[r] = "rollback" /\ lock # None

\* Something is not as it was.
Differs(r) ==
  \/ LockTaken(r)
  \/ pc[r] = "compare" /\ ~(HeadKept(r) /\ AsStaged(r))
  \/ pc[r] = "verify" /\ ~HeadKept(r)

Decline(r) ==
  /\ Differs(r)
  /\ EndRollback(r)
  /\ UNCHANGED index

\* A call to the file system or a read fails.
RollbackFails(r) ==
  /\ pc[r] \in {"rollback", "compare", "verify", "install"}
  /\ EndRollback(r)
  /\ UNCHANGED index

-----------------------------------------------------------------------------

Host(r) ==
  \/ Discover(r) \/ TakeTurn(r) \/ Prepare(r) \/ Capture(r)
  \/ Call(r, "add") \/ Call(r, "commit") \/ CallRefused(r)
  \/ Answered(r) \/ Unconfirmed(r)
  \/ WriteTree(r) \/ Check(r)
  \/ RollbackLocks(r) \/ Compare(r) \/ Verify(r) \/ Install(r) \/ Decline(r)

Git(r) ==
  \/ AddLocks(r) \/ AddInstalls(r)
  \/ CommitLocks(r) \/ CommitRefreshed(r) \/ HookStages(r) \/ CommitLands(r)
  \/ Broken(r) \/ Collide(r) \/ OrphanEnds(r)

Next ==
  \/ \E r \in Request : Submit(r) \/ Host(r) \/ Git(r) \/ Timeout(r) \/ RollbackFails(r)
  \/ \E k \in Ids : Cancel(k)
  \/ AgentStep

Spec == Init /\ [][Next]_vars

\* The host goes on, a call that takes too long is cut short, and one that was
\* cut short is answered (GitProcess).  Git and its hooks may hang.
FairSpec ==
  /\ Spec
  /\ \A r \in Request : WF_vars(Host(r)) /\ WF_vars(Timeout(r))

-----------------------------------------------------------------------------
(* Properties *)

\* "two panel requests cannot interleave an index update" (git-runner.ts), not
\* even with what an earlier one left behind.
Alone ==
  \A r, q \in Request : r # q => ~((r \in Holding \/ child[r] # None) /\ q \in Holding)

\* The controller under an id is that of the request in flight: a cancellation
\* reaches it, whatever other tries with its id did before.
Cancellable ==
  \A r \in CommitAll : pc[r] \notin {"new", "over"} /\ r \notin aborted =>
    controllers[Key[r]] = r

Restores(r) == pc[r] = "install" /\ index' # index

\* "Best-effort rollback": it takes back exactly what the add of its request
\* put into the index, nothing anybody staged after that, and never the index of
\* a commit that landed, also when its answer was a cancellation or a timeout.
RollbackIsExact ==
  [][\A r \in CommitAll : Restores(r) => index = staged[r] /\ r \notin landed]_vars

\* A commit-all that fails once the tree of its add is known leaves the index it
\* found, if nobody interfered, its commit did not land and no Git of its own was
\* killed while it held the lock; or a call of its rollback failed, which had
\* nothing to decline.
FailureRestores ==
  [][\A r \in CommitAll :
       /\ pc[r] # "over" /\ pc'[r] = "over" /\ ~quarantined'
       /\ saved[r] # None /\ staged[r] # None
       /\ r \notin landed \cup disturbed /\ lock # "stale"
       => index' = saved[r].index \/ (RollbackFails(r) /\ ~Differs(r))]_vars

\* Every request is answered.
RequestsEnd == <>[](\A r \in Request : pc[r] \in {"new", "over"})

=============================================================================
