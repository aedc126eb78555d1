# Verification of the DSH Next plugins

TLA+ models of the plugins under `src/packages/`, the TLC instances that check
them, and proofs checked by TLAPS.

The repository is a monorepo of six plugins for the DeepSeek Harness (DSH). A
plugin has a *host* half, which runs in the Harness process, reacts to its
events and keeps the state that matters, and a *client* half, which runs in the
pages of the browser and calls the host over HTTP. Both are single-threaded
JavaScript: a handler runs without interruption up to its next `await`, timer
or callback, and anything may happen there. An action of these models is such a
run of code, with every state change it makes.

## 1. Inventory

| component | state | operations | what is hard | what makes it correct |
|---|---|---|---|---|
| **notifier: broker** (`host/delivery-broker.ts`) | clients with presence, pending alerts with leases | publish, withdraw, report and claim, ack, release, settings, dispose | reports and receipts overtake one another; leases, clients and alerts expire | an alert is lent to one page at a time and delivered once; a closed page holds nothing |
| **notifier: pages** (`client/drainer.ts`, `presence.ts`, `toasts.tsx`, `rpc.ts`) | the delivery being shown, receipts to repeat, report number | poll, show, acknowledge, release, dispose | lost and late requests, retries, disposal while an alert is shown | one holder of a lease, one sound, nothing acknowledged that was not shown |
| **notifier: events** (`host/events.ts`) | what is known of sessions, agents, goals, subagents and requests; timers | twelve listeners, two timers, disposer | announcements come after the fact and in any order; runtimes replace one another | an alert says what is still so; nothing is told twice or forgotten |
| **decisions: service** (`host/service.ts`, `config.ts`, `credentials.ts`) | configuration and keys in two stores, generation, queue, evaluations | state, save, remove, evaluate, dispose | two stores that fail separately, foreign edits, a queue behind a store that never answers | endpoint and key belong together; a change commits what its editor saw |
| **checkpoints: service** (`host/service.ts`, `snapshot.ts`, `persist.ts`, `blobs.ts`, `fork.ts`, `core/store.ts`) | a fold per session in memory and on disk, blobs, the working directory, forked sessions | turn and tool events, list, rewind | queues of two sessions, tools during a rewind, crashes and failed writes, late events | a rewind restores the files and ends the conversation there; the child keeps what it inherits |
| **git: child processes** (`host/git-runner.ts`) | one child, its group, its pipes, a shutdown | start, abort, timeout, output, exit, close, poll | hooks outlive Git or hold its pipes; every event races every other | one answer; "settled" only when the group is gone |
| **git: mutation queue and commit** (`git-runner.ts`, `git-service.ts`, `index-rollback.ts`) | queue and quarantine per repository, cancellations by id, index, lock, HEAD | stage, commit, commit-all, cancel, rollback | agents use Git at the same time, cancellation anywhere, stale locks | requests do not interleave; a rollback takes back exactly its own add |
| git: branches, worktrees, setup | repository, approvals | create, remove, merge, update | approvals bound to a reviewed version | not modelled yet |
| **git: history** (`host/history-operations.ts`, `history-tree-rewrite.ts`) | a journal per plan on disk, a backup ref, the operation Git has in progress | preview, execute, continue, skip, abort, restore, cancel | the repository changes after the review, conflicts last for days, crashes between Git and the journal | no commit of others is lost; only the plugin's own operation is continued |
| git: conflicts, commands | reviewed version | resolve, stash, tag, ... | the repository changes after the review | not modelled yet |
| **git: panel** (`client/controller.ts`, `refresh.ts`) | one snapshot, revision, busy, a diff, a window of the history, retry timer | reads, writes, dispose | late answers, reads across writes, coalesced triggers | never busy for ever, never older than what it showed, heals when its session is loaded |
| git: drafting and agent tasks | a draft or task per session | hand over, read back | the session moves on meanwhile | not modelled yet |
| **oauth-providers** (`host/service.ts`, `config-scope.ts`, `credentials.ts`, `index.ts`, `client/SubscriptionPanel.tsx`) | one sign-in attempt, connected routes, grants, configuration | sign in, answer, cancel, disconnect, add, remove, models | an attempt ends by timeout, lease, cancellation or disposal while the library goes on; whole-configuration writes | a sign-in is shown to somebody; a sign-out holds |
| **skills** (`host/skills-service.ts`, `provider-store.ts`) | configuration, catalogue file, cache, installed copies | add, remove, sync, install, update, delete, repair | the catalogue is read before and written after the network | copies are whole; the catalogue offers what the cache holds; a boot repairs what broke |
| opencode-session-patch | none | one request header | nothing | not modelled |
| views, parsers, request framing, dictionaries, `scripts/`, `tests/`, `docs/` | none shared | - | sequential, unit-tested | not modelled |

How they interact: the plugins do not call one another. Each talks to the
Harness (events, sessions, configuration and credential stores) and to its own
pages; the only things shared are those stores and the working directory.
Inside a plugin the halves interact by HTTP requests that may be lost or
answered late; inside a host, by queues of promises (`serial()` in decisions,
the session queues of checkpoints, the repository queues of git) and by timers.

`PROJECT.json` lists the hazards, each at the line where it bites, with the
properties that cover it.

## 2. Modules

| module | models | implements |
|---|---|---|
| `AlertLease` | the abstract promise of alert delivery: waiting, held by one holder, delivered by it or withdrawn | |
| `DeliveryBroker` | the class `DeliveryBroker`, one action per method | `AlertLease` |
| `NotifierSystem` | the broker with its pages, their drainers and the network (extends `DeliveryBroker`) | |
| `NotifierEvents` | `wireEvents()`: one action per listener and timer, with the Harness around it | |
| `DecisionService` | the class `DecisionService` over both stores | |
| `Checkpoints` | the class `CheckpointsService` with fold, snapshots, blobs and child sessions | |
| `GitCall` | the abstract promise of one Git call | |
| `GitProcess` | `execManaged()`, one action per listener and timer, with Git, its hooks and their pipes | `GitCall` |
| `GitCommit` | the mutation queue, the cancellations, stage and commit-all with its rollback; calls Git as `GitCall` promises | |
| `GitHistory` | the class `HistoryOperations` over its journals, Git's rebase and cherry-pick, and agents that use Git beside it | |
| `GitPanel` | the class `PanelStore` with its scheduler, the host it reads from and the repository others change | |
| `Subscriptions` | the class `SubscriptionsService` with its configuration, grants and routes, and the panels that sign in | |
| `SkillCatalog` | the class `SkillsService` over its store, with the boot sequence and the panels | |
| `*MC` | small instances of the module of that name | |
| `NotifierSystem_proofs`, `NotifierEvents_proofs`, `Checkpoints_proofs`, `DecisionService_proofs`, `Subscriptions_proofs`, `SkillCatalog_proofs` | theorems about the module of that name, and the lemmas they rest on; the first also about `DeliveryBroker`, which its module extends | |
| `GitHost_proofs` | the same for the two modules of the host of git, `GitProcess` and `GitCommit`, which it extends together | |
| `GitHistoryPanel_proofs` | the same for `GitHistory` and `GitPanel` | |

Definitions keep the names of the code; `PROJECT.json` maps each to its lines.
A definition whose comment begins with *Fault* is what a plausible bug would do;
no specification uses it, and replacing the right definition by it makes the
property it was written for fail.

### Correspondence with the code

*DeliveryBroker.* `clients` and `pending` are the two Maps; insertion order is
kept as the set of `earlier` alerts. Timestamps are ages and deadlines the time
left, advanced together by `Tick` and cut off where the code can no longer tell
them apart. A poll (`Poll`) is the request that reports presence and then
claims, as `host/rpc.ts` does. A page that reported closing stays in the table
until `CLIENT_TTL` has passed, as in the code (its comment at line 7 says
otherwise). `issued` and `accepted` are history.

*NotifierSystem.* The network is one request in flight per page that the page
listens to (`call`) and a bounded set of requests nobody listens to any more
(`strays`), which arrive later or never. A page's drainer is `step`, `copy` and
`unacked`; its clock runs with the host's. A page gives up a request after
`RPC_TIMEOUT` (`client/rpc.ts`), which `Elapse` lets nobody exceed: the timers of
a page are assumed to run while it waits. The drainer's check that it has shown an
id already cannot bite with this broker, which never lends a delivered alert
again, and its window of 120 s and 100 ids is never left within a lease.

*NotifierEvents.* Agents, turns, goals, subagents and requests change in one
step and are announced in a later one. A timer may fire at any moment after it
is set, so that the property does not lean on two seconds or 200 ms. The broker
is the set `live`, which may lose an alert at any time. A runtime may appear in a
session before the disposal of its predecessor is announced, which is idle then
and does nothing any more (`old`); it announces its status before it begins a
turn. The branches for a broker that publishes while it is being called
(`events.ts:92`, `events.ts:122`) cannot be reached, and `deadAgents.has` in the
listeners of `events.ts:148` and `:83` finds nothing: the entry of a session never
has an agent that was disposed (`Owners`, proved).

*DecisionService.* The queue of `serial()` is `queue`, and `stage` how far its
first task is. `state()` is one step, taken when no task is half-way: it waits its
turn like the others, and answers only what was so throughout. That it holds the
queue while it reads the keys (`service.ts:66`), and that nothing can cancel it
there, is left out: a store that never answers it holds up every later task as it
does one that reads for a change. The credential store may fail a write that happened. `torn` marks a
provider that others changed, that a crash caught between the two writes, or
whose compensation failed: for these the code promises nothing
(`docs/decisions.md:131`). The profile is writable.

*Checkpoints.* `mem` and `file` are the fold in memory and in `state.json`;
`queue` and `stage` are the promise chain of a session. `was`, `foreign` and
`inherited` are history for the properties. Assumed of the Harness: a tool call
settles before its turn ends, a child session is prompted only after its rewind
has returned, turn numbers continue from the log, and the `turn/end` of a stopped
turn comes before the next `turn/start` (`LateEnd`). A snapshot and a hydration are
one step. The cached live frame is a choice. `foreign[s]` are the paths that
others changed under a session, that it took for moved, could not delete, or
inherited and could not save; `inherited[s]` is the baseline a rewind handed to
the child, until a crash cuts the only file that keeps it. Left out:
diffs and previews (they only read), the capture that a page may ask for while no
turn is open (it writes a checkpoint between those of the turns), aliases of a path, symbolic links and directories,
failures of `git show`, warnings about HEAD.

*GitProcess.* Names that `GitCommit` has too are others here (`TimesOut`,
`signalled`, `ProcessSpec`), so that one module can extend both. Both output pipes are one; the `error` event stands for Git not
being found (other errors of spawning answer 1). A signal changes nothing by
itself, because any process may end at any time or never. Time is only which of
the two deadlines of a shutdown have passed. An abort between exit and close
turns a success into 130, as in the code. Left out: the reuse of process ids and
the refusal on Windows.

*GitCommit.* The index is the set of changes in it, HEAD a count. A call that
only reads is one step and may fail; add and commit take `index.lock`, run hooks,
can be stopped at every point and may leave the lock behind. Agents stage and
commit beside the plugin whenever the lock is free, also between the capture and
the add (a limit the code documents). Amend is the check of HEAD inside `Check`;
a plain commit is commit-all without its add. Writers that ignore the lock are
out, as `index-rollback.ts` says.

*GitHistory.* A commit is the sequence of what was put on top of the first one:
the steps of plans and the works of others, so that "is contained in" is
membership. `task` is the call that holds the queue and how far it is; between
two of its steps agents commit, edit, switch branches, begin operations and end
them. `native` is what lies under `.git` while a rebase or cherry-pick is going
on; `busy` is its process, which outlives a crash of the host, and its `id` the
device, inode and birth time that `nativeAnchor()` takes. Squash, fixup and
reword are one action, cherry-pick and revert another. A read or command that
fails is `Fail`; that `failed()` itself fails is the same as a crash. `during`
and `doubt` are history. Left out: a detached HEAD, other worktrees, ignored
files in the way, hidden index flags, the message of a plan, and how a plan is
made from the selected commits (`core/history-plan.ts`, sequential).

*GitPanel.* The repository is a count of what happened to it and the session a
state that moves by itself; an answer carries what the host saw when it was
served, and is heard later or fails. `busy` is the dictionary key of the write
in flight, `revision` the counter that makes a read late, `retry` the timer
after a read that found no session. What follows the answer of a read in the
same turn of the event loop is finished before anything else (`NextTurn`). The
log is a sequence of commits that grows at its head; the pages of the history
are read from an anchor. Left out: waiters of the scheduler, the spinner, the
binding to the DOM, drafts of commit messages (no caller in the views), and the
dialogs that call the host directly.

*Subscriptions.* A change of the configuration is computed from `live`, written
to `saved`, and live a little later; `awaitPublished()` waits for that, at most
two seconds, and then goes on without a word: in the model it may go on at any
time (`Published`). The library of a sign-in goes on after it was told to stop, as long as it likes, and may store
its grant or not. `prunes` are the deletions of grants after a change, each with
the listing it was computed from. Messages between a panel and the host are a
set: any order, but neither lost nor doubled. `signedOut` is history. The state
that is read for the answer of a request may fail (`Answered`), which ends a removal
or an Apply half-way. A page asks before the grants have been read only when
`Early` is set.

*SkillCatalog.* Each provider offers one skill, all of one name, in versions; a
file in the cache or in the copy is the version it has. `catalog.json` is read
as empty between the two halves of its writing, as `readCatalog()` does with
what it cannot parse. Reading the rows and fetching the snapshot are one step,
since what another task does between them it may also do right after. All
versions have the same files, so that the pruning of an update has nothing to
delete. What was written of the configuration is live at once or some time later
(`pending`): unlike the editor of oauth-providers (`config-scope.ts:88`) this one
does not wait for it (`index.ts:42`). `crossed`, `dirty`, `doubt` and `calm` are history for the properties.
Left out: providers.json of older versions, ownership by other plugins, flat
skills, and `installExternal`, which nothing calls.

## 3. Runs

| run | asks | bounds |
|---|---|---|
| `notifier_system` | does one page at a time hold the lease of an alert that it counts on; does it sound once; does a closed page hold a lease; does the broker implement `AlertLease` | two pages, two reports each, one alert lent twice, one stray request, an alert group switched off and on; every time is one unit, so that a request may take as long as a lease |
| `notifier_turns` | does a queued alert say what is so; does a goal speak alone; is a turn told once, and every outcome told, whether the end of the turn or the idle status comes last | one session, two runtimes of which the second may appear before the first is gone, one request, two alerts |
| `notifier_subagents` | does every alert have an owner | two subagents of which one has a local agent, a window of one |
| `decisions` | do the stores agree; does an evaluation carry what was saved; does a change commit what was seen and end, though the store may never answer an evaluation | one provider, two endpoints, two keys, an editor, an evaluation, a restart, a foreign edit |
| `checkpoint_rewind` | does a rewind restore the tree; is the way back on disk at every moment; are the points in order; is what is later hidden; do tools stay out | one session, two files, two contents of which one is too large to store, two turns, a write, a rewind, a crash, a cut `state.json` |
| `checkpoint_fork` | does the child keep its inheritance and end where it should; does the rewind that waits for its child wait for work that goes on, and no sessions for one another in a circle | a session and its child, one file, a write of others or a list |
| `git_process` | does `execManaged()` implement `GitCall`; is a success complete; is every call answered | two hooks, one more chunk of output than is accepted |
| `git_commit` | are requests alone; can they be cancelled; is a rollback exact; does a failure restore; do requests end | two commit-alls with one request id, one stage, one retry, two steps of agents |
| `git_history` | is a commit of others ever taken off its branch; is another's operation continued | a reorder and a squash or cherry-pick, two branches, one commit of others, two steps of agents, a crash |
| `git_panel` | is a panel ever older than it was; does it show the diff and the history that were asked for; is it busy for good; does it heal | two writes, two paths, a window of two commits, three events among clicks, failures and what others do |
| `subscriptions` | is every sign-in shown to somebody; does a sign-out hold | two families, a sign-in, another request, a panel with two clicks, a row deleted by others |
| `skills` | is a copy whole; does the catalogue offer what the cache holds; does an undisturbed boot repair the rest | two providers, two versions, two files, the boot sequence and one panel, three events among requests, failures, crashes and new versions |

Why these bounds show something. Each property here relates at most two actors
and one object (two pages and an alert, a rewind and a tool, a request and the
next one), so a second of each is what a violation needs; caps of one or two
make eviction and refusal happen at once; one repetition more than a counter's
limit makes its overflow happen. For every property `PROJECT.json` names a fault
in a mapped definition under which TLC finds it violated within the same bounds.
Deadlock is not checked: either the bounded counters or an orderly end
(disposal, all calls answered) stops every instance. What must not stop is
stated as liveness.

The broker is checked with one alert, so that its queue is never full; that a
full queue loses its oldest alert is covered by the proofs, which put no bound
on the alerts. `git_history` also holds with three steps of agents.

A type invariant is stated in every module. Those of the modules with proofs are
proved below; the runs spend their time on the other properties.

The events of `git_panel` and of `skills` share one budget, so that any three of
them may fall together. `subscriptions` starts with one family listed and signed
in and the other one not, and its pages ask once the grants have been read.

Turns are stopped, the host crashes and `state.json` is cut only in
`checkpoint_rewind`; others write, panels list and a child exists only in
`checkpoint_fork`. `InheritanceKept` is therefore checked without cut files:
`state.json` is overwritten in place (`persist.ts:39`), and a cut one starts the
session afresh.

### Exceptions and observations

Where a property is stated with an exception, the code leaves that case open.
None of the following is a run; each was seen while modelling.

*Notifier.* A toast stays for 12 s and a lease for 10 s (`docs/notifier.md:42`), so
that a page may still show an alert whose lease has run out while the next holder
shows it: `OneHolder` is about the leases that pages count on, which
`docs/notifier.md:37` calls exclusive, and `SoundOnce` about what must not happen
twice. "A disposed agent cancels its pending alert" (`docs/notifier.md:10`) is so
unless another runtime of its session was heard of meanwhile: the entry is kept
then (`events.ts:244`), with the alert of the one that is gone. `AlertIsCurrent`
therefore asks for a runtime of the session.

*Checkpoints.*
* The position of a stopped turn is read when its queued task runs
  (`service.ts:267`). A prompt that came in between belongs to the next turn but
  falls before the checkpoint, so that the child session and the parent's surface
  contain a later turn, against `docs/checkpoints.md:28-30`. `ConversationEnds`
  therefore speaks of the checkpoints that are in their place (`InPlace`). Without
  that condition it is violated in `CheckpointsFork.cfg` with `MayStop = TRUE`,
  `MaxQueue = 2` and `MaxOthers = 0`: the code does not keep the sentence of the
  document for a turn that was stopped.
* The `turn/end` of a stopped turn is assumed to come before the next
  `turn/start`. `finishTurn()` closes whatever turn is open (`service.ts:280`): were
  it later, the turn that runs by then would count as closed, a rewind could be
  asked for while its tools write, and its checkpoint would be out of order;
  without the assumption `NoToolWriteDuringRewind` and `TurnsInOrder` are violated.
* For the same reason a stopped turn may be given a later place in the log than
  the turn after it (with three turns and queues of four tasks). `TurnsInOrder`
  therefore speaks of places only when turns are not stopped; the run stops them
  and looks at the turns, the proof at both.
* A blob that a crash cut short is never written again, because a file of that
  name exists (`blobs.ts:31`), and a rewind restores the cut content.
  `RestoresTree` is violated when `Torn` in `CheckpointsRewind.cfg` has `"blob"`.
* A file that looks like a vanished one is followed as moved, and a rewind to the
  start deletes it (`snapshot.ts:129`); a file that cannot be deleted is taken for
  gone (`service.ts:131`).

*Decisions.* A host that stops between the two writes of a change leaves a key
that its endpoint was not saved with (`service.ts:108`); `StoresAgree` leaves the
provider out until its next change.

*Git, commit.*
* A cancellation that reaches `git add` after it installed its index and before
  its exit ends the commit-all without a rollback, though the comment at
  `git-service.ts:666` wants one. `FailureRestores` speaks of a commit-all that
  fails once the tree of its add is known.
* A `git commit` that is killed while it holds `index.lock` leaves it, and the
  rollback then declines (`index-rollback.ts:221`): what was staged stays staged.
  `FailureRestores` excepts it, and is violated without that exception.
* The rollback looks at HEAD for the last time before it renames the lock
  (`index-rollback.ts:236`, `:244`); an agent may commit in between.
* The quarantine of a repository is forgotten when the host restarts.

*Git, history.*
* When `git rebase` or `cherry-pick` has ended well, whatever HEAD then is is
  recorded as the result (`history-operations.ts:403`), unlike after a tree
  rewrite, which compares. A commit that somebody made in between is part of the
  recorded result, and Restore takes it off the branch, although "later work is
  never overwritten" (`history-operations.ts:152`). So does a commit made between
  the last look and the start of a rebase, which its list of steps leaves out.
  `WorkKept` excuses both (`during`).
* A plan that fails before it began anything is bound to whatever operation is in
  progress at that moment (`history-operations.ts:411`); if somebody began one on
  the same commit during the call, it is adopted, against the comment there.
  `OnlyOwn` excuses plans during whose calls somebody began one (`doubt`). If it
  was the backup ref that could not be made, the plan goes on without a backup,
  and so does its result: `OriginalsKept` excuses the same plans.
* Somebody's `index.lock` at the moment a plan stops makes it failed for good,
  and its operation can only be ended in a terminal.
* A crash between the move of the branch and the update of the files in a restore
  leaves the files of the result, which then look changed.

*Git, panel.*
* `SessionHeals` speaks of panels that wait for their session and have a timer.
  After a stash or the creation of a worktree failed because the session was not
  loaded nothing reads again, and a read that is heard while the panel is busy
  sets no timer; the comment at `controller.ts:354` promises more.
* `worktreeAdd` begins after a preview was awaited and does not look whether the
  panel is busy (`controller.ts:727`): two writes overlap, and the end of either
  makes the panel free. `NeverOlder` therefore leaves out what two overlapping
  writes report.
* What an agent changes during a write stays unseen until the next trigger.

*Subscriptions.*
* Reading the grants at the start overwrites the set of connected families, and
  with it a sign-in or sign-out meanwhile; hence `Early`.
* Pruning works from the listing it was called with (`service.ts`), and may delete
  the grant of a family that was listed and connected again meanwhile; a failure
  of it leaves routes and rows as they were.
* A row deleted on the native page signs its family out only at the next change
  made here, though `docs/oauth-providers.md:132` says that deleting it does.
* A change replaces the whole section by one computed from what was live when it
  began. Two that overlap lose one of them, and so does one that begins after an
  earlier one gave up waiting to be published (`config-scope.ts:95`), which takes
  two seconds: it reverts the other rows. The model has these steps; no property
  says that rows are kept, for the code does not promise it. Nor are grants safe
  from it: pruning after such a change works from a listing that is not live yet
  or not live any more.
* When the grant was deleted but the state for the answer cannot be read
  (`service.ts:339`), a removal ends there and leaves the row.
* A grant stored just before a cancellation stays stored, not connected.

*Skills.*
* The files of a copy are those of the cache at the moment each is read, so that a
  synchronisation that writes between two of them leaves a mixture of two
  versions; `WholeCopy` asks for all files of one provider, not of one version.
* A removal that fails after a broken-off copy is swallowed (`skills-service.ts:590`),
  and so is a stop of the host in the middle: half a copy stays and counts as
  installed. `WholeCopy` excepts both, and two tasks that copy or delete at once.
* The boot sequence reads the configuration right after it wrote the defaults, and
  synchronises nothing when they are not live yet (`skills-service.ts:440`).
  `BootHeals` excepts that boot.
* Two overlapping writes of the catalogue lose the row of one provider or bring a
  removed one back, and a removed provider's skills are then offered again
  although "a cache entry WITHOUT a settings record is invisible"
  (`skills-service.ts:305`).
* A synchronisation that fails after it wrote files leaves rows and files apart
  (`provider-store.ts:224` speaks of the last good cache), for good if the
  repository returns to the known version.
* A copy that a crash cut in half counts as present and is not healed; an update
  that fails deletes the copy; deleting a copy while the boot sequence copies it
  leaves half of it.

### Fairness

Safety needs none. Liveness is stated under weak fairness of what the code
schedules itself and of nothing else.

* `DecisionService!FairSpec`: the tasks of a change, whose stores answer with
  success or failure, and the timer of an evaluation. Nothing obliges the store
  to answer an evaluation; that is the point of `ChangesEnd`. It is assumed to answer
  a change, and a `state()` too: neither gives up waiting for it.
* `NotifierEvents!FairSpec`: the timers of sessions, and the announcement of an
  agent's status, which the Harness emits after every change.
* `GitProcess!FairSpec`: the timers (timeout, the two deadlines, the poll) and
  the delivery of `error` and `close` once they are due. No process is obliged to
  end and no pipe to close.
* `GitCommit!FairSpec`: the host's own steps and the timeout of a call. Neither
  Git nor an agent is obliged to move or to release the lock.
* `GitPanel!FairSpec`: a read in flight, a write in flight and the steps of a
  scheduled refresh go on, strongly, because they are interrupted again and again
  by the turns of other tasks; the host always answers, if only with a failure.
  Neither clicks nor the repository nor the session are obliged to anything.

## 4. Proofs

Everything below holds for every value of the constants that satisfies the
`ASSUME` of the module, with any number of pages, alerts, tokens or hooks.

**`NotifierSystem_proofs`, the broker.** `TypeCorrect` is inductive as it stands; its lemmas
say of each helper (pruning, reporting, vacating, evicting) that it keeps the
types, and that it keeps or drops leases without moving them. `ClosedPagesHoldNoLease`
adds the predicate of the property itself, in the form `NoClosedHolder(cs, ps)`
over any tables, because one action prunes, reports, vacates and lends in a row
and the fact must be carried through each. `AcceptedOnce` needs history: a
receipt was issued before it is accepted, tokens are used once, and an accepted
alert is no longer pending. `BrokerImplementsAlertLease` maps the tables to
stages and holders; each action is shown to do to every single alert one of the
six moves of `AlertLease` or nothing, from types and `AcceptedOnce`'s invariant.

**`GitHost_proofs`, one child.** The inductive invariant `ProcessInv` is
`ProcessTypeOK`, `Processes`
(which states of Git, its hooks and the pipes go together), `Knowledge` (what the
host was told stays so: a group that is gone stays gone, a pipe that was closed
stays closed, output was dropped only for a recorded reason) and
`ProcessAnswer` (what each answer says of all these). `Knowledge` is what makes it inductive: the poll
answers from what an earlier event recorded. From it follow `ProcessTypeCorrect`,
`SuccessComplete` (an answer of 0 is complete), `KilledFirst` (the host gives up
only after SIGKILL) and `ProcessImplementsGitCall`, whose steps are split by
what they do to the group (`GroupStep`) and to the answer (`AnswerStep`).

**`NotifierSystem_proofs`, the system.** `SystemImplementsBroker` makes the theorems about the
broker theorems about the system: whatever the network does to a request, what
reaches the broker is one of its operations. `Base` says what a drainer awaits at
each of its steps (`Drainers`), that a page only has and sends receipts that were
issued to it (`Receipts`), and that it acknowledges what it showed and sounds what
was accepted (`Seen`); with `AcceptedOnce`'s invariant it gives `SoundsOnce`.
`HeldByOnePage` needs to know that the host still agrees with what a page believes:
what it believes to hold is lent to it, for at least as long as by its own clock
(`Lent`). That can end in three ways, each with its invariant. A closing that was
overtaken could be taken for a new one: whatever the host or a request on its way
says of a page, a closing is older than an opening, unless the opening is older
than the last time the page closed (`Numbers`). A release could be for a lease
that goes on: none is on its way for what a page still works on (`Released`,
`Apart`). The host could forget the client and with it the order of its reports:
a client outlives its lease (`Lent`), because a poll is answered before its page
gives up (`Late`) and `RPC_TIMEOUT + LEASE_TTL <= CLIENT_TTL + 1`. The last one is
a hypothesis the first attempt lacked: with pages that wait for ever the property
is false. A poll that a newer report overtook is answered just before its client
expires, an old report that closes the page makes the client known again, and
frees the lease while its page shows the alert. In the code a request is given up
after 8 s (`rpc.ts:13`), a lease lasts 10 s and a client 120 s.

**`NotifierEvents_proofs`.** One invariant carries all four theorems. `Alerts` ties
every queued alert to the entry or request that holds it and says, through
`Holds`, what makes its kind true; `Entries` says the same of an outcome that is
still to be published, and that an entry with an outcome has no alert, without
which publishing would leave the earlier alert without a holder. The agent of an
entry is a runtime of its session (`Owners`); `Runtimes` says which: of those that
are there, one goes on and the others were heard idle, and once it has announced
itself it is the one remembered, so that disposing of a predecessor forgets
neither its turns nor its goal (`Met`, `Replaced`). A goal's outcome is compared with
the goal that was last heard of (`LastHeard`): a change in between is one that was
not announced yet. `AlertsAreCurrent`, `GoalsSpeakAlone` and `NoAlertIsOrphaned`
follow at once; `TurnsAreToldOnce` adds that only the two timers publish
(`OnlyTimersPublish`) and that a turn that ended is remembered until its session
is forgotten (`Turns`). Eviction may forget any subagents: that it forgets no
session with a goal is all the proof asks of it.

**`GitHost_proofs`, the queue.** `IInv` puts `Cancellable` into seven parts. `Queue` is
the promise chain seen as a line: nobody waits for the tail, no two wait for the
same request, only one waits for nobody and there is no circle (`NoCircle`),
without which a request could hold the repository while the first of the line is
still to come. `Children` says whose process is alive: that of the one who holds
the repository, or one left behind in a closed queue. `Memory`, `Locked` and
`Undisturbed` say what a request knows at each place of its way, that the
rollback compares and installs under its own lock, and what one whom no agent
disturbed finds (no lock but one its own commit holds or left behind, the index its add
left, HEAD unless its own commit
moved it). `MutationsAlone` follows from the first two, `RollbackExact` and
`FailureIsUndone` from the last three, each as a property of every step.

**`Checkpoints_proofs`.** Six properties and the types rest on one invariant,
`IInv`, which says of each session (`SessionOK`) what its fold in memory, its
file, the fold it is about to receive, its queue and its rewind know of one log
and one directory:

* `FoldOK` orders the checkpoints by turn and ties them to the log; `Ahead`
  and `QueueOK` say that what waits in the queue is not earlier than what the fold
  holds, without which a late `turn/end` or idle would be appended out of order.
  Where a turn ends is known only while none is stopped (`AtEnds`, `OpenFits`).
* `Honest` says that the directory as it was at each checkpoint can be read off
  the tree, the baseline or, for a path nobody has touched, the directory as it
  is. It holds of the fold in memory, in the file and on its way to a child, so
  that a restart or a hand-over loses nothing; `UnsavedOK` says why going back to
  the file is safe: what only memory knows has not been changed on disk. `ToolOK`
  is the reason: a tool that may write has its path in both. `RestoreOK` says how
  far the directory is while a rewind writes.
* `HeirOK` and `InheritOK` follow a fold from the rewind to the child: the
  child's own fold is blank until it arrives, and keeps the baseline after that.
  `HeirsOK` ties the child's queue to the rewind that waits for it, and its
  `NoCircle` is what two queues that hold one another would violate.

`RewindRestores` and `WayBackIsSafe` have the hypothesis `"blob" \notin Torn`:
without it the first is false of the code (section 3), and the run satisfies it. `ConversationEnds` is only model-checked. Three statements became exact in the proof. A fold that
a child inherited and could not save is lost at a restart, so its paths count as
`foreign`; an `inherited` baseline ends with the file that kept it; and a rewind
may wait for a child that is itself rewinding, which `HeirIsServed` now allows
while it excludes circles of any length.

**`Subscriptions_proofs`.** For `SignInsAreOwned` the messages matter: a click is
behind at most one message or one sign-in (`Clicks`), an answer and a panel name
the click they belong to (`Answers`), and only the last sign-in runs
(`LastRuns`). `SignedOutIsFinal` has the hypothesis `~Early`: hydration reads
the grants and then replaces the set of connected families, so that a sign-out in
between comes back (section 3); without it the statement is false of the code.

**`DecisionService_proofs`.** `Queue` says that nobody waits twice and that whoever
has the turn is the head; `Shown` that what an editor saw lies in the past and a
change under way is based on the very revision it names, from which follows
`CommitsOnWhatWasSeen`. `Agree` says what the two stores hold at each stage of a
change (before the key, between the writes, while the key is put back), for
providers that are not `torn`; `Carries` that no request is out for a provider
whose change is past its point of no return. `StoresAgreeHolds` and
`RequestsAreWhole` follow at once.

**`GitHistoryPanel_proofs`, the history.** `HistoryInv` strengthens `WorkKept` and
`OnlyOwn` by what each move of a branch relies on. A branch that goes back to
its backup loses nothing because the result that is taken back holds no works but
those of the reviewed commit, and that commit's are still on the branch
(`ResultsOK`); Git replaces a branch by a head that has what the operation was
begun upon, and goes back from a pick to a commit that has what was on the branch
(`NativeOK`), the works that came in while it was going on aside. Whoever moved
the branch in between, the compare-and-swap has seen it: without the expected
value neither holds. For `OnlyOwn`, a plan whose anchor is the operation in
progress has started it, or somebody began one while it was called (`BoundOK`),
and the call at work acts on its own operation or takes back its own result
(`TaskOK`). A new operation has an identity no plan is bound to (`FreshIsNew`),
for which the plans with a journal must be finitely many: they are, at every
moment, for any set of plans.

`OriginalsAreKept` adds what `execute()` saves before it touches the repository:
whoever is about to move a branch, has an operation in progress or a result, has
its backup. `OwnersKept` follows that through the calls: from the steps after the
update of the ref (`Sure`) to the operation they launch, and from the operation
to the later calls that continue it (`Likely`), which know it by its anchor.
`JournalsGoOn` and `BackupsStay` say that neither the reviewed commit nor its
backup ever changes. `OriginalsKept` is stated in the proof module and, like
`HistoryInv`, was checked on the instance of `GitHistory.cfg` before it was
proved.

**`GitHistoryPanel_proofs`, the panel.** `Base` holds what is shown and read: a history is the
beginning of one log, a page that is being read goes on where it ends, the
current diff is that of the path that was opened last. For the types the events
have to be counted: the repository and the writes whose outcome is still to come
have changed at most as often as events were spent (`Count`). `NeverShowsOlder`
needs `Versions`: no two writes overlap and the panel names the one in flight;
whoever may still be shown (the read of the current revision when nothing is
busy, the writes and their reloads) knows no less than what is shown. That the
pages stay within the log was not so in an earlier form of the model, whose host
answered with more commits than there are when a page is larger than the window:
the proof found it, no instance did. `Page` is the corrected operator.

**`SkillCatalog_proofs`.** `Agreement` strengthens `OfferedIsCached` and `WholeCopy`
by what every task carries between two steps: the rows it has read are those of
the cache (`RowsKnown`) and the files it has copied are there, of its provider
(`Copier`), unless another writer crossed it. `Repairing` accounts
for each step of a boot sequence that nothing disturbed: which providers have
their row already, and when the copy must be there. `BootRepairs` is its end.

What the proofs share:

* The constants get only what the code justifies: `None` and the outcomes of the
  library are not records, names or numbers of the model, bounds are natural
  numbers. The bounds of the instances are constants, so that the theorems hold
  however large they are.
* Induction over data is needed in three places: the line of `GitCommit`, the
  families whose grants `Subscriptions` prunes one by one, the files that
  `SkillCatalog` copies one by one. There the fact that a set has a first or least
  element is an invariant (`NoCircle`) or follows from the well-founded order of
  the finite sets 0..k (`Least`), both without a theorem over an operator.
* Each module first says what a step does to a part of the state, whoever takes
  it (`Moves`, `Joins`, ... in `GitHost_proofs`), and proves the invariant once
  for each of these, not for each action.

Only model-checked is liveness (`OutcomeIsTold`, `ChangesEnd`, `IsAnswered`,
`RequestsEnd`, `BusyEnds`, `SessionHeals`), which depends on fairness and `ENABLED`.

## 5. Not modelled, and plan

Views, parsers, dictionaries, request framing and the audio of the notifier keep
no shared state and are sequential; build scripts and `opencode-session-patch`
have nothing to check. What is left with state of its own:

1. The reviewed versions of `git`: branches, worktrees, setup, conflicts and the
   plain commands are previewed, approved and then executed, each step against
   the version that was reviewed. They share the queue of `GitCommit`, which
   models them as one request.
2. Drafting and agent tasks of `git`, which hand text to a session and read its
   answer.

Every safety property the runs check is a theorem; what is left to prove comes
with these models.
