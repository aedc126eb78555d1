------------------------------ MODULE GitPanel ------------------------------
(***************************************************************************)
(* The panel of dsh-next-git: the class PanelStore of                      *)
(* client/controller.ts with the RefreshScheduler of client/refresh.ts.    *)
(*                                                                         *)
(* The panel shows what its last read or write answered.  Reads are asked  *)
(* for by the window, the agent and the user, one at a time; writes mark   *)
(* the panel busy.  Every call goes to the host by HTTP: it is carried out *)
(* some time after it was sent and answered some time after that, and the  *)
(* repository is changed by others meanwhile.  What the panel shows of the *)
(* repository is a version, counted up by every change, and its HEAD.      *)
(***************************************************************************)
EXTENDS Naturals, Sequences, FiniteSets

CONSTANTS
  Kind,               \* kinds of writes: "write", "commit", "stash", "create"
  Path,               \* files whose diff may be opened
  Session,            \* the failure of a call: its session is not loaded,
  GitFailed, Degraded, Hook, \* git failed, there is no git, a hook refused
  Refusal,            \* how a call may fail besides an unloaded session
  None,               \* nothing
  Window,             \* commits the history asks for at a time
  PageCap,            \* commits the host returns at a time
  FirstHead,          \* bound: commits there are in the beginning
  MaxWrites,          \* bound: writes the user starts
  MaxEvents,          \* bound: what users and others do, altogether
  SESSION_RETRY_LIMIT \* attempts before an unloaded session is named

Kinds == {"write", "commit", "stash", "create"}

\* Writes are numbered in the order they are started; the scheduler reads too.
Write == 1..MaxWrites
Refresh == 0
Loader == {Refresh} \cup Write
Answer == [version : 0..MaxEvents, head : 0..(FirstHead + MaxEvents)]
Refused == Refusal \cup {Session}

ASSUME GitPanelAssumption ==
  /\ Kind \subseteq Kinds /\ Refusal \subseteq {GitFailed, Degraded, Hook}
  /\ {Window, PageCap, FirstHead} \subseteq Nat \ {0}
  /\ {MaxWrites, MaxEvents, SESSION_RETRY_LIMIT} \subseteq Nat
  /\ None \notin Nat \cup Path \cup Kinds \cup Refused \cup Answer \cup {Hook}
  /\ Answer \cap (Refused \cup {Hook}) = {} /\ Hook # Session

VARIABLES
  repo,       \* the repository: its version and HEAD
  ready,      \* the host has loaded the session
  phase, shown, failure, hook,  \* what the panel shows
  busy,       \* the write the panel names as in flight
  revision,   \* stateRevision
  refresh,    \* the scheduler: a read runs, another is to follow it
  retry,      \* attempts at an unloaded session, and the timer of the next
  load,       \* the read of each loader
  write,      \* the writes
  setup,      \* a preview of a worktree that is to be created
  view,       \* the view, the diff it shows, whether the history is open
  history,    \* the history that is shown, and its window
  reads,      \* reads of diffs and histories
  disposed,
  events,     \* what users and others have done
  overlapped  \* a creation and another write have been in flight together

shownVars == <<phase, shown, failure, hook>>
hostVars == <<repo, ready>>
viewVars == <<view, history, reads>>
vars == <<hostVars, shownVars, busy, revision, refresh, retry, load, write, setup,
          viewVars, disposed, events, overlapped>>

TypeOK ==
  /\ repo \in Answer /\ ready \in BOOLEAN /\ disposed \in BOOLEAN
  /\ overlapped \in BOOLEAN /\ hook \in BOOLEAN /\ setup \in BOOLEAN
  /\ phase \in {"loading", "ready", "degraded", "failed"}
  /\ shown \in Answer \cup {None} /\ failure \in Refused \cup {None}
  /\ busy \in Write \cup {None} /\ revision \in Nat
  /\ refresh \in [running : BOOLEAN, pending : BOOLEAN]
  /\ retry \in [count : 0..SESSION_RETRY_LIMIT, timer : BOOLEAN, retrying : BOOLEAN]
  /\ load \in [Loader -> {None} \cup
       [at : {"asked", "visible"}, revision : Nat, answer : Answer \cup Refused \cup {None}]]
  /\ write \in [Write ->
       [kind : Kind \cup {None}, at : {"none", "sent", "visible", "reload", "over"},
        answer : Answer \cup Refused \cup {None}]]
  /\ view \in [path : Path \cup {None}, diff : Path \cup {None}, open : BOOLEAN]
  /\ history.limit \in Nat
  /\ \A r \in reads : r.loader \in Loader \cup {None} /\ r.current \in BOOLEAN

(***************************************************************************)
(* The host and everybody else.                                            *)
(***************************************************************************)

\* The commits that are reachable from a HEAD, the newest first.
Log(head) == [i \in 1..head |-> head - i + 1]

Least(m, n) == IF m < n THEN m ELSE n

\* git log: the commits of a log after the first so many, while there are any.
Page(head, skip, count) == SubSeq(Log(head), skip + 1, Least(head, skip + count))

Changed(commits) == [version |-> repo.version + 1, head |-> repo.head + commits]

\* Whether the read of loader l and what it re-reads have settled, and whether
\* what a write re-read has.
Settled(l) == load[l] # None /\ load[l].at = "visible" /\ ~\E r \in reads : r.loader = l

WriteSettled(w) ==
  \/ write[w].at = "visible" /\ ~\E r \in reads : r.loader = w
  \/ write[w].at = "reload" /\ Settled(w)

\* What waits for a read goes on in the turn of the event loop that hears it:
\* nothing else is taken up before.
NextTurn == ~Settled(Refresh) /\ ~\E w \in Write : WriteSettled(w)

\* Something happens that is not the answer to something else.
Event == NextTurn /\ events < MaxEvents /\ events' = events + 1

Foreign ==
  /\ Event
  /\ \E commits \in {0, 1} : repo' = Changed(commits)
  /\ UNCHANGED <<ready, shownVars, busy, revision, refresh, retry, load, write, setup,
                 viewVars, disposed, overlapped>>

\* The host is restarted, and loads the session when it is opened.
SessionMoves ==
  /\ ready' = ~ready
  /\ IF ready THEN Event ELSE NextTurn /\ UNCHANGED events
  /\ UNCHANGED <<repo, shownVars, busy, revision, refresh, retry, load, write, setup,
                 viewVars, disposed, overlapped>>

\* A call fails as long as the session is not loaded, and may fail otherwise.
CallFails(answer) ==
  IF ready THEN answer \in Refusal \ {Hook} /\ Event ELSE answer = Session /\ UNCHANGED events

\* getState
HostReads(l) ==
  /\ NextTurn /\ load[l] # None /\ load[l].at = "asked" /\ load[l].answer = None
  /\ \/ \E answer \in Refused : CallFails(answer) /\ load' = [load EXCEPT ![l].answer = answer]
     \/ ready /\ load' = [load EXCEPT ![l].answer = repo] /\ UNCHANGED events
  /\ UNCHANGED <<hostVars, shownVars, busy, revision, refresh, retry, write, setup,
                 viewVars, disposed, overlapped>>

\* A write is carried out and the repository read after it; one that fails
\* may have changed something all the same.
HostWrites(w) ==
  LET commits == IF write[w].kind = "commit" THEN 1 ELSE 0
      Answers(answer) == write' = [write EXCEPT ![w].answer = answer] IN
  /\ NextTurn /\ write[w].at = "sent" /\ write[w].answer = None
  /\ \/ /\ ready
        /\ repo' = Changed(commits) /\ Answers(repo') /\ UNCHANGED events
     \/ /\ ready /\ repo' = Changed(0)
        /\ \E answer \in Refusal : CallFails(answer) /\ Answers(answer)
     \/ /\ repo' = repo
        /\ \E answer \in Refused : CallFails(answer) /\ Answers(answer)
     \/ /\ ready /\ Hook \in Refusal /\ write[w].kind = "commit"
        /\ repo' = repo /\ Event /\ Answers(Hook)
  /\ UNCHANGED <<ready, shownVars, busy, revision, refresh, retry, load, setup, viewVars,
                 disposed, overlapped>>

\* Fault: the host is not told where the window began.
PageFromHead(r) == Page(repo.head, Len(r.commits), Least(r.left, PageCap))

\* getHistory: a page of the log of the anchor; without one, of HEAD.
From(r) == IF r.anchor = 0 THEN repo.head ELSE r.anchor

PageOf(r) == Page(From(r), Len(r.commits), Least(r.left, PageCap))

\* getDiff and getHistory
HostServes(r) ==
  /\ NextTurn /\ r \in reads /\ r.answer = None
  /\ \/ \E answer \in Refused :
           CallFails(answer) /\ reads' = (reads \ {r}) \cup {[r EXCEPT !.answer = answer]}
     \/ /\ ready /\ UNCHANGED events
        /\ reads' = (reads \ {r}) \cup
             {IF r.kind = "diff" THEN [r EXCEPT !.answer = <<>>]
              ELSE [r EXCEPT !.answer = PageOf(r), !.anchor = From(r)]}
  /\ UNCHANGED <<hostVars, shownVars, busy, revision, refresh, retry, load, write, setup,
                 view, history, disposed, overlapped>>

(***************************************************************************)
(* Diffs and the history (openDiff, readHistory).                          *)
(***************************************************************************)

\* What reportError shows.
Reported(answer) ==
  IF disposed \/ answer = Hook THEN UNCHANGED <<phase, failure>>
  ELSE /\ failure' = answer
       /\ phase' = IF answer = Degraded THEN "degraded" ELSE phase

\* A new request of a kind makes those before it late.
Late(kind) == {IF r.kind = kind THEN [r EXCEPT !.current = FALSE] ELSE r : r \in reads}

DiffRead(l, path) ==
  [kind |-> "diff", loader |-> l, current |-> TRUE, answer |-> None, path |-> path]

HeadOf(state) == IF state = None THEN 0 ELSE state.head

\* The window starts at the HEAD that is shown, or goes on from its anchor.
HistoryRead(l, state, count, anchor, previous) ==
  [kind |-> "history", loader |-> l, current |-> TRUE, answer |-> None,
   head |-> HeadOf(state), anchor |-> anchor, left |-> count, commits |-> previous]

WholeHistory(l, state, limit) == HistoryRead(l, state, limit, HeadOf(state), <<>>)

HistoryLoading == \E r \in reads : r.kind = "history" /\ r.current

\* Re-reads what is visible (refreshVisible) for loader l, that shows state.
RefreshVisible(l, state) ==
  IF view.path # None
  THEN /\ reads' = Late("diff") \cup {DiffRead(l, view.path)}
       /\ view' = [view EXCEPT !.diff = None]
  ELSE /\ reads' = IF view.open
                   THEN Late("history") \cup {WholeHistory(l, state, history.limit)}
                   ELSE reads
       /\ UNCHANGED view

\* Fault: an answer that is late is shown.
HearDiffLate(r) ==
  /\ r.kind = "diff"
  /\ reads' = reads \ {r}
  /\ view' = IF disposed \/ r.answer \in Refused THEN view ELSE [view EXCEPT !.diff = r.path]
  /\ UNCHANGED <<history, shownVars>>

HearDiff(r) ==
  /\ r.kind = "diff"
  /\ reads' = reads \ {r}
  /\ IF disposed \/ ~r.current
     THEN UNCHANGED <<view, shownVars>>
     ELSE IF r.answer \in Refused
     THEN Reported(r.answer) /\ UNCHANGED <<view, shown, hook>>
     ELSE view' = [view EXCEPT !.diff = r.path] /\ UNCHANGED shownVars
  /\ UNCHANGED history

HearHistory(r) ==
  LET commits == r.commits \o r.answer
      left == r.left - Len(r.answer)
      more == Len(commits) < Len(Log(r.anchor)) /\ r.answer # <<>> IN
  /\ r.kind = "history"
  /\ IF disposed \/ ~r.current
     THEN reads' = reads \ {r} /\ UNCHANGED <<history, shownVars>>
     ELSE IF r.answer \in Refused
     THEN /\ reads' = reads \ {r} /\ Reported(r.answer)
          /\ UNCHANGED <<history, shown, hook>>
     ELSE IF left > 0 /\ more
     THEN /\ reads' = (reads \ {r}) \cup
               {[r EXCEPT !.commits = commits, !.left = left, !.answer = None]}
          /\ UNCHANGED <<history, shownVars>>
     ELSE /\ reads' = reads \ {r}
          /\ history' = [limit |-> history.limit, head |-> r.head, anchor |-> r.anchor,
                         commits |-> commits, more |-> more]
          /\ UNCHANGED shownVars
  /\ UNCHANGED view

HearServed(r) ==
  /\ NextTurn /\ r \in reads /\ r.answer # None
  /\ HearDiff(r) \/ HearHistory(r)
  /\ UNCHANGED <<hostVars, busy, revision, refresh, retry, load, write, setup, disposed,
                 events, overlapped>>

Looks == /\ ~disposed /\ Event
         /\ UNCHANGED <<hostVars, shownVars, busy, revision, refresh, retry, load, write,
                        setup, disposed, overlapped>>

OpenDiff(path) ==
  /\ view.path = None /\ shown # None /\ Looks
  /\ reads' = Late("diff") \cup {DiffRead(None, path)}
  /\ view' = [view EXCEPT !.path = path, !.diff = None]
  /\ UNCHANGED history

CloseDiff ==
  /\ view.path # None /\ Looks
  /\ view' = [view EXCEPT !.path = None, !.diff = None]
  /\ reads' = IF view.open
              THEN {IF r.kind = "history" THEN [r EXCEPT !.current = FALSE] ELSE r :
                      r \in Late("diff")} \cup {WholeHistory(None, shown, history.limit)}
              ELSE Late("diff")
  /\ UNCHANGED history

ToggleHistory ==
  /\ view.path = None /\ shown # None /\ Looks
  /\ view' = [view EXCEPT !.open = ~@]
  /\ reads' = IF view.open THEN reads
              ELSE Late("history") \cup {WholeHistory(None, shown, history.limit)}
  /\ UNCHANGED history

\* A HEAD that changed starts a fresh window.
LoadMore ==
  /\ view.path = None /\ view.open /\ shown # None /\ Looks
  /\ ~HistoryLoading /\ history.more
  /\ history' = [history EXCEPT !.limit = Len(history.commits) + Window]
  /\ reads' = Late("history") \cup
       {IF history.head # HeadOf(shown)
        THEN WholeHistory(None, shown, Len(history.commits) + Window)
        ELSE HistoryRead(None, shown, Window, history.anchor, history.commits)}
  /\ UNCHANGED view

(***************************************************************************)
(* Reading the state (load).                                               *)
(***************************************************************************)
Cleared(r) == [r EXCEPT !.count = 0, !.timer = FALSE]

\* The read of loader l is sent; one that somebody asked for gets a fresh
\* budget of attempts.
Asked(l) == load' = [load EXCEPT ![l] = [at |-> "asked", revision |-> revision, answer |-> None]]

Attempted(r) == IF r.retrying THEN r ELSE Cleared(r)

Loading == phase' = IF ~disposed /\ shown = None THEN "loading" ELSE phase

\* Fault: an answer is shown whatever happened since its question.
IsLateNever(l) == disposed

\* A write began or ended since the read was sent, or is in flight.
IsLate(l) ==
  \/ disposed
  \/ revision # load[l].revision
  \/ (l = Refresh /\ busy # None /\ load[l].answer \notin Refused)

\* Fault: there is no timer any more when the state has been named.
NotReadyGivesUp ==
  /\ retry' = [retry EXCEPT !.count = Least(@ + 1, SESSION_RETRY_LIMIT),
                            !.timer = retry.count < SESSION_RETRY_LIMIT]
  /\ IF retry.count < SESSION_RETRY_LIMIT
     THEN phase' = "loading" /\ failure' = None
     ELSE phase' = "failed" /\ failure' = Session
  /\ UNCHANGED <<shown, hook>>

\* sessionNotReady: the timer is set whether the attempts are quiet or named.
NotReady ==
  /\ retry' = [retry EXCEPT !.count = Least(@ + 1, SESSION_RETRY_LIMIT), !.timer = TRUE]
  /\ IF retry.count < SESSION_RETRY_LIMIT
     THEN phase' = "loading" /\ failure' = None
     ELSE phase' = "failed" /\ failure' = Session
  /\ UNCHANGED <<shown, hook>>

HearLoad(l) ==
  LET answer == load[l].answer
      Visible == load' = [load EXCEPT ![l].at = "visible"] IN
  /\ NextTurn /\ load[l] # None /\ load[l].at = "asked" /\ answer # None
  /\ Visible
  /\ IF IsLate(l)
     THEN UNCHANGED <<shownVars, retry, view, reads>>
     ELSE IF answer \in Answer
     THEN /\ retry' = Cleared(retry)
          /\ shown' = answer /\ phase' = "ready" /\ failure' = None
          /\ RefreshVisible(l, answer)
          /\ UNCHANGED hook
     ELSE /\ \/ answer = Session /\ NotReady
             \/ /\ answer = Degraded /\ phase' = "degraded" /\ shown' = None
                /\ failure' = answer /\ UNCHANGED <<hook, retry>>
             \/ /\ answer = GitFailed /\ phase' = IF shown = None THEN "failed" ELSE "ready"
                /\ failure' = answer /\ UNCHANGED <<shown, hook, retry>>
          /\ UNCHANGED <<view, reads>>
  /\ UNCHANGED <<hostVars, busy, revision, refresh, write, setup, history, disposed, events,
                 overlapped>>

(***************************************************************************)
(* The scheduler (refresh.ts).                                             *)
(***************************************************************************)

\* The window, the agent or the user asks for a read: it is sent, or follows
\* the one that runs.
Trigger ==
  /\ ~disposed /\ Event
  /\ IF refresh.running
     THEN refresh' = [refresh EXCEPT !.pending = TRUE] /\ UNCHANGED <<load, phase, retry>>
     ELSE /\ refresh' = [refresh EXCEPT !.running = TRUE]
          /\ Asked(Refresh) /\ Loading /\ retry' = Attempted(retry)
  /\ UNCHANGED <<hostVars, shown, failure, hook, busy, revision, write, setup, viewVars,
                 disposed, overlapped>>

\* The timer of an unloaded session.  Nobody waits for a read that only
\* follows another, so that the panel does not know it for its own.
RetryFires ==
  LET fired == [retry EXCEPT !.timer = FALSE, !.retrying = ~refresh.running] IN
  /\ NextTurn /\ retry.timer /\ ~disposed
  /\ retry' = fired
  /\ IF refresh.running
     THEN refresh' = [refresh EXCEPT !.pending = TRUE] /\ UNCHANGED <<load, phase>>
     ELSE refresh' = [refresh EXCEPT !.running = TRUE] /\ Asked(Refresh) /\ Loading
  /\ UNCHANGED <<hostVars, shown, failure, hook, busy, revision, write, setup, viewVars,
                 disposed, events, overlapped>>

\* The run goes on with what was asked for meanwhile, or ends.
RefreshSettles ==
  /\ Settled(Refresh)
  /\ IF refresh.pending /\ ~disposed
     THEN /\ refresh' = [refresh EXCEPT !.pending = FALSE]
          /\ Asked(Refresh) /\ Loading /\ retry' = Attempted(retry)
     ELSE /\ refresh' = [running |-> FALSE, pending |-> FALSE]
          /\ load' = [load EXCEPT ![Refresh] = None]
          /\ retry' = [retry EXCEPT !.retrying = FALSE]
          /\ UNCHANGED phase
  /\ UNCHANGED <<hostVars, shown, failure, hook, busy, revision, write, setup, viewVars,
                 disposed, events, overlapped>>

(***************************************************************************)
(* Writes.                                                                 *)
(***************************************************************************)
InFlight(w) == write[w].at \notin {"none", "over"}

\* The buttons wait until the panel is not busy, and so does the store: but
\* for a worktree, whose preview was asked for when the panel was not busy.
Begin(w, kind) ==
  /\ ~disposed /\ shown # None /\ Event
  /\ \A v \in Write : write[v].at = "none" <=> v >= w
  /\ write' = [write EXCEPT ![w] = [kind |-> kind, at |-> "sent", answer |-> None]]
  /\ busy' = w
  /\ failure' = None
  /\ overlapped' = (overlapped \/ \E v \in Write : InFlight(v))
  /\ UNCHANGED <<hostVars, phase, shown, refresh, retry, load, viewVars, disposed>>

StartWrite(w) ==
  /\ busy = None
  /\ \E kind \in Kind \ {"create"} :
       /\ Begin(w, kind)
       /\ hook' = (hook /\ kind # "commit")
  /\ revision' = revision + 1
  /\ UNCHANGED setup

AskSetup ==
  /\ NextTurn /\ "create" \in Kind /\ ~disposed /\ busy = None /\ ~setup /\ shown # None
  /\ \E w \in Write : write[w].at = "none"
  /\ setup' = TRUE
  /\ UNCHANGED <<hostVars, shownVars, busy, revision, refresh, retry, load, write, viewVars,
                 disposed, events, overlapped>>

StartCreate(w) ==
  /\ setup
  /\ Begin(w, "create")
  /\ setup' = FALSE
  /\ UNCHANGED <<hook, revision>>

\* Fault: only a write that succeeded makes the panel free again.
EndedIfShown(w) ==
  /\ write' = [write EXCEPT ![w].at = "over"]
  /\ revision' = revision + 1
  /\ busy' = IF disposed \/ write[w].at = "reload" THEN busy ELSE None

Ended(w) ==
  /\ write' = [write EXCEPT ![w].at = "over"]
  /\ revision' = revision + 1
  /\ busy' = IF disposed THEN busy ELSE None

\* The write was answered with the state after it, which is shown; a stash
\* has the state read.
HearDone(w) ==
  LET answer == write[w].answer IN
  /\ answer \in Answer
  /\ IF disposed THEN Ended(w) /\ UNCHANGED <<shownVars, retry, load, view, reads>>
     ELSE IF write[w].kind = "stash"
     THEN /\ write' = [write EXCEPT ![w].at = "reload"]
          /\ Asked(w) /\ Loading /\ retry' = Attempted(retry)
          /\ UNCHANGED <<shown, failure, hook, busy, revision, view, reads>>
     ELSE /\ shown' = answer /\ phase' = "ready"
          /\ failure' = IF write[w].kind = "write" THEN None ELSE failure
          /\ hook' = (hook /\ write[w].kind # "commit")
          /\ IF write[w].kind = "create"
             THEN Ended(w) /\ UNCHANGED <<view, reads>>
             ELSE /\ write' = [write EXCEPT ![w].at = "visible"]
                  /\ RefreshVisible(w, answer)
                  /\ UNCHANGED <<busy, revision>>
          /\ UNCHANGED <<retry, load>>

\* The write failed: the state is read, but not after a stash or a creation.
HearFailed(w) ==
  /\ write[w].answer \in Refused
  /\ IF write[w].kind \in {"write", "commit"}
     THEN /\ write' = [write EXCEPT ![w].at = "reload"]
          /\ Asked(w) /\ Loading /\ retry' = Attempted(retry)
          /\ UNCHANGED <<failure, busy, revision>>
     ELSE Reported(write[w].answer) /\ Ended(w) /\ UNCHANGED <<retry, load>>
  /\ UNCHANGED <<shown, hook, view, reads>>

HearWrite(w) ==
  /\ NextTurn /\ write[w].at = "sent" /\ write[w].answer # None
  /\ HearDone(w) \/ HearFailed(w)
  /\ UNCHANGED <<hostVars, refresh, setup, history, disposed, events, overlapped>>

\* What the write re-read has settled.
WriteSettles(w) ==
  /\ WriteSettled(w)
  /\ Ended(w)
  /\ load' = [load EXCEPT ![w] = None]
  /\ IF write[w].at = "reload" /\ write[w].answer \in Refused
     THEN /\ Reported(write[w].answer)
          /\ hook' = (hook \/ (write[w].answer = Hook /\ ~disposed))
     ELSE UNCHANGED <<phase, failure, hook>>
  /\ UNCHANGED <<hostVars, shown, refresh, retry, setup, viewVars, disposed, events,
                 overlapped>>

\* The failed commit is tried again.
RetryCommit(w) ==
  /\ hook /\ busy = None
  /\ Begin(w, "commit")
  /\ hook' = FALSE
  /\ revision' = revision + 1
  /\ UNCHANGED setup

Dispose ==
  /\ ~disposed /\ Event
  /\ disposed' = TRUE
  /\ retry' = Cleared(retry)
  /\ UNCHANGED <<hostVars, shownVars, busy, revision, refresh, load, write, setup, viewVars,
                 overlapped>>

(***************************************************************************)
(* The specification.                                                      *)
(***************************************************************************)

\* The panel is mounted and has asked for its first read.
Init ==
  /\ repo = [version |-> 0, head |-> FirstHead]
  /\ ready \in BOOLEAN
  /\ phase = "loading" /\ shown = None /\ failure = None /\ hook = FALSE
  /\ busy = None /\ revision = 0
  /\ refresh = [running |-> TRUE, pending |-> FALSE]
  /\ retry = [count |-> 0, timer |-> FALSE, retrying |-> FALSE]
  /\ load = [l \in Loader |-> IF l # Refresh THEN None
                              ELSE [at |-> "asked", revision |-> 0, answer |-> None]]
  /\ write = [w \in Write |-> [kind |-> None, at |-> "none", answer |-> None]]
  /\ setup = FALSE
  /\ view = [path |-> None, diff |-> None, open |-> FALSE]
  /\ history = [limit |-> Window, head |-> 0, anchor |-> 0, commits |-> <<>>, more |-> FALSE]
  /\ reads = {}
  /\ disposed = FALSE
  /\ events = 0
  /\ overlapped = FALSE

RefreshSteps == HostReads(Refresh) \/ HearLoad(Refresh) \/ RefreshSettles \/ RetryFires

WriteSteps(w) == \/ HostWrites(w) \/ HearWrite(w)
                 \/ HostReads(w) \/ HearLoad(w) \/ WriteSettles(w)

ReadSteps == \E r \in reads : HostServes(r) \/ HearServed(r)

User ==
  \/ Trigger \/ AskSetup \/ CloseDiff \/ ToggleHistory \/ LoadMore \/ Dispose
  \/ \E p \in Path : OpenDiff(p)
  \/ \E w \in Write : StartWrite(w) \/ StartCreate(w) \/ RetryCommit(w)

Next ==
  \/ Foreign \/ SessionMoves \/ User
  \/ RefreshSteps \/ ReadSteps \/ \E w \in Write : WriteSteps(w)

Spec == Init /\ [][Next]_vars

\* The host answers every call, and the page's event loop takes up every answer
\* and every timer, though other tasks may come first again and again.
FairSpec ==
  /\ Spec
  /\ SF_vars(RefreshSteps) /\ SF_vars(ReadSteps)
  /\ \A w \in Write : SF_vars(WriteSteps(w))

(***************************************************************************)
(* Properties.                                                             *)
(***************************************************************************)

\* What the panel shows of the repository is never replaced by something the
\* host had read before it: neither a read that a write overtook nor an answer
\* that is late brings an older state back (the revision that load takes
\* before its call and compares after it).  Only while a creation and another
\* write are in flight together it may.
NeverOlder ==
  [][\/ overlapped'
     \/ shown = None \/ shown' = None
     \/ shown'.version >= shown.version]_vars

\* The diff that is shown is the diff of the file that was opened last.
DiffOfView == view.diff # None => view.diff = view.path

\* The history that is shown is one window of one log, without a gap or a
\* repetition, though its pages are read one by one while commits are made
\* (the anchor of readHistory).
HistoryIsOneWindow ==
  history.commits = SubSeq(Log(history.anchor), 1, Len(history.commits))

\* The panel shows what it was asked for last, whatever the order in which the
\* answers arrive (the request counters of openDiff and of the history).
ShowsWhatWasAsked == DiffOfView /\ HistoryIsOneWindow

\* A write that is in flight ends, and the panel is free for the next one,
\* whatever fails meanwhile (the finally blocks of write, commit and
\* worktreeAdd).
BusyEnds == busy # None ~> busy = None \/ disposed

\* A panel that waits for its session shows the repository, or another reason
\* why it cannot be read, when the host has loaded the session: the retry goes
\* on after the state was named (sessionNotReady).
Heals == <>[]ready => []<>(disposed \/ phase \in {"ready", "degraded"} \/ failure \in Refusal)

\* It does, unless a stash or a creation failed, which read nothing after it.
SessionHeals ==
  Heals \/ <>\E w \in Write : /\ write[w].kind \in {"stash", "create"}
                            /\ write[w].answer \in Refused

=============================================================================
