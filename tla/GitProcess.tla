----------------------------- MODULE GitProcess -----------------------------
(***************************************************************************)
(* One Git child of the plugin: execManaged() of                           *)
(* dsh-next-git/src/host/git-runner.ts.                                    *)
(*                                                                         *)
(* Git runs in a process group of its own with the hooks it starts.  The   *)
(* call is cut short by its caller, its timeout or too much output, and    *)
(* answers when the group has gone, or after a bounded wait without        *)
(* knowing it.  A hook may leave the group and keep Git's output open.     *)
(*                                                                         *)
(* Any process may end at any time or never, signalled or not, so a signal *)
(* itself changes nothing here; time is only which of the two deadlines of *)
(* a shutdown have passed.                                                 *)
(*                                                                         *)
(* Its names are its own, so that one module can extend it together with   *)
(* GitCommit, which calls Git as this module promises.                     *)
(***************************************************************************)
EXTENDS Naturals, FiniteSets

CONSTANTS
  Hook,        \* processes that Git may start
  MaxBuffer,   \* the output a caller accepts, in chunks
  MaxOutput,   \* bound: the chunks the processes write
  Unknown,     \* the answer of a call whose group may still be there
  Nil          \* none yet

Answers == [code: {0, 1, 127, 130}, killed: BOOLEAN]

ASSUME GitProcessAssumption ==
  /\ MaxBuffer \in Nat /\ MaxOutput \in Nat
  /\ Nil \notin Nat \cup Answers \cup {"cancelled", "timeout", "maxBuffer"}
  /\ Unknown \notin Answers \cup {Nil}

VARIABLES
  git,        \* the child: "ended" until the host has collected its status
  status,     \* its exit status
  hooks,      \* the processes it may start in its group, loud while they
              \* hold its output open
  escaped,    \* a hook outside of the group holds the output open
  pipe,       \* output written and not yet read, and all that was written
  kept,       \* output read and kept, and whether some was dropped
  signalled,  \* the caller's signal
  groupGone,  \* the host was told there is no such group
  closed,     \* the close event was heard
  reason,     \* why the call was cut short
  error,      \* the error event was heard
  shutdown,   \* "no", or which deadlines have passed
  forced,     \* SIGKILL was sent
  result      \* the answer

world == <<git, status, hooks, escaped, pipe>>
host == <<kept, groupGone, closed, reason, error, shutdown, forced, result>>
processVars == <<world, host, signalled>>

Reason == {"cancelled", "timeout", "maxBuffer"}

Flags ==
  /\ escaped \in BOOLEAN /\ signalled \in BOOLEAN /\ groupGone \in BOOLEAN
  /\ closed \in BOOLEAN /\ error \in BOOLEAN /\ forced \in BOOLEAN

ProcessTypeOK ==
  /\ git \in {"new", "failed", "running", "ended", "reaped"}
  /\ status \in {0, 1, Nil}
  /\ hooks \in [Hook -> {"none", "loud", "quiet", "gone"}]
  /\ pipe \in [unread: 0..MaxOutput, all: 0..MaxOutput]
  /\ kept \in [size: 0..MaxBuffer, dropped: BOOLEAN]
  /\ reason \in Reason \cup {Nil}
  /\ shutdown \in {"no", "grace", "kill", "over"}
  /\ result \in Answers \cup {Nil, Unknown}
  /\ Flags

ProcessInit ==
  /\ git = "new" /\ status = Nil
  /\ hooks = [h \in Hook |-> "none"]
  /\ escaped = FALSE
  /\ pipe = [unread |-> 0, all |-> 0]
  /\ kept = [size |-> 0, dropped |-> FALSE]
  /\ signalled \in BOOLEAN
  /\ groupGone = FALSE /\ closed = FALSE /\ reason = Nil /\ error = FALSE
  /\ shutdown = "no" /\ forced = FALSE
  /\ result = Nil

-----------------------------------------------------------------------------
(* The processes *)

Loud == {h \in Hook : hooks[h] = "loud"}
Live == {h \in Hook : hooks[h] \in {"loud", "quiet"}}

\* Somebody is in the group, a child whose status is not collected included.
GroupExists == git \in {"running", "ended"} \/ Live # {}

\* Somebody may write output.
Writers == git = "running" \/ Loud # {} \/ escaped

StartHook(h) ==
  /\ git = "running" /\ hooks[h] = "none"
  /\ hooks' = [hooks EXCEPT ![h] = "loud"]
  /\ UNCHANGED <<git, status, escaped, pipe, host, signalled>>

\* A hook ends, or closes its output and goes on.
EndHook(h, state) ==
  /\ h \in Live
  /\ hooks' = [hooks EXCEPT ![h] = state]
  /\ UNCHANGED <<git, status, escaped, pipe, host, signalled>>

\* A hook starts a session of its own with the output still open.
Escape(h) ==
  /\ h \in Loud
  /\ hooks' = [hooks EXCEPT ![h] = "gone"]
  /\ escaped' = TRUE
  /\ UNCHANGED <<git, status, pipe, host, signalled>>

EndEscaped ==
  /\ escaped /\ escaped' = FALSE
  /\ UNCHANGED <<git, status, hooks, pipe, host, signalled>>

\* Git exits, or ends by a signal (status Nil).
EndGit(code) ==
  /\ git = "running"
  /\ git' = "ended" /\ status' = code
  /\ UNCHANGED <<hooks, escaped, pipe, host, signalled>>

Write ==
  /\ Writers
  /\ pipe.all < MaxOutput
  /\ pipe' = [unread |-> pipe.unread + 1, all |-> pipe.all + 1]
  /\ UNCHANGED <<git, status, hooks, escaped, host, signalled>>

-----------------------------------------------------------------------------
(* Shutting down *)

\* signalGroup(): the group is not asked for again once it was gone.
Ask(gone, exists) == gone \/ ~exists

Code(r, missing) ==
  CASE r = "cancelled" -> 130
    [] r # "cancelled" /\ missing -> 127
    [] r # "cancelled" /\ ~missing /\ (r # Nil \/ status = Nil) -> 1
    [] OTHER -> status

\* finish(): error stands for git that was not found.
Finished(r) ==
  [code |-> Code(r, error),
   killed |-> r # Nil \/ (git = "reaped" /\ status = Nil)]

\* stop() and the first look at the group, when reason is r.
Stop(r, isClosed, exists) ==
  /\ shutdown' = IF shutdown = "no" THEN "grace" ELSE shutdown
  /\ groupGone' = Ask(groupGone, exists)
  /\ result' = IF shutdown = "no" /\ isClosed /\ groupGone'
               THEN Finished(r) ELSE result

\* terminate()
Terminate(r) ==
  IF closed \/ shutdown # "no" THEN UNCHANGED <<reason, shutdown, groupGone, result>>
  ELSE reason' = r /\ Stop(r, closed, GroupExists)

-----------------------------------------------------------------------------
(* The host *)

Waiting == git # "new" /\ result = Nil

\* The answer to a call that was aborted before it started.
Refused == [code |-> 130, killed |-> TRUE]

\* The call: refused if it was aborted before, else Git is started or is not
\* found.
Begin ==
  /\ git = "new" /\ result = Nil
  /\ \/ /\ signalled
        /\ result' = Refused
        /\ UNCHANGED <<git, groupGone>>
     \/ /\ ~signalled
        /\ \/ git' = "running" /\ UNCHANGED groupGone
           \/ git' = "failed" /\ groupGone' = TRUE
        /\ UNCHANGED result
  /\ UNCHANGED <<status, hooks, escaped, pipe, kept, closed, reason, error,
                 shutdown, forced, signalled>>

\* The caller's signal is heard at once.
OnAbort ==
  /\ Waiting
  /\ ~signalled /\ signalled' = TRUE
  /\ Terminate("cancelled")
  /\ UNCHANGED <<world, kept, closed, error, forced>>

TimesOut ==
  /\ Waiting /\ shutdown = "no" /\ ~closed
  /\ Terminate("timeout")
  /\ UNCHANGED <<world, kept, closed, error, forced, signalled>>

Least(m, n) == IF m < n THEN m ELSE n

\* Fault: output beyond the limit goes unnoticed during a shutdown.
OverrunBeforeStop(room, n) == n > room /\ reason = Nil /\ shutdown = "no"

\* The output is more than the caller accepts, and nothing else ended the call.
Overrun(room, n) == n > room /\ reason = Nil

\* collect()
OnData(n) ==
  LET room == MaxBuffer - kept.size
  IN  /\ Waiting /\ ~closed
      /\ n \in 1..pipe.unread
      /\ pipe' = [pipe EXCEPT !.unread = @ - n]
      /\ kept' = [size |-> kept.size + Least(n, room), dropped |-> kept.dropped \/ n > room]
      /\ IF Overrun(room, n)
         THEN reason' = "maxBuffer" /\ Stop("maxBuffer", closed, GroupExists)
         ELSE UNCHANGED <<reason, shutdown, groupGone, result>>
      /\ UNCHANGED <<git, status, hooks, escaped, closed, error, forced, signalled>>

\* Git was not found; the close event follows.
OnError ==
  /\ Waiting /\ git = "failed" /\ ~error
  /\ error' = TRUE
  /\ UNCHANGED <<world, kept, groupGone, closed, reason, shutdown, forced, result, signalled>>

\* onExit(): what is left of the group is shut down.
OnExit ==
  /\ Waiting /\ git = "ended"
  /\ git' = "reaped"
  /\ IF Ask(groupGone, Live # {})
     THEN groupGone' = TRUE /\ UNCHANGED <<shutdown, result>>
     ELSE Stop(reason, closed, TRUE)
  /\ UNCHANGED <<status, hooks, escaped, pipe, kept, closed, reason, error, forced, signalled>>

\* Fault: the group is not asked for once the output has closed.
CloseAnyway ==
  groupGone' = TRUE /\ result' = Finished(reason) /\ UNCHANGED shutdown

Close ==
  IF Ask(groupGone, GroupExists)
  THEN groupGone' = TRUE /\ result' = Finished(reason) /\ UNCHANGED shutdown
  ELSE Stop(reason, TRUE, TRUE)

\* onClose(), after the exit and all output.
OnClose ==
  /\ Waiting /\ ~closed
  /\ git = "reaped" \/ (git = "failed" /\ error)
  /\ ~Writers /\ pipe.unread = 0
  /\ closed' = TRUE
  /\ Close
  /\ UNCHANGED <<world, kept, reason, error, forced, signalled>>

\* A deadline of the shutdown passes.
Elapse ==
  /\ Waiting
  /\ \/ shutdown = "grace" /\ shutdown' = "kill"
     \/ shutdown = "kill" /\ shutdown' = "over"
  /\ UNCHANGED <<world, kept, groupGone, closed, reason, error, forced, result, signalled>>

\* Fault: the host waits until it knows.
NeverGivesUp(gone) ==
  IF closed /\ gone THEN Finished(reason) ELSE result

\* The end of checkShutdown().
Verdict(gone) ==
  IF closed /\ gone THEN Finished(reason)
  ELSE IF shutdown = "over" THEN Unknown ELSE result

GraceOver == shutdown # "grace"

\* checkShutdown(), every ten milliseconds.
Poll ==
  /\ Waiting /\ shutdown # "no"
  /\ groupGone' = Ask(groupGone, GroupExists)
  /\ result' = Verdict(groupGone')
  /\ forced' = (forced \/ (GraceOver /\ ~(closed /\ groupGone')))
  /\ UNCHANGED <<world, kept, closed, reason, error, shutdown, signalled>>

-----------------------------------------------------------------------------

ProcessNext ==
  \/ \E h \in Hook : \/ StartHook(h) \/ Escape(h)
                   \/ EndHook(h, "quiet") \/ EndHook(h, "gone")
  \/ EndEscaped
  \/ \E code \in {0, 1, Nil} : EndGit(code)
  \/ Write
  \/ Begin \/ OnAbort \/ TimesOut
  \/ \E n \in 1..MaxOutput : OnData(n)
  \/ OnError \/ OnExit \/ OnClose \/ Elapse \/ Poll

ProcessSpec == ProcessInit /\ [][ProcessNext]_processVars

\* The timers of the host fire and its events are heard.  Nothing is assumed
\* of the processes.
FairProcess ==
  /\ ProcessSpec
  /\ WF_processVars(Begin) /\ WF_processVars(TimesOut) /\ WF_processVars(Elapse) /\ WF_processVars(Poll)
  /\ WF_processVars(OnError) /\ WF_processVars(OnClose)

-----------------------------------------------------------------------------
(* Properties *)

\* "waits for hook descendants", "do not rollback or start another mutation"
\* (git-runner.ts): an answer other than unconfirmed means the group is gone.
Promise == INSTANCE GitCall WITH
  group <- IF git \in {"new", "failed"} THEN "new" ELSE IF GroupExists THEN "alive" ELSE "gone",
  answer <- IF result = Nil THEN "none"
            ELSE IF result = Unknown THEN "unconfirmed" ELSE "settled"

ImplementsGitCall == Promise!Spec

\* A call that answers 0 is complete: Git itself exited with 0, all its output
\* was read and none dropped, whatever cut the shutdown short meanwhile.
SuccessIsComplete ==
  result # Nil /\ result # Unknown /\ result.code = 0 =>
    git = "reaped" /\ status = 0 /\ ~kept.dropped /\ pipe.unread = 0 /\ ~escaped

\* The bound of a shutdown leaves nothing untried: the host gives up only after
\* it has killed the group, however late its timers fire.
KilledBeforeGivingUp == result = Unknown => forced

\* Every call is answered, though a hook may never end and may hold the output
\* open for ever.
IsAnswered == <>(result # Nil)

=============================================================================
