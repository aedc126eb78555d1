--------------------------- MODULE NotifierEvents ---------------------------
(***************************************************************************)
(* Which alerts the notifier publishes: wireEvents of                      *)
(* dsh-next-notifier/src/host/events.ts.                                   *)
(*                                                                         *)
(* It listens to agents, turns, goals, subagents and requests to the user, *)
(* and hands an alert to the broker when a timer fires.  The broker is     *)
(* reduced to the alerts it holds and may drop at any time.  A timer may   *)
(* fire at any moment after it is set: nothing here depends on how long    *)
(* its delay is.  Agents change their status and their goal first and say  *)
(* so in a later step.                                                     *)
(***************************************************************************)
EXTENDS Naturals, FiniteSets

CONSTANTS
  Agent,         \* agent runtimes
  Session,       \* sessions
  SessionOf,     \* the session of each agent
  Child,         \* the sessions of subagents (origin or delegationDepth)
  Run,           \* runs of subagents
  Request,       \* approval requests and questions
  Handle,        \* numbers for the alerts handed to the broker
  None,
  Settings,      \* values of finished.goalOnly and finished.subagent
  MAX_DETACHED,  \* 100: ended subagents remembered without their agent
  MaxTurn,       \* bound: turn numbers
  MaxRevision    \* bound: changes of one goal

Ordinary == {"finished", "failed"}
GoalKind == {"goal-complete", "goal-blocked"}
Kind == Ordinary \cup GoalKind \cup {"subagent"}

ASSUME EventsAssumption ==
  /\ SessionOf \in [Agent -> Session]
  /\ Child \subseteq Session
  /\ Settings \subseteq [goalOnly: BOOLEAN, subagent: BOOLEAN]
  /\ Session \cap Request = {}
  /\ Handle \subseteq Nat
  /\ None \notin Agent \cup Run /\ None \notin Handle /\ None \notin Kind
  /\ MaxTurn \in Nat /\ MaxRevision \in Nat /\ MAX_DETACHED \in Nat \ {0}

VARIABLES
  sessions,  \* what is known of a session
  later,     \* the order of ended subagents in the Map: <<x, y>> if y follows x
  deadAgents,
  requests,  \* requests to the user that are still tracked
  config,    \* finished.goalOnly and finished.subagent
  disposed,
  live,      \* alerts the broker holds, by their handle
  agents,    \* status of each agent, whether it was announced, and whether
             \* another runtime of its session appeared since
  turn,      \* the open turn of each session and the last one that ended
  goal,      \* the goal of each session
  run,       \* the subagent run going on in each session
  human,     \* the requests to the user
  told,      \* sessions with an alert for the end of their current turn
  goalDone   \* sessions whose goal ended and nothing happened since

notifierVars == <<sessions, later, deadAgents, requests, config, disposed, live>>
worldVars == <<agents, turn, goal, run, human>>
vars == <<notifierVars, worldVars, told, goalDone>>

-----------------------------------------------------------------------------

SessionState ==
  [agent: Agent \cup {None}, lastTurn: 0..MaxTurn, goalRef: 0..MaxRevision,
   subagentRun: Run \cup {None}, goalTerminal: BOOLEAN,
   event: Kind \cup {None}, timer: BOOLEAN, queued: Handle \cup {None}]

\* An alert is about a session (with the agent checked when it was published)
\* or about a request.
Alert == [about: Session \cup Request, kind: Kind \cup {"request"},
          agent: Agent \cup {None}]

TypeOK ==
  /\ DOMAIN sessions \subseteq Session
  /\ \A s \in DOMAIN sessions : sessions[s] \in SessionState
  /\ later \subseteq Session \X Session
  /\ deadAgents \subseteq Agent
  /\ DOMAIN requests \subseteq Request
  /\ \A q \in DOMAIN requests :
       requests[q] \in [agent: Agent, timer: BOOLEAN, queued: Handle \cup {None}]
  /\ config \in [goalOnly: BOOLEAN, subagent: BOOLEAN]
  /\ disposed \in BOOLEAN
  /\ DOMAIN live \subseteq Handle
  /\ \A h \in DOMAIN live : live[h] \in Alert
  /\ agents \in [Agent -> [status: {"absent", "idle", "running"}, said: BOOLEAN,
                       old: BOOLEAN]]
  /\ turn \in [Session -> [open: 0..MaxTurn, last: 0..MaxTurn]]
  /\ goal \in [Session -> [phase: {"none", "active", "complete", "blocked"},
                           revision: 0..MaxRevision, said: BOOLEAN]]
  /\ run \in [Session -> [id: Run \cup {None}, going: BOOLEAN]]
  /\ human \in [Request -> {"new", "waiting", "over"}]
  /\ told \subseteq Session /\ goalDone \subseteq Session

NoMap == [x \in {} |-> x]

Fresh == [agent |-> None, lastTurn |-> 0, goalRef |-> 0, subagentRun |-> None,
          goalTerminal |-> FALSE, event |-> None, timer |-> FALSE, queued |-> None]

\* state(): what is known of s, before a is remembered as its agent.
Known(s) == IF s \in DOMAIN sessions THEN sessions[s] ELSE Fresh
KnownBy(s, a) == [Known(s) EXCEPT !.agent = a]

\* reset(): the timer and the alert of the session are withdrawn.
Reset(v) == [v EXCEPT !.event = None, !.timer = FALSE, !.queued = None]

\* schedule(): the timer runs only for an event of an idle agent.
Schedule(v) ==
  [v EXCEPT !.timer = @ \/ /\ v.event # None
                           /\ v.queued = None
                           /\ v.agent # None => agents[v.agent].status = "idle"]

Set(f, x, v) == [y \in DOMAIN f \cup {x} |-> IF y = x THEN v ELSE f[y]]
Drop(f, X) == [y \in DOMAIN f \ X |-> f[y]]
DropPairs(r, X) == {p \in r : p[1] \notin X /\ p[2] \notin X}

Remember(s, v) == sessions' = Set(sessions, s, v)

\* Fault: the handles are forgotten without being called.
RetractNothing(S, Q) == live' = live

\* The alerts queued for the sessions S and the requests Q are retracted.
Retract(S, Q) ==
  live' = Drop(live, {sessions[s].queued : s \in S \cap DOMAIN sessions}
                     \cup {requests[q].queued : q \in Q \cap DOMAIN requests})

\* The handles nobody refers to: the next alert gets the first of them.
Unused == Handle \ (DOMAIN live \cup {sessions[s].queued : s \in DOMAIN sessions}
                                \cup {requests[q].queued : q \in DOMAIN requests})

-----------------------------------------------------------------------------
(* Agents *)

Init ==
  /\ sessions = NoMap /\ later = {} /\ deadAgents = {} /\ requests = NoMap
  /\ config \in Settings
  /\ disposed = FALSE
  /\ live = NoMap
  /\ agents = [a \in Agent |-> [status |-> "absent", said |-> TRUE, old |-> FALSE]]
  /\ turn = [s \in Session |-> [open |-> 0, last |-> 0]]
  /\ goal = [s \in Session |-> [phase |-> "none", revision |-> 0, said |-> TRUE]]
  /\ run = [s \in Session |-> [id |-> None, going |-> FALSE]]
  /\ human = [q \in Request |-> "new"]
  /\ told = {} /\ goalDone = {}

Present(a) == agents[a].status # "absent" /\ a \notin deadAgents

\* The runtime of a session that goes on.
Acting(a) == Present(a) /\ ~agents[a].old

\* A runtime may appear before the disposal of the earlier one of its session is
\* announced, which has ended its turn and announced that it is idle.
Appear(a, status) ==
  LET s == SessionOf[a]
      Earlier == {b \in Agent \ {a} : SessionOf[b] = s}
  IN  /\ agents[a].status = "absent"
      /\ \A b \in Earlier : Present(b) => agents[b].status = "idle" /\ agents[b].said
      /\ turn[s].open = 0
      /\ agents' = [b \in Agent |->
           CASE b = a -> [status |-> status, said |-> FALSE, old |-> FALSE]
             [] b \in Earlier -> [agents[b] EXCEPT !.old = TRUE]
             [] OTHER -> agents[b]]
      /\ turn' = [turn EXCEPT ![s].last = 0]
      /\ goalDone' = goalDone \ {s}
      /\ UNCHANGED <<notifierVars, goal, run, human, told>>

ChangeStatus(a) ==
  /\ Acting(a)
  /\ agents[a].said
  /\ agents' = [agents EXCEPT
       ![a].status = IF @ = "idle" THEN "running" ELSE "idle", ![a].said = FALSE]
  /\ UNCHANGED <<notifierVars, turn, goal, run, human, told, goalDone>>

\* agent/status
AgentStatus(a) ==
  LET s == SessionOf[a]
      v == KnownBy(s, a)
  IN  /\ ~disposed
      /\ Acting(a) /\ ~agents[a].said
      /\ agents' = [agents EXCEPT ![a].said = TRUE]
      /\ IF agents[a].status = "running"
         THEN /\ Remember(s, [Reset(v) EXCEPT !.goalTerminal = FALSE])
              /\ Retract({s}, {})
              /\ goalDone' = goalDone \ {s}
         ELSE /\ Remember(s, Schedule(v))
              /\ UNCHANGED <<live, goalDone>>
      /\ UNCHANGED <<later, deadAgents, requests, config, disposed,
                     turn, goal, run, human, told>>

\* Fault: the requests of a disposed agent are kept.
NoRequestsOf(a) == {}

RequestsOf(a) == {q \in DOMAIN requests : requests[q].agent = a}

\* Fault: the session is forgotten with any of its agents.
ForgottenWithAny(a) == {SessionOf[a]} \cap DOMAIN sessions

\* A session that has another agent by now is kept.
ForgottenWith(a) ==
  {s \in {SessionOf[a]} \cap DOMAIN sessions : sessions[s].agent \in {None, a}}

\* agent/disposed: the session is forgotten and the agent's requests are
\* given up.
AgentDisposed(a) ==
  LET s == SessionOf[a]
      S == ForgottenWith(a)
      Q == RequestsOf(a)
  IN  /\ ~disposed
      /\ Present(a)
      /\ deadAgents' = deadAgents \cup {a}
      /\ sessions' = Drop(sessions, S)
      /\ later' = DropPairs(later, S)
      /\ requests' = Drop(requests, Q)
      /\ Retract(S, Q)
      /\ IF agents[a].old THEN UNCHANGED <<turn, goalDone>>
         ELSE /\ turn' = [turn EXCEPT ![s] = [open |-> 0, last |-> 0]]
              /\ goalDone' = goalDone \ {s}
      /\ UNCHANGED <<config, disposed, agents, goal, run, human, told>>

-----------------------------------------------------------------------------
(* Turns *)

\* A runtime that replaced one which is still there has announced its status
\* before it begins a turn.
Introduced(a) ==
  \/ agents[a].said
  \/ \A b \in Agent \ {a} : SessionOf[b] = SessionOf[a] => ~Present(b)

\* session/event with turn/start; turn numbers may restart.
TurnStart(a, n) ==
  LET s == SessionOf[a]
  IN  /\ ~disposed
      /\ Acting(a) /\ Introduced(a) /\ turn[s].open = 0
      /\ turn' = [turn EXCEPT ![s].open = n]
      /\ told' = told \ {s}
      /\ goalDone' = goalDone \ {s}
      /\ IF s \in Child THEN UNCHANGED <<sessions, live>>
         ELSE /\ Remember(s, [Reset(Known(s)) EXCEPT !.lastTurn = 0,
                                                     !.goalTerminal = FALSE])
              /\ Retract({s}, {})
      /\ UNCHANGED <<later, deadAgents, requests, config, disposed,
                     agents, goal, run, human>>

\* Fault: only an older turn counts as repeated.
OlderTurn(v, n) == v.lastTurn > n

RepeatedTurn(v, n) == v.lastTurn >= n

\* Fault: the turn that ended the goal gets an alert of its own.
TurnEndedAfterGoal(v, n, kind) ==
  LET w == [Reset(v) EXCEPT !.lastTurn = n, !.event = kind]
  IN  IF v.agent # None THEN Schedule(w) ELSE w

\* Fault: only the status sets the timer.
TurnEndedUnscheduled(v, n, kind) ==
  IF v.goalTerminal THEN [v EXCEPT !.lastTurn = n]
                    ELSE [Reset(v) EXCEPT !.lastTurn = n, !.event = kind]

\* What is known of a session after the end of turn n, which says nothing more
\* about a turn that ended the goal.
TurnEnded(v, n, kind) ==
  LET w == [Reset(v) EXCEPT !.lastTurn = n, !.event = kind]
  IN  CASE v.goalTerminal -> [v EXCEPT !.lastTurn = n]
        [] ~v.goalTerminal /\ v.agent # None -> Schedule(w)
        [] OTHER -> w

\* The handler of turn/end.
HearTurnEnd(s, n, kind) ==
  IF s \in Child \/ RepeatedTurn(Known(s), n) THEN UNCHANGED <<sessions, live>>
  ELSE /\ Remember(s, TurnEnded(Known(s), n, kind))
       /\ Retract(IF Known(s).goalTerminal THEN {} ELSE {s}, {})

\* kind is None for a turn that was cancelled.
TurnEnd(a, kind) ==
  LET s == SessionOf[a]
  IN  /\ ~disposed
      /\ Acting(a) /\ turn[s].open # 0
      /\ turn' = [turn EXCEPT ![s] = [open |-> 0, last |-> turn[s].open]]
      /\ HearTurnEnd(s, turn[s].open, kind)
      /\ UNCHANGED <<later, deadAgents, requests, config, disposed,
                     agents, goal, run, human, told, goalDone>>

\* The end of the last turn is reported again.
RepeatTurnEnd(a, kind) ==
  LET s == SessionOf[a]
  IN  /\ ~disposed
      /\ Acting(a) /\ turn[s].open = 0 /\ turn[s].last # 0
      /\ HearTurnEnd(s, turn[s].last, kind)
      /\ UNCHANGED <<later, deadAgents, requests, config, disposed,
                     worldVars, told, goalDone>>

-----------------------------------------------------------------------------
(* Goals *)

ChangeGoal(a, phase) ==
  LET s == SessionOf[a]
  IN  /\ Acting(a)
      /\ goal[s].said
      /\ goal[s].revision < MaxRevision
      /\ goal' = [goal EXCEPT ![s] = [phase |-> phase, said |-> FALSE,
                                      revision |-> @.revision + 1]]
      /\ UNCHANGED <<notifierVars, agents, turn, run, human, told, goalDone>>

\* goal/changed, possibly a repeated one.
GoalChanged(a) ==
  LET s == SessionOf[a]
      v == [KnownBy(s, a) EXCEPT !.goalRef = goal[s].revision]
      resumed == [IF v.goalTerminal THEN Reset(v) ELSE v EXCEPT !.goalTerminal = FALSE]
      ended == [Reset(v) EXCEPT !.goalTerminal = TRUE,
                  !.event = IF goal[s].phase = "complete" THEN "goal-complete"
                                                          ELSE "goal-blocked"]
  IN  /\ ~disposed
      /\ Acting(a) /\ goal[s].revision > 0
      /\ goal' = [goal EXCEPT ![s].said = TRUE]
      /\ \/ /\ s \in Child
            /\ UNCHANGED <<sessions, live, goalDone>>
         \/ /\ s \notin Child
            /\ Known(s).goalRef = goal[s].revision
            /\ Remember(s, v)
            /\ UNCHANGED <<live, goalDone>>
         \/ /\ s \notin Child
            /\ Known(s).goalRef # goal[s].revision
            /\ goal[s].phase = "active"
            /\ Remember(s, resumed)
            /\ Retract(IF v.goalTerminal THEN {s} ELSE {}, {})
            /\ goalDone' = goalDone \ {s}
         \/ /\ s \notin Child
            /\ Known(s).goalRef # goal[s].revision
            /\ goal[s].phase # "active"
            /\ Remember(s, Schedule(ended))
            /\ Retract({s}, {})
            /\ goalDone' = goalDone \cup {s}
      /\ UNCHANGED <<later, deadAgents, requests, config, disposed,
                     agents, turn, run, human, told>>

-----------------------------------------------------------------------------
(* Subagents *)

\* subagent/start
SubagentStart(s, r) ==
  /\ ~disposed
  /\ s \in Child /\ ~run[s].going /\ r # run[s].id
  /\ run' = [run EXCEPT ![s] = [id |-> r, going |-> TRUE]]
  /\ IF s \in DOMAIN sessions THEN Remember(s, Reset(sessions[s]))
                              ELSE UNCHANGED sessions
  /\ Retract({s}, {})
  /\ UNCHANGED <<later, deadAgents, requests, config, disposed,
                 agents, turn, goal, human, told, goalDone>>

\* Ended subagents without an agent.
Detached(m) == {s \in DOMAIN m : m[s].subagentRun # None /\ m[s].agent = None}

\* The sessions subagent/end forgets in the map m with the order r: all
\* detached ones but the newest MAX_DETACHED.
Evicted(m, r) ==
  {x \in Detached(m) :
     Cardinality({y \in Detached(m) : <<x, y>> \in r}) >= MAX_DETACHED}

\* subagent/end, possibly a repeated one.  kind is None for a run that was
\* aborted.
SubagentEnd(s, kind) ==
  LET v == [Reset(Known(s)) EXCEPT !.subagentRun = run[s].id, !.agent = None,
                                   !.event = kind]
      m == Set(sessions, s, Schedule(v))
      ended == {x \in DOMAIN sessions : sessions[x].subagentRun # None}
      r == DropPairs(later, {s}) \cup (ended \ {s}) \X {s}
      X == Evicted(m, r)
  IN  /\ ~disposed
      /\ run[s].id # None
      /\ run' = [run EXCEPT ![s].going = FALSE]
      /\ \/ /\ ~config.subagent
            /\ IF s \in DOMAIN sessions THEN Remember(s, Reset(sessions[s]))
                                        ELSE UNCHANGED sessions
            /\ Retract({s}, {})
            /\ UNCHANGED later
         \/ /\ config.subagent
            /\ Known(s).subagentRun = run[s].id
            /\ UNCHANGED <<sessions, later, live>>
         \/ /\ config.subagent
            /\ Known(s).subagentRun # run[s].id
            /\ sessions' = Drop(m, X)
            /\ later' = DropPairs(r, X)
            /\ Retract({s} \cup X, {})
      /\ UNCHANGED <<deadAgents, requests, config, disposed,
                     agents, turn, goal, human, told, goalDone>>

-----------------------------------------------------------------------------
(* Timers *)

\* publish() of the broker: it takes the alert and returns the handle h, or
\* refuses it (h may then be None), or throws.
Publish(alert, h) ==
  \/ h = None /\ UNCHANGED live
  \/ /\ h \in Unused
     /\ \A k \in Unused : h <= k
     /\ live' = Set(live, h, alert) \/ live' = live

\* What the settings and the goal the timer looks up have against the alert;
\* the goal service may be absent or fail.
Unwanted(s, v, view, armed) ==
  \/ /\ view
     /\ v.event = "finished" /\ config.goalOnly
     /\ goal[s].phase = "active" /\ armed
  \/ view /\ v.event = "goal-complete" /\ goal[s].phase # "complete"
  \/ view /\ v.event = "goal-blocked" /\ goal[s].phase # "blocked"
  \/ v.subagentRun # None /\ ~config.subagent

Quiet(v) ==
  v.agent # None => v.agent \notin deadAgents /\ agents[v.agent].status = "idle"

\* The timer of schedule().
IdleTimer(s) ==
  LET v == sessions[s]
      fired == [v EXCEPT !.timer = FALSE]
      alert == [about |-> s, kind |-> v.event, agent |-> v.agent]
  IN  /\ ~disposed
      /\ s \in DOMAIN sessions /\ v.timer
      /\ \/ /\ v.event = None \/ ~Quiet(v)
            /\ Remember(s, fired)
            /\ UNCHANGED <<live, told>>
         \/ /\ v.event # None /\ Quiet(v)
            /\ \E view \in {x \in BOOLEAN : x => v.agent # None}, armed \in BOOLEAN :
                 IF Unwanted(s, v, view, armed)
                 THEN /\ Remember(s, [fired EXCEPT !.event = None])
                      /\ UNCHANGED <<live, told>>
                 ELSE /\ \E h \in Handle \cup {None} :
                           /\ Publish(alert, h)
                           /\ Remember(s, [fired EXCEPT !.event = None, !.queued = h])
                      /\ told' = IF v.event \in Ordinary /\ s \notin Child
                                 THEN told \cup {s} ELSE told
      /\ UNCHANGED <<later, deadAgents, requests, config, disposed,
                     worldVars, goalDone>>

\* The timer of pending().
RequestTimer(q) ==
  LET alert == [about |-> q, kind |-> "request", agent |-> requests[q].agent]
  IN  /\ ~disposed
      /\ q \in DOMAIN requests /\ requests[q].timer
      /\ \E h \in Handle \cup {None} :
           /\ Publish(alert, h)
           /\ requests' = [requests EXCEPT ![q].timer = FALSE, ![q].queued = h]
      /\ UNCHANGED <<sessions, later, deadAgents, config, disposed,
                     worldVars, told, goalDone>>

-----------------------------------------------------------------------------
(* Requests to the user *)

\* pending(): a request of a disposed agent, or aborted before it began, or
\* whose answer fails at once, is not tracked.
Ask(q, a, aborted) ==
  /\ ~disposed
  /\ human[q] = "new"
  /\ agents[a].status # "absent"
  /\ human' = [human EXCEPT ![q] = IF aborted THEN "over" ELSE "waiting"]
  /\ requests' = IF aborted \/ a \in deadAgents THEN requests
                 ELSE Set(requests, q, [agent |-> a, timer |-> TRUE, queued |-> None])
  /\ UNCHANGED <<sessions, later, deadAgents, config, disposed, live,
                 agents, turn, goal, run, told, goalDone>>

\* The user answered, the answer failed, or the signal aborted: cleanup().
Settle(q) ==
  /\ ~disposed
  /\ human[q] = "waiting"
  /\ human' = [human EXCEPT ![q] = "over"]
  /\ requests' = Drop(requests, {q})
  /\ Retract({}, {q})
  /\ UNCHANGED <<sessions, later, deadAgents, config, disposed,
                 agents, turn, goal, run, told, goalDone>>

-----------------------------------------------------------------------------
(* The plugin *)

\* The broker is done with an alert: delivered, expired or crowded out.
BrokerDrops(h) ==
  /\ h \in DOMAIN live
  /\ live' = Drop(live, {h})
  /\ UNCHANGED <<sessions, later, deadAgents, requests, config, disposed,
                 worldVars, told, goalDone>>

SetConfig(c) ==
  /\ config' = c
  /\ UNCHANGED <<sessions, later, deadAgents, requests, disposed, live,
                 worldVars, told, goalDone>>

\* The disposer wireEvents returns.
Dispose ==
  /\ ~disposed
  /\ disposed' = TRUE
  /\ Retract(DOMAIN sessions, DOMAIN requests)
  /\ sessions' = NoMap /\ later' = {} /\ requests' = NoMap
  /\ UNCHANGED <<deadAgents, config, worldVars, told, goalDone>>

Next ==
  \/ \E a \in Agent : \/ \E status \in {"idle", "running"} : Appear(a, status)
                      \/ ChangeStatus(a) \/ AgentStatus(a) \/ AgentDisposed(a)
                      \/ \E n \in 1..MaxTurn : TurnStart(a, n)
                      \/ \E kind \in Ordinary \cup {None} :
                           TurnEnd(a, kind) \/ RepeatTurnEnd(a, kind)
                      \/ \E phase \in {"active", "complete", "blocked"} :
                           ChangeGoal(a, phase)
                      \/ GoalChanged(a)
  \/ \E s \in Session : \/ \E r \in Run : SubagentStart(s, r)
                        \/ \E kind \in {"subagent", "failed", None} :
                             SubagentEnd(s, kind)
                        \/ IdleTimer(s)
  \/ \E q \in Request : \/ \E a \in Agent, aborted \in BOOLEAN : Ask(q, a, aborted)
                        \/ Settle(q) \/ RequestTimer(q)
  \/ \E h \in Handle : BrokerDrops(h)
  \/ \E c \in Settings : SetConfig(c)
  \/ Dispose

Spec == Init /\ [][Next]_vars

\* Timers of a running host fire, and a changed status is announced.
FairSpec ==
  /\ Spec
  /\ \A s \in Session : WF_vars(IdleTimer(s))
  /\ \A a \in Agent : WF_vars(AgentStatus(a))

-----------------------------------------------------------------------------
(* Properties *)

\* "A resumed or disposed agent cancels its pending alert", "an alert is pending
\* only while a human response is needed" (docs/notifier.md): what a queued
\* alert says is still so.  A runtime of its session lives, and the one that goes
\* on is idle as far as was announced; its session has no open turn and its goal
\* is in the phase it names; the request it announces waits, for an agent that
\* was not disposed.
AlertIsCurrent ==
  \A h \in DOMAIN live :
    LET alert == live[h]
        s == alert.about
    IN  /\ alert.kind # "request" /\ alert.agent # None =>
             /\ \E a \in Agent : SessionOf[a] = s /\ Present(a)
             /\ \A a \in Agent : SessionOf[a] = s /\ Acting(a) =>
                  agents[a].status = "idle" \/ ~agents[a].said
        /\ alert.kind \in Ordinary /\ s \notin Child => turn[s].open = 0
        /\ alert.kind = "goal-complete" => goal[s].phase = "complete" \/ ~goal[s].said
        /\ alert.kind = "goal-blocked" => goal[s].phase = "blocked" \/ ~goal[s].said
        /\ alert.kind = "request" =>
             human[s] = "waiting" /\ alert.agent \notin deadAgents
        /\ s \in Child => ~run[s].going

\* "One goal alert instead of a duplicate turn-finished alert": after its goal
\* ended, a session has no alert about a turn until something new begins,
\* another runtime included.
GoalSpeaksAlone ==
  \A s \in goalDone :
    /\ s \in DOMAIN sessions => sessions[s].event \notin Ordinary
    /\ \A h \in DOMAIN live : live[h].about = s => live[h].kind \notin Ordinary

\* Every queued alert is held by exactly one session or request, so that it
\* can still be withdrawn, whatever was evicted, disposed or superseded.
NoOrphanAlert ==
  \A h \in DOMAIN live :
    LET x == live[h].about
    IN  \/ x \in DOMAIN sessions /\ sessions[x].queued = h
        \/ x \in DOMAIN requests /\ requests[x].queued = h

\* A turn is reported once, however often its end is announced.
OneAlertPerTurn ==
  [][\A s \in Session \cap told :
       s \in told' => \A h \in DOMAIN live' \ DOMAIN live :
                        ~(live'[h].about = s /\ live'[h].kind \in Ordinary)]_vars

\* An outcome nobody has been told, of an agent that is idle.
Waiting(s) ==
  /\ ~disposed
  /\ s \in DOMAIN sessions
  /\ sessions[s].event # None
  /\ sessions[s].agent # None => agents[sessions[s].agent].status = "idle"
  /\ s \notin Child => sessions[s].agent # None

\* The outcome of an agent that stays idle does not wait forever: its timer
\* was set, whichever of the outcome and the status was announced first.
OutcomeIsTold == \A s \in Session : []<>~Waiting(s)

=============================================================================
