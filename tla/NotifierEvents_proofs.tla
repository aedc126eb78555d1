------------------------ MODULE NotifierEvents_proofs ------------------------
(***************************************************************************)
(* Proofs about NotifierEvents for any agents, sessions, subagents,        *)
(* requests, turns and goals: an alert that waits is still true and can    *)
(* still be withdrawn, and nothing is reported twice.                      *)
(***************************************************************************)
EXTENDS NotifierEvents, TLAPS

\* The goal of s was in this phase when it was last heard of; a change since
\* then was not announced yet.
LastHeard(s, phase) ==
  IF sessions[s].goalRef = goal[s].revision THEN goal[s].phase = phase
                                            ELSE ~goal[s].said

\* What makes an outcome of this kind true of s.
Holds(s, kind) ==
  /\ kind \in Ordinary => ~sessions[s].goalTerminal
  /\ kind \in Ordinary /\ s \notin Child => turn[s].open = 0
  /\ kind \in GoalKind => sessions[s].goalTerminal
  /\ kind = "goal-complete" => LastHeard(s, "complete")
  /\ kind = "goal-blocked" => LastHeard(s, "blocked")
  /\ s \in Child => ~run[s].going

\* The agent of a session is a runtime of it.
Owners ==
  \A s \in DOMAIN sessions :
    sessions[s].agent # None =>
      SessionOf[sessions[s].agent] = s /\ Present(sessions[s].agent)

\* The runtime of s that goes on is idle, or no longer so and has not said it.
QuietRuntime(s) ==
  \A a \in Agent : SessionOf[a] = s /\ Acting(a) =>
    agents[a].status = "idle" \/ ~agents[a].said

\* A session with an outcome to tell has no alert yet, and the outcome is so.
Entry(s) ==
  /\ sessions[s].event # None =>
       sessions[s].queued = None /\ Holds(s, sessions[s].event)
  /\ sessions[s].goalRef <= goal[s].revision
  /\ s \in Child => ~sessions[s].goalTerminal
  /\ sessions[s].subagentRun # None => s \in Child
Entries == \A s \in DOMAIN sessions : Entry(s)

\* An alert is held by what it is about, and what it says is so.
OfRequest(h) ==
  LET q == live[h].about
  IN  /\ q \in DOMAIN requests
      /\ requests[q].queued = h
      /\ requests[q].agent = live[h].agent
OfSession(h) ==
  LET s == live[h].about
      a == live[h].agent
  IN  /\ s \in DOMAIN sessions
      /\ sessions[s].queued = h
      /\ a # None => sessions[s].agent # None /\ QuietRuntime(s)
      /\ Holds(s, live[h].kind)
Alerts ==
  \A h \in DOMAIN live :
    IF live[h].kind = "request" THEN OfRequest(h) ELSE OfSession(h)

\* A tracked request waits for the user, and its agent lives.
Asked ==
  \A q \in DOMAIN requests :
    /\ human[q] = "waiting"
    /\ requests[q].agent \notin deadAgents
    /\ requests[q].timer => requests[q].queued = None

\* A turn that ended is remembered, and one that was told is over.
Turns ==
  \A s \in Session \ Child :
    /\ ~disposed /\ turn[s].open = 0 /\ turn[s].last # 0 =>
         s \in DOMAIN sessions /\ sessions[s].lastTurn >= turn[s].last
    /\ s \in told =>
         /\ turn[s].open = 0
         /\ s \in DOMAIN sessions => sessions[s].event \notin Ordinary

\* A goal that ended is remembered.
Goals ==
  \A s \in goalDone :
    /\ s \notin Child
    /\ ~disposed => s \in DOMAIN sessions
    /\ s \in DOMAIN sessions => sessions[s].goalTerminal

\* A goal that changed has a phase.
Begun == \A s \in Session : goal[s].revision > 0 => goal[s].phase # "none"

\* Only subagents run as subagents.
Runs == \A s \in Session : run[s].id # None => s \in Child

IInv ==
  /\ TypeOK /\ Owners /\ Entries /\ Alerts /\ Asked
  /\ Turns /\ Goals /\ Begun /\ Runs /\ told \cap Child = {}

\* What is known of the runtimes of a session: one goes on, and the earlier ones
\* were heard idle.  Once the one that goes on announced itself it is the one
\* remembered, and before that it has neither ended a turn nor a goal.
AgentOf(s) == IF s \in DOMAIN sessions THEN sessions[s].agent ELSE None

OneRuntime ==
  \A a, b \in Agent :
    SessionOf[a] = SessionOf[b] /\ Acting(a) /\ Acting(b) => a = b
Olds ==
  \A b \in Agent : Present(b) /\ agents[b].old =>
    agents[b].status = "idle" /\ agents[b].said
Met ==
  \A a \in Agent : Acting(a) /\ agents[a].said =>
    /\ AgentOf(SessionOf[a]) \in {None, a}
    /\ SessionOf[a] \notin Child /\ ~disposed => AgentOf(SessionOf[a]) = a
NothingYet(s) == turn[s].open = 0 /\ turn[s].last = 0 /\ s \notin goalDone
Replaced ==
  \A b \in Agent :
    Present(b) /\ agents[b].old /\ SessionOf[b] \notin Child /\ ~disposed =>
      NothingYet(SessionOf[b]) \/ AgentOf(SessionOf[b]) \notin {None, b}

Runtimes == OneRuntime /\ Olds /\ Met /\ Replaced

-----------------------------------------------------------------------------
(* The operators of the model *)

LEMMA SetIs ==
  ASSUME NEW f, NEW x, NEW v
  PROVE  /\ DOMAIN Set(f, x, v) = DOMAIN f \cup {x}
         /\ Set(f, x, v)[x] = v
         /\ \A y \in DOMAIN f \ {x} : Set(f, x, v)[y] = f[y]
BY DEF Set

LEMMA DropIs ==
  ASSUME NEW f, NEW X
  PROVE  /\ DOMAIN Drop(f, X) = DOMAIN f \ X
         /\ \A y \in DOMAIN f \ X : Drop(f, X)[y] = f[y]
BY DEF Drop

LEMMA KnownIs ==
  ASSUME TypeOK, NEW s \in Session
  PROVE  /\ Known(s) \in SessionState
         /\ s \in DOMAIN sessions => Known(s) = sessions[s]
         /\ s \notin DOMAIN sessions => Known(s) = Fresh
<1>1. Fresh \in SessionState
  BY EventsAssumption DEF Fresh, SessionState
<1>2. Known(s) \in SessionState
  BY <1>1 DEF TypeOK, Known
<1>3. QED
  BY <1>2 DEF Known

LEMMA KnownByIs ==
  ASSUME TypeOK, NEW s \in Session, NEW a \in Agent
  PROVE  /\ KnownBy(s, a) = [Known(s) EXCEPT !.agent = a]
         /\ KnownBy(s, a) \in SessionState
BY KnownIs DEF KnownBy, SessionState

LEMMA ResetIs ==
  ASSUME NEW v \in SessionState
  PROVE  /\ Reset(v) \in SessionState
         /\ Reset(v).event = None /\ Reset(v).queued = None
         /\ Reset(v).agent = v.agent /\ Reset(v).lastTurn = v.lastTurn
         /\ Reset(v).goalRef = v.goalRef
         /\ Reset(v).subagentRun = v.subagentRun
         /\ Reset(v).goalTerminal = v.goalTerminal
BY DEF Reset, SessionState

LEMMA ScheduleIs ==
  ASSUME NEW v \in SessionState
  PROVE  /\ Schedule(v) \in SessionState
         /\ Schedule(v).event = v.event /\ Schedule(v).queued = v.queued
         /\ Schedule(v).agent = v.agent /\ Schedule(v).lastTurn = v.lastTurn
         /\ Schedule(v).goalRef = v.goalRef
         /\ Schedule(v).subagentRun = v.subagentRun
         /\ Schedule(v).goalTerminal = v.goalTerminal
BY DEF Schedule, SessionState

LEMMA FreshIs ==
  /\ Fresh.agent = None /\ Fresh.event = None /\ Fresh.queued = None
  /\ Fresh.goalRef = 0 /\ Fresh.lastTurn = 0
  /\ Fresh.subagentRun = None /\ ~Fresh.goalTerminal
BY DEF Fresh

\* Retracting keeps the alerts whose handles are not among the retracted.
LEMMA RetractIs ==
  ASSUME NEW S, NEW Q, Retract(S, Q)
  PROVE  /\ DOMAIN live' \subseteq DOMAIN live
         /\ \A h \in DOMAIN live' :
              /\ live'[h] = live[h]
              /\ \A s \in S \cap DOMAIN sessions : h # sessions[s].queued
              /\ \A q \in Q \cap DOMAIN requests : h # requests[q].queued
<1> DEFINE G == {sessions[s].queued : s \in S \cap DOMAIN sessions}
                \cup {requests[q].queued : q \in Q \cap DOMAIN requests}
<1>1. live' = Drop(live, G)
  BY DEF Retract
<1>2. /\ \A s \in S \cap DOMAIN sessions : sessions[s].queued \in G
      /\ \A q \in Q \cap DOMAIN requests : requests[q].queued \in G
  OBVIOUS
<1> HIDE DEF G
<1>3. DOMAIN live' = DOMAIN live \ G /\ \A h \in DOMAIN live' : live'[h] = live[h]
  BY <1>1 DEF Drop
<1>4. QED
  BY <1>2, <1>3

\* The alert published under a handle is the only change to the broker.
LEMMA PublishIs ==
  ASSUME NEW t, NEW h \in Handle \cup {None}, Publish(t, h)
  PROVE  \/ live' = live
         \/ /\ h \in Handle \ DOMAIN live
            /\ DOMAIN live' = DOMAIN live \cup {h}
            /\ live'[h] = t
            /\ \A k \in DOMAIN live : live'[k] = live[k]
<1>1. CASE h \in Unused /\ live' = Set(live, h, t)
  <2>1. h \in Handle \ DOMAIN live
    BY <1>1 DEF Unused
  <2>2. /\ DOMAIN live' = DOMAIN live \cup {h} /\ live'[h] = t
        /\ \A k \in DOMAIN live \ {h} : live'[k] = live[k]
    BY <1>1 DEF Set
  <2>3. QED
    BY <2>1, <2>2
<1>2. QED
  BY <1>1 DEF Publish

-----------------------------------------------------------------------------
(* Types *)

\* The parts of TypeOK about what the notifier keeps.
SessionsTyped ==
  /\ DOMAIN sessions \subseteq Session
  /\ \A s \in DOMAIN sessions : sessions[s] \in SessionState
LiveTyped ==
  /\ DOMAIN live \subseteq Handle
  /\ \A h \in DOMAIN live : live[h] \in Alert
RequestsTyped ==
  /\ DOMAIN requests \subseteq Request
  /\ \A q \in DOMAIN requests :
       requests[q] \in [agent: Agent, timer: BOOLEAN, queued: Handle \cup {None}]
WorldTyped ==
  /\ agents \in [Agent -> [status: {"absent", "idle", "running"}, said: BOOLEAN,
                       old: BOOLEAN]]
  /\ turn \in [Session -> [open: 0..MaxTurn, last: 0..MaxTurn]]
  /\ goal \in [Session -> [phase: {"none", "active", "complete", "blocked"},
                           revision: 0..MaxRevision, said: BOOLEAN]]
  /\ run \in [Session -> [id: Run \cup {None}, going: BOOLEAN]]
  /\ human \in [Request -> {"new", "waiting", "over"}]
RestTyped ==
  /\ later \subseteq Session \X Session
  /\ deadAgents \subseteq Agent
  /\ config \in [goalOnly: BOOLEAN, subagent: BOOLEAN]
  /\ disposed \in BOOLEAN
  /\ told \subseteq Session /\ goalDone \subseteq Session

LEMMA TypesAre ==
  /\ TypeOK <=>
       SessionsTyped /\ LiveTyped /\ RequestsTyped /\ WorldTyped /\ RestTyped
  /\ TypeOK' <=>
       SessionsTyped' /\ LiveTyped' /\ RequestsTyped' /\ WorldTyped' /\ RestTyped'
BY DEF TypeOK, SessionsTyped, LiveTyped, RequestsTyped, WorldTyped, RestTyped

\* What a session's entry becomes, and that nothing else changes.
LEMMA RememberIs ==
  ASSUME TypeOK, NEW s \in Session, NEW w \in SessionState, Remember(s, w)
  PROVE  /\ SessionsTyped'
         /\ DOMAIN sessions' = DOMAIN sessions \cup {s}
         /\ sessions'[s] = w
         /\ \A x \in DOMAIN sessions \ {s} : sessions'[x] = sessions[x]
<1>1. /\ DOMAIN sessions' = DOMAIN sessions \cup {s}
      /\ sessions'[s] = w
      /\ \A x \in DOMAIN sessions \ {s} : sessions'[x] = sessions[x]
  BY DEF Remember, Set
<1>2. QED
  BY <1>1 DEF TypeOK, SessionsTyped

LEMMA RetractTyped ==
  ASSUME TypeOK, NEW S, NEW Q, Retract(S, Q)
  PROVE  LiveTyped'
BY RetractIs DEF TypeOK, LiveTyped

LEMMA PublishTyped ==
  ASSUME TypeOK, NEW t \in Alert, NEW h \in Handle \cup {None}, Publish(t, h)
  PROVE  LiveTyped'
<1>1. CASE live' = live
  BY <1>1 DEF TypeOK, LiveTyped
<1>2. CASE /\ h \in Handle \ DOMAIN live
           /\ DOMAIN live' = DOMAIN live \cup {h}
           /\ live'[h] = t
           /\ \A k \in DOMAIN live : live'[k] = live[k]
  BY <1>2 DEF TypeOK, LiveTyped
<1>3. QED
  BY <1>1, <1>2, PublishIs

LEMMA InitTyped == Init => TypeOK
<1> SUFFICES ASSUME Init PROVE TypeOK
  OBVIOUS
<1>1. SessionsTyped /\ LiveTyped /\ RequestsTyped
  BY DEF Init, NoMap, SessionsTyped, LiveTyped, RequestsTyped
<1>2. WorldTyped
  BY EventsAssumption DEF Init, WorldTyped
<1>3. RestTyped
  BY EventsAssumption DEF Init, RestTyped
<1>4. QED
  BY <1>1, <1>2, <1>3, TypesAre

LEMMA InitHolds == Init => IInv
<1> SUFFICES ASSUME Init PROVE IInv
  OBVIOUS
<1>1. TypeOK
  BY InitTyped
<1>2. DOMAIN sessions = {} /\ DOMAIN live = {} /\ DOMAIN requests = {}
  BY DEF Init, NoMap
<1>3. Owners /\ Entries /\ Alerts /\ Asked
  BY <1>2 DEF Owners, Entries, Alerts, Asked
<1>4. Turns /\ Goals /\ Begun /\ Runs /\ told \cap Child = {}
  BY DEF Init, Turns, Goals, Begun, Runs
<1>5. QED
  BY <1>1, <1>3, <1>4 DEF IInv

LEMMA QuietStays ==
  ASSUME UNCHANGED <<agents, deadAgents>>
  PROVE  \A x : QuietRuntime(x) <=> QuietRuntime(x)'
BY DEF QuietRuntime, Acting, Present

-----------------------------------------------------------------------------
(* The world *)

LEMMA AppearKeeps ==
  ASSUME IInv, NEW a \in Agent, NEW status \in {"idle", "running"},
         Appear(a, status)
  PROVE  IInv'
<1> USE DEF IInv
<1> DEFINE s == SessionOf[a]
           A == [status: {"absent", "idle", "running"}, said: BOOLEAN, old: BOOLEAN]
<1>1. /\ s \in Session /\ turn[s].open = 0
      /\ agents'[a] = [status |-> status, said |-> FALSE, old |-> FALSE]
      /\ \A b \in Agent \ {a} :
           agents'[b] = agents[b] \/ agents'[b] = [agents[b] EXCEPT !.old = TRUE]
      /\ agents' = [b \in Agent |-> agents'[b]]
      /\ turn' = [turn EXCEPT ![s].last = 0] /\ goalDone' = goalDone \ {s}
      /\ UNCHANGED <<sessions, later, deadAgents, requests, config, disposed, live,
                     goal, run, human, told>>
  BY EventsAssumption DEF Appear, notifierVars
<1>2. \A b \in Agent : agents[b] \in A
  BY DEF TypeOK
<1>3. \A b \in Agent : agents'[b] \in A
  <2>1. \A b \in Agent : [agents[b] EXCEPT !.old = TRUE] \in A
    BY <1>2
  <2>2. agents'[a] \in A
    BY <1>1
  <2> HIDE DEF A
  <2>3. ASSUME NEW b \in Agent \ {a} PROVE agents'[b] \in A
    <3>1. agents'[b] = agents[b] \/ agents'[b] = [agents[b] EXCEPT !.old = TRUE]
      BY <1>1
    <3>2. QED
      BY <1>2, <2>1, <3>1
  <2>4. QED
    BY <2>2, <2>3
<1>4. \A b \in Agent \ {a} :
        agents'[b].status = agents[b].status /\ agents'[b].said = agents[b].said
        /\ (agents[b].old => agents'[b].old)
  BY <1>1, <1>2
<1>5. /\ turn' \in [Session -> [open: 0..MaxTurn, last: 0..MaxTurn]]
      /\ turn'[s].last = 0
      /\ \A x \in Session : turn'[x].open = turn[x].open
      /\ \A x \in Session \ {s} : turn'[x] = turn[x]
  <2>1. [turn[s] EXCEPT !.last = 0] \in [open: 0..MaxTurn, last: 0..MaxTurn]
    BY <1>1, EventsAssumption DEF TypeOK
  <2>2. QED
    BY <1>1, <2>1 DEF TypeOK
<1>6. TypeOK'
  <2>1. WorldTyped'
    BY <1>1, <1>3, <1>5 DEF TypeOK, WorldTyped
  <2>2. SessionsTyped' /\ LiveTyped' /\ RequestsTyped' /\ RestTyped'
    BY <1>1 DEF TypeOK, SessionsTyped, LiveTyped, RequestsTyped, RestTyped
  <2>3. QED
    BY <2>1, <2>2, TypesAre
<1>7. \A b \in Agent : (Present(b) => Present(b)') /\ (b # a /\ Acting(b)' => Acting(b))
  BY <1>1, <1>4 DEF Present, Acting
<1>8. Owners'
  BY <1>1, <1>7 DEF Owners, TypeOK, SessionState
<1>9. \A x \in DOMAIN sessions : \A kind : Holds(x, kind) => Holds(x, kind)'
  BY <1>1, <1>5 DEF Holds, LastHeard, TypeOK
<1>10. Entries'
  BY <1>1, <1>9 DEF Entries, Entry
<1>11. \A x : QuietRuntime(x) => QuietRuntime(x)'
  BY <1>1, <1>4, <1>7 DEF QuietRuntime
<1>12. Alerts'
  BY <1>1, <1>9, <1>11 DEF Alerts, OfRequest, OfSession
<1>13. Asked' /\ Begun' /\ Runs' /\ (told \cap Child = {})'
  BY <1>1 DEF Asked, Begun, Runs
<1>14. Turns' /\ Goals'
  BY <1>1, <1>5 DEF Turns, Goals
<1>15. QED
  BY <1>6, <1>8, <1>10, <1>12, <1>13, <1>14

LEMMA ChangeStatusKeeps ==
  ASSUME IInv, NEW a \in Agent, ChangeStatus(a)
  PROVE  IInv'
<1> USE DEF IInv
<1>1. TypeOK'
  <2>1. WorldTyped'
    BY DEF ChangeStatus, TypeOK, WorldTyped
  <2>2. SessionsTyped' /\ LiveTyped' /\ RequestsTyped' /\ RestTyped'
    BY DEF ChangeStatus, notifierVars, TypeOK, SessionsTyped, LiveTyped,
           RequestsTyped, RestTyped
  <2>3. QED
    BY <2>1, <2>2, TypesAre
<1>2. Owners'
  BY DEF ChangeStatus, notifierVars, Owners, Present, Acting, TypeOK
<1>3. Entries'
  BY DEF ChangeStatus, notifierVars, Entries, Entry, Holds, LastHeard
<1>4. Alerts'
  BY DEF ChangeStatus, notifierVars, Alerts, OfRequest, OfSession, QuietRuntime,
         Acting, Present, Holds, LastHeard, TypeOK, Alert
<1>5. Asked' /\ Turns' /\ Goals' /\ Begun' /\ Runs' /\ (told \cap Child = {})'
  BY DEF ChangeStatus, notifierVars, Asked, Turns, Goals, Begun, Runs
<1>6. QED
  BY <1>1, <1>2, <1>3, <1>4, <1>5

LEMMA ChangeGoalKeeps ==
  ASSUME IInv, NEW a \in Agent, NEW phase \in {"active", "complete", "blocked"},
         ChangeGoal(a, phase)
  PROVE  IInv'
<1> USE DEF IInv
<1> DEFINE s == SessionOf[a]
<1>0. s \in Session
  BY EventsAssumption
<1>1. TypeOK'
  <2>1. WorldTyped'
    BY <1>0, EventsAssumption DEF ChangeGoal, TypeOK, WorldTyped
  <2>2. SessionsTyped' /\ LiveTyped' /\ RequestsTyped' /\ RestTyped'
    BY DEF ChangeGoal, notifierVars, TypeOK, SessionsTyped, LiveTyped,
           RequestsTyped, RestTyped
  <2>3. QED
    BY <2>1, <2>2, TypesAre
<1>2. Owners'
  BY DEF ChangeGoal, notifierVars, Owners, Present
<1>3. /\ goal'[s].revision = goal[s].revision + 1 /\ ~goal'[s].said
      /\ \A x \in Session \ {s} : goal'[x] = goal[x]
  BY <1>0 DEF ChangeGoal, TypeOK
<1>4. \A x \in DOMAIN sessions : Entry(x) =>
        \A kind : Holds(x, kind) => Holds(x, kind)'
  BY <1>0, <1>3, EventsAssumption
  DEF ChangeGoal, notifierVars, Entry, Holds, LastHeard, TypeOK, SessionState
<1>5. Entries'
  BY <1>0, <1>3, <1>4, EventsAssumption
  DEF ChangeGoal, notifierVars, Entries, Entry, TypeOK, SessionState
<1>6. Alerts'
  <2>1. \A x : QuietRuntime(x) <=> QuietRuntime(x)'
    BY QuietStays DEF ChangeGoal, notifierVars
  <2>2. QED
    BY <1>4, <2>1
    DEF ChangeGoal, notifierVars, Alerts, OfRequest, OfSession, Entries
<1>7. Asked' /\ Turns' /\ Goals' /\ Begun' /\ Runs' /\ (told \cap Child = {})'
  BY DEF ChangeGoal, notifierVars, Asked, Turns, Goals, Begun, Runs
<1>8. QED
  BY <1>1, <1>2, <1>5, <1>6, <1>7

-----------------------------------------------------------------------------
(* Agents *)

LEMMA AgentStatusKeeps ==
  ASSUME IInv, Runtimes, NEW a \in Agent, AgentStatus(a)
  PROVE  IInv'
<1> USE DEF IInv
<1> DEFINE s == SessionOf[a]
           v == KnownBy(s, a)
           w == IF agents[a].status = "running"
                THEN [Reset(v) EXCEPT !.goalTerminal = FALSE] ELSE Schedule(v)
<1>1. s \in Session /\ a # None
  BY EventsAssumption
<1>2. /\ v \in SessionState /\ v = [Known(s) EXCEPT !.agent = a]
      /\ Known(s) \in SessionState
  BY <1>1, KnownIs, KnownByIs
<1>3. /\ v.agent = a /\ v.event = Known(s).event /\ v.queued = Known(s).queued
      /\ v.goalRef = Known(s).goalRef /\ v.lastTurn = Known(s).lastTurn
      /\ v.subagentRun = Known(s).subagentRun
      /\ v.goalTerminal = Known(s).goalTerminal
  BY <1>2 DEF SessionState
<1> HIDE DEF v
<1>4. /\ w \in SessionState /\ w.agent = a
      /\ w.goalRef = v.goalRef /\ w.lastTurn = v.lastTurn
      /\ w.subagentRun = v.subagentRun
      /\ agents[a].status = "running" =>
           w.event = None /\ w.queued = None /\ ~w.goalTerminal
      /\ agents[a].status # "running" =>
           /\ w.event = v.event /\ w.queued = v.queued
           /\ w.goalTerminal = v.goalTerminal
  <2>1. CASE agents[a].status = "running"
    BY <1>2, <1>3, <2>1, ResetIs DEF SessionState
  <2>2. CASE agents[a].status # "running"
    BY <1>2, <1>3, <2>2, ScheduleIs
  <2>3. QED
    BY <2>1, <2>2
<1>5. Remember(s, w)
  BY DEF AgentStatus, v
<1> HIDE DEF w
<1>6. /\ SessionsTyped'
      /\ DOMAIN sessions' = DOMAIN sessions \cup {s}
      /\ sessions'[s] = w
      /\ \A x \in DOMAIN sessions \ {s} : sessions'[x] = sessions[x]
  BY <1>1, <1>4, <1>5, RememberIs
<1>7. \/ /\ s \in DOMAIN sessions /\ Known(s) = sessions[s]
      \/ /\ s \notin DOMAIN sessions
         /\ Known(s).agent = None /\ Known(s).event = None
         /\ Known(s).queued = None /\ Known(s).goalRef = 0
         /\ Known(s).lastTurn = 0 /\ Known(s).subagentRun = None
         /\ ~Known(s).goalTerminal
  BY <1>1, KnownIs, FreshIs
<1>8. /\ LiveTyped'
      /\ DOMAIN live' \subseteq DOMAIN live
      /\ \A h \in DOMAIN live' : live'[h] = live[h]
      /\ agents[a].status = "running" /\ s \in DOMAIN sessions =>
           \A h \in DOMAIN live' : h # sessions[s].queued
  <2>1. CASE agents[a].status = "running"
    BY <2>1, RetractIs, RetractTyped DEF AgentStatus
  <2>2. CASE agents[a].status # "running"
    BY <2>2 DEF AgentStatus, TypeOK, LiveTyped
  <2>3. QED
    BY <2>1, <2>2
<1>9. TypeOK'
  <2>1. WorldTyped'
    <3>1. /\ agents' = [agents EXCEPT ![a].said = TRUE]
          /\ UNCHANGED <<turn, goal, run, human>>
      BY DEF AgentStatus
    <3> DEFINE A == [status: {"absent", "idle", "running"}, said: BOOLEAN,
                     old: BOOLEAN]
    <3>2. agents' \in [Agent -> A]
      <4>1. agents \in [Agent -> A]
        BY DEF TypeOK
      <4>2. [agents[a] EXCEPT !.said = TRUE] \in A
        BY <4>1
      <4>3. QED
        BY <3>1, <4>1, <4>2
    <3>3. QED
      BY <3>1, <3>2 DEF TypeOK, WorldTyped
  <2>2. goalDone' \subseteq goalDone
    BY DEF AgentStatus
  <2>3. RequestsTyped' /\ RestTyped'
    BY <2>2 DEF AgentStatus, TypeOK, RequestsTyped, RestTyped
  <2>4. QED
    BY <1>6, <1>8, <2>1, <2>3, TypesAre
<1>10. /\ Acting(a) /\ agents'[a].status = agents[a].status /\ agents'[a].said
       /\ agents'[a].old = agents[a].old
       /\ \A b \in Agent \ {a} : agents'[b] = agents[b]
       /\ agents[a].status # "running" => agents[a].status = "idle"
  <2>1. agents \in [Agent -> [status: {"absent", "idle", "running"},
                             said: BOOLEAN, old: BOOLEAN]]
    BY DEF TypeOK
  <2>2. agents' = [agents EXCEPT ![a].said = TRUE]
    BY DEF AgentStatus
  <2>3. /\ agents'[a].status = agents[a].status /\ agents'[a].said
        /\ agents'[a].old = agents[a].old
        /\ \A b \in Agent \ {a} : agents'[b] = agents[b]
    BY <2>1, <2>2
  <2>4. Acting(a)
    BY DEF AgentStatus
  <2>5. agents[a].status # "running" => agents[a].status = "idle"
    BY <2>1, <2>4 DEF Acting, Present
  <2>6. QED
    BY <2>3, <2>4, <2>5
<1>11. /\ \A b \in Agent : (Acting(b)' <=> Acting(b)) /\ (Present(b) => Present(b)')
       /\ \A b \in Agent : SessionOf[b] = s /\ Acting(b) => b = a
  BY <1>10 DEF AgentStatus, Acting, Present, Runtimes, OneRuntime
<1>12. Owners'
  BY <1>1, <1>4, <1>6, <1>10, <1>11 DEF Owners, Acting, TypeOK, SessionState
<1>13. Entries'
  BY <1>1, <1>3, <1>4, <1>6, <1>7
  DEF AgentStatus, Entries, Entry, Holds, LastHeard, TypeOK
<1>14. Alerts'
  <2> SUFFICES ASSUME NEW h \in DOMAIN live', live[h].kind # "request"
               PROVE  OfSession(h)'
    BY <1>8 DEF AgentStatus, Alerts, OfRequest
  <2>1. OfSession(h) /\ live'[h] = live[h]
    BY <1>8 DEF Alerts
  <2>2. CASE live[h].about = s
    <3>1. agents[a].status = "idle"
      BY <1>8, <1>10, <2>1, <2>2 DEF OfSession
    <3>2. QuietRuntime(s)'
      BY <1>10, <1>11, <3>1 DEF QuietRuntime
    <3>3. QED
      BY <1>1, <1>3, <1>4, <1>6, <1>7, <2>1, <2>2, <3>1, <3>2
      DEF AgentStatus, OfSession, Holds, LastHeard
  <2>3. CASE live[h].about # s
    <3> DEFINE x == live[h].about
    <3>1. \A b \in Agent : SessionOf[b] = x => agents'[b] = agents[b]
      BY <1>10, <2>3
    <3>2. QuietRuntime(x) => (QuietRuntime(x))'
      BY <1>11, <2>1, <3>1 DEF QuietRuntime
    <3>3. QED
      BY <1>6, <2>1, <2>3, <3>2 DEF AgentStatus, OfSession, Holds, LastHeard
  <2>4. QED
    BY <2>2, <2>3
<1>15. Turns'
  <2> SUFFICES ASSUME NEW x \in Session \ Child
               PROVE  /\ ~disposed /\ turn[x].open = 0 /\ turn[x].last # 0 =>
                           /\ x \in DOMAIN sessions'
                           /\ sessions'[x].lastTurn >= turn[x].last
                      /\ x \in told =>
                           /\ turn[x].open = 0
                           /\ x \in DOMAIN sessions' =>
                                sessions'[x].event \notin Ordinary
    BY DEF AgentStatus, Turns
  <2>1. None \notin Ordinary
    BY EventsAssumption DEF Kind
  <2>2. QED
    BY <1>3, <1>4, <1>6, <1>7, <2>1 DEF Turns
<1>16. Goals'
  BY <1>3, <1>4, <1>6, <1>7 DEF AgentStatus, Goals
<1>17. Asked' /\ Begun' /\ Runs' /\ (told \cap Child = {})'
  BY DEF AgentStatus, Asked, Begun, Runs
<1>18. QED
  BY <1>9, <1>12, <1>13, <1>14, <1>15, <1>16, <1>17

LEMMA AgentDisposedKeeps ==
  ASSUME IInv, Runtimes, NEW a \in Agent, AgentDisposed(a)
  PROVE  IInv'
<1> USE DEF IInv
<1> DEFINE s == SessionOf[a]
           S == ForgottenWith(a)
           Q == RequestsOf(a)
<1>1. s \in Session /\ a # None /\ None \notin Ordinary
  BY EventsAssumption DEF Kind
<1>2. /\ sessions' = Drop(sessions, S) /\ requests' = Drop(requests, Q)
      /\ Retract(S, Q)
      /\ deadAgents' = deadAgents \cup {a} /\ later' = DropPairs(later, S)
      /\ IF agents[a].old THEN UNCHANGED <<turn, goalDone>>
         ELSE /\ turn' = [turn EXCEPT ![s] = [open |-> 0, last |-> 0]]
              /\ goalDone' = goalDone \ {s}
      /\ UNCHANGED <<config, disposed, agents, goal, run, human, told>>
      /\ ~disposed /\ Present(a)
  BY DEF AgentDisposed
<1>3. /\ S \subseteq {s} \cap DOMAIN sessions
      /\ s \in DOMAIN sessions \ S =>
           sessions[s].agent # None /\ sessions[s].agent # a
      /\ \A q \in DOMAIN requests : q \in Q <=> requests[q].agent = a
  BY DEF RequestsOf, ForgottenWith
<1> HIDE DEF S, Q
<1>4. /\ DOMAIN sessions' = DOMAIN sessions \ S
      /\ \A x \in DOMAIN sessions \ S : sessions'[x] = sessions[x]
  BY <1>2 DEF Drop
<1>5. /\ DOMAIN requests' = DOMAIN requests \ Q
      /\ \A q \in DOMAIN requests \ Q : requests'[q] = requests[q]
  BY <1>2 DEF Drop
<1>6. /\ DOMAIN live' \subseteq DOMAIN live
      /\ \A h \in DOMAIN live' :
           /\ live'[h] = live[h]
           /\ \A x \in S \cap DOMAIN sessions : h # sessions[x].queued
           /\ \A q \in Q \cap DOMAIN requests : h # requests[q].queued
  BY <1>2, RetractIs
<1>7. /\ turn' \in [Session -> [open: 0..MaxTurn, last: 0..MaxTurn]]
      /\ goalDone' \subseteq goalDone
      /\ turn'[s] = turn[s] \/ (turn'[s].open = 0 /\ turn'[s].last = 0)
      /\ \A x \in Session \ {s} : turn'[x] = turn[x]
  <2>1. turn[s] \in [open: 0..MaxTurn, last: 0..MaxTurn]
    BY <1>1 DEF TypeOK
  <2>2. [open |-> 0, last |-> 0] \in [open: 0..MaxTurn, last: 0..MaxTurn]
    BY EventsAssumption
  <2>3. CASE agents[a].old
    BY <1>2, <2>3 DEF TypeOK
  <2>4. CASE ~agents[a].old
    <3>1. /\ turn' = [turn EXCEPT ![s] = [open |-> 0, last |-> 0]]
          /\ goalDone' = goalDone \ {s}
      BY <1>2, <2>4
    <3>2. QED
      BY <1>1, <2>2, <3>1 DEF TypeOK
  <2>5. QED
    BY <2>3, <2>4
<1>0. s \in S /\ s \notin Child => s \notin goalDone' /\ turn'[s].last = 0
  <2>1. CASE agents[a].old
    <3>1. s \in S => AgentOf(s) \in {None, a}
      BY DEF S, ForgottenWith, AgentOf
    <3>2. QED
      BY <1>2, <2>1, <3>1 DEF Runtimes, Replaced, NothingYet
  <2>2. CASE ~agents[a].old
    BY <1>1, <1>2, <2>2 DEF TypeOK
  <2>3. QED
    BY <2>1, <2>2
<1>8. TypeOK'
  <2>1. WorldTyped'
    <3>1. QED
      BY <1>2, <1>7 DEF TypeOK, WorldTyped
  <2>2. RestTyped'
    BY <1>2, <1>7 DEF TypeOK, RestTyped, DropPairs
  <2>3. SessionsTyped' /\ RequestsTyped'
    BY <1>4, <1>5 DEF TypeOK, SessionsTyped, RequestsTyped
  <2>4. LiveTyped'
    BY <1>2, RetractTyped
  <2>5. QED
    BY <2>1, <2>2, <2>3, <2>4, TypesAre
<1>9. \A x : QuietRuntime(x) => QuietRuntime(x)'
  BY <1>2 DEF QuietRuntime, Acting, Present
<1>10. Owners'
  <2> SUFFICES ASSUME NEW x \in DOMAIN sessions', sessions'[x].agent # None
               PROVE  /\ SessionOf[sessions[x].agent] = x
                      /\ Present(sessions[x].agent) /\ sessions[x].agent # a
    BY <1>2, <1>4 DEF Owners, Present
  <2>1. x \in DOMAIN sessions \ S /\ sessions[x].agent # None
    BY <1>4
  <2>2. QED
    BY <1>3, <2>1 DEF Owners
<1>11. Entries'
  BY <1>1, <1>2, <1>4, <1>7 DEF Entries, Entry, Holds, LastHeard, TypeOK
<1>12. Alerts'
  <2> SUFFICES ASSUME NEW h \in DOMAIN live'
               PROVE  IF live[h].kind = "request" THEN OfRequest(h)' ELSE OfSession(h)'
    BY <1>6 DEF Alerts
  <2>1. CASE live[h].kind = "request"
    BY <1>5, <1>6, <2>1 DEF Alerts, OfRequest
  <2>2. CASE live[h].kind # "request"
    <3>1. OfSession(h) /\ live'[h] = live[h]
      BY <1>6, <2>2 DEF Alerts
    <3>2. live[h].about \in DOMAIN sessions \ S
      BY <1>3, <1>6, <3>1 DEF OfSession
    <3>3. QED
      BY <1>1, <1>2, <1>4, <1>7, <1>9, <2>2, <3>1, <3>2
      DEF OfSession, Holds, LastHeard, TypeOK
  <2>3. QED
    BY <2>1, <2>2
<1>13. Asked'
  BY <1>2, <1>3, <1>5 DEF Asked
<1>14. Turns'
  <2> SUFFICES ASSUME NEW x \in Session \ Child
               PROVE  /\ ~disposed /\ turn'[x].open = 0 /\ turn'[x].last # 0 =>
                           /\ x \in DOMAIN sessions'
                           /\ sessions'[x].lastTurn >= turn'[x].last
                      /\ x \in told =>
                           /\ turn'[x].open = 0
                           /\ x \in DOMAIN sessions' =>
                                sessions'[x].event \notin Ordinary
    BY <1>2 DEF Turns
  <2>1. QED
    BY <1>0, <1>3, <1>4, <1>7 DEF Turns
<1>15. Goals'
  BY <1>0, <1>2, <1>3, <1>4, <1>7 DEF Goals
<1>16. Begun' /\ Runs' /\ (told \cap Child = {})'
  BY <1>2 DEF Begun, Runs
<1>17. QED
  BY <1>8, <1>10, <1>11, <1>12, <1>13, <1>14, <1>15, <1>16

-----------------------------------------------------------------------------
(* Turns *)

LEMMA TurnStartKeeps ==
  ASSUME IInv, NEW a \in Agent, NEW n \in 1..MaxTurn, TurnStart(a, n)
  PROVE  IInv'
<1> USE DEF IInv
<1> DEFINE s == SessionOf[a]
           w == [Reset(Known(s)) EXCEPT !.lastTurn = 0, !.goalTerminal = FALSE]
<1>1. s \in Session /\ None \notin Ordinary /\ n # 0 /\ n \in 0..MaxTurn
  BY EventsAssumption DEF Kind
<1>2. /\ ~disposed
      /\ turn' = [turn EXCEPT ![s].open = n]
      /\ told' = told \ {s} /\ goalDone' = goalDone \ {s}
      /\ UNCHANGED <<later, deadAgents, requests, config, disposed,
                     agents, goal, run, human>>
  BY DEF TurnStart
<1>3. /\ turn'[s].open = n
      /\ \A x \in Session \ {s} : turn'[x] = turn[x]
  BY <1>1, <1>2 DEF TypeOK
<1>4. WorldTyped' /\ RequestsTyped' /\ RestTyped'
  <2>1. [turn[s] EXCEPT !.open = n] \in [open: 0..MaxTurn, last: 0..MaxTurn]
    BY <1>1 DEF TypeOK
  <2>2. turn' \in [Session -> [open: 0..MaxTurn, last: 0..MaxTurn]]
    BY <1>1, <1>2, <2>1 DEF TypeOK
  <2>3. QED
    BY <1>2, <2>2 DEF TypeOK, WorldTyped, RequestsTyped, RestTyped
<1>5. Asked' /\ Begun' /\ Runs' /\ (told \cap Child = {})'
  BY <1>2 DEF Asked, Begun, Runs
<1>6. CASE s \in Child
  <2>1. UNCHANGED <<sessions, live>>
    BY <1>6 DEF TurnStart
  <2>2. TypeOK'
    BY <1>4, <2>1, TypesAre DEF TypeOK, SessionsTyped, LiveTyped
  <2>3. Owners'
    BY <1>2, <2>1 DEF Owners, Present
  <2>4. Entries' /\ Alerts'
    BY <1>2, <1>3, <1>6, <2>1
    DEF Entries, Entry, Alerts, OfRequest, OfSession, QuietRuntime, Acting, Present, Holds, LastHeard, TypeOK
  <2>5. Turns' /\ Goals'
    BY <1>2, <1>3, <1>6, <2>1 DEF Turns, Goals
  <2>6. QED
    BY <1>5, <2>2, <2>3, <2>4, <2>5
<1>7. CASE s \notin Child
  <2>1. /\ Known(s) \in SessionState
        /\ s \in DOMAIN sessions => Known(s) = sessions[s]
        /\ s \notin DOMAIN sessions =>
             Known(s).agent = None /\ Known(s).subagentRun = None
             /\ Known(s).goalRef = 0
    BY <1>1, KnownIs, FreshIs
  <2>2. /\ w \in SessionState
        /\ w.event = None /\ w.queued = None /\ w.lastTurn = 0
        /\ ~w.goalTerminal /\ w.agent = Known(s).agent
        /\ w.goalRef = Known(s).goalRef
        /\ w.subagentRun = Known(s).subagentRun
    <3> DEFINE r == Reset(Known(s))
    <3>1. /\ r \in SessionState /\ r.event = None /\ r.queued = None
          /\ r.agent = Known(s).agent /\ r.goalRef = Known(s).goalRef
          /\ r.subagentRun = Known(s).subagentRun
      BY <2>1, ResetIs
    <3>2. w = [r EXCEPT !.lastTurn = 0, !.goalTerminal = FALSE]
      OBVIOUS
    <3> HIDE DEF r, w
    <3>3. 0 \in 0..MaxTurn
      BY EventsAssumption
    <3>4. QED
      BY <3>1, <3>2, <3>3 DEF SessionState
  <2>3. Remember(s, w) /\ Retract({s}, {})
    BY <1>7 DEF TurnStart
  <2> HIDE DEF w
  <2>4. /\ SessionsTyped'
        /\ DOMAIN sessions' = DOMAIN sessions \cup {s}
        /\ sessions'[s] = w
        /\ \A x \in DOMAIN sessions \ {s} : sessions'[x] = sessions[x]
    BY <1>1, <2>2, <2>3, RememberIs
  <2>5. /\ DOMAIN live' \subseteq DOMAIN live
        /\ \A h \in DOMAIN live' :
             /\ live'[h] = live[h]
             /\ s \in DOMAIN sessions => h # sessions[s].queued
    BY <2>3, RetractIs
  <2>6. TypeOK'
    BY <1>4, <2>3, <2>4, RetractTyped, TypesAre
  <2>7. Owners'
    BY <1>2, <2>1, <2>2, <2>4 DEF Owners, Present
  <2>8. Entries'
    BY <1>1, <1>2, <1>3, <1>7, <2>1, <2>2, <2>4
    DEF Entries, Entry, Holds, LastHeard, TypeOK
  <2>9. Alerts'
    <3> SUFFICES ASSUME NEW h \in DOMAIN live', live[h].kind # "request"
                 PROVE  OfSession(h)'
      BY <1>2, <2>5 DEF Alerts, OfRequest
    <3>1. OfSession(h) /\ live'[h] = live[h] /\ live[h].about # s
      BY <2>5 DEF Alerts, OfSession
    <3>2. QED
      BY <1>2, <1>3, <2>4, <3>1 DEF OfSession, QuietRuntime, Acting, Present, Holds, LastHeard, TypeOK
  <2>10. Turns'
    BY <1>1, <1>2, <1>3, <2>2, <2>4 DEF Turns
  <2>11. Goals'
    BY <1>2, <2>4 DEF Goals
  <2>12. QED
    BY <1>5, <2>6, <2>7, <2>8, <2>9, <2>10, <2>11
<1>8. QED
  BY <1>6, <1>7

\* What the end of a turn that was not told yet does to its session: the turn is
\* remembered, and what it has to say replaces the last outcome and its alert
\* unless the goal ended.
TurnHeard(s, n, kind) ==
  /\ s \notin Child
  /\ s \in DOMAIN sessions => ~(sessions[s].lastTurn >= n)
  /\ SessionsTyped' /\ LiveTyped'
  /\ DOMAIN sessions' = DOMAIN sessions \cup {s}
  /\ \A x \in DOMAIN sessions \ {s} : sessions'[x] = sessions[x]
  /\ DOMAIN live' \subseteq DOMAIN live
  /\ \A h \in DOMAIN live' : live'[h] = live[h]
  /\ sessions'[s].lastTurn = n
  /\ sessions'[s].agent = Known(s).agent
  /\ sessions'[s].goalRef = Known(s).goalRef
  /\ sessions'[s].subagentRun = Known(s).subagentRun
  /\ sessions'[s].goalTerminal = Known(s).goalTerminal
  /\ Known(s).goalTerminal => /\ sessions'[s].event = Known(s).event
                              /\ sessions'[s].queued = Known(s).queued
  /\ ~Known(s).goalTerminal =>
       /\ sessions'[s].event = kind /\ sessions'[s].queued = None
       /\ s \in DOMAIN sessions => \A h \in DOMAIN live' : h # sessions[s].queued
TurnRepeated(s, n) ==
  /\ UNCHANGED <<sessions, live>>
  /\ s \in Child \/ (s \in DOMAIN sessions /\ sessions[s].lastTurn >= n)

LEMMA HearTurnEndIs ==
  ASSUME TypeOK, NEW s \in Session, NEW n \in 1..MaxTurn,
         NEW kind \in Ordinary \cup {None}, HearTurnEnd(s, n, kind)
  PROVE  TurnRepeated(s, n) \/ TurnHeard(s, n, kind)
<1> DEFINE v == Known(s)
           w == TurnEnded(v, n, kind)
<1>1. /\ v \in SessionState
      /\ s \in DOMAIN sessions => v = sessions[s]
      /\ s \notin DOMAIN sessions => v.lastTurn = 0
  BY KnownIs, FreshIs
<1> HIDE DEF v
<1>2. CASE s \in Child \/ RepeatedTurn(v, n)
  <2>1. UNCHANGED <<sessions, live>>
    BY <1>2 DEF HearTurnEnd, v
  <2>2. s \in Child \/ (s \in DOMAIN sessions /\ sessions[s].lastTurn >= n)
    <3>1. s \notin Child => v.lastTurn >= n
      BY <1>2 DEF RepeatedTurn
    <3>2. n > 0 /\ ~(0 >= n)
      BY EventsAssumption
    <3>3. CASE s \in DOMAIN sessions
      BY <1>1, <3>1, <3>3
    <3>4. CASE s \notin DOMAIN sessions
      BY <1>1, <3>1, <3>2, <3>4
    <3>5. QED
      BY <3>3, <3>4
  <2>3. QED
    BY <2>1, <2>2 DEF TurnRepeated
<1>3. CASE s \notin Child /\ ~RepeatedTurn(v, n)
  <2>1. /\ Remember(s, w)
        /\ Retract(IF v.goalTerminal THEN {} ELSE {s}, {})
    BY <1>3 DEF HearTurnEnd, v
  <2>2. /\ w \in SessionState /\ w.lastTurn = n /\ w.agent = v.agent
        /\ w.goalRef = v.goalRef /\ w.subagentRun = v.subagentRun
        /\ w.goalTerminal = v.goalTerminal
        /\ v.goalTerminal => w.event = v.event /\ w.queued = v.queued
        /\ ~v.goalTerminal => w.event = kind /\ w.queued = None
    <3>1. CASE v.goalTerminal
      <4>1. w = [v EXCEPT !.lastTurn = n]
        BY <3>1 DEF TurnEnded
      <4> HIDE DEF w
      <4>2. n \in 0..MaxTurn
        OBVIOUS
      <4>3. QED
        BY <1>1, <3>1, <4>1, <4>2 DEF SessionState
    <3>2. CASE ~v.goalTerminal
      <4> DEFINE u == [Reset(v) EXCEPT !.lastTurn = n, !.event = kind]
                 r == Reset(v)
      <4>1. w = Schedule(u) \/ w = u
        BY <3>2 DEF TurnEnded
      <4>2. u = [r EXCEPT !.lastTurn = n, !.event = kind]
        OBVIOUS
      <4>3. /\ r \in SessionState /\ r.queued = None
            /\ r.agent = v.agent /\ r.goalRef = v.goalRef
            /\ r.subagentRun = v.subagentRun
            /\ r.goalTerminal = v.goalTerminal
        BY <1>1, ResetIs
      <4> HIDE DEF w, u, r
      <4>4. n \in 0..MaxTurn /\ kind \in Kind \cup {None}
        BY DEF Kind
      <4>5. /\ u \in SessionState /\ u.lastTurn = n /\ u.event = kind
            /\ u.queued = None /\ u.agent = v.agent /\ u.goalRef = v.goalRef
            /\ u.subagentRun = v.subagentRun
            /\ u.goalTerminal = v.goalTerminal
        BY <4>2, <4>3, <4>4 DEF SessionState
      <4>6. QED
        BY <3>2, <4>1, <4>5, ScheduleIs
    <3>3. QED
      BY <3>1, <3>2
  <2> HIDE DEF w
  <2>3. /\ SessionsTyped'
        /\ DOMAIN sessions' = DOMAIN sessions \cup {s}
        /\ sessions'[s] = w
        /\ \A x \in DOMAIN sessions \ {s} : sessions'[x] = sessions[x]
    BY <2>1, <2>2, RememberIs
  <2>4. LiveTyped'
    BY <2>1, RetractTyped
  <2>5. /\ DOMAIN live' \subseteq DOMAIN live
        /\ \A h \in DOMAIN live' : live'[h] = live[h]
        /\ ~v.goalTerminal /\ s \in DOMAIN sessions =>
             \A h \in DOMAIN live' : h # sessions[s].queued
    BY <2>1, RetractIs
  <2>6. s \in DOMAIN sessions => ~(sessions[s].lastTurn >= n)
    BY <1>1, <1>3 DEF RepeatedTurn
  <2>7. QED
    BY <1>3, <2>2, <2>3, <2>4, <2>5, <2>6 DEF TurnHeard, v
<1>4. QED
  BY <1>2, <1>3

\* The end of a turn, announced for the first time or again.
LEMMA EndOfTurnKeeps ==
  ASSUME IInv, NEW s \in Session, NEW n \in 1..MaxTurn,
         NEW kind \in Ordinary \cup {None}, HearTurnEnd(s, n, kind),
         turn[s].open = n \/ (turn[s].open = 0 /\ turn[s].last = n), ~disposed,
         turn' \in [Session -> [open: 0..MaxTurn, last: 0..MaxTurn]],
         turn'[s].open = 0, turn'[s].last = n,
         \A x \in Session \ {s} : turn'[x] = turn[x],
         UNCHANGED <<later, deadAgents, requests, config, disposed,
                     agents, goal, run, human, told, goalDone>>
  PROVE  IInv'
<1> USE DEF IInv
<1>1. None \notin Ordinary /\ None \notin GoalKind
  BY EventsAssumption DEF Kind
<1>2. s \in told /\ s \notin Child => s \in DOMAIN sessions /\ sessions[s].lastTurn >= n
  BY DEF Turns
<1>3. WorldTyped' /\ RequestsTyped' /\ RestTyped'
  BY DEF TypeOK, WorldTyped, RequestsTyped, RestTyped
<1>4. Asked' /\ Begun' /\ Runs' /\ (told \cap Child = {})'
  BY DEF Asked, Begun, Runs
<1>5. CASE TurnRepeated(s, n)
  <2>1. TypeOK'
    BY <1>3, <1>5, TypesAre DEF TurnRepeated, TypeOK, SessionsTyped, LiveTyped
  <2>2. Owners' /\ Goals'
    BY <1>5 DEF TurnRepeated, Owners, Present, Goals
  <2>3. \A x \in DOMAIN sessions : \A k : Holds(x, k) => Holds(x, k)'
    <3>1. \A x \in DOMAIN sessions : x # s => turn'[x] = turn[x]
      BY DEF TypeOK
    <3>2. UNCHANGED <<sessions, goal, run>>
      BY <1>5 DEF TurnRepeated
    <3>3. QED
      BY <3>1, <3>2 DEF Holds, LastHeard
  <2>4. Entries' /\ Alerts'
    BY <1>5, <2>3, QuietStays
    DEF TurnRepeated, Entries, Entry, Alerts, OfRequest, OfSession
  <2>5. Turns'
    BY <1>5 DEF TurnRepeated, Turns
  <2>6. QED
    BY <1>4, <2>1, <2>2, <2>4, <2>5
<1>6. CASE TurnHeard(s, n, kind)
  <2> DEFINE v == Known(s)
             w == sessions'[s]
  <2>1. /\ s \notin Child /\ s \notin told
        /\ SessionsTyped' /\ LiveTyped'
        /\ DOMAIN sessions' = DOMAIN sessions \cup {s}
        /\ \A x \in DOMAIN sessions \ {s} : sessions'[x] = sessions[x]
        /\ DOMAIN live' \subseteq DOMAIN live
        /\ \A h \in DOMAIN live' : live'[h] = live[h]
        /\ w.lastTurn = n /\ w.agent = v.agent /\ w.goalRef = v.goalRef
        /\ w.subagentRun = v.subagentRun /\ w.goalTerminal = v.goalTerminal
        /\ v.goalTerminal => w.event = v.event /\ w.queued = v.queued
        /\ ~v.goalTerminal =>
             /\ w.event = kind /\ w.queued = None
             /\ s \in DOMAIN sessions => \A h \in DOMAIN live' : h # sessions[s].queued
    BY <1>2, <1>6 DEF TurnHeard
  <2>2. /\ s \in DOMAIN sessions => v = sessions[s]
        /\ s \notin DOMAIN sessions =>
             v.agent = None /\ v.subagentRun = None /\ v.goalRef = 0 /\ ~v.goalTerminal
    BY FreshIs DEF Known
  <2> HIDE DEF v, w
  <2>3. TypeOK'
    BY <1>3, <2>1, TypesAre
  <2>4. Owners'
    BY <2>1, <2>2 DEF Owners, Present, w
  <2>5. Entries'
    <3>1. Entry(s)'
      <4>0. goal[s].revision \in 0..MaxRevision /\ MaxRevision \in Nat
        BY EventsAssumption DEF TypeOK
      <4>1. CASE ~v.goalTerminal
        BY <1>1, <2>1, <2>2, <4>0, <4>1
        DEF Entries, Entry, Holds, LastHeard, w, Ordinary, GoalKind
      <4>2. CASE v.goalTerminal
        BY <2>1, <2>2, <4>2 DEF Entries, Entry, Holds, LastHeard, w
      <4>3. QED
        BY <4>1, <4>2
    <3>2. ASSUME NEW x \in DOMAIN sessions' \ {s} PROVE Entry(x)'
      BY <2>1 DEF Entries, Entry, Holds, LastHeard, TypeOK
    <3>3. QED
      BY <3>1, <3>2 DEF Entries
  <2>6. Alerts'
    <3> SUFFICES ASSUME NEW h \in DOMAIN live', live[h].kind # "request"
                 PROVE  OfSession(h)'
      BY <2>1 DEF Alerts, OfRequest
    <3>1. OfSession(h) /\ live'[h] = live[h]
      BY <2>1 DEF Alerts
    <3>2. CASE live[h].about = s
      BY <2>1, <2>2, <3>1, <3>2 DEF OfSession, QuietRuntime, Acting, Present, Holds, LastHeard, w
    <3>3. CASE live[h].about # s
      BY <2>1, <3>1, <3>3 DEF OfSession, QuietRuntime, Acting, Present, Holds, LastHeard, TypeOK
    <3>4. QED
      BY <3>2, <3>3
  <2>7. Turns'
    BY <2>1, <2>2 DEF Turns, w
  <2>8. Goals'
    BY <2>1, <2>2 DEF Goals, w
  <2>9. QED
    BY <1>4, <2>3, <2>4, <2>5, <2>6, <2>7, <2>8
<1>7. QED
  BY <1>5, <1>6, HearTurnEndIs

LEMMA TurnEndKeeps ==
  ASSUME IInv, NEW a \in Agent, NEW kind \in Ordinary \cup {None}, TurnEnd(a, kind)
  PROVE  IInv'
<1> USE DEF IInv
<1> DEFINE s == SessionOf[a]
           n == turn[s].open
<1>1. s \in Session /\ turn \in [Session -> [open: 0..MaxTurn, last: 0..MaxTurn]]
  BY EventsAssumption DEF TypeOK
<1>2. n \in 0..MaxTurn /\ n # 0 /\ 0 \in 0..MaxTurn /\ MaxTurn \in Nat
  BY <1>1, EventsAssumption DEF TurnEnd
<1>3. turn' = [turn EXCEPT ![s] = [open |-> 0, last |-> n]]
  BY DEF TurnEnd
<1>4. HearTurnEnd(s, n, kind)
  BY DEF TurnEnd
<1>5. /\ turn' \in [Session -> [open: 0..MaxTurn, last: 0..MaxTurn]]
      /\ turn'[s].open = 0 /\ turn'[s].last = n
      /\ \A x \in Session \ {s} : turn'[x] = turn[x]
  BY <1>1, <1>2, <1>3
<1>6. n \in 1..MaxTurn
  BY <1>2
<1>7. ~disposed /\ UNCHANGED <<later, deadAgents, requests, config, disposed,
                               agents, goal, run, human, told, goalDone>>
  BY DEF TurnEnd
<1>8. turn[s].open = n
  OBVIOUS
<1> HIDE DEF n, s
<1>9. QED
  BY <1>1, <1>4, <1>5, <1>6, <1>7, <1>8, EndOfTurnKeeps

LEMMA RepeatTurnEndKeeps ==
  ASSUME IInv, NEW a \in Agent, NEW kind \in Ordinary \cup {None},
         RepeatTurnEnd(a, kind)
  PROVE  IInv'
<1> USE DEF IInv
<1> DEFINE s == SessionOf[a]
           n == turn[s].last
<1>1. s \in Session /\ turn \in [Session -> [open: 0..MaxTurn, last: 0..MaxTurn]]
  BY EventsAssumption DEF TypeOK
<1>2. n \in 1..MaxTurn
  BY <1>1, EventsAssumption DEF RepeatTurnEnd
<1>3. HearTurnEnd(s, n, kind)
  BY DEF RepeatTurnEnd
<1>4. /\ turn' \in [Session -> [open: 0..MaxTurn, last: 0..MaxTurn]]
      /\ turn'[s].open = 0 /\ turn'[s].last = n /\ turn[s].open = 0
      /\ \A x \in Session \ {s} : turn'[x] = turn[x]
  BY <1>1 DEF RepeatTurnEnd, worldVars
<1>5. ~disposed /\ UNCHANGED <<later, deadAgents, requests, config, disposed,
                               agents, goal, run, human, told, goalDone>>
  BY DEF RepeatTurnEnd, worldVars
<1>6. turn[s].last = n
  OBVIOUS
<1> HIDE DEF n, s
<1>7. QED
  BY <1>1, <1>2, <1>3, <1>4, <1>5, <1>6, EndOfTurnKeeps

-----------------------------------------------------------------------------
(* Goals *)

\* What every announcement of a goal does to the world.
LEMMA GoalChangedIs ==
  ASSUME IInv, NEW a \in Agent, GoalChanged(a)
  PROVE  LET s == SessionOf[a]
         IN  /\ s \in Session /\ a # None /\ Present(a) /\ ~disposed
             /\ goal'[s].phase = goal[s].phase
             /\ goal'[s].revision = goal[s].revision
             /\ goal'[s].said
             /\ \A x \in Session \ {s} : goal'[x] = goal[x]
             /\ goal[s].revision \in 0..MaxRevision
             /\ UNCHANGED <<later, deadAgents, requests, config, disposed,
                            agents, turn, run, human, told>>
             /\ WorldTyped' /\ RequestsTyped'
             /\ Asked' /\ Begun' /\ Runs' /\ (told \cap Child = {})'
<1> USE DEF IInv
<1> DEFINE s == SessionOf[a]
           G == [phase: {"none", "active", "complete", "blocked"},
                 revision: 0..MaxRevision, said: BOOLEAN]
<1>1. /\ s \in Session /\ a # None
      /\ goal \in [Session -> G] /\ goal[s] \in G
  BY EventsAssumption DEF TypeOK
<1>2. /\ Present(a) /\ ~disposed
      /\ goal' = [goal EXCEPT ![s].said = TRUE]
      /\ UNCHANGED <<later, deadAgents, requests, config, disposed,
                     agents, turn, run, human, told>>
  BY DEF GoalChanged, Acting
<1>3. [goal[s] EXCEPT !.said = TRUE] \in G
  BY <1>1
<1>4. goal' \in [Session -> G]
  BY <1>1, <1>2, <1>3
<1>5. /\ goal'[s].phase = goal[s].phase
      /\ goal'[s].revision = goal[s].revision
      /\ goal'[s].said
      /\ \A x \in Session \ {s} : goal'[x] = goal[x]
  BY <1>1, <1>2
<1>6. WorldTyped' /\ RequestsTyped'
  BY <1>2, <1>4 DEF TypeOK, WorldTyped, RequestsTyped
<1>7. Asked' /\ Begun' /\ Runs' /\ (told \cap Child = {})'
  BY <1>2 DEF Asked, Begun, Runs
<1>8. QED
  BY <1>1, <1>2, <1>5, <1>6, <1>7

\* An announcement leaves the session with the entry w.
LEMMA GoalHeardKeeps ==
  ASSUME IInv, NEW a \in Agent, GoalChanged(a),
         NEW s, s = SessionOf[a], s \notin Child,
         SessionsTyped', DOMAIN sessions' = DOMAIN sessions \cup {s},
         \A x \in DOMAIN sessions \ {s} : sessions'[x] = sessions[x],
         sessions'[s].agent = a, sessions'[s].goalRef = goal[s].revision,
         sessions'[s].lastTurn = Known(s).lastTurn,
         sessions'[s].subagentRun = Known(s).subagentRun,
         sessions'[s].event # None =>
           sessions'[s].queued = None /\ Holds(s, sessions[s].event)',
         sessions'[s].event \in Ordinary => sessions'[s].event = Known(s).event,
         LiveTyped', DOMAIN live' \subseteq DOMAIN live,
         \A h \in DOMAIN live' :
           /\ live'[h] = live[h]
           /\ OfSession(h) /\ live[h].about = s =>
                sessions'[s].queued = h /\ Holds(s, live[h].kind)',
         goalDone' \ {s} = goalDone \ {s},
         goalDone' \subseteq goalDone \cup {s},
         s \in goalDone' => sessions'[s].goalTerminal
  PROVE  IInv'
<1> USE DEF IInv
<1>1. /\ s \in Session /\ a # None /\ Present(a) /\ ~disposed
      /\ goal'[s].revision = goal[s].revision
      /\ \A x \in Session \ {s} : goal'[x] = goal[x]
      /\ goal[s].revision \in 0..MaxRevision
      /\ UNCHANGED <<later, deadAgents, requests, config, disposed,
                     agents, turn, run, human, told>>
      /\ WorldTyped' /\ RequestsTyped'
      /\ Asked' /\ Begun' /\ Runs' /\ (told \cap Child = {})'
  BY GoalChangedIs
<1>2. \A x \in DOMAIN sessions' : x \in DOMAIN sessions \/ x = s
  OBVIOUS
<1>3. \/ /\ s \in DOMAIN sessions /\ Known(s) = sessions[s]
      \/ /\ s \notin DOMAIN sessions
         /\ Known(s).agent = None /\ Known(s).event = None
         /\ Known(s).lastTurn = 0 /\ Known(s).subagentRun = None
  BY <1>1, KnownIs, FreshIs
<1>4. None \notin Ordinary
  BY EventsAssumption DEF Kind
<1>5. TypeOK'
  <2>1. RestTyped'
    BY <1>1 DEF TypeOK, RestTyped
  <2>2. QED
    BY <1>1, <1>2, <2>1, TypesAre
<1>6. Owners'
  BY <1>1, <1>2, EventsAssumption DEF Owners, Present
<1>7. Entries'
  <2>1. Entry(s)'
    BY <1>1, <1>2, <1>3 DEF Entries, Entry
  <2>2. ASSUME NEW x \in DOMAIN sessions' \ {s} PROVE Entry(x)'
    BY <1>1, <1>2 DEF Entries, Entry, Holds, LastHeard, TypeOK
  <2>3. QED
    BY <2>1, <2>2 DEF Entries
<1>8. Alerts'
  <2> SUFFICES ASSUME NEW h \in DOMAIN live', live[h].kind # "request"
               PROVE  OfSession(h)'
    BY <1>1 DEF Alerts, OfRequest
  <2>1. OfSession(h) /\ live'[h] = live[h]
    BY DEF Alerts
  <2>2. CASE live[h].about = s
    <3>1. QuietRuntime(s) => QuietRuntime(s)'
      BY <1>1 DEF QuietRuntime, Acting, Present
    <3>2. QED
      BY <1>1, <1>2, <2>1, <2>2, <3>1 DEF OfSession
  <2>3. CASE live[h].about # s
    BY <1>1, <1>2, <2>1, <2>3 DEF OfSession, QuietRuntime, Acting, Present, Holds, LastHeard, TypeOK
  <2>4. QED
    BY <2>2, <2>3
<1>9. Turns'
  <2> SUFFICES ASSUME NEW x \in Session \ Child
               PROVE  /\ ~disposed /\ turn[x].open = 0 /\ turn[x].last # 0 =>
                           /\ x \in DOMAIN sessions'
                           /\ sessions'[x].lastTurn >= turn[x].last
                      /\ x \in told =>
                           /\ turn[x].open = 0
                           /\ x \in DOMAIN sessions' =>
                                sessions'[x].event \notin Ordinary
    BY <1>1 DEF Turns
  <2>1. QED
    BY <1>2, <1>3, <1>4 DEF Turns
<1>10. Goals'
  BY <1>1, <1>2 DEF Goals
<1>11. QED
  BY <1>1, <1>5, <1>6, <1>7, <1>8, <1>9, <1>10

LEMMA GoalChangedKeeps ==
  ASSUME IInv, NEW a \in Agent, GoalChanged(a)
  PROVE  IInv'
<1> USE DEF IInv
<1> DEFINE s == SessionOf[a]
           v == [KnownBy(s, a) EXCEPT !.goalRef = goal[s].revision]
           resumed == [IF v.goalTerminal THEN Reset(v) ELSE v
                         EXCEPT !.goalTerminal = FALSE]
           ended == [Reset(v) EXCEPT !.goalTerminal = TRUE,
                       !.event = IF goal[s].phase = "complete" THEN "goal-complete"
                                                               ELSE "goal-blocked"]
<1>1. /\ s \in Session /\ a # None
      /\ goal'[s].phase = goal[s].phase
      /\ goal'[s].revision = goal[s].revision
      /\ goal'[s].said
      /\ \A x \in Session \ {s} : goal'[x] = goal[x]
      /\ goal[s].revision \in 0..MaxRevision
      /\ UNCHANGED <<later, deadAgents, requests, config, disposed,
                     agents, turn, run, human, told>>
      /\ WorldTyped' /\ RequestsTyped'
      /\ Asked' /\ Begun' /\ Runs' /\ (told \cap Child = {})'
  BY GoalChangedIs
<1>2. \/ s \in DOMAIN sessions /\ Known(s) = sessions[s]
      \/ /\ s \notin DOMAIN sessions
         /\ Known(s).event = None /\ ~Known(s).goalTerminal
  BY <1>1, KnownIs, FreshIs
<1>3. /\ v \in SessionState /\ v.agent = a /\ v.goalRef = goal[s].revision
      /\ v.event = Known(s).event /\ v.queued = Known(s).queued
      /\ v.lastTurn = Known(s).lastTurn
      /\ v.subagentRun = Known(s).subagentRun
      /\ v.goalTerminal = Known(s).goalTerminal
  <2>1. /\ Known(s) \in SessionState
        /\ KnownBy(s, a) = [Known(s) EXCEPT !.agent = a]
    BY <1>1, KnownIs, KnownByIs
  <2>2. QED
    BY <1>1, <2>1 DEF SessionState
<1> HIDE DEF v
<1>4. CASE s \in Child /\ UNCHANGED <<sessions, live, goalDone>>
  <2>1. TypeOK'
    BY <1>1, <1>4, TypesAre
    DEF TypeOK, SessionsTyped, LiveTyped, RestTyped
  <2>2. Owners' /\ Turns' /\ Goals'
    BY <1>1, <1>4 DEF Owners, Present, Turns, Goals
  <2>3. ASSUME NEW x \in DOMAIN sessions, NEW kind, Holds(x, kind)
        PROVE  Holds(x, kind)'
    <3>1. CASE x = s
      BY <1>1, <1>4, <2>3, <3>1 DEF Entries, Entry, Holds, GoalKind
    <3>2. CASE x # s
      BY <1>1, <1>4, <2>3, <3>2 DEF Holds, LastHeard, TypeOK
    <3>3. QED
      BY <3>1, <3>2
  <2>4. Entries'
    BY <1>1, <1>4, <2>3 DEF Entries, Entry, TypeOK
  <2>5. Alerts'
    BY <1>1, <1>4, <2>3, QuietStays DEF Entries, Alerts, OfRequest, OfSession
  <2>6. QED
    BY <1>1, <2>1, <2>2, <2>4, <2>5
<1>5. CASE /\ s \notin Child /\ Known(s).goalRef = goal[s].revision
           /\ Remember(s, v) /\ UNCHANGED <<live, goalDone>>
  <2>1. LiveTyped'
    BY <1>5 DEF TypeOK, LiveTyped
  <2>2. /\ SessionsTyped'
        /\ DOMAIN sessions' = DOMAIN sessions \cup {s}
        /\ \A x \in DOMAIN sessions \ {s} : sessions'[x] = sessions[x]
        /\ sessions'[s] = v
    BY <1>1, <1>3, <1>5, RememberIs
  <2>3. \A kind : s \in DOMAIN sessions /\ Holds(s, kind) => Holds(s, kind)'
    BY <1>1, <1>2, <1>3, <1>5, <2>2 DEF Holds, LastHeard
  <2>4. sessions'[s].event # None =>
          sessions'[s].queued = None /\ Holds(s, sessions[s].event)'
    BY <1>2, <1>3, <2>2, <2>3 DEF Entries, Entry
  <2>5. \A h \in DOMAIN live : OfSession(h) /\ live[h].about = s =>
          sessions'[s].queued = h /\ Holds(s, live[h].kind)'
    BY <1>2, <1>3, <1>5, <2>2, <2>3 DEF OfSession
  <2>6. s \in goalDone => v.goalTerminal
    BY <1>2, <1>3 DEF GoalChanged, Goals
  <2>7. QED
    BY <1>3, <1>5, <2>1, <2>2, <2>4, <2>5, <2>6, GoalHeardKeeps
<1>6. CASE /\ s \notin Child /\ Known(s).goalRef # goal[s].revision
           /\ Remember(s, resumed)
           /\ Retract(IF v.goalTerminal THEN {s} ELSE {}, {})
           /\ goalDone' = goalDone \ {s}
  <2>1. LiveTyped'
    BY <1>6, RetractTyped
  <2>2. /\ resumed \in SessionState /\ resumed.agent = a
        /\ resumed.goalRef = goal[s].revision
        /\ resumed.lastTurn = v.lastTurn /\ resumed.subagentRun = v.subagentRun
        /\ ~resumed.goalTerminal
        /\ v.goalTerminal => resumed.event = None /\ resumed.queued = None
        /\ ~v.goalTerminal => resumed.event = v.event /\ resumed.queued = v.queued
    <3> DEFINE r == IF v.goalTerminal THEN Reset(v) ELSE v
    <3>1. resumed = [r EXCEPT !.goalTerminal = FALSE]
      OBVIOUS
    <3>2. /\ r \in SessionState /\ r.agent = a
          /\ r.goalRef = goal[s].revision
          /\ r.lastTurn = v.lastTurn /\ r.subagentRun = v.subagentRun
          /\ v.goalTerminal => r.event = None /\ r.queued = None
          /\ ~v.goalTerminal => r.event = v.event /\ r.queued = v.queued
      BY <1>3, ResetIs
    <3> HIDE DEF r, resumed
    <3>3. QED
      BY <3>1, <3>2 DEF SessionState
  <2> HIDE DEF resumed
  <2>3. /\ SessionsTyped'
        /\ DOMAIN sessions' = DOMAIN sessions \cup {s}
        /\ \A x \in DOMAIN sessions \ {s} : sessions'[x] = sessions[x]
        /\ sessions'[s] = resumed
    BY <1>1, <1>6, <2>2, RememberIs
  <2>4. /\ DOMAIN live' \subseteq DOMAIN live
        /\ \A h \in DOMAIN live' :
             /\ live'[h] = live[h]
             /\ v.goalTerminal /\ s \in DOMAIN sessions => h # sessions[s].queued
    BY <1>6, RetractIs
  <2>5. \A kind : s \in DOMAIN sessions /\ ~v.goalTerminal /\ Holds(s, kind) =>
                   Holds(s, kind)'
    BY <1>1, <1>2, <1>3, <2>2, <2>3 DEF Holds, LastHeard, GoalKind
  <2>6. sessions'[s].event # None =>
          sessions'[s].queued = None /\ Holds(s, sessions[s].event)'
    BY <1>2, <1>3, <2>2, <2>3, <2>5 DEF Entries, Entry
  <2>7. \A h \in DOMAIN live' : OfSession(h) /\ live[h].about = s =>
          sessions'[s].queued = h /\ Holds(s, live[h].kind)'
    BY <1>2, <1>3, <2>2, <2>3, <2>4, <2>5 DEF OfSession
  <2>8. resumed.event \in Ordinary => resumed.event = Known(s).event
    BY <1>3, <2>2, EventsAssumption DEF Kind
  <2>9. QED
    BY <1>3, <1>6, <2>1, <2>2, <2>3, <2>4, <2>6, <2>7, <2>8, GoalHeardKeeps
<1>7. CASE /\ s \notin Child /\ Known(s).goalRef # goal[s].revision
           /\ goal[s].phase # "active"
           /\ Remember(s, Schedule(ended)) /\ Retract({s}, {})
           /\ goalDone' = goalDone \cup {s}
  <2> DEFINE w == Schedule(ended)
             kind == IF goal[s].phase = "complete" THEN "goal-complete"
                                                   ELSE "goal-blocked"
  <2>1. LiveTyped'
    BY <1>7, RetractTyped
  <2>2. /\ w \in SessionState /\ w.agent = a /\ w.goalRef = goal[s].revision
        /\ w.lastTurn = v.lastTurn /\ w.subagentRun = v.subagentRun
        /\ w.goalTerminal /\ w.event = kind /\ w.queued = None
    <3> DEFINE r == Reset(v)
    <3>1. ended = [r EXCEPT !.goalTerminal = TRUE, !.event = kind]
      OBVIOUS
    <3>2. kind \in Kind
      BY DEF Kind, GoalKind
    <3>3. /\ r \in SessionState /\ r.agent = a
          /\ r.goalRef = goal[s].revision /\ r.queued = None
          /\ r.lastTurn = v.lastTurn /\ r.subagentRun = v.subagentRun
      BY <1>3, ResetIs
    <3> HIDE DEF r, ended, kind
    <3>4. /\ ended \in SessionState /\ ended.agent = a
          /\ ended.goalRef = goal[s].revision
          /\ ended.lastTurn = v.lastTurn /\ ended.subagentRun = v.subagentRun
          /\ ended.goalTerminal /\ ended.event = kind /\ ended.queued = None
      BY <3>1, <3>2, <3>3 DEF SessionState
    <3>5. QED
      BY <3>4, ScheduleIs
  <2>3. Remember(s, w)
    BY <1>7
  <2> HIDE DEF w
  <2>4. /\ SessionsTyped'
        /\ DOMAIN sessions' = DOMAIN sessions \cup {s}
        /\ \A x \in DOMAIN sessions \ {s} : sessions'[x] = sessions[x]
        /\ sessions'[s] = w
    BY <1>1, <2>2, <2>3, RememberIs
  <2>5. /\ DOMAIN live' \subseteq DOMAIN live
        /\ \A h \in DOMAIN live' :
             /\ live'[h] = live[h]
             /\ s \in DOMAIN sessions => h # sessions[s].queued
    BY <1>7, RetractIs
  <2>6. kind \notin Ordinary
    BY DEF Ordinary
  <2>7. goal[s].phase = "complete" \/ goal[s].phase = "blocked"
    BY <1>1, <1>7 DEF GoalChanged, Begun, TypeOK
  <2>8. Holds(s, sessions[s].event)'
    BY <1>1, <1>7, <2>2, <2>4, <2>6, <2>7 DEF Holds, LastHeard
  <2>9. sessions'[s].event # None =>
          sessions'[s].queued = None /\ Holds(s, sessions[s].event)'
    BY <2>2, <2>4, <2>8
  <2>10. \A h \in DOMAIN live' : ~(OfSession(h) /\ live[h].about = s)
    BY <2>5 DEF OfSession
  <2> HIDE DEF kind
  <2>11. QED
    BY <1>3, <1>7, <2>1, <2>2, <2>4, <2>5, <2>6, <2>9, <2>10, GoalHeardKeeps
<1>8. QED
  BY <1>4, <1>5, <1>6, <1>7 DEF GoalChanged, v

-----------------------------------------------------------------------------
(* Subagents *)

\* The outcome and the alert of a subagent are withdrawn.
LEMMA ResetKeeps ==
  ASSUME IInv, NEW s \in Session, s \in Child,
         IF s \in DOMAIN sessions THEN Remember(s, Reset(sessions[s]))
                                  ELSE UNCHANGED sessions,
         Retract({s}, {}),
         run' \in [Session -> [id: Run \cup {None}, going: BOOLEAN]],
         \A x \in Session \ {s} : run'[x] = run[x],
         UNCHANGED <<later, deadAgents, requests, config, disposed,
                     agents, turn, goal, human, told, goalDone>>
  PROVE  IInv'
<1> USE DEF IInv
<1>1. s \in DOMAIN sessions => sessions[s] \in SessionState
  BY DEF TypeOK
<1>2. /\ SessionsTyped' /\ DOMAIN sessions' = DOMAIN sessions
      /\ \A x \in DOMAIN sessions \ {s} : sessions'[x] = sessions[x]
      /\ s \in DOMAIN sessions =>
           /\ sessions'[s].event = None
           /\ sessions'[s].agent = sessions[s].agent
           /\ sessions'[s].goalRef = sessions[s].goalRef
           /\ sessions'[s].subagentRun = sessions[s].subagentRun
           /\ sessions'[s].goalTerminal = sessions[s].goalTerminal
  <2>1. CASE s \in DOMAIN sessions
    <3> DEFINE w == Reset(sessions[s])
    <3>1. /\ w \in SessionState /\ w.event = None
          /\ w.agent = sessions[s].agent /\ w.goalRef = sessions[s].goalRef
          /\ w.subagentRun = sessions[s].subagentRun
          /\ w.goalTerminal = sessions[s].goalTerminal
      BY <1>1, <2>1, ResetIs
    <3>2. Remember(s, w)
      BY <2>1
    <3> HIDE DEF w
    <3>3. QED
      BY <2>1, <3>1, <3>2, RememberIs
  <2>2. CASE s \notin DOMAIN sessions
    BY <2>2 DEF TypeOK, SessionsTyped
  <2>3. QED
    BY <2>1, <2>2
<1>3. /\ DOMAIN live' \subseteq DOMAIN live
      /\ \A h \in DOMAIN live' :
           /\ live'[h] = live[h]
           /\ s \in DOMAIN sessions => h # sessions[s].queued
  BY RetractIs
<1>4. TypeOK'
  <2>1. LiveTyped'
    BY RetractTyped
  <2>2. WorldTyped' /\ RequestsTyped' /\ RestTyped'
    BY DEF TypeOK, WorldTyped, RequestsTyped, RestTyped
  <2>3. QED
    BY <1>2, <2>1, <2>2, TypesAre
<1>5. Owners'
  BY <1>2 DEF Owners, Present
<1>6. Entries'
  <2>1. s \in DOMAIN sessions => Entry(s)'
    BY <1>2 DEF Entries, Entry
  <2>2. ASSUME NEW x \in DOMAIN sessions \ {s} PROVE Entry(x)'
    BY <1>2 DEF Entries, Entry, Holds, LastHeard, TypeOK
  <2>3. QED
    BY <1>2, <2>1, <2>2 DEF Entries
<1>7. Alerts'
  <2> SUFFICES ASSUME NEW h \in DOMAIN live', live[h].kind # "request"
               PROVE  OfSession(h)'
    BY <1>3 DEF Alerts, OfRequest
  <2>1. OfSession(h) /\ live'[h] = live[h] /\ live[h].about # s
    BY <1>3 DEF Alerts, OfSession
  <2>2. QED
    BY <1>2, <2>1 DEF OfSession, QuietRuntime, Acting, Present, Holds, LastHeard, TypeOK
<1>8. Turns'
  BY <1>2 DEF Turns
<1>9. Goals'
  BY <1>2 DEF Goals
<1>10. Runs'
  BY DEF Runs
<1>11. Asked' /\ Begun' /\ (told \cap Child = {})'
  BY DEF Asked, Begun
<1>12. QED
  BY <1>4, <1>5, <1>6, <1>7, <1>8, <1>9, <1>10, <1>11

LEMMA SubagentStartKeeps ==
  ASSUME IInv, NEW s \in Session, NEW r \in Run, SubagentStart(s, r)
  PROVE  IInv'
<1> USE DEF IInv
<1>1. /\ s \in Child /\ Retract({s}, {})
      /\ IF s \in DOMAIN sessions THEN Remember(s, Reset(sessions[s]))
                                  ELSE UNCHANGED sessions
      /\ run' = [run EXCEPT ![s] = [id |-> r, going |-> TRUE]]
      /\ UNCHANGED <<later, deadAgents, requests, config, disposed,
                     agents, turn, goal, human, told, goalDone>>
  BY DEF SubagentStart
<1>2. /\ run' \in [Session -> [id: Run \cup {None}, going: BOOLEAN]]
      /\ \A x \in Session \ {s} : run'[x] = run[x]
  BY <1>1 DEF TypeOK
<1>3. QED
  BY <1>1, <1>2, ResetKeeps

LEMMA SubagentEndKeeps ==
  ASSUME IInv, NEW s \in Session, NEW kind \in {"subagent", "failed", None},
         SubagentEnd(s, kind)
  PROVE  IInv'
<1> USE DEF IInv
<1>1. /\ s \in Child /\ run[s].id # None /\ run[s].id \in Run \cup {None}
      /\ run' = [run EXCEPT ![s].going = FALSE]
      /\ UNCHANGED <<deadAgents, requests, config, disposed,
                     agents, turn, goal, human, told, goalDone>>
  BY DEF SubagentEnd, Runs, TypeOK
<1>2. /\ run' \in [Session -> [id: Run \cup {None}, going: BOOLEAN]]
      /\ ~run'[s].going
      /\ \A x \in Session : run'[x].id = run[x].id
      /\ \A x \in Session \ {s} : run'[x] = run[x]
  <2>1. run \in [Session -> [id: Run \cup {None}, going: BOOLEAN]]
    BY DEF TypeOK
  <2>2. [run[s] EXCEPT !.going = FALSE] \in [id: Run \cup {None}, going: BOOLEAN]
    BY <2>1
  <2>3. QED
    BY <1>1, <2>1, <2>2
<1>3. CASE /\ IF s \in DOMAIN sessions THEN Remember(s, Reset(sessions[s]))
                                       ELSE UNCHANGED sessions
           /\ Retract({s}, {}) /\ UNCHANGED later
  BY <1>1, <1>2, <1>3, ResetKeeps
<1>4. WorldTyped' /\ RequestsTyped'
  BY <1>1, <1>2 DEF TypeOK, WorldTyped, RequestsTyped
<1>5. Asked' /\ Begun' /\ Runs' /\ (told \cap Child = {})'
  BY <1>1, <1>2 DEF Asked, Begun, Runs
<1>6. CASE UNCHANGED <<sessions, later, live>>
  <2>1. TypeOK'
    BY <1>1, <1>4, <1>6, TypesAre DEF TypeOK, SessionsTyped, LiveTyped, RestTyped
  <2>2. Owners' /\ Turns' /\ Goals'
    BY <1>1, <1>6 DEF Owners, Present, Turns, Goals
  <2>3. ASSUME NEW x \in DOMAIN sessions, NEW k, Holds(x, k) PROVE Holds(x, k)'
    <3>1. run'[x].going => run[x].going
      BY <1>2 DEF TypeOK
    <3>2. QED
      BY <1>1, <1>6, <2>3, <3>1 DEF Holds, LastHeard
  <2>4. Entries' /\ Alerts'
    BY <1>1, <1>6, <2>3, QuietStays
    DEF Entries, Entry, Alerts, OfRequest, OfSession
  <2>5. QED
    BY <1>5, <2>1, <2>2, <2>4
<1>7. ASSUME NEW X, NEW w \in SessionState, NEW r,
             sessions' = Drop(Set(sessions, s, w), X),
             \A x \in X : Set(sessions, s, w)[x].subagentRun # None,
             X \subseteq DOMAIN sessions \cup {s},
             w.event = kind, w.queued = None, w.agent = None,
             w.goalRef = Known(s).goalRef, w.subagentRun # None,
             w.goalTerminal = Known(s).goalTerminal,
             later' = DropPairs(r, X), r \subseteq Session \X Session,
             Retract({s} \cup X, {})
      PROVE  IInv'
  <2>1. \/ s \in DOMAIN sessions /\ Known(s) = sessions[s]
        \/ /\ s \notin DOMAIN sessions
           /\ Known(s).goalRef = 0 /\ ~Known(s).goalTerminal
    BY KnownIs, FreshIs
  <2>2. /\ DOMAIN sessions' = (DOMAIN sessions \cup {s}) \ X
        /\ s \notin X => sessions'[s] = w
        /\ \A x \in DOMAIN sessions \ (X \cup {s}) : sessions'[x] = sessions[x]
        /\ \A x \in X \ {s} : sessions[x].subagentRun # None
    BY <1>7 DEF Drop, Set
  <2>3. \A x \in X : x \in Child
    BY <1>1, <1>7, <2>2 DEF Entries, Entry
  <2>4. /\ DOMAIN live' \subseteq DOMAIN live
        /\ \A h \in DOMAIN live' :
             /\ live'[h] = live[h]
             /\ \A x \in ({s} \cup X) \cap DOMAIN sessions : h # sessions[x].queued
    BY <1>7, RetractIs
  <2>5. TypeOK'
    <3>1. SessionsTyped'
      BY <1>7, <2>2 DEF TypeOK, SessionsTyped
    <3>2. LiveTyped'
      BY <1>7, RetractTyped
    <3>3. RestTyped'
      BY <1>1, <1>7 DEF TypeOK, RestTyped, DropPairs
    <3>4. QED
      BY <1>4, <3>1, <3>2, <3>3, TypesAre
  <2>6. Owners'
    BY <1>1, <1>7, <2>2 DEF Owners, Present
  <2>7. Entries'
    <3>1. ASSUME s \notin X PROVE Entry(s)'
      <4>1. goal[s].revision \in 0..MaxRevision /\ ~w.goalTerminal
            /\ w.goalRef <= goal[s].revision
        BY <1>1, <1>7, <2>1, EventsAssumption DEF Entries, Entry, TypeOK
      <4>2. sessions'[s] = w /\ kind \notin GoalKind
        BY <2>2, <3>1, EventsAssumption DEF Kind, GoalKind
      <4>3. QED
        BY <1>1, <1>2, <1>7, <4>1, <4>2 DEF Entry, Holds, LastHeard, GoalKind
    <3>2. ASSUME NEW x \in DOMAIN sessions \ (X \cup {s}) PROVE Entry(x)'
      BY <1>1, <1>2, <2>2 DEF Entries, Entry, Holds, LastHeard, TypeOK
    <3>3. QED
      BY <2>2, <3>1, <3>2 DEF Entries
  <2>8. Alerts'
    <3> SUFFICES ASSUME NEW h \in DOMAIN live', live[h].kind # "request"
                 PROVE  OfSession(h)'
      BY <1>1, <2>4 DEF Alerts, OfRequest
    <3>1. /\ OfSession(h) /\ live'[h] = live[h]
          /\ live[h].about \in DOMAIN sessions \ (X \cup {s})
      BY <2>4 DEF Alerts, OfSession
    <3>2. QED
      BY <1>1, <1>2, <2>2, <3>1 DEF OfSession, QuietRuntime, Acting, Present, Holds, LastHeard, TypeOK
  <2>9. Turns' /\ Goals'
    BY <1>1, <2>2, <2>3 DEF Turns, Goals
  <2>10. QED
    BY <1>5, <2>5, <2>6, <2>7, <2>8, <2>9
<1>8. CASE ~(UNCHANGED <<sessions, later, live>>) /\ config.subagent
  <2> DEFINE v == [Reset(Known(s)) EXCEPT !.subagentRun = run[s].id, !.agent = None,
                                          !.event = kind]
             w == Schedule(v)
             m == Set(sessions, s, w)
             ended == {x \in DOMAIN sessions : sessions[x].subagentRun # None}
             r == DropPairs(later, {s}) \cup (ended \ {s}) \X {s}
             X == Evicted(m, r)
  <2>1. /\ sessions' = Drop(m, X) /\ later' = DropPairs(r, X)
        /\ Retract({s} \cup X, {})
    BY <1>8 DEF SubagentEnd
  <2>2. /\ w \in SessionState /\ w.event = kind /\ w.queued = None
        /\ w.agent = None /\ w.subagentRun = run[s].id
        /\ w.goalRef = Known(s).goalRef
        /\ w.goalTerminal = Known(s).goalTerminal
    <3> DEFINE q == Reset(Known(s))
    <3>1. /\ q \in SessionState /\ q.queued = None
          /\ q.goalRef = Known(s).goalRef /\ q.goalTerminal = Known(s).goalTerminal
      BY KnownIs, ResetIs
    <3>2. v = [q EXCEPT !.subagentRun = run[s].id, !.agent = None, !.event = kind]
      OBVIOUS
    <3>3. kind \in Kind \cup {None}
      BY DEF Kind, Ordinary
    <3> HIDE DEF q, v
    <3>4. /\ v \in SessionState /\ v.event = kind /\ v.queued = None
          /\ v.agent = None /\ v.subagentRun = run[s].id
          /\ v.goalRef = q.goalRef /\ v.goalTerminal = q.goalTerminal
      BY <1>1, <3>1, <3>2, <3>3 DEF SessionState
    <3>5. QED
      BY <3>1, <3>4, ScheduleIs
  <2> HIDE DEF w
  <2>3. r \subseteq Session \X Session
    BY DEF DropPairs, TypeOK
  <2> HIDE DEF r, ended
  <2>4. /\ X \subseteq DOMAIN m /\ DOMAIN m = DOMAIN sessions \cup {s}
        /\ \A x \in X : m[x].subagentRun # None
    BY DEF Evicted, Detached, Set
  <2> HIDE DEF X
  <2>5. QED
    BY <1>1, <1>7, <2>1, <2>2, <2>3, <2>4
<1>9. QED
  BY <1>3, <1>6, <1>8 DEF SubagentEnd

-----------------------------------------------------------------------------
(* Timers *)

\* The timer of a session gives it the entry w, of which only the timer, the
\* outcome and the alert may be new.
LEMMA TimerTypes ==
  ASSUME IInv, NEW s \in DOMAIN sessions, NEW w \in SessionState, Remember(s, w),
         w.agent = sessions[s].agent, w.lastTurn = sessions[s].lastTurn,
         w.goalRef = sessions[s].goalRef,
         w.subagentRun = sessions[s].subagentRun,
         w.goalTerminal = sessions[s].goalTerminal,
         w.event = sessions[s].event \/ w.event = None,
         w.event # None => w.queued = sessions[s].queued,
         UNCHANGED <<later, deadAgents, requests, config, disposed,
                     agents, turn, goal, run, human, goalDone>>
  PROVE  /\ SessionsTyped' /\ RequestsTyped' /\ WorldTyped'
         /\ Owners' /\ Entries' /\ Asked' /\ Goals' /\ Begun' /\ Runs'
         /\ sessions'[s] = w /\ DOMAIN sessions' = DOMAIN sessions
         /\ \A x \in DOMAIN sessions \ {s} : sessions'[x] = sessions[x]
         /\ \A x \in DOMAIN sessions : \A kind : Holds(x, kind) <=> Holds(x, kind)'
<1> USE DEF IInv
<1>1. s \in Session
  BY DEF TypeOK
<1>2. /\ SessionsTyped' /\ sessions'[s] = w /\ DOMAIN sessions' = DOMAIN sessions
      /\ \A x \in DOMAIN sessions \ {s} : sessions'[x] = sessions[x]
  BY <1>1, RememberIs
<1>3. \A x \in DOMAIN sessions : \A kind : Holds(x, kind) <=> Holds(x, kind)'
  BY <1>2 DEF Holds, LastHeard
<1>4. RequestsTyped' /\ WorldTyped'
  BY DEF TypeOK, RequestsTyped, WorldTyped
<1>5. Asked' /\ Begun' /\ Runs'
  BY DEF Asked, Begun, Runs
<1>6. Owners' /\ Goals'
  BY <1>2 DEF Owners, Present, Goals
<1>7. Entries'
  BY <1>2, <1>3 DEF Entries, Entry
<1>8. QED
  BY <1>2, <1>3, <1>4, <1>5, <1>6, <1>7

LEMMA IdleTimerKeeps ==
  ASSUME IInv, Runtimes, NEW s \in Session, IdleTimer(s)
  PROVE  IInv'
<1> USE DEF IInv
<1> DEFINE v == sessions[s]
           fired == [v EXCEPT !.timer = FALSE]
           alert == [about |-> s, kind |-> v.event, agent |-> v.agent]
<1>1. /\ s \in DOMAIN sessions /\ v \in SessionState
      /\ UNCHANGED <<later, deadAgents, requests, config, disposed,
                     agents, turn, goal, run, human, goalDone>>
  BY DEF IdleTimer, TypeOK, worldVars
<1>2. None \notin Ordinary
  BY EventsAssumption DEF Kind
<1>3. /\ fired \in SessionState /\ fired.event = v.event /\ fired.queued = v.queued
      /\ fired.agent = v.agent /\ fired.lastTurn = v.lastTurn
      /\ fired.goalRef = v.goalRef /\ fired.subagentRun = v.subagentRun
      /\ fired.goalTerminal = v.goalTerminal
  BY <1>1 DEF SessionState
<1> HIDE DEF fired
<1>4. ASSUME NEW w \in SessionState, Remember(s, w),
             w.agent = v.agent, w.lastTurn = v.lastTurn, w.goalRef = v.goalRef,
             w.subagentRun = v.subagentRun, w.goalTerminal = v.goalTerminal,
             w.event = v.event \/ w.event = None, w.queued = v.queued,
             UNCHANGED <<live, told>>
      PROVE  IInv'
  <2>1. /\ SessionsTyped' /\ RequestsTyped' /\ WorldTyped'
        /\ Owners' /\ Entries' /\ Asked' /\ Goals' /\ Begun' /\ Runs'
        /\ sessions'[s] = w /\ DOMAIN sessions' = DOMAIN sessions
        /\ \A x \in DOMAIN sessions \ {s} : sessions'[x] = sessions[x]
        /\ \A x \in DOMAIN sessions : \A kind : Holds(x, kind) <=> Holds(x, kind)'
    BY <1>1, <1>4, TimerTypes
  <2>2. TypeOK'
    BY <1>1, <1>4, <2>1, TypesAre DEF TypeOK, LiveTyped, RestTyped
  <2>3. Alerts'
    <3> SUFFICES ASSUME NEW h \in DOMAIN live, live[h].kind # "request"
                 PROVE  OfSession(h)'
      BY <1>1, <1>4 DEF Alerts, OfRequest
    <3>1. OfSession(h)
      BY DEF Alerts
    <3>2. QED
      BY <1>1, <1>4, <2>1, <3>1, QuietStays DEF OfSession
  <2>4. Turns'
    BY <1>1, <1>2, <1>4, <2>1 DEF Turns
  <2>5. (told \cap Child = {})'
    BY <1>4
  <2>6. QED
    BY <2>1, <2>2, <2>3, <2>4, <2>5
<1>5. CASE Remember(s, fired) /\ UNCHANGED <<live, told>>
  BY <1>3, <1>4, <1>5
<1>6. CASE Remember(s, [fired EXCEPT !.event = None]) /\ UNCHANGED <<live, told>>
  <2> DEFINE w == [fired EXCEPT !.event = None]
  <2>1. /\ w \in SessionState /\ w.event = None /\ w.queued = v.queued
        /\ w.agent = v.agent /\ w.lastTurn = v.lastTurn
        /\ w.goalRef = v.goalRef /\ w.subagentRun = v.subagentRun
        /\ w.goalTerminal = v.goalTerminal
    BY <1>3 DEF SessionState
  <2>2. Remember(s, w)
    BY <1>6
  <2> HIDE DEF w
  <2>3. QED
    BY <1>4, <1>6, <2>1, <2>2
<1>7. ASSUME v.event # None, Quiet(v),
             NEW h \in Handle \cup {None}, Publish(alert, h),
             Remember(s, [fired EXCEPT !.event = None, !.queued = h]),
             told' = IF v.event \in Ordinary /\ s \notin Child
                     THEN told \cup {s} ELSE told
      PROVE  IInv'
  <2> DEFINE w == [fired EXCEPT !.event = None, !.queued = h]
  <2>1. /\ w \in SessionState /\ w.event = None /\ w.queued = h
        /\ w.agent = v.agent /\ w.lastTurn = v.lastTurn
        /\ w.goalRef = v.goalRef /\ w.subagentRun = v.subagentRun
        /\ w.goalTerminal = v.goalTerminal
    BY <1>3 DEF SessionState
  <2>2. Remember(s, w)
    BY <1>7
  <2> HIDE DEF w
  <2>3. /\ SessionsTyped' /\ RequestsTyped' /\ WorldTyped'
        /\ Owners' /\ Entries' /\ Asked' /\ Goals' /\ Begun' /\ Runs'
        /\ sessions'[s] = w /\ DOMAIN sessions' = DOMAIN sessions
        /\ \A x \in DOMAIN sessions \ {s} : sessions'[x] = sessions[x]
        /\ \A x \in DOMAIN sessions : \A kind : Holds(x, kind) <=> Holds(x, kind)'
    BY <1>1, <2>1, <2>2, TimerTypes
  <2>4. v.queued = None /\ Holds(s, v.event)
    BY <1>1, <1>7 DEF Entries, Entry
  <2>5. alert \in Alert /\ v.event # "request"
    BY <1>1, <1>7 DEF Alert, SessionState, Kind, Ordinary, GoalKind
  <2>6. /\ alert.about = s /\ alert.kind = v.event /\ alert.agent = v.agent
    OBVIOUS
  <2> HIDE DEF alert
  <2>7. LiveTyped'
    BY <1>7, <2>5, PublishTyped
  <2>8. TypeOK'
    <3>1. RestTyped'
      BY <1>1, <1>7 DEF TypeOK, RestTyped
    <3>2. QED
      BY <2>3, <2>7, <3>1, TypesAre
  <2>9. \/ live' = live
        \/ /\ h \in Handle \ DOMAIN live
           /\ DOMAIN live' = DOMAIN live \cup {h}
           /\ live'[h] = alert
           /\ \A k \in DOMAIN live : live'[k] = live[k]
    BY <1>7, PublishIs
  <2>10. Alerts'
    <3>1. ASSUME NEW k \in DOMAIN live
          PROVE  /\ live'[k] = live[k] /\ k \in DOMAIN live'
                 /\ IF live[k].kind = "request" THEN OfRequest(k)' ELSE OfSession(k)'
      <4>1. live'[k] = live[k] /\ k \in DOMAIN live'
        BY <2>9
      <4>2. CASE live[k].kind = "request"
        BY <1>1, <4>1, <4>2 DEF Alerts, OfRequest
      <4>3. CASE live[k].kind # "request"
        <5>1. OfSession(k)
          BY <4>3 DEF Alerts
        <5>2. live[k].about # s
          BY <2>4, <5>1, EventsAssumption DEF OfSession, TypeOK
        <5>3. Holds(live[k].about, live[k].kind)'
          BY <2>3, <4>1, <5>1 DEF OfSession
        <5>4. /\ live[k].about \in DOMAIN sessions'
              /\ sessions'[live[k].about] = sessions[live[k].about]
          BY <2>3, <5>1, <5>2 DEF OfSession
        <5>5. OfSession(k)'
          BY <1>1, <4>1, <5>1, <5>3, <5>4, QuietStays DEF OfSession
        <5>6. QED
          BY <4>1, <4>3, <5>5
      <4>4. QED
        BY <4>1, <4>2, <4>3
    <3>2. ASSUME live'[h] = alert PROVE OfSession(h)'
      <4>1. Holds(s, v.event) <=> Holds(s, live[h].kind)'
        BY <1>1, <2>3, <2>6, <3>2
      <4>2. v.agent # None => QuietRuntime(s)'
        BY <1>1, <1>7 DEF Quiet, QuietRuntime, Acting, Present, Runtimes, Met, AgentOf
      <4>3. QED
        BY <1>1, <2>1, <2>3, <2>4, <2>6, <3>2, <4>1, <4>2 DEF OfSession
    <3>3. ASSUME NEW k \in DOMAIN live'
          PROVE  IF live'[k].kind = "request" THEN OfRequest(k)' ELSE OfSession(k)'
      <4>1. CASE k \in DOMAIN live
        BY <3>1, <4>1
      <4>2. CASE k \notin DOMAIN live
        <5>1. k = h /\ live'[h] = alert
          BY <2>9, <3>3, <4>2
        <5>2. QED
          BY <2>5, <2>6, <3>2, <5>1
      <4>3. QED
        BY <4>1, <4>2
    <3>4. QED
      BY <3>3 DEF Alerts
  <2>11. Turns'
    <3>1. v.event \in Ordinary /\ s \notin Child => turn[s].open = 0
      BY <2>4 DEF Holds
    <3>2. QED
      BY <1>1, <1>2, <1>7, <2>1, <2>3, <3>1 DEF Turns
  <2>12. (told \cap Child = {})'
    BY <1>7
  <2>13. QED
    BY <2>3, <2>8, <2>10, <2>11, <2>12
<1>8. \/ Remember(s, fired) /\ UNCHANGED <<live, told>>
      \/ Remember(s, [fired EXCEPT !.event = None]) /\ UNCHANGED <<live, told>>
      \/ /\ v.event # None /\ Quiet(v)
         /\ \E h \in Handle \cup {None} :
              /\ Publish(alert, h)
              /\ Remember(s, [fired EXCEPT !.event = None, !.queued = h])
         /\ told' = IF v.event \in Ordinary /\ s \notin Child
                    THEN told \cup {s} ELSE told
  BY DEF IdleTimer, fired
<1>9. QED
  BY <1>5, <1>6, <1>7, <1>8

LEMMA RequestTimerKeeps ==
  ASSUME IInv, NEW q \in Request, RequestTimer(q)
  PROVE  IInv'
<1> USE DEF IInv
<1> DEFINE alert == [about |-> q, kind |-> "request", agent |-> requests[q].agent]
<1>1. /\ q \in DOMAIN requests /\ requests[q].timer
      /\ UNCHANGED <<sessions, later, deadAgents, config, disposed,
                     agents, turn, goal, run, human, told, goalDone>>
  BY DEF RequestTimer, worldVars
<1>2. PICK h \in Handle \cup {None} :
        /\ Publish(alert, h)
        /\ requests' = [requests EXCEPT ![q].timer = FALSE, ![q].queued = h]
  BY DEF RequestTimer
<1>3. requests[q] \in [agent: Agent, timer: BOOLEAN, queued: Handle \cup {None}]
  BY <1>1 DEF TypeOK
<1>4. /\ DOMAIN requests' = DOMAIN requests
      /\ requests'[q] \in [agent: Agent, timer: BOOLEAN, queued: Handle \cup {None}]
      /\ requests'[q].agent = requests[q].agent /\ ~requests'[q].timer
      /\ requests'[q].queued = h
      /\ \A x \in DOMAIN requests \ {q} : requests'[x] = requests[x]
  BY <1>1, <1>2, <1>3
<1>5. alert \in Alert
  BY <1>3 DEF Alert
<1>6. alert.about = q /\ alert.kind = "request" /\ alert.agent = requests[q].agent
  OBVIOUS
<1> HIDE DEF alert
<1>7. TypeOK'
  <2>1. LiveTyped'
    BY <1>2, <1>5, PublishTyped
  <2>2. RequestsTyped'
    BY <1>4 DEF TypeOK, RequestsTyped
  <2>3. SessionsTyped' /\ WorldTyped' /\ RestTyped'
    BY <1>1 DEF TypeOK, SessionsTyped, WorldTyped, RestTyped
  <2>4. QED
    BY <2>1, <2>2, <2>3, TypesAre
<1>8. requests[q].queued = None
  BY <1>1 DEF Asked
<1>9. \/ live' = live
      \/ /\ h \in Handle \ DOMAIN live
         /\ DOMAIN live' = DOMAIN live \cup {h}
         /\ live'[h] = alert
         /\ \A k \in DOMAIN live : live'[k] = live[k]
  BY <1>2, PublishIs
<1>10. Alerts'
  <2>1. ASSUME NEW k \in DOMAIN live
        PROVE  IF live'[k].kind = "request" THEN OfRequest(k)' ELSE OfSession(k)'
    <3>1. live'[k] = live[k] /\ k \in DOMAIN live'
      BY <1>9
    <3>2. CASE live[k].kind = "request"
      <4>1. OfRequest(k)
        BY <3>2 DEF Alerts
      <4>2. live[k].about # q
        BY <1>8, <4>1, EventsAssumption DEF OfRequest, TypeOK
      <4>3. QED
        BY <1>4, <3>1, <3>2, <4>1, <4>2 DEF OfRequest
    <3>3. CASE live[k].kind # "request"
      <4>1. OfSession(k)
        BY <3>3 DEF Alerts
      <4>2. QED
        BY <1>1, <3>1, <3>3, <4>1 DEF OfSession, QuietRuntime, Acting, Present, Holds, LastHeard
    <3>4. QED
      BY <3>2, <3>3
  <2>2. ASSUME NEW k \in DOMAIN live', k \notin DOMAIN live
        PROVE  live'[k].kind = "request" /\ OfRequest(k)'
    <3>1. k = h /\ live'[h] = alert
      BY <1>9, <2>2
    <3>2. QED
      BY <1>1, <1>4, <1>6, <3>1 DEF OfRequest
  <2>3. QED
    BY <2>1, <2>2 DEF Alerts
<1>11. Asked'
  BY <1>1, <1>4 DEF Asked
<1>12. Owners' /\ Turns' /\ Goals' /\ Begun' /\ Runs'
       /\ (told \cap Child = {})'
  BY <1>1 DEF Owners, Present, Turns, Goals, Begun, Runs
<1>13. Entries'
  BY <1>1 DEF Entries, Entry, Holds, LastHeard
<1>14. QED
  BY <1>7, <1>10, <1>11, <1>12, <1>13

-----------------------------------------------------------------------------
(* Requests to the user *)

\* Requests come and go, and alerts about the gone ones are withdrawn.
LEMMA RequestsChange ==
  ASSUME IInv, LiveTyped', RequestsTyped', human' \in [Request -> {"new", "waiting", "over"}],
         DOMAIN live' \subseteq DOMAIN live,
         \A h \in DOMAIN live' : live'[h] = live[h],
         \A h \in DOMAIN live' : OfRequest(h) => OfRequest(h)',
         Asked',
         UNCHANGED <<sessions, later, deadAgents, config, disposed,
                     agents, turn, goal, run, told, goalDone>>
  PROVE  IInv'
<1> USE DEF IInv
<1>1. TypeOK'
  <2>1. SessionsTyped' /\ WorldTyped' /\ RestTyped'
    BY DEF TypeOK, SessionsTyped, WorldTyped, RestTyped
  <2>2. QED
    BY <2>1, TypesAre
<1>2. Alerts'
  <2>1. ASSUME NEW h \in DOMAIN live'
        PROVE  IF live'[h].kind = "request" THEN OfRequest(h)' ELSE OfSession(h)'
    <3>1. IF live[h].kind = "request" THEN OfRequest(h) ELSE OfSession(h)
      BY DEF Alerts
    <3>2. OfSession(h) => OfSession(h)'
      BY DEF OfSession, QuietRuntime, Acting, Present, Holds, LastHeard
    <3>3. QED
      BY <3>1, <3>2
  <2>2. QED
    BY <2>1 DEF Alerts
<1>3. Owners' /\ Turns' /\ Goals' /\ Begun' /\ Runs'
      /\ (told \cap Child = {})'
  BY DEF Owners, Present, Turns, Goals, Begun, Runs
<1>4. Entries'
  BY DEF Entries, Entry, Holds, LastHeard
<1>5. QED
  BY <1>1, <1>2, <1>3, <1>4

LEMMA AskKeeps ==
  ASSUME IInv, NEW q \in Request, NEW a \in Agent, NEW aborted \in BOOLEAN,
         Ask(q, a, aborted)
  PROVE  IInv'
<1> USE DEF IInv
<1> DEFINE r == [agent |-> a, timer |-> TRUE, queued |-> None]
<1>1. /\ human[q] = "new"
      /\ human' = [human EXCEPT ![q] = IF aborted THEN "over" ELSE "waiting"]
      /\ requests' = IF aborted \/ a \in deadAgents THEN requests ELSE Set(requests, q, r)
      /\ UNCHANGED <<sessions, later, deadAgents, config, disposed, live,
                     agents, turn, goal, run, told, goalDone>>
  BY DEF Ask
<1>2. q \notin DOMAIN requests
  BY <1>1 DEF Asked
<1>3. /\ r \in [agent: Agent, timer: BOOLEAN, queued: Handle \cup {None}]
      /\ r.agent = a /\ r.queued = None
  OBVIOUS
<1> HIDE DEF r
<1>4. \/ requests' = requests
      \/ /\ ~aborted /\ a \notin deadAgents
         /\ DOMAIN requests' = DOMAIN requests \cup {q} /\ requests'[q] = r
         /\ \A x \in DOMAIN requests : requests'[x] = requests[x]
  BY <1>1, <1>2 DEF Set
<1>5. /\ human' \in [Request -> {"new", "waiting", "over"}]
      /\ ~aborted => human'[q] = "waiting"
      /\ \A x \in Request \ {q} : human'[x] = human[x]
  BY <1>1 DEF TypeOK
<1>6. RequestsTyped' /\ LiveTyped'
  BY <1>1, <1>3, <1>4 DEF TypeOK, RequestsTyped, LiveTyped
<1>7. Asked'
  BY <1>1, <1>2, <1>3, <1>4, <1>5 DEF Asked, TypeOK
<1>8. \A h \in DOMAIN live : OfRequest(h) => OfRequest(h)'
  BY <1>1, <1>4 DEF OfRequest
<1>9. QED
  BY <1>1, <1>5, <1>6, <1>7, <1>8, RequestsChange

LEMMA SettleKeeps ==
  ASSUME IInv, NEW q \in Request, Settle(q)
  PROVE  IInv'
<1> USE DEF IInv
<1>1. /\ human' = [human EXCEPT ![q] = "over"]
      /\ requests' = Drop(requests, {q})
      /\ Retract({}, {q})
      /\ UNCHANGED <<sessions, later, deadAgents, config, disposed,
                     agents, turn, goal, run, told, goalDone>>
  BY DEF Settle
<1>2. /\ DOMAIN requests' = DOMAIN requests \ {q}
      /\ \A x \in DOMAIN requests \ {q} : requests'[x] = requests[x]
  BY <1>1 DEF Drop
<1>3. /\ human' \in [Request -> {"new", "waiting", "over"}]
      /\ \A x \in Request \ {q} : human'[x] = human[x]
  BY <1>1 DEF TypeOK
<1>4. /\ DOMAIN live' \subseteq DOMAIN live
      /\ \A h \in DOMAIN live' :
           /\ live'[h] = live[h]
           /\ q \in DOMAIN requests => h # requests[q].queued
  BY <1>1, RetractIs
<1>5. LiveTyped' /\ RequestsTyped'
  BY <1>1, <1>2, RetractTyped DEF TypeOK, RequestsTyped
<1>6. Asked'
  BY <1>1, <1>2, <1>3 DEF Asked, TypeOK
<1>7. \A h \in DOMAIN live' : OfRequest(h) => OfRequest(h)'
  BY <1>2, <1>4 DEF OfRequest
<1>8. QED
  BY <1>1, <1>3, <1>4, <1>5, <1>6, <1>7, RequestsChange

-----------------------------------------------------------------------------
(* The plugin *)

LEMMA BrokerDropsKeeps ==
  ASSUME IInv, NEW h \in Handle, BrokerDrops(h)
  PROVE  IInv'
<1> USE DEF IInv
<1>1. /\ live' = Drop(live, {h})
      /\ UNCHANGED <<sessions, later, deadAgents, requests, config, disposed,
                     agents, turn, goal, run, human, told, goalDone>>
  BY DEF BrokerDrops, worldVars
<1>2. /\ DOMAIN live' \subseteq DOMAIN live
      /\ \A k \in DOMAIN live' : live'[k] = live[k]
  BY <1>1 DEF Drop
<1>3. LiveTyped' /\ RequestsTyped'
  BY <1>1, <1>2 DEF TypeOK, LiveTyped, RequestsTyped
<1>4. Asked' /\ \A k \in DOMAIN live' : OfRequest(k) => OfRequest(k)'
  BY <1>1, <1>2 DEF Asked, OfRequest
<1>5. human' \in [Request -> {"new", "waiting", "over"}]
  BY <1>1 DEF TypeOK
<1>6. QED
  BY <1>1, <1>2, <1>3, <1>4, <1>5, RequestsChange

LEMMA SetConfigKeeps ==
  ASSUME IInv, NEW c \in Settings, SetConfig(c)
  PROVE  IInv'
<1> USE DEF IInv
<1>1. /\ config' = c
      /\ UNCHANGED <<sessions, later, deadAgents, requests, disposed, live,
                     agents, turn, goal, run, human, told, goalDone>>
  BY DEF SetConfig, worldVars
<1>2. TypeOK'
  BY <1>1, EventsAssumption DEF TypeOK
<1>3. Owners' /\ Asked' /\ Turns' /\ Goals' /\ Begun' /\ Runs'
      /\ (told \cap Child = {})'
  BY <1>1 DEF Owners, Asked, Turns, Goals, Begun, Runs, Present
<1>4. Entries' /\ Alerts'
  BY <1>1, QuietStays
  DEF Entries, Entry, Alerts, OfRequest, OfSession, Holds, LastHeard
<1>5. QED
  BY <1>2, <1>3, <1>4

LEMMA DisposeKeeps ==
  ASSUME IInv, Dispose
  PROVE  IInv'
<1> USE DEF IInv
<1>1. /\ disposed' /\ Retract(DOMAIN sessions, DOMAIN requests)
      /\ sessions' = NoMap /\ later' = {} /\ requests' = NoMap
      /\ UNCHANGED <<deadAgents, config, agents, turn, goal, run, human,
                     told, goalDone>>
      /\ disposed' \in BOOLEAN
  BY DEF Dispose, worldVars
<1>2. DOMAIN sessions' = {} /\ DOMAIN requests' = {}
  BY <1>1 DEF NoMap
<1>3. DOMAIN live' = {}
  <2> SUFFICES ASSUME NEW h \in DOMAIN live' PROVE FALSE
    OBVIOUS
  <2>1. /\ h \in DOMAIN live
        /\ \A s \in DOMAIN sessions : h # sessions[s].queued
        /\ \A q \in DOMAIN requests : h # requests[q].queued
    BY <1>1, RetractIs
  <2>2. QED
    BY <2>1 DEF Alerts, OfRequest, OfSession
<1>4. TypeOK'
  <2>1. SessionsTyped' /\ RequestsTyped' /\ LiveTyped'
    BY <1>2, <1>3 DEF SessionsTyped, RequestsTyped, LiveTyped
  <2>2. WorldTyped' /\ RestTyped'
    BY <1>1 DEF TypeOK, WorldTyped, RestTyped
  <2>3. QED
    BY <2>1, <2>2, TypesAre
<1>5. Owners' /\ Entries' /\ Alerts' /\ Asked'
  BY <1>2, <1>3 DEF Owners, Entries, Alerts, Asked
<1>6. Turns' /\ Goals'
  BY <1>1, <1>2 DEF Turns, Goals
<1>7. Begun' /\ Runs' /\ (told \cap Child = {})'
  BY <1>1 DEF Begun, Runs
<1>8. QED
  BY <1>4, <1>5, <1>6, <1>7

-----------------------------------------------------------------------------
(* Runtimes *)

LEMMA InitRuntimes == Init => Runtimes
<1> SUFFICES ASSUME Init PROVE Runtimes
  OBVIOUS
<1>1. \A a \in Agent : ~Present(a)
  BY DEF Init, Present
<1>2. QED
  BY <1>1 DEF Runtimes, OneRuntime, Olds, Met, Replaced, Acting

\* Nothing changes for the runtimes of a session while they stay and the one
\* that is remembered stays too.
LEMMA RuntimesStay ==
  ASSUME Runtimes, UNCHANGED <<agents, deadAgents>>, disposed => disposed',
         \A s \in Session :
           \/ AgentOf(s)' = AgentOf(s)
           \/ AgentOf(s)' = None /\ (s \in Child \/ disposed'),
         \A s \in Session \ Child :
           \/ NothingYet(s) => NothingYet(s)'
           \/ \A b \in Agent : SessionOf[b] = s /\ Present(b) /\ agents[b].old =>
                AgentOf(s) \notin {None, b}
  PROVE  Runtimes'
<1>1. \A a \in Agent : (Present(a)' <=> Present(a)) /\ (Acting(a)' <=> Acting(a))
  BY DEF Present, Acting
<1>2. \A a \in Agent : SessionOf[a] \in Session
  BY EventsAssumption
<1>3. OneRuntime' /\ Olds'
  BY <1>1 DEF Runtimes, OneRuntime, Olds
<1>4. Met'
  BY <1>1, <1>2 DEF Runtimes, Met
<1>5. Replaced'
  BY <1>1, <1>2 DEF Runtimes, Replaced
<1>6. QED
  BY <1>3, <1>4, <1>5 DEF Runtimes

\* Remember changes the remembered runtime of one session.
LEMMA RememberAgent ==
  ASSUME NEW s, NEW w, Remember(s, w)
  PROVE  AgentOf(s)' = w.agent /\ \A x : x # s => AgentOf(x)' = AgentOf(x)
BY DEF Remember, Set, AgentOf

LEMMA KnownAgent ==
  ASSUME NEW s
  PROVE  Known(s).agent = AgentOf(s)
BY FreshIs DEF Known, AgentOf

\* The runtimes that announce something become the remembered ones.
LEMMA HeardRuntime ==
  ASSUME TypeOK, Runtimes, NEW a \in Agent, Acting(a), AgentOf(SessionOf[a])' = a,
         \A x : x # SessionOf[a] => AgentOf(x)' = AgentOf(x),
         UNCHANGED <<deadAgents, turn, disposed>>,
         \A x \in goalDone' : x \in goalDone \/ x = SessionOf[a],
         \A b \in Agent : /\ agents'[b].status = agents[b].status
                          /\ agents'[b].old = agents[b].old
                          /\ b # a => agents'[b].said = agents[b].said
  PROVE  Runtimes'
<1>1. \A b \in Agent : (Present(b)' <=> Present(b)) /\ (Acting(b)' <=> Acting(b))
  BY DEF Present, Acting
<1>2. OneRuntime'
  BY <1>1 DEF Runtimes, OneRuntime
<1>3. Olds'
  BY <1>1 DEF Runtimes, Olds, Acting
<1>4. Met'
  <2> SUFFICES ASSUME NEW b \in Agent, Acting(b)', agents'[b].said
               PROVE  /\ AgentOf(SessionOf[b])' \in {None, b}
                      /\ SessionOf[b] \notin Child /\ ~disposed' =>
                           AgentOf(SessionOf[b])' = b
    BY DEF Met
  <2>1. CASE SessionOf[b] = SessionOf[a]
    BY <1>1, <2>1 DEF Runtimes, OneRuntime
  <2>2. CASE SessionOf[b] # SessionOf[a]
    BY <1>1, <2>2 DEF Runtimes, Met
  <2>3. QED
    BY <2>1, <2>2
<1>5. Replaced'
  <2> SUFFICES ASSUME NEW b \in Agent, Present(b)', agents'[b].old,
                      SessionOf[b] \notin Child, ~disposed'
               PROVE  \/ NothingYet(SessionOf[b])'
                      \/ AgentOf(SessionOf[b])' \notin {None, b}
    BY DEF Replaced
  <2>1. CASE SessionOf[b] = SessionOf[a]
    <3>1. b # a /\ a # None
      BY EventsAssumption DEF Acting
    <3>2. QED
      BY <2>1, <3>1
  <2>2. CASE SessionOf[b] # SessionOf[a]
    BY <1>1, <2>2 DEF Runtimes, Replaced, NothingYet
  <2>3. QED
    BY <2>1, <2>2
<1>6. QED
  BY <1>2, <1>3, <1>4, <1>5 DEF Runtimes

LEMMA AppearRuntimes ==
  ASSUME TypeOK, Runtimes, NEW a \in Agent, NEW status \in {"idle", "running"},
         Appear(a, status)
  PROVE  Runtimes'
<1> DEFINE s == SessionOf[a]
<1>1. /\ s \in Session /\ turn[s].open = 0
      /\ agents'[a] = [status |-> status, said |-> FALSE, old |-> FALSE]
      /\ \A b \in Agent \ {a} : SessionOf[b] = s =>
           /\ Present(b) => agents[b].status = "idle" /\ agents[b].said
           /\ agents'[b] = [agents[b] EXCEPT !.old = TRUE]
      /\ \A b \in Agent \ {a} : SessionOf[b] # s => agents'[b] = agents[b]
      /\ turn' = [turn EXCEPT ![s].last = 0] /\ goalDone' = goalDone \ {s}
      /\ UNCHANGED <<sessions, deadAgents, disposed>>
  BY EventsAssumption DEF Appear, notifierVars
<1>2. turn'[s].open = 0 /\ turn'[s].last = 0 /\ \A x \in Session \ {s} : turn'[x] = turn[x]
  BY <1>1 DEF TypeOK
<1>3. \A x : AgentOf(x)' = AgentOf(x)
  BY <1>1 DEF AgentOf
<1>4. \A b \in Agent \ {a} : SessionOf[b] = s =>
        /\ agents'[b].status = agents[b].status /\ agents'[b].said = agents[b].said
        /\ agents'[b].old
  <2>1. \A b \in Agent : agents[b] \in [status: {"absent", "idle", "running"},
                                        said: BOOLEAN, old: BOOLEAN]
    BY DEF TypeOK
  <2>2. ASSUME NEW b \in Agent \ {a}, SessionOf[b] = s
        PROVE  /\ agents'[b].status = agents[b].status
               /\ agents'[b].said = agents[b].said /\ agents'[b].old
    <3>1. agents'[b] = [agents[b] EXCEPT !.old = TRUE]
      BY <1>1, <2>2
    <3>2. QED
      BY <2>1, <3>1
  <2>3. QED
    BY <2>2
<1>5. \A b \in Agent \ {a} : SessionOf[b] # s =>
        (Present(b)' <=> Present(b)) /\ (Acting(b)' <=> Acting(b))
  BY <1>1 DEF Present, Acting
<1>6. \A b \in Agent \ {a} : SessionOf[b] = s =>
        (Present(b)' <=> Present(b)) /\ ~Acting(b)'
  BY <1>1, <1>4 DEF Present, Acting
<1>7. OneRuntime'
  BY <1>5, <1>6 DEF Runtimes, OneRuntime
<1>8. Olds'
  <2> SUFFICES ASSUME NEW b \in Agent, Present(b)', agents'[b].old
               PROVE  agents'[b].status = "idle" /\ agents'[b].said
    BY DEF Olds
  <2>1. b # a
    BY <1>1
  <2>2. CASE SessionOf[b] = s
    BY <1>1, <1>4, <1>6, <2>1, <2>2
  <2>3. CASE SessionOf[b] # s
    BY <1>1, <1>5, <2>1, <2>3 DEF Runtimes, Olds
  <2>4. QED
    BY <2>2, <2>3
<1>9. Met'
  BY <1>1, <1>3, <1>5, <1>6 DEF Runtimes, Met
<1>10. Replaced'
  <2>1. NothingYet(s)'
    BY <1>1, <1>2 DEF NothingYet
  <2>2. \A x \in Session \ {s} : NothingYet(x) => NothingYet(x)'
    BY <1>1, <1>2 DEF NothingYet
  <2>3. \A b \in Agent : SessionOf[b] \in Session
    BY EventsAssumption
  <2>4. QED
    BY <1>1, <1>3, <1>5, <2>1, <2>2, <2>3 DEF Runtimes, Replaced
<1>11. QED
  BY <1>7, <1>8, <1>9, <1>10 DEF Runtimes

LEMMA ChangeStatusRuntimes ==
  ASSUME TypeOK, Runtimes, NEW a \in Agent, ChangeStatus(a)
  PROVE  Runtimes'
<1>1. /\ Acting(a) /\ ~agents'[a].said
      /\ \A b \in Agent : /\ agents'[b].old = agents[b].old
                          /\ b # a => agents'[b] = agents[b]
                          /\ agents'[b].status = "absent" <=> agents[b].status = "absent"
      /\ UNCHANGED <<sessions, deadAgents, disposed, turn, goalDone>>
  BY DEF ChangeStatus, notifierVars, TypeOK, Acting, Present
<1>2. \A b \in Agent : (Present(b)' <=> Present(b)) /\ (Acting(b)' <=> Acting(b))
  BY <1>1 DEF Present, Acting
<1>3. \A x : AgentOf(x)' = AgentOf(x) /\ (NothingYet(x)' <=> NothingYet(x))
  BY <1>1 DEF AgentOf, NothingYet
<1>4. OneRuntime' /\ Olds'
  BY <1>1, <1>2 DEF Runtimes, OneRuntime, Olds, Acting
<1>5. Met' /\ Replaced'
  BY <1>1, <1>2, <1>3 DEF Runtimes, Met, Replaced
<1>6. QED
  BY <1>4, <1>5 DEF Runtimes

LEMMA AgentStatusRuntimes ==
  ASSUME TypeOK, Runtimes, NEW a \in Agent, AgentStatus(a)
  PROVE  Runtimes'
<1> DEFINE s == SessionOf[a]
           v == KnownBy(s, a)
<1>1. s \in Session /\ v \in SessionState /\ v.agent = a
  BY EventsAssumption, KnownIs, KnownByIs DEF SessionState
<1>2. \E w : Remember(s, w) /\ w.agent = a
  <2>1. Reset(v) \in SessionState /\ Reset(v).agent = a /\ Schedule(v).agent = a
    BY <1>1, ResetIs, ScheduleIs
  <2>2. [Reset(v) EXCEPT !.goalTerminal = FALSE].agent = a
    BY <2>1 DEF SessionState
  <2>3. \/ Remember(s, [Reset(v) EXCEPT !.goalTerminal = FALSE])
        \/ Remember(s, Schedule(v))
    BY DEF AgentStatus
  <2>4. QED
    BY <2>1, <2>2, <2>3
<1>3. AgentOf(s)' = a /\ \A x : x # s => AgentOf(x)' = AgentOf(x)
  BY <1>2, RememberAgent
<1>4. /\ Acting(a) /\ goalDone' \subseteq goalDone
      /\ UNCHANGED <<deadAgents, turn, disposed>>
      /\ \A b \in Agent : /\ agents'[b].status = agents[b].status
                          /\ agents'[b].old = agents[b].old
                          /\ b # a => agents'[b].said = agents[b].said
  <2>1. agents \in [Agent -> [status: {"absent", "idle", "running"},
                             said: BOOLEAN, old: BOOLEAN]]
    BY DEF TypeOK
  <2>2. agents' = [agents EXCEPT ![a].said = TRUE]
    BY DEF AgentStatus
  <2>3. \A b \in Agent : /\ agents'[b].status = agents[b].status
                         /\ agents'[b].old = agents[b].old
                         /\ b # a => agents'[b].said = agents[b].said
    BY <2>1, <2>2
  <2>4. QED
    BY <2>3 DEF AgentStatus
<1>5. QED
  BY <1>3, <1>4, HeardRuntime

LEMMA GoalChangedRuntimes ==
  ASSUME TypeOK, Runtimes, NEW a \in Agent, GoalChanged(a)
  PROVE  Runtimes'
<1> DEFINE s == SessionOf[a]
           v == [KnownBy(s, a) EXCEPT !.goalRef = goal[s].revision]
           resumed == [IF v.goalTerminal THEN Reset(v) ELSE v
                         EXCEPT !.goalTerminal = FALSE]
           kind == IF goal[s].phase = "complete" THEN "goal-complete"
                                                 ELSE "goal-blocked"
           ended == [Reset(v) EXCEPT !.goalTerminal = TRUE, !.event = kind]
<1>1. s \in Session /\ KnownBy(s, a) \in SessionState /\ KnownBy(s, a).agent = a
      /\ goal[s].revision \in 0..MaxRevision
  BY EventsAssumption, KnownIs, KnownByIs DEF SessionState, TypeOK
<1>2. v \in SessionState /\ v.agent = a
  BY <1>1 DEF SessionState
<1>3. /\ Acting(a)
      /\ UNCHANGED <<agents, deadAgents, turn, disposed>>
  BY DEF GoalChanged
<1>4. \/ UNCHANGED <<sessions, goalDone>>
      \/ /\ goalDone' \subseteq goalDone \cup {s}
         /\ Remember(s, v) \/ Remember(s, resumed) \/ Remember(s, Schedule(ended))
  BY DEF GoalChanged
<1>5. CASE UNCHANGED <<sessions, goalDone>>
  BY <1>3, <1>5, RuntimesStay DEF AgentOf, NothingYet
<1>6. Reset(v) \in SessionState /\ Reset(v).agent = a
  BY <1>2, ResetIs
<1>7. resumed.agent = a
  BY <1>2, <1>6 DEF SessionState
<1>8. Schedule(ended).agent = a
  <2>1. kind \in Kind
    BY DEF Kind, GoalKind
  <2> HIDE DEF kind, v
  <2>2. ended \in SessionState /\ ended.agent = a
    BY <1>6, <2>1 DEF SessionState
  <2>3. QED
    BY <2>2, ScheduleIs
<1> HIDE DEF v, resumed, ended
<1>9. CASE /\ goalDone' \subseteq goalDone \cup {s}
           /\ Remember(s, v) \/ Remember(s, resumed) \/ Remember(s, Schedule(ended))
  <2>1. AgentOf(s)' = a /\ \A x : x # s => AgentOf(x)' = AgentOf(x)
    BY <1>2, <1>7, <1>8, <1>9, RememberAgent
  <2>2. QED
    BY <1>3, <1>9, <2>1, HeardRuntime
<1>10. QED
  BY <1>4, <1>5, <1>9

LEMMA AgentDisposedRuntimes ==
  ASSUME TypeOK, Runtimes, NEW a \in Agent, AgentDisposed(a)
  PROVE  Runtimes'
<1> DEFINE s == SessionOf[a]
<1>1. /\ s \in Session /\ ~disposed /\ Present(a)
      /\ sessions' = Drop(sessions, ForgottenWith(a))
      /\ deadAgents' = deadAgents \cup {a}
      /\ UNCHANGED <<disposed, agents>>
      /\ IF agents[a].old THEN UNCHANGED <<turn, goalDone>>
         ELSE /\ turn' = [turn EXCEPT ![s] = [open |-> 0, last |-> 0]]
              /\ goalDone' = goalDone \ {s}
  BY EventsAssumption DEF AgentDisposed
<1>2. /\ AgentOf(s)' = IF AgentOf(s) \in {None, a} THEN None ELSE AgentOf(s)
      /\ \A x : x # s => AgentOf(x)' = AgentOf(x)
  BY <1>1 DEF Drop, ForgottenWith, AgentOf
<1>3. \A b \in Agent : (Present(b)' <=> Present(b) /\ b # a)
                       /\ (Acting(b)' <=> Acting(b) /\ b # a)
  BY <1>1 DEF Present, Acting
<1>4. /\ ~agents[a].old => NothingYet(s)'
      /\ \A x \in Session : NothingYet(x) => NothingYet(x)'
  BY <1>1 DEF TypeOK, NothingYet
<1>5. OneRuntime' /\ Olds'
  BY <1>1, <1>3 DEF Runtimes, OneRuntime, Olds
<1>6. Met'
  BY <1>1, <1>2, <1>3 DEF Runtimes, Met
<1>7. Replaced'
  <2> SUFFICES ASSUME NEW b \in Agent, Present(b)', agents[b].old,
                      SessionOf[b] \notin Child, ~disposed, ~NothingYet(SessionOf[b])'
               PROVE  AgentOf(SessionOf[b])' \notin {None, b}
    BY <1>1 DEF Replaced
  <2>1. AgentOf(SessionOf[b]) \notin {None, b}
    BY <1>3, <1>4, EventsAssumption DEF Runtimes, Replaced
  <2>2. SessionOf[b] = s => AgentOf(s) # a
    BY <1>1, <1>3, <1>4 DEF Runtimes, Replaced
  <2>3. QED
    BY <1>2, <2>1, <2>2
<1>8. QED
  BY <1>5, <1>6, <1>7 DEF Runtimes

\* What the end of a turn leaves of the remembered runtime.
LEMMA TurnEndAgents ==
  ASSUME TypeOK, NEW s \in Session, NEW n \in 1..MaxTurn,
         NEW kind \in Ordinary \cup {None}, HearTurnEnd(s, n, kind)
  PROVE  \A x : AgentOf(x)' = AgentOf(x)
<1>1. CASE TurnRepeated(s, n)
  BY <1>1 DEF TurnRepeated, AgentOf
<1>2. CASE TurnHeard(s, n, kind)
  BY <1>2, KnownAgent DEF TurnHeard, AgentOf
<1>3. QED
  BY <1>1, <1>2, HearTurnEndIs

LEMMA TurnRuntimes ==
  ASSUME TypeOK, Runtimes, NEW a \in Agent,
         \/ \E n \in 1..MaxTurn : TurnStart(a, n)
         \/ \E kind \in Ordinary \cup {None} : TurnEnd(a, kind) \/ RepeatTurnEnd(a, kind)
  PROVE  Runtimes'
<1> DEFINE s == SessionOf[a]
<1>1. s \in Session
  BY EventsAssumption
<1>2. ASSUME NEW n \in 1..MaxTurn, TurnStart(a, n) PROVE Runtimes'
  <2>1. /\ Acting(a) /\ Introduced(a) /\ ~disposed
        /\ turn' = [turn EXCEPT ![s].open = n] /\ goalDone' = goalDone \ {s}
        /\ UNCHANGED <<agents, deadAgents, disposed>>
    BY <1>2 DEF TurnStart
  <2>2. \A x : AgentOf(x)' = AgentOf(x)
    <3> DEFINE r == Reset(Known(s))
               w == [r EXCEPT !.lastTurn = 0, !.goalTerminal = FALSE]
    <3>1. r \in SessionState /\ r.agent = AgentOf(s)
      BY <1>1, KnownIs, KnownAgent, ResetIs
    <3>2. w.agent = AgentOf(s)
      BY <3>1 DEF SessionState
    <3>3. UNCHANGED sessions \/ Remember(s, w)
      BY <1>2 DEF TurnStart
    <3> HIDE DEF w
    <3>4. QED
      BY <3>2, <3>3, RememberAgent DEF AgentOf
  <2>3. \A x \in Session \ {s} : NothingYet(x) => NothingYet(x)'
    BY <2>1 DEF TypeOK, NothingYet
  <2>4. s \notin Child =>
          \A b \in Agent : SessionOf[b] = s /\ Present(b) /\ agents[b].old =>
            AgentOf(s) \notin {None, b}
    <3> SUFFICES ASSUME s \notin Child, NEW b \in Agent, SessionOf[b] = s,
                        Present(b), agents[b].old
                 PROVE  AgentOf(s) \notin {None, b}
      OBVIOUS
    <3>1. b # a /\ agents[a].said /\ a # None
      BY <2>1, EventsAssumption DEF Acting, Introduced
    <3>2. QED
      BY <2>1, <3>1 DEF Runtimes, Met
  <2>5. QED
    BY <2>1, <2>2, <2>3, <2>4, RuntimesStay
<1>3. ASSUME NEW kind \in Ordinary \cup {None}, TurnEnd(a, kind) PROVE Runtimes'
  <2>1. turn[s].open \in 1..MaxTurn
    BY <1>1, <1>3, EventsAssumption DEF TurnEnd, TypeOK
  <2>2. \A x : AgentOf(x)' = AgentOf(x)
    BY <1>1, <1>3, <2>1, TurnEndAgents DEF TurnEnd
  <2>3. /\ ~disposed /\ ~NothingYet(s)
        /\ \A x \in Session \ {s} : NothingYet(x) => NothingYet(x)'
        /\ UNCHANGED <<agents, deadAgents, disposed>>
    BY <1>3 DEF TurnEnd, TypeOK, NothingYet
  <2>4. QED
    BY <2>2, <2>3, RuntimesStay
<1>4. ASSUME NEW kind \in Ordinary \cup {None}, RepeatTurnEnd(a, kind) PROVE Runtimes'
  <2>1. turn[s].last \in 1..MaxTurn
    BY <1>1, <1>4, EventsAssumption DEF RepeatTurnEnd, TypeOK
  <2>2. \A x : AgentOf(x)' = AgentOf(x)
    BY <1>1, <1>4, <2>1, TurnEndAgents DEF RepeatTurnEnd
  <2>3. UNCHANGED <<agents, deadAgents, disposed, turn, goalDone>>
    BY <1>4 DEF RepeatTurnEnd, worldVars
  <2>4. QED
    BY <2>2, <2>3, RuntimesStay DEF NothingYet
<1>5. QED
  BY <1>2, <1>3, <1>4

\* A session of a subagent may lose its runtime, but gets none.
LEMMA SubagentRuntimes ==
  ASSUME TypeOK, Runtimes, NEW s \in Session, s \in Child,
         UNCHANGED <<agents, deadAgents, disposed, turn, goalDone>>,
         \A x : AgentOf(x)' = AgentOf(x) \/ (x = s /\ AgentOf(x)' = None)
  PROVE  Runtimes'
BY RuntimesStay DEF NothingYet

LEMMA SubagentStepRuntimes ==
  ASSUME TypeOK, Runs, Runtimes, NEW s \in Session,
         \/ \E r \in Run : SubagentStart(s, r)
         \/ \E kind \in {"subagent", "failed", None} : SubagentEnd(s, kind)
  PROVE  Runtimes'
<1>1. /\ s \in Child
      /\ UNCHANGED <<agents, deadAgents, disposed, turn, goalDone>>
  BY DEF SubagentStart, SubagentEnd, Runs, TypeOK
<1>2. ASSUME IF s \in DOMAIN sessions THEN Remember(s, Reset(sessions[s]))
                                      ELSE UNCHANGED sessions
      PROVE  \A x : AgentOf(x)' = AgentOf(x)
  <2>1. CASE s \in DOMAIN sessions
    <3>1. Reset(sessions[s]).agent = sessions[s].agent
      BY <2>1, ResetIs DEF TypeOK
    <3>2. QED
      BY <1>2, <2>1, <3>1, RememberAgent DEF AgentOf
  <2>2. CASE s \notin DOMAIN sessions
    BY <1>2, <2>2 DEF AgentOf
  <2>3. QED
    BY <2>1, <2>2
<1>3. CASE \E r \in Run : SubagentStart(s, r)
  BY <1>1, <1>2, <1>3, SubagentRuntimes DEF SubagentStart
<1>4. ASSUME NEW kind \in {"subagent", "failed", None}, SubagentEnd(s, kind)
      PROVE  Runtimes'
  <2> DEFINE v == [Reset(Known(s)) EXCEPT !.subagentRun = run[s].id, !.agent = None,
                                          !.event = kind]
             w == Schedule(v)
             m == Set(sessions, s, w)
             ended == {x \in DOMAIN sessions : sessions[x].subagentRun # None}
             r == DropPairs(later, {s}) \cup (ended \ {s}) \X {s}
             X == Evicted(m, r)
  <2>1. \/ IF s \in DOMAIN sessions THEN Remember(s, Reset(sessions[s]))
                                    ELSE UNCHANGED sessions
        \/ UNCHANGED sessions
        \/ sessions' = Drop(m, X)
    BY <1>4 DEF SubagentEnd
  <2>2. CASE sessions' = Drop(m, X)
    <3>1. w.agent = None
      <4>1. Reset(Known(s)) \in SessionState
        BY KnownIs, ResetIs
      <4>2. kind \in Kind \cup {None} /\ run[s].id \in Run \cup {None}
        BY DEF Kind, Ordinary, TypeOK
      <4>3. v \in SessionState /\ v.agent = None
        BY <4>1, <4>2 DEF SessionState
      <4>4. QED
        BY <4>3, ScheduleIs
    <3> HIDE DEF w
    <3>2. /\ DOMAIN m = DOMAIN sessions \cup {s} /\ m[s] = w
          /\ \A x \in DOMAIN sessions \ {s} : m[x] = sessions[x]
      BY DEF Set
    <3>3. \A x \in X : x \in DOMAIN m /\ m[x].agent = None
      BY DEF Evicted, Detached
    <3> HIDE DEF m, X
    <3>4. /\ DOMAIN sessions' = DOMAIN m \ X
          /\ \A x \in DOMAIN m \ X : sessions'[x] = m[x]
      BY <2>2 DEF Drop
    <3>5. \A x : AgentOf(x)' = AgentOf(x) \/ (x = s /\ AgentOf(x)' = None)
      BY <3>1, <3>2, <3>3, <3>4 DEF AgentOf
    <3>6. QED
      BY <1>1, <3>5, SubagentRuntimes
  <2>3. CASE UNCHANGED sessions
    BY <1>1, <2>3, SubagentRuntimes DEF AgentOf
  <2> HIDE DEF m, X
  <2>4. QED
    BY <1>1, <1>2, <2>1, <2>2, <2>3, SubagentRuntimes
<1>5. QED
  BY <1>3, <1>4

LEMMA RuntimesNext ==
  ASSUME TypeOK, Runs, Runtimes, [Next]_vars
  PROVE  Runtimes'
<1>1. CASE UNCHANGED <<sessions, agents, deadAgents, disposed, turn, goalDone>>
  BY <1>1, RuntimesStay DEF AgentOf, NothingYet
<1>2. CASE UNCHANGED vars
  BY <1>1, <1>2 DEF vars, notifierVars, worldVars
<1>3. ASSUME NEW a \in Agent,
             \/ \E status \in {"idle", "running"} : Appear(a, status)
             \/ ChangeStatus(a) \/ AgentStatus(a) \/ AgentDisposed(a)
             \/ \E n \in 1..MaxTurn : TurnStart(a, n)
             \/ \E kind \in Ordinary \cup {None} :
                  TurnEnd(a, kind) \/ RepeatTurnEnd(a, kind)
             \/ \E phase \in {"active", "complete", "blocked"} : ChangeGoal(a, phase)
             \/ GoalChanged(a)
      PROVE  Runtimes'
  <2>1. CASE \E phase \in {"active", "complete", "blocked"} : ChangeGoal(a, phase)
    BY <1>1, <2>1 DEF ChangeGoal, notifierVars
  <2>2. QED
    BY <1>3, <2>1, AppearRuntimes, ChangeStatusRuntimes, AgentStatusRuntimes,
       AgentDisposedRuntimes, TurnRuntimes, GoalChangedRuntimes
<1>4. ASSUME NEW s \in Session, IdleTimer(s) PROVE Runtimes'
  <2>1. s \in DOMAIN sessions /\ sessions[s] \in SessionState
    BY <1>4 DEF IdleTimer, TypeOK
  <2>2. \E w : Remember(s, w) /\ w.agent = sessions[s].agent
    <3> DEFINE fired == [sessions[s] EXCEPT !.timer = FALSE]
    <3>1. fired \in SessionState /\ fired.agent = sessions[s].agent
      BY <2>1 DEF SessionState
    <3>2. \/ Remember(s, fired) \/ Remember(s, [fired EXCEPT !.event = None])
          \/ \E h \in Handle \cup {None} :
               Remember(s, [fired EXCEPT !.event = None, !.queued = h])
      BY <1>4 DEF IdleTimer
    <3> HIDE DEF fired
    <3>3. /\ [fired EXCEPT !.event = None].agent = sessions[s].agent
          /\ \A h : [fired EXCEPT !.event = None, !.queued = h].agent
                      = sessions[s].agent
      BY <3>1 DEF SessionState
    <3>4. QED
      BY <3>1, <3>2, <3>3
  <2>3. \A x : AgentOf(x)' = AgentOf(x)
    BY <2>1, <2>2, RememberAgent DEF AgentOf
  <2>4. UNCHANGED <<agents, deadAgents, disposed, turn, goalDone>>
    BY <1>4 DEF IdleTimer, worldVars
  <2>5. QED
    BY <2>3, <2>4, RuntimesStay DEF NothingYet
<1>5. ASSUME NEW q \in Request,
             \/ \E a \in Agent, aborted \in BOOLEAN : Ask(q, a, aborted)
             \/ Settle(q) \/ RequestTimer(q)
      PROVE  Runtimes'
  BY <1>1, <1>5 DEF Ask, Settle, RequestTimer, worldVars
<1>6. CASE \/ \E h \in Handle : BrokerDrops(h)
           \/ \E c \in Settings : SetConfig(c)
  BY <1>1, <1>6 DEF BrokerDrops, SetConfig, worldVars
<1>7. CASE Dispose
  <2>1. /\ disposed' /\ \A x : AgentOf(x)' = None
        /\ UNCHANGED <<agents, deadAgents, turn, goalDone>>
    BY <1>7 DEF Dispose, worldVars, NoMap, AgentOf
  <2>2. QED
    BY <2>1, RuntimesStay DEF NothingYet
<1>8. QED
  BY <1>2, <1>3, <1>4, <1>5, <1>6, <1>7, SubagentStepRuntimes DEF Next

-----------------------------------------------------------------------------
(* The theorems *)

LEMMA NextKeeps == IInv /\ Runtimes /\ [Next]_vars => IInv'
<1> SUFFICES ASSUME IInv, Runtimes, [Next]_vars PROVE IInv'
  OBVIOUS
<1>1. CASE UNCHANGED vars
  <2>1. TypeOK'
    BY <1>1 DEF IInv, vars, notifierVars, worldVars, TypeOK
  <2>2. Owners' /\ Asked' /\ Turns' /\ Goals' /\ Begun' /\ Runs'
        /\ (told \cap Child = {})'
    BY <1>1 DEF IInv, vars, notifierVars, worldVars, Owners, Present,
                Asked, Turns, Goals, Begun, Runs
  <2>3. Entries' /\ Alerts'
    BY <1>1 DEF IInv, vars, notifierVars, worldVars, Entries, Entry, Alerts,
                OfRequest, OfSession, QuietRuntime, Acting, Present, Holds, LastHeard
  <2>4. QED
    BY <2>1, <2>2, <2>3 DEF IInv
<1>2. ASSUME NEW a \in Agent,
             \/ \E status \in {"idle", "running"} : Appear(a, status)
             \/ ChangeStatus(a) \/ AgentStatus(a) \/ AgentDisposed(a)
             \/ \E n \in 1..MaxTurn : TurnStart(a, n)
             \/ \E kind \in Ordinary \cup {None} :
                  TurnEnd(a, kind) \/ RepeatTurnEnd(a, kind)
             \/ \E phase \in {"active", "complete", "blocked"} : ChangeGoal(a, phase)
             \/ GoalChanged(a)
      PROVE  IInv'
  BY <1>2, AppearKeeps, ChangeStatusKeeps, AgentStatusKeeps, AgentDisposedKeeps,
     TurnStartKeeps, TurnEndKeeps, RepeatTurnEndKeeps, ChangeGoalKeeps,
     GoalChangedKeeps
<1>3. ASSUME NEW s \in Session,
             \/ \E r \in Run : SubagentStart(s, r)
             \/ \E kind \in {"subagent", "failed", None} : SubagentEnd(s, kind)
             \/ IdleTimer(s)
      PROVE  IInv'
  BY <1>3, SubagentStartKeeps, SubagentEndKeeps, IdleTimerKeeps
<1>4. ASSUME NEW q \in Request,
             \/ \E a \in Agent, aborted \in BOOLEAN : Ask(q, a, aborted)
             \/ Settle(q) \/ RequestTimer(q)
      PROVE  IInv'
  BY <1>4, AskKeeps, SettleKeeps, RequestTimerKeeps
<1>5. CASE \/ \E h \in Handle : BrokerDrops(h)
           \/ \E c \in Settings : SetConfig(c)
           \/ Dispose
  BY <1>5, BrokerDropsKeeps, SetConfigKeeps, DisposeKeeps
<1>6. QED
  BY <1>1, <1>2, <1>3, <1>4, <1>5 DEF Next

LEMMA Invariant == Spec => []IInv
<1>1. Init => IInv /\ Runtimes
  BY InitHolds, InitRuntimes
<1>2. IInv /\ Runtimes /\ [Next]_vars => (IInv /\ Runtimes)'
  BY NextKeeps, RuntimesNext DEF IInv
<1>3. QED
  BY <1>1, <1>2, PTL DEF Spec

\* The variables keep their types.
THEOREM TypeCorrect == Spec => []TypeOK
<1>1. IInv => TypeOK
  BY DEF IInv
<1>2. QED
  BY <1>1, Invariant, PTL

\* What a queued alert says is so: a runtime of its session lives and the one that
\* goes on is idle, no turn of the session is open, the goal is in the phase it
\* names and the request waits, however events, timers, disposals, withdrawals and
\* successions of runtimes interleave.
THEOREM AlertsAreCurrent == Spec => []AlertIsCurrent
<1>1. IInv => AlertIsCurrent
  <2> SUFFICES ASSUME IInv, NEW h \in DOMAIN live
               PROVE
                 LET alert == live[h]
                     s == alert.about
                 IN  /\ alert.kind # "request" /\ alert.agent # None =>
                          /\ \E a \in Agent : SessionOf[a] = s /\ Present(a)
                          /\ \A a \in Agent : SessionOf[a] = s /\ Acting(a) =>
                               agents[a].status = "idle" \/ ~agents[a].said
                     /\ alert.kind \in Ordinary /\ s \notin Child => turn[s].open = 0
                     /\ alert.kind = "goal-complete" =>
                          goal[s].phase = "complete" \/ ~goal[s].said
                     /\ alert.kind = "goal-blocked" =>
                          goal[s].phase = "blocked" \/ ~goal[s].said
                     /\ alert.kind = "request" =>
                          human[s] = "waiting" /\ alert.agent \notin deadAgents
                     /\ s \in Child => ~run[s].going
    BY DEF AlertIsCurrent
  <2>1. CASE live[h].kind = "request"
    <3>1. /\ OfRequest(h) /\ live[h].about \in DOMAIN requests
          /\ live[h].about \notin Child
      BY <2>1, EventsAssumption DEF IInv, Alerts, OfRequest, TypeOK
    <3>2. QED
      BY <2>1, <3>1 DEF IInv, Asked, OfRequest, Ordinary
  <2>2. CASE live[h].kind # "request"
    <3> DEFINE s == live[h].about
    <3>1. OfSession(h)
      BY <2>2 DEF IInv, Alerts
    <3>2. ASSUME live[h].agent # None
          PROVE  \E a \in Agent : SessionOf[a] = s /\ Present(a)
      <4>1. s \in DOMAIN sessions /\ sessions[s].agent # None
        BY <3>1, <3>2 DEF OfSession
      <4>2. sessions[s].agent \in Agent
        BY <4>1 DEF IInv, TypeOK, SessionState
      <4>3. QED
        BY <4>1, <4>2 DEF IInv, Owners
    <3>3. live[h].agent # None =>
            \A a \in Agent : SessionOf[a] = s /\ Acting(a) =>
              agents[a].status = "idle" \/ ~agents[a].said
      BY <3>1 DEF OfSession, QuietRuntime
    <3>4. QED
      BY <2>2, <3>1, <3>2, <3>3 DEF OfSession, Holds, LastHeard
  <2>3. QED
    BY <2>1, <2>2
<1>2. QED
  BY <1>1, Invariant, PTL

\* After its goal ended, a session has no alert about a turn, and will get none,
\* until something new begins.
THEOREM GoalsSpeakAlone == Spec => []GoalSpeaksAlone
<1>1. IInv => GoalSpeaksAlone
  <2> SUFFICES ASSUME IInv, NEW s \in goalDone
               PROVE  /\ s \in DOMAIN sessions => sessions[s].event \notin Ordinary
                      /\ \A h \in DOMAIN live :
                           live[h].about = s => live[h].kind \notin Ordinary
    BY DEF GoalSpeaksAlone
  <2>1. s \in DOMAIN sessions => sessions[s].goalTerminal
    BY DEF IInv, Goals
  <2>2. s \in DOMAIN sessions => sessions[s].event \notin Ordinary
    BY <2>1, EventsAssumption DEF IInv, Entries, Entry, Holds, Kind
  <2>3. ASSUME NEW h \in DOMAIN live, live[h].about = s
        PROVE  live[h].kind \notin Ordinary
    BY <2>1, <2>3 DEF IInv, Alerts, OfSession, QuietRuntime, Acting, Present, Holds, Ordinary
  <2>4. QED
    BY <2>2, <2>3
<1>2. QED
  BY <1>1, Invariant, PTL

\* Every queued alert has a holder that can withdraw it, whatever was evicted,
\* disposed or superseded.
THEOREM NoAlertIsOrphaned == Spec => []NoOrphanAlert
<1>1. IInv => NoOrphanAlert
  BY DEF IInv, Alerts, OfRequest, OfSession, NoOrphanAlert
<1>2. QED
  BY <1>1, Invariant, PTL

\* Only the two timers hand alerts to the broker.
LEMMA OnlyTimersPublish ==
  ASSUME [Next]_vars,
         \A s \in Session : ~IdleTimer(s),
         \A q \in Request : ~RequestTimer(q)
  PROVE  DOMAIN live' \subseteq DOMAIN live
<1>1. CASE UNCHANGED live
  BY <1>1
<1>2. ASSUME NEW S, NEW Q, Retract(S, Q) PROVE DOMAIN live' \subseteq DOMAIN live
  BY <1>2, RetractIs
<1>3. CASE UNCHANGED vars
  BY <1>3 DEF vars, notifierVars
<1>4. ASSUME NEW a \in Agent,
             \/ \E status \in {"idle", "running"} : Appear(a, status)
             \/ ChangeStatus(a) \/ AgentStatus(a) \/ AgentDisposed(a)
             \/ \E n \in 1..MaxTurn : TurnStart(a, n)
             \/ \E kind \in Ordinary \cup {None} :
                  TurnEnd(a, kind) \/ RepeatTurnEnd(a, kind)
             \/ \E phase \in {"active", "complete", "blocked"} : ChangeGoal(a, phase)
             \/ GoalChanged(a)
      PROVE  UNCHANGED live \/ \E S, Q : Retract(S, Q)
  <2>1. CASE \/ \E status \in {"idle", "running"} : Appear(a, status)
             \/ ChangeStatus(a)
             \/ \E phase \in {"active", "complete", "blocked"} : ChangeGoal(a, phase)
    BY <2>1 DEF Appear, ChangeStatus, ChangeGoal, notifierVars
  <2>2. CASE \/ AgentStatus(a) \/ AgentDisposed(a)
             \/ \E n \in 1..MaxTurn : TurnStart(a, n)
    BY <2>2 DEF AgentStatus, AgentDisposed, TurnStart
  <2>3. CASE \E kind \in Ordinary \cup {None} :
               TurnEnd(a, kind) \/ RepeatTurnEnd(a, kind)
    BY <2>3 DEF TurnEnd, RepeatTurnEnd, HearTurnEnd
  <2>4. CASE GoalChanged(a)
    BY <2>4 DEF GoalChanged
  <2>5. QED
    BY <1>4, <2>1, <2>2, <2>3, <2>4
<1>5. ASSUME NEW s \in Session,
             \/ \E r \in Run : SubagentStart(s, r)
             \/ \E kind \in {"subagent", "failed", None} : SubagentEnd(s, kind)
      PROVE  UNCHANGED live \/ \E S, Q : Retract(S, Q)
  BY <1>5 DEF SubagentStart, SubagentEnd
<1>6. ASSUME NEW q \in Request,
             \/ \E a \in Agent, aborted \in BOOLEAN : Ask(q, a, aborted)
             \/ Settle(q)
      PROVE  UNCHANGED live \/ \E S, Q : Retract(S, Q)
  BY <1>6 DEF Ask, Settle
<1>7. CASE \/ \E c \in Settings : SetConfig(c)
           \/ Dispose
  BY <1>1, <1>2, <1>7 DEF SetConfig, Dispose
<1>8. ASSUME NEW h \in Handle, BrokerDrops(h) PROVE DOMAIN live' \subseteq DOMAIN live
  BY <1>8 DEF BrokerDrops, Drop
<1>9. QED
  BY <1>1, <1>2, <1>3, <1>4, <1>5, <1>6, <1>7, <1>8 DEF Next

\* What a timer publishes is about its session or its request.
LEMMA NewAlerts ==
  ASSUME IInv, NEW s \in told, NEW h \in DOMAIN live' \ DOMAIN live,
         live'[h].about = s, [Next]_vars
  PROVE  live'[h].kind \notin Ordinary
<1>1. \A x \in DOMAIN sessions : x \in told => sessions[x].event \notin Ordinary
  BY DEF IInv, TypeOK, Turns
<1>2. ASSUME NEW x \in Session, IdleTimer(x) PROVE live'[h].kind \notin Ordinary
  <2> DEFINE alert == [about |-> x, kind |-> sessions[x].event,
                       agent |-> sessions[x].agent]
  <2>1. x \in DOMAIN sessions
    BY <1>2 DEF IdleTimer
  <2>2. PICK k \in Handle \cup {None} : Publish(alert, k)
    BY <1>2 DEF IdleTimer
  <2>3. alert.about = x /\ alert.kind = sessions[x].event
    OBVIOUS
  <2> HIDE DEF alert
  <2>4. live'[h] = alert
    BY <2>2, PublishIs
  <2>5. QED
    BY <1>1, <2>1, <2>3, <2>4
<1>3. ASSUME NEW q \in Request, RequestTimer(q) PROVE live'[h].kind \notin Ordinary
  <2> DEFINE alert == [about |-> q, kind |-> "request", agent |-> requests[q].agent]
  <2>1. PICK k \in Handle \cup {None} : Publish(alert, k)
    BY <1>3 DEF RequestTimer
  <2>2. alert.kind = "request"
    OBVIOUS
  <2> HIDE DEF alert
  <2>3. live'[h] = alert
    BY <2>1, PublishIs
  <2>4. QED
    BY <2>2, <2>3 DEF Ordinary
<1>4. QED
  BY <1>2, <1>3, OnlyTimersPublish

\* A turn is reported once, however often its end is announced and whatever
\* happens in between.
THEOREM TurnsAreToldOnce == Spec => OneAlertPerTurn
<1>1. IInv /\ [Next]_vars =>
        [\A s \in Session \cap told :
           s \in told' => \A h \in DOMAIN live' \ DOMAIN live :
             ~(live'[h].about = s /\ live'[h].kind \in Ordinary)]_vars
  BY NewAlerts
<1>2. QED
  BY <1>1, Invariant, PTL DEF Spec, OneAlertPerTurn

=============================================================================
