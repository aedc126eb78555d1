------------------------ MODULE DecisionService_proofs ------------------------
(***************************************************************************)
(* Proofs about DecisionService for any providers, browsers, requests and  *)
(* bounds: endpoint and key of a provider agree between changes, a request *)
(* carries the pair that was saved together, and a change commits on the   *)
(* settings its editor was shown.                                          *)
(***************************************************************************)
EXTENDS DecisionService, TLAPS

\* The types, with the domains of the functions.
Types ==
  /\ config \in [Provider -> Url \cup {None}]
  /\ keys \in [Provider -> Key \cup {None}]
  /\ boot \in 0..MaxBoot /\ generation \in 0..MaxGeneration
  /\ disposed \in BOOLEAN
  /\ queue \in Seq(Task)
  /\ stage \in {"waiting", "reading", "keying", "saving", "restoring"}
  /\ base \in [Provider -> Url \cup {None}] \cup {None}
  /\ oldKey \in Key \cup {None}
  /\ job \in [Editor -> Job \cup {None}]
  /\ view \in [Editor -> Revision \cup {None}]
  /\ calls \in [Evaluation -> Call \cup {None}]
  /\ saved \in [Provider -> [url: Url \cup {None}, key: Key \cup {None}]]
  /\ outside \in 0..MaxOutside
  /\ torn \subseteq Provider

\* A change is past its point of no return for the key, or on its way there.
Changing == stage \in {"keying", "saving", "restoring"}
Under(p) == Changing /\ job[Head(queue)].provider = p

\* Nothing waits twice; who waits has a job, or a call that was not read yet.
Waits(v) == calls[v] # None /\ calls[v].stage \in {"queued", "gone"}
Once == \A m, n \in 1..Len(queue) : queue[m] = queue[n] => m = n
Waiting ==
  \A n \in 1..Len(queue) : /\ queue[n] \in Editor => job[queue[n]] # None
                           /\ queue[n] \in Evaluation => Waits(queue[n])
Turns ==
  /\ stage # "waiting" => queue # <<>>
  /\ Changing => Head(queue) \in Editor
Queue == Once /\ Waiting /\ Turns

\* What an editor was shown lies in the past, and a change that has started is
\* based on the revision it names.
Shown ==
  /\ \A e \in Editor : view[e] # None =>
       view[e].boot <= boot /\ (view[e].boot = boot => view[e].generation <= generation)
  /\ \A e \in Editor : job[e] # None /\ job[e].revision.boot = boot =>
       job[e].revision.generation < MaxGeneration
  /\ stage # "waiting" /\ Head(queue) \in Editor =>
       job[Head(queue)].revision =
         [boot |-> boot, generation |-> generation, config |-> base]

\* The stores at each stage of a change, where nobody interfered.
Agree ==
  \A p \in Provider \ torn :
    /\ saved[p].url = config[p]
    /\ ~Under(p) => saved[p].key = keys[p]
    /\ Under(p) => /\ saved[p].key = oldKey
                   /\ stage = "keying" => keys[p] = oldKey
                   /\ stage = "saving" => keys[p] = NextKey(job[Head(queue)], oldKey)

\* What a request carries, until it is answered.
Carried(v) == calls[v] # None /\ calls[v].stage \in {"ready", "sent"}
Carries ==
  \A v \in Evaluation : Carried(v) =>
    LET p == calls[v].provider
    IN  ~Under(p) /\ (p \notin torn =>
                        saved[p] = [url |-> calls[v].url, key |-> calls[v].key])
Unloaded ==
  disposed => /\ \A v \in Evaluation : ~Carried(v)
              /\ ~(stage = "reading" /\ Head(queue) \in Evaluation)

Base == Types /\ Queue /\ Shown
IInv == Base /\ Agree /\ Carries /\ Unloaded

-----------------------------------------------------------------------------
(* The queue *)

LEMMA AppendFacts ==
  ASSUME NEW S, NEW q \in Seq(S), NEW x \in S
  PROVE  /\ Append(q, x) \in Seq(S)
         /\ Len(Append(q, x)) = Len(q) + 1
         /\ \A n \in 1..Len(q) : Append(q, x)[n] = q[n]
         /\ Append(q, x)[Len(q) + 1] = x
         /\ Append(q, x) # <<>>
         /\ q # <<>> => Head(Append(q, x)) = Head(q)
<1>1. /\ Append(q, x) \in Seq(S) /\ Len(Append(q, x)) = Len(q) + 1 /\ Len(q) \in Nat
      /\ \A n \in 1..Len(q) : Append(q, x)[n] = q[n]
      /\ Append(q, x)[Len(q) + 1] = x
  OBVIOUS
<1>2. Append(q, x) # <<>>
  <2>1. Len(<<>>) = 0 /\ Len(Append(q, x)) # 0
    BY <1>1
  <2>2. QED
    BY <2>1
<1>3. q # <<>> => Head(Append(q, x)) = Head(q)
  OBVIOUS
<1>4. QED
  BY <1>1, <1>2, <1>3

LEMMA TailFacts ==
  ASSUME NEW S, NEW q \in Seq(S), q # <<>>
  PROVE  /\ Tail(q) \in Seq(S)
         /\ Len(q) >= 1
         /\ Len(Tail(q)) = Len(q) - 1
         /\ \A n \in 1..Len(Tail(q)) : Tail(q)[n] = q[n + 1]
         /\ Head(q) = q[1] /\ Head(q) \in S
OBVIOUS

LEMMA InitHolds == Init => IInv
<1> SUFFICES ASSUME Init PROVE IInv
  OBVIOUS
<1>1. Types
  <2>1. queue \in Seq(Task)
    BY DEF Init
  <2>2. saved \in [Provider -> [url: Url \cup {None}, key: Key \cup {None}]]
    BY DEF Init
  <2>3. config \in [Provider -> Url \cup {None}] /\ keys \in [Provider -> Key \cup {None}]
    BY DEF Init, Absent
  <2>4. /\ job \in [Editor -> Job \cup {None}] /\ view \in [Editor -> Revision \cup {None}]
        /\ calls \in [Evaluation -> Call \cup {None}]
    BY DEF Init
  <2>5. boot \in 0..MaxBoot /\ generation \in 0..MaxGeneration /\ outside \in 0..MaxOutside
    BY DecisionAssumption DEF Init
  <2>6. /\ stage \in {"waiting", "reading", "keying", "saving", "restoring"}
        /\ base \in [Provider -> Url \cup {None}] \cup {None} /\ oldKey \in Key \cup {None}
        /\ torn \subseteq Provider /\ disposed \in BOOLEAN
    BY DEF Init
  <2>7. QED
    BY <2>1, <2>2, <2>3, <2>4, <2>5, <2>6 DEF Types
<1>2. Queue /\ Shown
  BY DEF Init, Queue, Once, Waiting, Turns, Shown, Changing
<1>3. Agree /\ Carries /\ Unloaded
  BY DEF Init, Agree, Carries, Carried, Unloaded, Under, Changing, Absent
<1>4. QED
  BY <1>1, <1>2, <1>3 DEF IInv, Base

-----------------------------------------------------------------------------
(* The types *)

LEMMA NextKeyTyped ==
  ASSUME NEW j \in Job, NEW old \in Key \cup {None}
  PROVE  NextKey(j, old) \in Key \cup {None}
BY DEF NextKey, Job

LEMMA CancelledTyped ==
  ASSUME NEW cs \in [Evaluation -> Call \cup {None}], NEW P
  PROVE  /\ Cancelled(cs, P) \in [Evaluation -> Call \cup {None}]
         /\ \A v \in Evaluation :
              \/ Cancelled(cs, P)[v] = cs[v]
              \/ /\ cs[v] # None /\ cs[v].provider \in P
                 /\ cs[v].stage \in {"queued", "gone"}
                 /\ Cancelled(cs, P)[v] # None
                 /\ Cancelled(cs, P)[v].stage = "gone"
                 /\ Cancelled(cs, P)[v].provider = cs[v].provider
              \/ /\ cs[v] # None /\ cs[v].provider \in P
                 /\ cs[v].stage \in {"ready", "sent"}
                 /\ Cancelled(cs, P)[v] = None
         /\ \A v \in Evaluation :
              Cancelled(cs, P)[v] # None /\ Cancelled(cs, P)[v].stage \in {"ready", "sent"}
              => cs[v].provider \notin P
<1>1. \A v \in Evaluation : cs[v] # None => [cs[v] EXCEPT !.stage = "gone"] \in Call
  BY DEF Call
<1>2. Call \cap {None} = {}
  BY DecisionAssumption
<1>3. QED
  BY <1>1, <1>2 DEF Cancelled, Call

\* The turn passes on.
LEMMA TurnTypes ==
  ASSUME Types, NextTurn, queue # <<>>
  PROVE  /\ queue' \in Seq(Task) /\ stage' = "waiting"
         /\ base' \in [Provider -> Url \cup {None}] \cup {None}
         /\ oldKey' \in Key \cup {None}
<1>1. Tail(queue) \in Seq(Task)
  BY TailFacts DEF Types
<1>2. QED
  BY <1>1 DEF NextTurn

\* A browser that has the turn asks for a change.
LEMMA TurnFacts ==
  ASSUME Types, NEW e \in Editor, NEW s, Turn(e, s)
  PROVE  /\ queue # <<>> /\ Head(queue) = e /\ stage = s /\ job[e] # None
         /\ job[e] \in Job /\ job[e].provider \in Provider
         /\ job[e].url \in Url \cup {None}
         /\ job[e].revision \in Revision
BY DEF Types, Turn, Job

LEMMA EndJobTypes ==
  ASSUME Types, NEW e \in Editor, EndJob(e), queue # <<>>
  PROVE  /\ queue' \in Seq(Task) /\ stage' = "waiting"
         /\ base' \in [Provider -> Url \cup {None}] \cup {None}
         /\ oldKey' \in Key \cup {None}
         /\ job' \in [Editor -> Job \cup {None}]
<1>1. job' \in [Editor -> Job \cup {None}]
  BY DEF EndJob, Types
<1>2. NextTurn
  BY DEF EndJob
<1>3. QED
  BY <1>1, <1>2, TurnTypes

\* A change can only start from a revision that leaves room for another.
LEMMA RoomForOne ==
  ASSUME Base, NEW e \in Editor, NEW s, Turn(e, s), s # "waiting"
  PROVE  generation + 1 \in 0..MaxGeneration
<1>1. job[e].revision.boot = boot /\ job[e].revision.generation = generation
  BY TurnFacts DEF Base, Shown
<1>2. generation < MaxGeneration
  BY <1>1, TurnFacts DEF Base, Shown
<1>3. QED
  BY <1>2, DecisionAssumption DEF Base, Types

LEMMA TypesOfEditors ==
  ASSUME Base, NEW e \in Editor,
         \/ FetchState(e) \/ StartJob(e) \/ ReadOldKey(e) \/ WriteKey(e)
         \/ WriteConfig(e) \/ FailConfig(e) \/ RestoreKey(e)
  PROVE  Types'
<1> USE DEF ghosts, queueVars
<1>0. Types
  BY DEF Base
<1>1. CASE FetchState(e)
  <2>1. CurrentRevision \in Revision
    BY <1>0 DEF Types, CurrentRevision, Revision
  <2>2. QED
    BY <1>0, <1>1, <2>1 DEF FetchState, Types
<1>2. CASE StartJob(e)
  <2>1. CASE EndJob(e)
    BY <1>0, <1>2, <2>1, EndJobTypes, TurnFacts DEF StartJob, Types
  <2>2. CASE ~EndJob(e)
    BY <1>0, <1>2, <2>2 DEF StartJob, Types
  <2>3. QED
    BY <2>1, <2>2
<1>3. CASE ReadOldKey(e)
  <2>1. CASE EndJob(e) /\ UNCHANGED calls
    BY <1>0, <1>3, <2>1, EndJobTypes, TurnFacts DEF ReadOldKey, Types
  <2>2. CASE ~(EndJob(e) /\ UNCHANGED calls)
    <3>1. calls' \in [Evaluation -> Call \cup {None}]
      BY <1>0, <1>3, <2>2, CancelledTyped DEF ReadOldKey, Types
    <3>2. keys[job[e].provider] \in Key \cup {None}
      BY <1>0, <1>3, TurnFacts DEF ReadOldKey, Types
    <3>3. oldKey' \in Key \cup {None}
      BY <1>3, <2>2, <3>2 DEF ReadOldKey
    <3>4. stage' \in {"keying", "saving"} /\ UNCHANGED <<queue, base, job>>
      BY <1>3, <2>2 DEF ReadOldKey
    <3>5. QED
      BY <1>0, <1>3, <3>1, <3>3, <3>4 DEF ReadOldKey, Types
  <2>3. QED
    BY <2>1, <2>2
<1>4. CASE WriteKey(e)
  <2> DEFINE p == job[e].provider
             written == [keys EXCEPT ![p] = NextKey(job[e], oldKey)]
  <2>1. NextKey(job[e], oldKey) \in Key \cup {None}
    BY <1>0, <1>4, TurnFacts, NextKeyTyped DEF WriteKey, Types
  <2>2. written \in [Provider -> Key \cup {None}]
    BY <1>0, <2>1 DEF Types
  <2>3. keys' \in {keys, written} /\ stage' \in {"saving", "restoring"}
    BY <1>4 DEF WriteKey
  <2> HIDE DEF written
  <2>4. QED
    BY <1>0, <1>4, <2>2, <2>3 DEF WriteKey, Types
<1>5. CASE WriteConfig(e)
  <2>1. config' \in [Provider -> Url \cup {None}]
    BY <1>0, <1>5, TurnFacts DEF WriteConfig, UnchangedSince, Types
  <2>2. NextKey(job[e], oldKey) \in Key \cup {None}
    BY <1>0, <1>5, TurnFacts, NextKeyTyped DEF WriteConfig, Types
  <2>3. saved' \in [Provider -> [url: Url \cup {None}, key: Key \cup {None}]]
    BY <1>0, <1>5, <2>2, TurnFacts DEF WriteConfig, Types
  <2>4. generation' \in 0..MaxGeneration
    BY <1>5, RoomForOne DEF WriteConfig
  <2>5. torn' \subseteq Provider
    BY <1>0, <1>5 DEF WriteConfig, Types
  <2>6. QED
    BY <1>0, <1>5, <2>1, <2>3, <2>4, <2>5, EndJobTypes, TurnFacts DEF WriteConfig, Types
<1>6. CASE FailConfig(e)
  <2>1. CASE EndJob(e) /\ generation' = generation + 1
    BY <1>0, <1>6, <2>1, EndJobTypes, RoomForOne, TurnFacts DEF FailConfig, Types
  <2>2. CASE ~(EndJob(e) /\ generation' = generation + 1)
    BY <1>0, <1>6, <2>2 DEF FailConfig, Types
  <2>3. QED
    BY <2>1, <2>2
<1>7. CASE RestoreKey(e)
  <2>1. keys' \in [Provider -> Key \cup {None}] /\ torn' \subseteq Provider
    BY <1>0, <1>7, TurnFacts DEF RestoreKey, Types
  <2>2. generation' \in 0..MaxGeneration
    BY <1>7, RoomForOne DEF RestoreKey
  <2>3. QED
    BY <1>0, <1>7, <2>1, <2>2, EndJobTypes, TurnFacts DEF RestoreKey, Types
<1>8. QED
  BY <1>1, <1>2, <1>3, <1>4, <1>5, <1>6, <1>7

LEMMA TypesOfSubmit ==
  ASSUME Types, NEW e \in Editor, NEW op \in {"create", "edit", "remove"},
         NEW p \in Provider, NEW url \in Url \cup {None},
         NEW key \in Key \cup {None, Keep}, Submit(e, op, p, url, key)
  PROVE  Types'
<1> DEFINE j == [op |-> op, provider |-> p, url |-> url, key |-> key, revision |-> view[e]]
<1>1. view[e] \in Revision
  BY DEF Submit, Types
<1>2. j \in Job
  BY <1>1 DEF Job
<1>3. job' = [job EXCEPT ![e] = j]
  BY DEF Submit
<1> HIDE DEF j
<1>4. job' \in [Editor -> Job \cup {None}]
  BY <1>2, <1>3 DEF Types
<1>5. queue' \in Seq(Task)
  BY AppendFacts DEF Submit, Types, Task
<1>6. QED
  BY <1>4, <1>5 DEF Submit, Types, ghosts

\* The evaluation at the head of the queue waits there.
LEMMA HeadWaits ==
  ASSUME Types, Waiting, queue # <<>>, Head(queue) \in Evaluation
  PROVE  /\ Waits(Head(queue)) /\ calls[Head(queue)] \in Call
         /\ calls[Head(queue)].provider \in Provider
<1>1. Head(queue) = queue[1] /\ Len(queue) >= 1
  BY TailFacts DEF Types
<1>2. Waits(Head(queue))
  BY <1>1 DEF Waiting, Types
<1>3. QED
  BY <1>2 DEF Types, Waits, Call

LEMMA TypesOfCalls ==
  ASSUME Types, Queue, NEW v \in Evaluation,
         \/ StartCall(v) \/ ReadConnection(v) \/ Send(v) \/ Answer(v) \/ Abort(v)
  PROVE  Types'
<1> USE DEF ghosts, queueVars
<1>0. Waiting
  BY DEF Queue
<1>1. CASE StartCall(v)
  <2>1. CASE NextTurn /\ calls' = [calls EXCEPT ![v] = None]
    BY <1>1, <2>1, TurnTypes DEF StartCall, Types
  <2>2. CASE ~(NextTurn /\ calls' = [calls EXCEPT ![v] = None])
    BY <1>1, <2>2 DEF StartCall, Types
  <2>3. QED
    BY <2>1, <2>2
<1>2. CASE ReadConnection(v)
  <2> DEFINE c == [stage |-> "ready", provider |-> calls[v].provider,
                   url |-> base[calls[v].provider], key |-> keys[calls[v].provider]]
  <2>1. calls[v].provider \in Provider
    BY <1>0, <1>2, HeadWaits DEF ReadConnection
  <2>2. config = base => c \in Call
    BY <2>1 DEF Types, Call
  <2>3. \/ calls' = [calls EXCEPT ![v] = c] /\ config = base
        \/ calls' = [calls EXCEPT ![v] = None]
    BY <1>2 DEF ReadConnection
  <2> HIDE DEF c
  <2>4. calls' \in [Evaluation -> Call \cup {None}]
    BY <2>2, <2>3 DEF Types
  <2>5. QED
    BY <1>2, <2>4, TurnTypes DEF ReadConnection, Types
<1>3. CASE Send(v)
  <2>1. [calls[v] EXCEPT !.stage = "sent"] \in Call
    BY <1>3 DEF Send, Types, Call
  <2>2. calls' \in [Evaluation -> Call \cup {None}]
    BY <1>3, <2>1 DEF Send, Types
  <2>3. QED
    BY <1>3, <2>2 DEF Send, Types
<1>4. CASE Answer(v)
  BY <1>4 DEF Answer, Types
<1>5. CASE Abort(v)
  <2>1. [calls[v] EXCEPT !.stage = "gone"] \in Call
    BY <1>5 DEF Abort, Active, Types, Call
  <2>2. calls' \in [Evaluation -> Call \cup {None}]
    BY <1>5, <2>1 DEF Abort, Types
  <2>3. CASE queue # <<>> /\ NextTurn
    BY <1>5, <2>2, <2>3, TurnTypes DEF Abort, Types
  <2>4. CASE UNCHANGED queueVars
    BY <1>5, <2>2, <2>4 DEF Abort, Types
  <2>5. QED
    BY <1>5, <2>3, <2>4 DEF Abort
<1>6. QED
  BY <1>1, <1>2, <1>3, <1>4, <1>5

LEMMA TypesOfOthers ==
  ASSUME Types, Queue,
         \/ \E v \in Evaluation, p \in Provider : Evaluate(v, p)
         \/ \E p \in Provider, url \in Url \cup {None} : OutsideEdit(p, url)
         \/ \E p \in Provider, key \in Key \cup {None} : OutsideKey(p, key)
         \/ Dispose \/ Restart
  PROVE  Types'
<1> USE DEF ghosts, queueVars
<1>1. CASE \E v \in Evaluation, p \in Provider : Evaluate(v, p)
  <2>1. PICK v \in Evaluation, p \in Provider : Evaluate(v, p)
    BY <1>1
  <2> DEFINE c == [stage |-> "queued", provider |-> p, url |-> None, key |-> None]
  <2>2. c \in Call
    BY DEF Call
  <2>3. calls' = [calls EXCEPT ![v] = c]
    BY <2>1 DEF Evaluate
  <2> HIDE DEF c
  <2>4. calls' \in [Evaluation -> Call \cup {None}]
    BY <2>2, <2>3 DEF Types
  <2>5. queue' \in Seq(Task)
    BY <2>1, AppendFacts DEF Evaluate, Types, Task
  <2>6. QED
    BY <2>1, <2>4, <2>5 DEF Evaluate, Types
<1>2. CASE \E p \in Provider, url \in Url \cup {None} : OutsideEdit(p, url)
  BY <1>2, DecisionAssumption DEF OutsideEdit, Types
<1>3. CASE \E p \in Provider, key \in Key \cup {None} : OutsideKey(p, key)
  BY <1>3, DecisionAssumption DEF OutsideKey, Types
<1>4. CASE Dispose
  <2>1. calls' \in [Evaluation -> Call \cup {None}]
    <3>1. [calls EXCEPT ![Head(queue)] = None] \in [Evaluation -> Call \cup {None}]
      BY DEF Types
    <3>2. Cancelled([calls EXCEPT ![Head(queue)] = None], Provider)
            \in [Evaluation -> Call \cup {None}]
      BY <3>1, CancelledTyped
    <3>3. Cancelled(calls, Provider) \in [Evaluation -> Call \cup {None}]
      BY CancelledTyped DEF Types
    <3>4. QED
      BY <1>4, <3>2, <3>3 DEF Dispose
  <2>2. CASE queue # <<>> /\ NextTurn
    BY <1>4, <2>1, <2>2, TurnTypes DEF Dispose, Types
  <2>3. CASE UNCHANGED queueVars
    BY <1>4, <2>1, <2>3 DEF Dispose, Types
  <2>4. QED
    BY <1>4, <2>2, <2>3 DEF Dispose
<1>5. CASE Restart
  <2>1. torn' \subseteq Provider
    <3>1. CASE Changing
      <4>1. job[Head(queue)] \in Job
        BY <3>1, TailFacts DEF Queue, Turns, Waiting, Changing, Types
      <4>2. job[Head(queue)].provider \in Provider
        BY <4>1 DEF Job
      <4>3. QED
        BY <1>5, <3>1, <4>2 DEF Restart, Changing, Types
    <3>2. CASE ~Changing
      BY <1>5, <3>2 DEF Restart, Changing, Types
    <3>3. QED
      BY <3>1, <3>2
  <2>2. queue' \in Seq(Task)
    BY <1>5 DEF Restart
  <2>3. job' \in [Editor -> Job \cup {None}] /\ calls' \in [Evaluation -> Call \cup {None}]
    BY <1>5 DEF Restart
  <2>4. boot' \in 0..MaxBoot /\ generation' \in 0..MaxGeneration
    BY <1>5, DecisionAssumption DEF Restart, Types
  <2>5. QED
    BY <1>5, <2>1, <2>2, <2>3, <2>4 DEF Restart, Types
<1>6. QED
  BY <1>1, <1>2, <1>3, <1>4, <1>5

LEMMA TypesNext == Base /\ [Next]_vars => Types'
<1> SUFFICES ASSUME Base, [Next]_vars PROVE Types'
  OBVIOUS
<1>0. Types /\ Queue
  BY DEF Base
<1>1. CASE UNCHANGED vars
  BY <1>0, <1>1 DEF vars, queueVars, ghosts, Types
<1>2. CASE Next
  BY <1>0, <1>2, TypesOfEditors, TypesOfSubmit, TypesOfCalls, TypesOfOthers DEF Next
<1>3. QED
  BY <1>1, <1>2

-----------------------------------------------------------------------------
(* Nothing waits twice *)

LEMMA QueueKept ==
  ASSUME Types, Once, Waiting, queue' = queue,
         \A e \in Editor : job[e] # None => job'[e] # None,
         \A v \in Evaluation : Waits(v) => Waits(v)'
  PROVE  Once' /\ Waiting'
BY DEF Once, Waiting, Types

LEMMA QueueShrinks ==
  ASSUME Types, Once, Waiting, queue # <<>>, NextTurn,
         \A e \in Editor : e # Head(queue) /\ job[e] # None => job'[e] # None,
         \A v \in Evaluation : v # Head(queue) /\ Waits(v) => Waits(v)'
  PROVE  Once' /\ Waiting' /\ Turns'
<1>1. /\ queue' = Tail(queue) /\ Len(queue') = Len(queue) - 1
      /\ \A n \in 1..Len(queue') : queue'[n] = queue[n + 1]
      /\ Len(queue) \in Nat /\ Len(queue) >= 1 /\ Head(queue) = queue[1]
      /\ Len(queue') \in Nat
  BY TailFacts DEF Types, NextTurn
<1>2. \A n \in 1..Len(queue') : n + 1 \in 1..Len(queue) /\ queue'[n] # Head(queue)
  BY <1>1 DEF Once
<1>3. Once'
  BY <1>1, <1>2 DEF Once
<1>4. Waiting'
  BY <1>1, <1>2 DEF Waiting
<1>5. Turns'
  BY DEF NextTurn, Turns, Changing
<1>6. QED
  BY <1>3, <1>4, <1>5

LEMMA QueueGrows ==
  ASSUME Types, Queue, NEW x \in Task, queue' = Append(queue, x),
         \A n \in 1..Len(queue) : queue[n] # x,
         x \in Editor => job'[x] # None,
         x \in Evaluation => Waits(x)',
         \A e \in Editor : job[e] # None => job'[e] # None,
         \A v \in Evaluation : Waits(v) => Waits(v)',
         stage' = stage
  PROVE  Queue'
<1>1. /\ Len(queue') = Len(queue) + 1
      /\ \A n \in 1..Len(queue) : queue'[n] = queue[n]
      /\ queue'[Len(queue) + 1] = x
      /\ Len(queue) \in Nat
      /\ queue # <<>> => Head(queue') = Head(queue)
      /\ queue' # <<>>
  BY AppendFacts DEF Types
<1>2. \A n \in 1..Len(queue') : n \in 1..Len(queue) \/ n = Len(queue) + 1
  BY <1>1
<1>3. Once'
  BY <1>1, <1>2 DEF Once, Queue
<1>4. Waiting'
  BY <1>1, <1>2 DEF Waiting, Queue
<1>5. Turns'
  BY <1>1 DEF Turns, Queue, Changing
<1>6. QED
  BY <1>3, <1>4, <1>5 DEF Queue

\* Who has the turn as a browser is no evaluation.
LEMMA EditorIsNoCall ==
  ASSUME NEW e \in Editor PROVE e \notin Evaluation
BY DecisionAssumption

LEMMA QueueOfEndJob ==
  ASSUME Types, Queue, NEW e \in Editor, queue # <<>>, Head(queue) = e, EndJob(e),
         calls' = calls
  PROVE  Queue'
<1>1. \A f \in Editor : f # Head(queue) => job'[f] = job[f]
  BY DEF EndJob, Types
<1>2. \A v \in Evaluation : Waits(v) => Waits(v)'
  BY DEF Waits
<1>3. NextTurn
  BY DEF EndJob
<1>4. QED
  BY <1>1, <1>2, <1>3, QueueShrinks DEF Queue

LEMMA QueueOfEditors ==
  ASSUME Base, NEW e \in Editor,
         \/ FetchState(e) \/ StartJob(e) \/ ReadOldKey(e) \/ WriteKey(e)
         \/ WriteConfig(e) \/ FailConfig(e) \/ RestoreKey(e)
  PROVE  Queue'
<1> USE DEF ghosts, queueVars
<1>0. Types /\ Queue /\ Once /\ Waiting /\ Turns
  BY DEF Base, Queue
<1>1. CASE FetchState(e)
  BY <1>0, <1>1, QueueKept DEF FetchState, Waits, Turns, Changing, Queue
<1>2. CASE StartJob(e)
  <2>1. CASE EndJob(e)
    BY <1>0, <1>2, <2>1, TurnFacts, QueueOfEndJob DEF StartJob
  <2>2. CASE ~EndJob(e)
    <3>1. stage' = "reading" /\ base' = config /\ UNCHANGED <<queue, job, calls>>
      BY <1>2, <2>2 DEF StartJob
    <3>2. Once' /\ Waiting'
      BY <1>0, <3>1, QueueKept DEF Waits
    <3>3. QED
      BY <1>0, <1>2, <3>1, <3>2, TurnFacts DEF StartJob, Turns, Changing, Queue
  <2>3. QED
    BY <2>1, <2>2
<1>3. CASE ReadOldKey(e)
  <2>1. CASE EndJob(e) /\ UNCHANGED calls
    BY <1>0, <1>3, <2>1, TurnFacts, QueueOfEndJob DEF ReadOldKey
  <2>2. CASE ~(EndJob(e) /\ UNCHANGED calls)
    <3>1. /\ calls' = Cancelled(calls, {job[e].provider})
          /\ UNCHANGED <<queue, base, job>>
      BY <1>3, <2>2 DEF ReadOldKey
    <3>2. \A v \in Evaluation : Waits(v) => Waits(v)'
      BY <1>0, <3>1, CancelledTyped DEF Waits, Types
    <3>3. Once' /\ Waiting'
      BY <1>0, <3>1, <3>2, QueueKept
    <3>4. Turns'
      BY <1>0, <1>3, <3>1, TurnFacts DEF ReadOldKey, Turns, Changing
    <3>5. QED
      BY <3>3, <3>4 DEF Queue
  <2>3. QED
    BY <2>1, <2>2
<1>4. CASE WriteKey(e)
  <2>1. Once' /\ Waiting'
    BY <1>0, <1>4, QueueKept DEF WriteKey, Waits
  <2>2. Turns'
    BY <1>0, <1>4, TurnFacts DEF WriteKey, Turns, Changing
  <2>3. QED
    BY <2>1, <2>2 DEF Queue
<1>5. CASE WriteConfig(e) \/ RestoreKey(e)
  BY <1>0, <1>5, TurnFacts, QueueOfEndJob DEF WriteConfig, RestoreKey
<1>6. CASE FailConfig(e)
  <2>1. CASE EndJob(e)
    BY <1>0, <1>6, <2>1, TurnFacts, QueueOfEndJob DEF FailConfig
  <2>2. CASE ~EndJob(e)
    <3>1. stage' = "restoring" /\ UNCHANGED <<queue, base, job, calls>>
      BY <1>6, <2>2 DEF FailConfig
    <3>2. Once' /\ Waiting'
      BY <1>0, <3>1, QueueKept DEF Waits
    <3>3. Turns'
      BY <1>0, <1>6, <3>1, TurnFacts DEF FailConfig, Turns, Changing
    <3>4. QED
      BY <3>2, <3>3 DEF Queue
  <2>3. QED
    BY <2>1, <2>2
<1>7. QED
  BY <1>1, <1>2, <1>3, <1>4, <1>5, <1>6

LEMMA QueueOfCalls ==
  ASSUME Base, NEW v \in Evaluation,
         \/ StartCall(v) \/ ReadConnection(v) \/ Send(v) \/ Answer(v) \/ Abort(v)
  PROVE  Queue'
<1> USE DEF ghosts, queueVars
<1>0. Types /\ Queue /\ Once /\ Waiting /\ Turns
  BY DEF Base, Queue
<1>1. ASSUME queue # <<>>, Head(queue) = v, NextTurn, UNCHANGED job,
             \A w \in Evaluation : w # v => calls'[w] = calls[w]
      PROVE  Queue'
  <2>1. \A w \in Evaluation : w # Head(queue) /\ Waits(w) => Waits(w)'
    BY <1>1 DEF Waits
  <2>2. QED
    BY <1>0, <1>1, <2>1, QueueShrinks DEF Queue
<1>2. ASSUME UNCHANGED <<queueVars, job>>,
             \A w \in Evaluation : Waits(w) => Waits(w)'
      PROVE  Queue'
  <2>1. Once' /\ Waiting'
    BY <1>0, <1>2, QueueKept
  <2>2. QED
    BY <1>0, <1>2, <2>1 DEF Queue, Turns, Changing
<1>3. CASE StartCall(v)
  <2>1. CASE NextTurn /\ calls' = [calls EXCEPT ![v] = None]
    BY <1>0, <1>1, <1>3, <2>1 DEF StartCall, Types
  <2>2. CASE ~(NextTurn /\ calls' = [calls EXCEPT ![v] = None])
    <3>1. stage' = "reading" /\ UNCHANGED <<queue, calls, job>> /\ queue # <<>>
      BY <1>3, <2>2 DEF StartCall
    <3>2. Once' /\ Waiting'
      BY <1>0, <3>1, QueueKept DEF Waits
    <3>3. QED
      BY <3>1, <3>2 DEF Queue, Turns, Changing
  <2>3. QED
    BY <2>1, <2>2
<1>4. CASE ReadConnection(v)
  <2>1. \A w \in Evaluation : w # v => calls'[w] = calls[w]
    BY <1>0, <1>4 DEF ReadConnection, Types
  <2>2. QED
    BY <1>1, <1>4, <2>1 DEF ReadConnection
<1>5. CASE Send(v) \/ Answer(v)
  <2>1. \A w \in Evaluation : Waits(w) => Waits(w)'
    BY <1>0, <1>5 DEF Send, Answer, Waits, Types
  <2>2. QED
    BY <1>2, <1>5, <2>1 DEF Send, Answer
<1>6. CASE Abort(v)
  <2>1. CASE queue # <<>> /\ Head(queue) = v /\ stage = "reading"
    BY <1>0, <1>1, <1>6, <2>1 DEF Abort, Types
  <2>2. CASE ~(queue # <<>> /\ Head(queue) = v /\ stage = "reading")
    <3>1. [calls[v] EXCEPT !.stage = "gone"] # None /\ [calls[v] EXCEPT !.stage = "gone"].stage = "gone"
      <4>1. calls[v] \in Call
        BY <1>0, <1>6 DEF Abort, Active, Types
      <4>2. [calls[v] EXCEPT !.stage = "gone"] \in Call
        BY <4>1 DEF Call
      <4>3. QED
        BY <4>1, <4>2, DecisionAssumption DEF Call
    <3>2. calls'[v] = IF calls[v].stage = "queued" THEN [calls[v] EXCEPT !.stage = "gone"] ELSE None
      BY <1>0, <1>6, <2>2 DEF Abort, Types
    <3>3. \A w \in Evaluation : w # v => calls'[w] = calls[w]
      BY <1>0, <1>6, <2>2 DEF Abort, Types
    <3>4. calls[v] # None /\ calls[v].stage # "gone"
      BY <1>6 DEF Abort, Active
    <3>5. \A w \in Evaluation : Waits(w) => Waits(w)'
      BY <3>1, <3>2, <3>3, <3>4 DEF Waits
    <3>6. QED
      BY <1>2, <1>6, <2>2, <3>5 DEF Abort
  <2>3. QED
    BY <2>1, <2>2
<1>7. QED
  BY <1>3, <1>4, <1>5, <1>6

LEMMA QueueOfOthers ==
  ASSUME Base,
         \/ \E e \in Editor, op \in {"create", "edit", "remove"}, p \in Provider,
               url \in Url \cup {None}, key \in Key \cup {None, Keep} :
              Submit(e, op, p, url, key)
         \/ \E v \in Evaluation, p \in Provider : Evaluate(v, p)
         \/ \E p \in Provider, url \in Url \cup {None} : OutsideEdit(p, url)
         \/ \E p \in Provider, key \in Key \cup {None} : OutsideKey(p, key)
         \/ Dispose \/ Restart
  PROVE  Queue'
<1> USE DEF ghosts, queueVars
<1>0. Types /\ Queue /\ Once /\ Waiting /\ Turns
  BY DEF Base, Queue
<1>1. CASE \E e \in Editor, op \in {"create", "edit", "remove"}, p \in Provider,
               url \in Url \cup {None}, key \in Key \cup {None, Keep} :
              Submit(e, op, p, url, key)
  <2>1. PICK e \in Editor, op \in {"create", "edit", "remove"}, p \in Provider,
             url \in Url \cup {None}, key \in Key \cup {None, Keep} :
               Submit(e, op, p, url, key)
    BY <1>1
  <2> DEFINE j == [op |-> op, provider |-> p, url |-> url, key |-> key, revision |-> view[e]]
  <2>2. j # None
    <3>1. view[e] \in Revision
      BY <1>0, <2>1 DEF Submit, Types
    <3>2. j \in Job
      BY <3>1 DEF Job
    <3>3. QED
      BY <3>2, DecisionAssumption
  <2>3. job' = [job EXCEPT ![e] = j] /\ queue' = Append(queue, e) /\ UNCHANGED <<stage, calls>>
    BY <2>1 DEF Submit
  <2> HIDE DEF j
  <2>4. job'[e] = j /\ \A f \in Editor : f # e => job'[f] = job[f]
    BY <1>0, <2>3 DEF Types
  <2>5. \A n \in 1..Len(queue) : queue[n] # e
    BY <1>0, <2>1 DEF Submit, Waiting
  <2>6. e \in Task /\ e \notin Evaluation
    BY EditorIsNoCall DEF Task
  <2>7. QED
    BY <1>0, <2>2, <2>3, <2>4, <2>5, <2>6, QueueGrows DEF Waits
<1>2. CASE \E v \in Evaluation, p \in Provider : Evaluate(v, p)
  <2>1. PICK v \in Evaluation, p \in Provider : Evaluate(v, p)
    BY <1>2
  <2> DEFINE c == [stage |-> "queued", provider |-> p, url |-> None, key |-> None]
  <2>2. c # None /\ c.stage = "queued"
    <3>1. c \in Call
      BY DEF Call
    <3>2. QED
      BY <3>1, DecisionAssumption
  <2>3. calls' = [calls EXCEPT ![v] = c] /\ queue' = Append(queue, v) /\ UNCHANGED <<stage, job>>
        /\ calls[v] = None
    BY <2>1 DEF Evaluate
  <2> HIDE DEF c
  <2>4. calls'[v] = c /\ \A w \in Evaluation : w # v => calls'[w] = calls[w]
    BY <1>0, <2>3 DEF Types
  <2>5. \A n \in 1..Len(queue) : queue[n] # v
    BY <1>0, <2>3 DEF Waiting, Waits
  <2>6. v \in Task /\ v \notin Editor
    BY EditorIsNoCall DEF Task
  <2>7. Waits(v)' /\ \A w \in Evaluation : Waits(w) => Waits(w)'
    BY <2>2, <2>3, <2>4 DEF Waits
  <2>8. QED
    BY <1>0, <2>3, <2>5, <2>6, <2>7, QueueGrows
<1>3. CASE \/ \E p \in Provider, url \in Url \cup {None} : OutsideEdit(p, url)
           \/ \E p \in Provider, key \in Key \cup {None} : OutsideKey(p, key)
  <2>1. UNCHANGED <<queue, stage, job, calls>>
    BY <1>3 DEF OutsideEdit, OutsideKey
  <2>2. QED
    BY <1>0, <2>1, QueueKept DEF Queue, Waits, Turns, Changing
<1>4. CASE Dispose
  <2>1. CASE queue # <<>> /\ Head(queue) \in Evaluation /\ stage = "reading"
    <3> DEFINE cs == [calls EXCEPT ![Head(queue)] = None]
    <3>1. NextTurn /\ calls' = Cancelled(cs, Provider) /\ UNCHANGED job
      BY <1>4, <2>1 DEF Dispose
    <3>2. /\ cs \in [Evaluation -> Call \cup {None}]
          /\ \A v \in Evaluation : v # Head(queue) => cs[v] = calls[v]
      BY <1>0 DEF Types
    <3> HIDE DEF cs
    <3>3. \A v \in Evaluation : v # Head(queue) /\ Waits(v) => Waits(v)'
      BY <3>1, <3>2, CancelledTyped DEF Waits
    <3>4. QED
      BY <1>0, <2>1, <3>1, <3>3, QueueShrinks DEF Queue
  <2>2. CASE ~(queue # <<>> /\ Head(queue) \in Evaluation /\ stage = "reading")
    <3>1. calls' = Cancelled(calls, Provider) /\ UNCHANGED <<queue, stage, job>>
      BY <1>4, <2>2 DEF Dispose
    <3>2. \A v \in Evaluation : Waits(v) => Waits(v)'
      BY <1>0, <3>1, CancelledTyped DEF Waits, Types
    <3>3. QED
      BY <1>0, <3>1, <3>2, QueueKept DEF Queue, Turns, Changing
  <2>3. QED
    BY <2>1, <2>2
<1>5. CASE Restart
  BY <1>5 DEF Restart, Queue, Once, Waiting, Turns, Changing
<1>6. QED
  BY <1>1, <1>2, <1>3, <1>4, <1>5

LEMMA QueueNext == Base /\ [Next]_vars => Queue'
<1> SUFFICES ASSUME Base, [Next]_vars PROVE Queue'
  OBVIOUS
<1>1. CASE UNCHANGED vars
  BY <1>1, QueueKept DEF vars, queueVars, ghosts, Base, Queue, Waits, Turns, Changing
<1>2. CASE Next
  BY <1>2, QueueOfEditors, QueueOfCalls, QueueOfOthers DEF Next
<1>3. QED
  BY <1>1, <1>2

-----------------------------------------------------------------------------
(* What an editor was shown *)

\* Where the first task is the same, so is what it is based on.
LEMMA ShownKept ==
  ASSUME Types, Shown, UNCHANGED <<boot, generation>>,
         \A e \in Editor : view'[e] = view[e] \/ view'[e] = CurrentRevision,
         \A e \in Editor : \/ job'[e] = job[e] \/ job'[e] = None
                           \/ /\ job'[e].revision = view[e] /\ view[e] # None
                              /\ generation < MaxGeneration,
         \/ stage' = "waiting"
         \/ UNCHANGED base /\ stage # "waiting" /\ Head(queue') = Head(queue)
              /\ (Head(queue) \in Editor => job'[Head(queue)] = job[Head(queue)])
         \/ Head(queue') \notin Editor
  PROVE  Shown'
<1>1. CurrentRevision.boot = boot /\ CurrentRevision.generation = generation
  BY DEF CurrentRevision
<1>2. boot \in Nat /\ generation \in Nat
  BY DEF Types
<1>3. \A e \in Editor : view'[e] # None =>
        view'[e].boot <= boot' /\ (view'[e].boot = boot' => view'[e].generation <= generation')
  BY <1>1, <1>2 DEF Shown
<1>4. \A e \in Editor : job'[e] # None /\ job'[e].revision.boot = boot' =>
        job'[e].revision.generation < MaxGeneration
  <2> SUFFICES ASSUME NEW e \in Editor, job'[e] # None, job'[e].revision.boot = boot'
               PROVE  job'[e].revision.generation < MaxGeneration
    OBVIOUS
  <2>1. CASE job'[e] = job[e]
    BY <2>1 DEF Shown
  <2>2. CASE job'[e].revision = view[e] /\ view[e] # None /\ generation < MaxGeneration
    <3>1. view[e].generation <= generation /\ view[e].generation \in Nat
      BY <2>2 DEF Shown, Types, Revision
    <3>2. QED
      BY <1>2, <2>2, <3>1, DecisionAssumption
  <2>3. QED
    BY <2>1, <2>2
<1>5. stage' # "waiting" /\ Head(queue') \in Editor =>
        job'[Head(queue')].revision =
          [boot |-> boot', generation |-> generation', config |-> base']
  BY DEF Shown
<1>6. QED
  BY <1>3, <1>4, <1>5 DEF Shown

\* The instance has made one change more.
LEMMA ShownAfterChange ==
  ASSUME Types, Shown, boot' = boot, generation' = generation + 1, view' = view,
         \A e \in Editor : job'[e] = job[e] \/ job'[e] = None,
         stage' = "waiting"
  PROVE  Shown'
<1>1. generation \in Nat
  BY DEF Types
<1>2. \A e \in Editor : view[e] # None => view[e].generation \in Nat
  BY DEF Types, Revision
<1>3. QED
  BY <1>1, <1>2 DEF Shown

LEMMA ShownOfEditors ==
  ASSUME Base, NEW e \in Editor,
         \/ FetchState(e) \/ StartJob(e) \/ ReadOldKey(e) \/ WriteKey(e)
         \/ WriteConfig(e) \/ FailConfig(e) \/ RestoreKey(e)
  PROVE  Shown'
<1> USE DEF ghosts, queueVars
<1>0. Types /\ Shown
  BY DEF Base
<1>1. EndJob(e) => /\ stage' = "waiting"
                   /\ \A f \in Editor : job'[f] = job[f] \/ job'[f] = None
  BY <1>0 DEF EndJob, NextTurn, Types
<1>2. CASE FetchState(e)
  <2>1. \A f \in Editor : view'[f] = view[f] \/ view'[f] = CurrentRevision
    BY <1>0, <1>2 DEF FetchState, Types
  <2>2. QED
    BY <1>0, <1>2, <2>1, ShownKept DEF FetchState
<1>3. CASE StartJob(e)
  <2>1. CASE EndJob(e)
    BY <1>0, <1>1, <1>3, <2>1, ShownKept DEF StartJob
  <2>2. CASE ~EndJob(e)
    <3>1. /\ job[e].revision = CurrentRevision /\ Head(queue) = e
          /\ base' = config /\ UNCHANGED <<queue, job, boot, generation, view>>
      BY <1>3, <2>2 DEF StartJob, Refused, Turn
    <3>2. QED
      BY <1>0, <3>1 DEF Shown, CurrentRevision
  <2>3. QED
    BY <2>1, <2>2
<1>4. CASE ReadOldKey(e)
  <2>1. CASE EndJob(e)
    BY <1>0, <1>1, <1>4, <2>1, ShownKept DEF ReadOldKey
  <2>2. CASE ~EndJob(e)
    <3>1. UNCHANGED <<queue, base, job, boot, generation, view>> /\ stage # "waiting"
      BY <1>4, <2>2 DEF ReadOldKey, Turn
    <3>2. QED
      BY <1>0, <3>1, ShownKept
  <2>3. QED
    BY <2>1, <2>2
<1>5. CASE WriteKey(e)
  <2>1. UNCHANGED <<queue, base, job, boot, generation, view>> /\ stage # "waiting"
    BY <1>5 DEF WriteKey, Turn
  <2>2. QED
    BY <1>0, <2>1, ShownKept
<1>6. CASE WriteConfig(e) \/ RestoreKey(e)
  BY <1>0, <1>1, <1>6, ShownAfterChange DEF WriteConfig, RestoreKey
<1>7. CASE FailConfig(e)
  <2>1. CASE EndJob(e) /\ generation' = generation + 1
    BY <1>0, <1>1, <1>7, <2>1, ShownAfterChange DEF FailConfig
  <2>2. CASE ~(EndJob(e) /\ generation' = generation + 1)
    <3>1. UNCHANGED <<queue, base, job, boot, generation, view>> /\ stage # "waiting"
      BY <1>7, <2>2 DEF FailConfig, Turn
    <3>2. QED
      BY <1>0, <3>1, ShownKept
  <2>3. QED
    BY <2>1, <2>2
<1>8. QED
  BY <1>2, <1>3, <1>4, <1>5, <1>6, <1>7

LEMMA ShownOfCalls ==
  ASSUME Base, NEW v \in Evaluation,
         \/ StartCall(v) \/ ReadConnection(v) \/ Send(v) \/ Answer(v) \/ Abort(v)
  PROVE  Shown'
<1> USE DEF ghosts, queueVars
<1>0. Types /\ Shown
  BY DEF Base
<1>1. v \notin Editor
  BY EditorIsNoCall
<1>2. UNCHANGED <<boot, generation, view, job>>
  BY DEF StartCall, ReadConnection, Send, Answer, Abort
<1>3. \/ stage' = "waiting"
      \/ UNCHANGED <<queue, stage, base>>
      \/ queue' = queue /\ Head(queue) = v
  BY DEF StartCall, ReadConnection, Send, Answer, Abort, NextTurn
<1>4. QED
  BY <1>0, <1>1, <1>2, <1>3, ShownKept

LEMMA ShownOfOthers ==
  ASSUME Base,
         \/ \E e \in Editor, op \in {"create", "edit", "remove"}, p \in Provider,
               url \in Url \cup {None}, key \in Key \cup {None, Keep} :
              Submit(e, op, p, url, key)
         \/ \E v \in Evaluation, p \in Provider : Evaluate(v, p)
         \/ \E p \in Provider, url \in Url \cup {None} : OutsideEdit(p, url)
         \/ \E p \in Provider, key \in Key \cup {None} : OutsideKey(p, key)
         \/ Dispose \/ Restart
  PROVE  Shown'
<1> USE DEF ghosts, queueVars
<1>0. Types /\ Shown /\ Queue
  BY DEF Base
<1>1. CASE \E e \in Editor, op \in {"create", "edit", "remove"}, p \in Provider,
               url \in Url \cup {None}, key \in Key \cup {None, Keep} :
              Submit(e, op, p, url, key)
  <2>1. PICK e \in Editor, op \in {"create", "edit", "remove"}, p \in Provider,
             url \in Url \cup {None}, key \in Key \cup {None, Keep} :
               Submit(e, op, p, url, key)
    BY <1>1
  <2>2. /\ view[e] # None /\ generation < MaxGeneration /\ job[e] = None
        /\ UNCHANGED <<boot, generation, view, stage, base>>
    BY <2>1 DEF Submit
  <2>3. job'[e].revision = view[e] /\ \A f \in Editor : f # e => job'[f] = job[f]
    BY <1>0, <2>1 DEF Submit, Types
  <2>4. CASE stage = "waiting"
    BY <1>0, <2>2, <2>3, <2>4, ShownKept
  <2>5. CASE stage # "waiting"
    <3>1. queue # <<>>
      BY <1>0, <2>5 DEF Queue, Turns
    <3>2. Head(queue') = Head(queue)
      BY <1>0, <2>1, <3>1, AppendFacts DEF Submit, Types, Task
    <3>3. Head(queue) \in Editor => job[Head(queue)] # None
      BY <1>0, <3>1, TailFacts DEF Types, Queue, Waiting
    <3>4. QED
      BY <1>0, <2>2, <2>3, <2>5, <3>2, <3>3, ShownKept
  <2>6. QED
    BY <2>4, <2>5
<1>2. CASE \E v \in Evaluation, p \in Provider : Evaluate(v, p)
  <2>1. PICK v \in Evaluation, p \in Provider : Evaluate(v, p)
    BY <1>2
  <2>2. UNCHANGED <<boot, generation, view, stage, base, job>>
    BY <2>1 DEF Evaluate
  <2>3. stage # "waiting" => Head(queue') = Head(queue)
    BY <1>0, <2>1, AppendFacts DEF Evaluate, Types, Task, Queue, Turns
  <2>4. QED
    BY <1>0, <2>2, <2>3, ShownKept
<1>3. CASE \/ \E p \in Provider, url \in Url \cup {None} : OutsideEdit(p, url)
           \/ \E p \in Provider, key \in Key \cup {None} : OutsideKey(p, key)
  <2>1. UNCHANGED <<boot, generation, view, stage, base, job, queue>>
    BY <1>3 DEF OutsideEdit, OutsideKey
  <2>2. QED
    BY <1>0, <2>1, ShownKept
<1>4. CASE Dispose
  <2>1. UNCHANGED <<boot, generation, view, job>>
        /\ (stage' = "waiting" \/ UNCHANGED <<queue, stage, base>>)
    BY <1>4 DEF Dispose, NextTurn
  <2>2. QED
    BY <1>0, <2>1, ShownKept
<1>5. CASE Restart
  <2>1. /\ boot' = boot + 1 /\ stage' = "waiting" /\ view' = view
        /\ \A e \in Editor : job'[e] = None
    BY <1>5 DEF Restart
  <2>2. boot \in Nat /\ \A e \in Editor : view[e] # None => view[e].boot \in Nat
    BY <1>0 DEF Types, Revision
  <2>3. QED
    BY <1>0, <2>1, <2>2 DEF Shown
<1>6. QED
  BY <1>1, <1>2, <1>3, <1>4, <1>5

LEMMA ShownNext == Base /\ [Next]_vars => Shown'
<1> SUFFICES ASSUME Base, [Next]_vars PROVE Shown'
  OBVIOUS
<1>1. CASE UNCHANGED vars
  BY <1>1 DEF vars, queueVars, ghosts, Base, Shown
<1>2. CASE Next
  BY <1>2, ShownOfEditors, ShownOfCalls, ShownOfOthers DEF Next
<1>3. QED
  BY <1>1, <1>2

-----------------------------------------------------------------------------
(* The stores *)

\* Nothing that Agree speaks of has changed.
LEMMA AgreeKept ==
  ASSUME Agree, UNCHANGED <<config, keys, saved, torn, oldKey, stage>>,
         Changing => Head(queue') = Head(queue) /\ job'[Head(queue)] = job[Head(queue)]
  PROVE  Agree'
BY DEF Agree, Under, Changing

\* Before the first task changes anything, the stores agree, and so they do
\* after it has done nothing.
LEMMA AgreeBefore ==
  ASSUME Agree, UNCHANGED <<config, keys, saved, torn>>, ~Changing, ~Changing'
  PROVE  Agree'
BY DEF Agree, Under, Changing

LEMMA AgreeOfEditors ==
  ASSUME Base, Agree, NEW e \in Editor,
         \/ FetchState(e) \/ StartJob(e) \/ ReadOldKey(e) \/ WriteKey(e)
         \/ WriteConfig(e) \/ FailConfig(e) \/ RestoreKey(e)
  PROVE  Agree'
<1> USE DEF ghosts, queueVars
<1>0. Types
  BY DEF Base
<1>1. EndJob(e) => stage' = "waiting" /\ ~Changing'
  BY DEF EndJob, NextTurn, Changing
<1>2. CASE FetchState(e)
  BY <1>2, AgreeKept DEF FetchState
<1>3. CASE StartJob(e)
  BY <1>1, <1>3, AgreeBefore DEF StartJob, Turn, Changing
<1>4. CASE ReadOldKey(e)
  <2> DEFINE p == job[e].provider
             j == job[e]
  <2>1. CASE EndJob(e)
    BY <1>1, <1>4, <2>1, AgreeBefore DEF ReadOldKey, Turn, Changing
  <2>2. CASE ~EndJob(e)
    <3>1. /\ oldKey' = keys[p] /\ UNCHANGED <<queue, job, config, keys, saved, torn>>
          /\ stage' = IF WritesKey(j, keys[p]) THEN "keying" ELSE "saving"
          /\ Head(queue) = e /\ ~Changing
      BY <1>4, <2>2 DEF ReadOldKey, Turn, Changing
    <3>2. stage' = "saving" => NextKey(j, keys[p]) = keys[p]
      BY <3>1 DEF WritesKey
    <3>3. UNCHANGED NextKey(j, keys[p])
      BY <3>1 DEF NextKey
    <3>4. stage' = "saving" => NextKey(job'[Head(queue')], oldKey') = keys'[p]
      BY <3>1, <3>2 DEF NextKey
    <3>5. QED
      BY <3>1, <3>4 DEF Agree, Under, Changing
  <2>3. QED
    BY <2>1, <2>2
<1>5. CASE WriteKey(e)
  <2> DEFINE p == job[e].provider
             new == NextKey(job[e], oldKey)
             written == [keys EXCEPT ![p] = new]
  <2>1. /\ Head(queue) = e /\ stage = "keying" /\ p \in Provider
        /\ UNCHANGED <<queue, job, oldKey, config, saved, torn>>
    BY <1>0, <1>5, TurnFacts DEF WriteKey
  <2>2. keys' \in {keys, written} /\ stage' \in {"saving", "restoring"}
        /\ (stage' = "saving" => keys' = written)
    BY <1>5 DEF WriteKey
  <2>3. NextKey(job'[Head(queue')], oldKey') = new
    BY <2>1 DEF NextKey
  <2>4. (\A q \in Provider : q # p => keys'[q] = keys[q]) /\ (stage' = "saving" => keys'[p] = new)
    BY <1>0, <2>1, <2>2 DEF Types
  <2> HIDE DEF new, written
  <2>5. \A q \in Provider : (Under(q) <=> q = p) /\ (Under(q)' <=> q = p)
    BY <2>1, <2>2 DEF Under, Changing
  <2>6. QED
    BY <2>1, <2>2, <2>3, <2>4, <2>5 DEF Agree
<1>6. CASE WriteConfig(e)
  <2> DEFINE p == job[e].provider
             new == NextKey(job[e], oldKey)
  <2>1. /\ Head(queue) = e /\ stage = "saving" /\ p \in Provider /\ keys' = keys
        /\ \A q \in Provider : Under(q) <=> q = p
        /\ \A q \in Provider : ~Under(q)'
    BY <1>0, <1>1, <1>6, TurnFacts DEF WriteConfig, Under, Changing
  <2>2. \A q \in Provider : q # p => saved'[q] = saved[q] /\ config'[q] = config[q]
    BY <1>0, <1>6, <2>1 DEF WriteConfig, UnchangedSince, Types
  <2>3. saved'[p].url = config'[p] /\ saved'[p].key = new
    BY <1>0, <1>6, <2>1 DEF WriteConfig, UnchangedSince, Types
  <2>4. torn' = IF keys[p] = new THEN torn \ {p} ELSE torn
    BY <1>6 DEF WriteConfig
  <2>5. p \notin torn => keys[p] = new
    BY <2>1 DEF Agree
  <2> HIDE DEF new
  <2>6. QED
    BY <2>1, <2>2, <2>3, <2>4, <2>5 DEF Agree
<1>7. CASE FailConfig(e)
  <2> DEFINE p == job[e].provider
  <2>1. /\ Head(queue) = e /\ stage = "saving" /\ p \in Provider
        /\ UNCHANGED <<keys, config, saved, torn>>
        /\ \A q \in Provider : Under(q) <=> q = p
    BY <1>0, <1>7, TurnFacts DEF FailConfig, Under, Changing
  <2>2. CASE ToRestore(e) /\ stage' = "restoring" /\ UNCHANGED <<queue, oldKey, job>>
    BY <2>1, <2>2 DEF Agree, Under, Changing
  <2>3. CASE ~ToRestore(e) /\ EndJob(e)
    <3>1. NextKey(job[e], oldKey) = oldKey
      BY <2>3 DEF ToRestore, WritesKey
    <3>2. \A q \in Provider : ~Under(q)'
      BY <1>1, <2>3 DEF Under
    <3>3. QED
      BY <2>1, <3>1, <3>2 DEF Agree
  <2>4. QED
    BY <1>7, <2>2, <2>3 DEF FailConfig
<1>8. CASE RestoreKey(e)
  <2> DEFINE p == job[e].provider
  <2>1. /\ Head(queue) = e /\ stage = "restoring" /\ p \in Provider
        /\ UNCHANGED <<config, saved>>
        /\ \A q \in Provider : Under(q) <=> q = p
        /\ \A q \in Provider : ~Under(q)'
    BY <1>0, <1>1, <1>8, TurnFacts DEF RestoreKey, Under, Changing
  <2>2. \/ keys' = [keys EXCEPT ![p] = oldKey] /\ torn' = torn
        \/ keys' = keys /\ torn' = torn \cup {p}
    BY <1>8 DEF RestoreKey
  <2>3. \A q \in Provider \ torn' : keys'[q] = IF q = p THEN oldKey ELSE keys[q]
    BY <1>0, <2>2 DEF Types
  <2>4. torn \subseteq torn'
    BY <2>2
  <2>5. QED
    BY <2>1, <2>3, <2>4 DEF Agree
<1>9. QED
  BY <1>2, <1>3, <1>4, <1>5, <1>6, <1>7, <1>8

LEMMA AgreeOfOthers ==
  ASSUME Base, Agree,
         \/ \E e \in Editor, op \in {"create", "edit", "remove"}, p \in Provider,
               url \in Url \cup {None}, key \in Key \cup {None, Keep} :
              Submit(e, op, p, url, key)
         \/ \E v \in Evaluation, p \in Provider : Evaluate(v, p)
         \/ \E v \in Evaluation :
              StartCall(v) \/ ReadConnection(v) \/ Send(v) \/ Answer(v) \/ Abort(v)
         \/ \E p \in Provider, url \in Url \cup {None} : OutsideEdit(p, url)
         \/ \E p \in Provider, key \in Key \cup {None} : OutsideKey(p, key)
         \/ Dispose \/ Restart
  PROVE  Agree'
<1> USE DEF ghosts, queueVars
<1>0. Types /\ Queue
  BY DEF Base
<1>1. Changing => queue # <<>> /\ Head(queue) \in Editor /\ Head(queue) \notin Evaluation
                  /\ job[Head(queue)] # None
  <2> SUFFICES ASSUME Changing
               PROVE  /\ queue # <<>> /\ Head(queue) \in Editor
                      /\ Head(queue) \notin Evaluation /\ job[Head(queue)] # None
    OBVIOUS
  <2>1. queue # <<>> /\ Head(queue) \in Editor
    BY <1>0 DEF Queue, Turns, Changing
  <2>2. Head(queue) = queue[1] /\ Len(queue) \in Nat /\ Len(queue) >= 1
    BY <1>0, <2>1, TailFacts DEF Types
  <2>3. job[Head(queue)] # None
    BY <1>0, <2>1, <2>2 DEF Queue, Waiting
  <2>4. QED
    BY <2>1, <2>3, EditorIsNoCall
<1>2. CASE \E e \in Editor, op \in {"create", "edit", "remove"}, p \in Provider,
               url \in Url \cup {None}, key \in Key \cup {None, Keep} :
              Submit(e, op, p, url, key)
  <2>1. PICK e \in Editor, op \in {"create", "edit", "remove"}, p \in Provider,
             url \in Url \cup {None}, key \in Key \cup {None, Keep} :
               Submit(e, op, p, url, key)
    BY <1>2
  <2>2. \A f \in Editor : f # e => job'[f] = job[f]
    BY <1>0, <2>1 DEF Submit, Types
  <2>3. Changing => Head(queue') = Head(queue)
    BY <1>0, <1>1, <2>1, AppendFacts DEF Submit, Types, Task
  <2>4. QED
    BY <1>1, <2>1, <2>2, <2>3, AgreeKept DEF Submit
<1>3. CASE \E v \in Evaluation, p \in Provider : Evaluate(v, p)
  <2>1. PICK v \in Evaluation, p \in Provider : Evaluate(v, p)
    BY <1>3
  <2>2. Changing => Head(queue') = Head(queue)
    BY <1>0, <1>1, <2>1, AppendFacts DEF Evaluate, Types, Task
  <2>3. QED
    BY <1>1, <2>1, <2>2, AgreeKept DEF Evaluate
<1>4. CASE \E v \in Evaluation :
             StartCall(v) \/ ReadConnection(v) \/ Send(v) \/ Answer(v) \/ Abort(v)
  <2>1. \/ UNCHANGED <<config, keys, saved, torn, queueVars, job>>
        \/ UNCHANGED <<config, keys, saved, torn>> /\ ~Changing /\ ~Changing'
    BY <1>4 DEF StartCall, ReadConnection, Send, Answer, Abort, NextTurn, Changing
  <2>2. QED
    BY <2>1, AgreeKept, AgreeBefore
<1>5. CASE \/ \E p \in Provider, url \in Url \cup {None} : OutsideEdit(p, url)
           \/ \E p \in Provider, key \in Key \cup {None} : OutsideKey(p, key)
  <2>1. PICK p \in Provider :
          /\ torn' = torn \cup {p} /\ UNCHANGED <<queueVars, job, saved>>
          /\ \A q \in Provider : q # p => config'[q] = config[q] /\ keys'[q] = keys[q]
    BY <1>0, <1>5 DEF OutsideEdit, OutsideKey, Types
  <2>2. \A q \in Provider : Under(q)' <=> Under(q)
    BY <2>1 DEF Under, Changing
  <2>3. NextKey(job'[Head(queue')], oldKey') = NextKey(job[Head(queue)], oldKey)
    BY <2>1
  <2>4. QED
    BY <2>1, <2>2, <2>3 DEF Agree
<1>6. CASE Dispose
  <2>1. \/ UNCHANGED <<config, keys, saved, torn, queueVars, job>>
        \/ UNCHANGED <<config, keys, saved, torn>> /\ ~Changing /\ ~Changing'
    BY <1>6 DEF Dispose, NextTurn, Changing
  <2>2. QED
    BY <2>1, AgreeKept, AgreeBefore
<1>7. CASE Restart
  <2>1. UNCHANGED <<config, keys, saved>> /\ ~Changing'
    BY <1>7 DEF Restart, Changing
  <2>2. \A q \in Provider \ torn' : q \notin torn /\ ~Under(q)
    BY <1>7 DEF Restart, Under, Changing
  <2>3. QED
    BY <2>1, <2>2 DEF Agree, Under
<1>8. QED
  BY <1>2, <1>3, <1>4, <1>5, <1>6, <1>7

LEMMA AgreeNext == Base /\ Agree /\ [Next]_vars => Agree'
<1> SUFFICES ASSUME Base, Agree, [Next]_vars PROVE Agree'
  OBVIOUS
<1>1. CASE UNCHANGED vars
  BY <1>1, AgreeKept DEF vars, queueVars, ghosts
<1>2. CASE Next
  BY <1>2, AgreeOfEditors, AgreeOfOthers DEF Next
<1>3. QED
  BY <1>1, <1>2

-----------------------------------------------------------------------------
(* What the requests carry *)

\* Only reading a connection gives a request something to carry.
LEMMA CarriesKept ==
  ASSUME Types, Carries, UNCHANGED <<saved, torn>>,
         \A p \in Provider : Under(p)' => Under(p),
         \A v \in Evaluation : Carried(v)' => /\ Carried(v)
                                              /\ calls'[v].provider = calls[v].provider
                                              /\ calls'[v].url = calls[v].url
                                              /\ calls'[v].key = calls[v].key
  PROVE  Carries'
<1>1. \A v \in Evaluation : Carried(v) => calls[v].provider \in Provider
  BY DEF Types, Carried, Call
<1>2. QED
  BY <1>1 DEF Carries

LEMMA UnderKept ==
  ASSUME Base, UNCHANGED stage, Changing => Head(queue') = Head(queue),
         \A e \in Editor : job[e] # None => job'[e] = job[e]
  PROVE  \A p \in Provider : Under(p)' <=> Under(p)
<1>1. Changing => job[Head(queue)] # None /\ Head(queue) \in Editor
  <2> SUFFICES ASSUME Changing PROVE job[Head(queue)] # None /\ Head(queue) \in Editor
    OBVIOUS
  <2>1. queue # <<>> /\ Head(queue) \in Editor
    BY DEF Base, Queue, Turns, Changing
  <2>2. Head(queue) = queue[1] /\ Len(queue) \in Nat /\ Len(queue) >= 1
    BY <2>1, TailFacts DEF Base, Types
  <2>3. QED
    BY <2>1, <2>2 DEF Base, Queue, Waiting
<1>2. QED
  BY <1>1 DEF Under, Changing

LEMMA CarriesOfEditors ==
  ASSUME Base, Carries, NEW e \in Editor,
         \/ FetchState(e) \/ StartJob(e) \/ ReadOldKey(e) \/ WriteKey(e)
         \/ WriteConfig(e) \/ FailConfig(e) \/ RestoreKey(e)
  PROVE  Carries'
<1> USE DEF ghosts, queueVars
<1>0. Types
  BY DEF Base
<1>1. EndJob(e) => stage' = "waiting" /\ \A p \in Provider : ~Under(p)'
  BY DEF EndJob, NextTurn, Changing, Under
<1>2. \A v \in Evaluation : Carried(v) => calls[v].provider \in Provider
  BY <1>0 DEF Types, Carried, Call
<1>3. CASE FetchState(e)
  BY <1>0, <1>3, CarriesKept DEF FetchState, Carried, Under, Changing
<1>4. CASE StartJob(e)
  BY <1>0, <1>1, <1>4, CarriesKept DEF StartJob, Carried, Under, Changing
<1>5. CASE ReadOldKey(e)
  <2>1. CASE EndJob(e) /\ UNCHANGED calls
    BY <1>0, <1>1, <1>5, <2>1, CarriesKept DEF ReadOldKey, Carried
  <2>2. CASE ~(EndJob(e) /\ UNCHANGED calls)
    <3> DEFINE p == job[e].provider
    <3>1. /\ calls' = Cancelled(calls, {p}) /\ UNCHANGED <<queue, job, saved, torn>>
          /\ Head(queue) = e
      BY <1>5, <2>2 DEF ReadOldKey, Turn
    <3>2. \A v \in Evaluation : Carried(v)' =>
            /\ calls'[v] = calls[v] /\ calls[v].provider # p
      BY <1>0, <3>1, CancelledTyped DEF Carried, Types
    <3>3. \A q \in Provider : Under(q)' => q = p
      BY <3>1 DEF Under
    <3>4. QED
      BY <1>2, <3>1, <3>2, <3>3 DEF Carries, Carried
  <2>3. QED
    BY <2>1, <2>2
<1>6. CASE WriteKey(e)
  BY <1>0, <1>6, CarriesKept DEF WriteKey, Turn, Carried, Under, Changing
<1>7. CASE WriteConfig(e)
  <2> DEFINE p == job[e].provider
  <2>1. Under(p) /\ p \in Provider /\ \A q \in Provider : ~Under(q)'
    BY <1>0, <1>1, <1>7, TurnFacts DEF WriteConfig, Under, Changing
  <2>2. \A q \in Provider : q # p => saved'[q] = saved[q] /\ (q \in torn' <=> q \in torn)
    BY <1>0, <1>7 DEF WriteConfig, Types
  <2>3. calls' = calls
    BY <1>7 DEF WriteConfig
  <2>4. QED
    BY <1>2, <2>1, <2>2, <2>3 DEF Carries, Carried
<1>8. CASE FailConfig(e)
  BY <1>0, <1>1, <1>8, CarriesKept DEF FailConfig, Turn, Carried, Under, Changing
<1>9. CASE RestoreKey(e)
  <2>1. calls' = calls /\ saved' = saved /\ torn \subseteq torn'
        /\ \A q \in Provider : ~Under(q)'
    BY <1>1, <1>9 DEF RestoreKey
  <2>2. QED
    BY <1>2, <2>1 DEF Carries, Carried
<1>10. QED
  BY <1>3, <1>4, <1>5, <1>6, <1>7, <1>8, <1>9

LEMMA CarriesOfCalls ==
  ASSUME Base, Agree, Carries, NEW v \in Evaluation,
         \/ StartCall(v) \/ ReadConnection(v) \/ Send(v) \/ Answer(v) \/ Abort(v)
  PROVE  Carries'
<1> USE DEF ghosts, queueVars
<1>0. Types
  BY DEF Base
<1>1. \A w \in Evaluation : w # v => calls'[w] = calls[w]
  BY <1>0 DEF StartCall, ReadConnection, Send, Answer, Abort, Types
<1>2. \A p \in Provider : Under(p)' => Under(p)
  BY DEF StartCall, ReadConnection, Send, Answer, Abort, NextTurn, Under, Changing
<1>3. UNCHANGED <<saved, torn>>
  BY DEF StartCall, ReadConnection, Send, Answer, Abort
<1>4. CASE StartCall(v) \/ Answer(v)
  <2>1. calls'[v] = calls[v] \/ calls'[v] = None
    BY <1>0, <1>4 DEF StartCall, Answer, Types
  <2>2. QED
    BY <1>0, <1>1, <1>2, <1>3, <2>1, CarriesKept DEF Carried
<1>5. CASE Send(v)
  <2>1. Carried(v) /\ calls'[v] = [calls[v] EXCEPT !.stage = "sent"] /\ calls[v] \in Call
    BY <1>0, <1>5 DEF Send, Carried, Types
  <2>2. /\ calls'[v].provider = calls[v].provider /\ calls'[v].url = calls[v].url
        /\ calls'[v].key = calls[v].key
    BY <2>1 DEF Call
  <2>3. QED
    BY <1>0, <1>1, <1>2, <1>3, <2>1, <2>2, CarriesKept DEF Carried
<1>6. CASE Abort(v)
  <2>1. ~Carried(v)'
    <3>1. CASE calls'[v] = None
      BY <3>1 DEF Carried
    <3>2. CASE calls'[v] # None
      <4>1. calls'[v] = [calls[v] EXCEPT !.stage = "gone"] /\ calls[v] \in Call
        BY <1>0, <1>6, <3>2 DEF Abort, Active, Types
      <4>2. calls'[v].stage = "gone"
        BY <4>1 DEF Call
      <4>3. QED
        BY <4>2 DEF Carried
    <3>3. QED
      BY <3>1, <3>2
  <2>2. QED
    BY <1>0, <1>1, <1>2, <1>3, <2>1, CarriesKept DEF Carried
<1>7. CASE ReadConnection(v)
  <2> DEFINE p == calls[v].provider
             c == [stage |-> "ready", provider |-> p, url |-> base[p], key |-> keys[p]]
  <2>1. p \in Provider
    BY <1>7, HeadWaits DEF ReadConnection, Base, Queue
  <2>2. stage = "reading" /\ ~Under(p) /\ \A q \in Provider : ~Under(q)'
    BY <1>7 DEF ReadConnection, NextTurn, Under, Changing
  <2>3. \/ calls'[v] = None
        \/ calls'[v] = c /\ config = base
    BY <1>0, <1>7 DEF ReadConnection, Types
  <2>4. p \notin torn => saved[p].url = config[p] /\ saved[p].key = keys[p]
    BY <2>1, <2>2 DEF Agree
  <2>5. saved[p] = [url |-> saved[p].url, key |-> saved[p].key]
    BY <1>0, <2>1 DEF Types
  <2>6. CASE calls'[v] = None
    BY <1>0, <1>1, <1>2, <1>3, <2>6, CarriesKept DEF Carried
  <2>7. CASE calls'[v] = c /\ config = base
    <3>1. /\ calls'[v].provider = p /\ calls'[v].url = config[p] /\ calls'[v].key = keys[p]
      BY <2>7
    <3>2. p \notin torn => saved[p] = [url |-> calls'[v].url, key |-> calls'[v].key]
      BY <2>4, <2>5, <3>1
    <3>3. \A w \in Evaluation : Carried(w) => calls[w].provider \in Provider
      BY <1>0 DEF Types, Carried, Call
    <3> HIDE DEF c
    <3>4. QED
      BY <1>1, <1>3, <2>1, <2>2, <3>1, <3>2, <3>3 DEF Carries, Carried
  <2>8. QED
    BY <2>3, <2>6, <2>7
<1>8. QED
  BY <1>4, <1>5, <1>6, <1>7

\* Nothing is carried once the requests of all providers are cancelled.
LEMMA NoneIsCarried ==
  ASSUME NEW old \in [Evaluation -> Call \cup {None}], calls' = Cancelled(old, Provider)
  PROVE  \A v \in Evaluation : ~Carried(v)'
<1> SUFFICES ASSUME NEW v \in Evaluation, Carried(v)' PROVE FALSE
  OBVIOUS
<1>1. old[v].provider \notin Provider
  BY CancelledTyped DEF Carried
<1>2. calls'[v] = old[v] /\ old[v] \in Call
  BY <1>1, CancelledTyped DEF Carried
<1>3. QED
  BY <1>1, <1>2 DEF Call

LEMMA CarriesOfOthers ==
  ASSUME Base, Carries,
         \/ \E e \in Editor, op \in {"create", "edit", "remove"}, p \in Provider,
               url \in Url \cup {None}, key \in Key \cup {None, Keep} :
              Submit(e, op, p, url, key)
         \/ \E v \in Evaluation, p \in Provider : Evaluate(v, p)
         \/ \E p \in Provider, url \in Url \cup {None} : OutsideEdit(p, url)
         \/ \E p \in Provider, key \in Key \cup {None} : OutsideKey(p, key)
         \/ Dispose \/ Restart
  PROVE  Carries'
<1> USE DEF ghosts, queueVars
<1>0. Types /\ Queue
  BY DEF Base
<1>1. \A v \in Evaluation : Carried(v) => calls[v].provider \in Provider
  BY <1>0 DEF Types, Carried, Call
<1>2. CASE \E e \in Editor, op \in {"create", "edit", "remove"}, p \in Provider,
               url \in Url \cup {None}, key \in Key \cup {None, Keep} :
              Submit(e, op, p, url, key)
  <2>1. PICK e \in Editor, op \in {"create", "edit", "remove"}, p \in Provider,
             url \in Url \cup {None}, key \in Key \cup {None, Keep} :
               Submit(e, op, p, url, key)
    BY <1>2
  <2>2. \A f \in Editor : job[f] # None => job'[f] = job[f]
    BY <1>0, <2>1 DEF Submit, Types
  <2>3. Changing => Head(queue') = Head(queue)
    BY <1>0, <2>1, AppendFacts DEF Submit, Types, Task, Queue, Turns, Changing
  <2>4. UNCHANGED <<stage, saved, torn, calls>>
    BY <2>1 DEF Submit
  <2>5. \A q \in Provider : Under(q)' <=> Under(q)
    BY <2>2, <2>3, <2>4, UnderKept
  <2>6. QED
    BY <1>0, <2>4, <2>5, CarriesKept DEF Carried
<1>3. CASE \E v \in Evaluation, p \in Provider : Evaluate(v, p)
  <2>1. PICK v \in Evaluation, p \in Provider : Evaluate(v, p)
    BY <1>3
  <2>2. Changing => Head(queue') = Head(queue)
    BY <1>0, <2>1, AppendFacts DEF Evaluate, Types, Task, Queue, Turns, Changing
  <2>3. UNCHANGED <<stage, saved, torn, job>>
    BY <2>1 DEF Evaluate
  <2>4. \A q \in Provider : Under(q)' <=> Under(q)
    BY <2>2, <2>3, UnderKept
  <2>5. calls'[v].stage = "queued" /\ \A w \in Evaluation : w # v => calls'[w] = calls[w]
    BY <1>0, <2>1 DEF Evaluate, Types
  <2>6. QED
    BY <1>0, <2>3, <2>4, <2>5, CarriesKept DEF Carried
<1>4. CASE \/ \E p \in Provider, url \in Url \cup {None} : OutsideEdit(p, url)
           \/ \E p \in Provider, key \in Key \cup {None} : OutsideKey(p, key)
  <2>1. UNCHANGED <<queueVars, job, saved, calls>> /\ torn \subseteq torn'
    BY <1>4 DEF OutsideEdit, OutsideKey
  <2>2. \A q \in Provider : Under(q)' <=> Under(q)
    BY <2>1 DEF Under, Changing
  <2>3. QED
    BY <1>1, <2>1, <2>2 DEF Carries, Carried
<1>5. CASE Dispose \/ Restart
  <2>1. \A v \in Evaluation : ~Carried(v)'
    <3>1. CASE Restart
      BY <3>1 DEF Restart, Carried
    <3>2. CASE Dispose
      <4> DEFINE cs == [calls EXCEPT ![Head(queue)] = None]
      <4>1. calls' = Cancelled(calls, Provider) \/ calls' = Cancelled(cs, Provider)
        BY <3>2 DEF Dispose
      <4>2. cs \in [Evaluation -> Call \cup {None}]
        BY <1>0 DEF Types
      <4> HIDE DEF cs
      <4>3. ASSUME NEW old \in [Evaluation -> Call \cup {None}], calls' = Cancelled(old, Provider)
            PROVE  \A v \in Evaluation : ~Carried(v)'
        BY <4>3, NoneIsCarried
      <4>4. QED
        BY <1>0, <4>1, <4>2, <4>3 DEF Types
    <3>3. QED
      BY <1>5, <3>1, <3>2
  <2>2. QED
    BY <2>1 DEF Carries
<1>6. QED
  BY <1>2, <1>3, <1>4, <1>5

LEMMA CarriesNext == Base /\ Agree /\ Carries /\ [Next]_vars => Carries'
<1> SUFFICES ASSUME Base, Agree, Carries, [Next]_vars PROVE Carries'
  OBVIOUS
<1>1. CASE UNCHANGED vars
  BY <1>1, CarriesKept DEF vars, queueVars, ghosts, Base, Carried, Under, Changing
<1>2. CASE Next
  BY <1>2, CarriesOfEditors, CarriesOfCalls, CarriesOfOthers DEF Next
<1>3. QED
  BY <1>1, <1>2

-----------------------------------------------------------------------------
(* The plugin that was unloaded *)

LEMMA UnloadedKept ==
  ASSUME Unloaded, UNCHANGED disposed,
         disposed => \A v \in Evaluation : Carried(v)' => Carried(v),
         disposed /\ stage' = "reading" =>
           \/ Head(queue') \notin Evaluation
           \/ stage = "reading" /\ Head(queue') = Head(queue)
  PROVE  Unloaded'
BY DEF Unloaded

LEMMA UnloadedNext == Base /\ Unloaded /\ [Next]_vars => Unloaded'
<1> SUFFICES ASSUME Base, Unloaded, [Next]_vars PROVE Unloaded'
  OBVIOUS
<1> USE DEF ghosts, queueVars
<1>0. Types /\ Queue
  BY DEF Base
<1>1. CASE UNCHANGED vars
  BY <1>1, UnloadedKept DEF vars, Carried
<1>2. ASSUME NEW e \in Editor,
             \/ FetchState(e) \/ StartJob(e) \/ ReadOldKey(e) \/ WriteKey(e)
             \/ WriteConfig(e) \/ FailConfig(e) \/ RestoreKey(e)
      PROVE  Unloaded'
  <2>1. disposed' = disposed
    BY <1>2 DEF FetchState, StartJob, ReadOldKey, WriteKey, WriteConfig, FailConfig, RestoreKey
  <2>2. \A v \in Evaluation : Carried(v)' => Carried(v)
    <3>1. CASE UNCHANGED calls
      BY <3>1 DEF Carried
    <3>2. CASE calls' = Cancelled(calls, {job[e].provider})
      <4> DEFINE P == {job[e].provider}
      <4>1. calls' = Cancelled(calls, P) /\ calls \in [Evaluation -> Call \cup {None}]
        BY <1>0, <3>2 DEF Types
      <4> HIDE DEF P
      <4>2. QED
        BY <4>1, CancelledTyped DEF Carried
    <3>3. QED
      BY <1>2, <3>1, <3>2
      DEF FetchState, StartJob, ReadOldKey, WriteKey, WriteConfig, FailConfig, RestoreKey
  <2>3. stage' = "reading" => \/ stage = "reading" /\ Head(queue') = Head(queue)
                              \/ Head(queue') = e
    BY <1>2 DEF FetchState, StartJob, ReadOldKey, WriteKey, WriteConfig, FailConfig,
                RestoreKey, EndJob, NextTurn, Turn
  <2>4. QED
    BY <2>1, <2>2, <2>3, EditorIsNoCall, UnloadedKept
<1>3. ASSUME NEW v \in Evaluation,
             \/ StartCall(v) \/ ReadConnection(v) \/ Send(v) \/ Answer(v) \/ Abort(v)
      PROVE  Unloaded'
  <2>1. disposed' = disposed
    BY <1>3 DEF StartCall, ReadConnection, Send, Answer, Abort
  <2>2. ReadConnection(v) => ~disposed
    BY DEF ReadConnection, Unloaded
  <2>3. \A w \in Evaluation : w # v => calls'[w] = calls[w]
    BY <1>0, <1>3 DEF StartCall, ReadConnection, Send, Answer, Abort, Types
  <2>4. CASE ~disposed
    BY <2>1, <2>4 DEF Unloaded
  <2>5. CASE disposed
    <3>1. ~ReadConnection(v) /\ ~Send(v)
      BY <2>2, <2>5 DEF Send, Unloaded, Carried
    <3>2. ~Carried(v)'
      <4>1. CASE StartCall(v) \/ Answer(v)
        BY <1>0, <2>5, <4>1 DEF StartCall, Answer, Types, Carried, Unloaded
      <4>2. CASE Abort(v) /\ calls'[v] # None
        <5>1. calls'[v] = [calls[v] EXCEPT !.stage = "gone"] /\ calls[v] \in Call
          BY <1>0, <4>2 DEF Abort, Active, Types
        <5>2. calls'[v].stage = "gone"
          BY <5>1 DEF Call
        <5>3. QED
          BY <5>2 DEF Carried
      <4>3. QED
        BY <1>3, <3>1, <4>1, <4>2 DEF Carried
    <3>3. stage' = "reading" => stage = "reading" /\ queue' = queue
      BY <1>3, <2>5, <3>1 DEF StartCall, Answer, Abort, NextTurn
    <3>4. QED
      BY <2>1, <2>3, <3>2, <3>3, UnloadedKept DEF Carried
  <2>6. QED
    BY <2>4, <2>5
<1>4. ASSUME NEW e \in Editor, NEW op, NEW p, NEW url, NEW key, Submit(e, op, p, url, key)
      PROVE  Unloaded'
  BY <1>4 DEF Submit, Unloaded
<1>5. ASSUME NEW v \in Evaluation, NEW p, Evaluate(v, p)
      PROVE  Unloaded'
  BY <1>5 DEF Evaluate, Unloaded
<1>6. ASSUME NEW p, NEW x, OutsideEdit(p, x) \/ OutsideKey(p, x)
      PROVE  Unloaded'
  BY <1>6, UnloadedKept DEF OutsideEdit, OutsideKey, Carried
<1>7. CASE Restart
  BY <1>7 DEF Restart, Unloaded
<1>8. CASE Dispose
  <2>1. \A v \in Evaluation : ~Carried(v)'
    <3> DEFINE cs == [calls EXCEPT ![Head(queue)] = None]
    <3>1. calls' = Cancelled(calls, Provider) \/ calls' = Cancelled(cs, Provider)
      BY <1>8 DEF Dispose
    <3>2. cs \in [Evaluation -> Call \cup {None}]
      BY <1>0 DEF Types
    <3> HIDE DEF cs
    <3>3. ASSUME NEW old \in [Evaluation -> Call \cup {None}], calls' = Cancelled(old, Provider)
          PROVE  \A v \in Evaluation : ~Carried(v)'
      BY <3>3, NoneIsCarried
    <3>4. QED
      BY <1>0, <3>1, <3>2, <3>3 DEF Types
  <2>2. ~(stage' = "reading" /\ Head(queue') \in Evaluation)
    <3>1. CASE queue # <<>> /\ Head(queue) \in Evaluation /\ stage = "reading"
      BY <1>8, <3>1 DEF Dispose, NextTurn
    <3>2. CASE ~(queue # <<>> /\ Head(queue) \in Evaluation /\ stage = "reading")
      BY <1>0, <1>8, <3>2 DEF Dispose, Queue, Turns
    <3>3. QED
      BY <3>1, <3>2
  <2>3. QED
    BY <2>1, <2>2 DEF Unloaded
<1>9. QED
  BY <1>1, <1>2, <1>3, <1>4, <1>5, <1>6, <1>7, <1>8 DEF Next

-----------------------------------------------------------------------------
(* The results *)

LEMMA InvNext == IInv /\ [Next]_vars => IInv'
BY TypesNext, QueueNext, ShownNext, AgreeNext, CarriesNext, UnloadedNext DEF IInv, Base

LEMMA InvHolds == Spec => []IInv
BY InitHolds, InvNext, PTL DEF Spec

\* The settings, the key store, the queue and the calls keep their types, the
\* instance makes no more changes than its bound, and whoever has the turn is
\* at the head of the queue.
THEOREM TypeCorrect == Spec => []TypeOK
<1>1. IInv => TypeOK
  <2> SUFFICES ASSUME IInv PROVE TypeOK
    OBVIOUS
  <2>1. Types /\ Turns
    BY DEF IInv, Base, Queue
  <2>2. \A n \in DOMAIN queue : queue[n] \in Task
    BY <2>1 DEF Types
  <2>3. QED
    BY <2>1, <2>2 DEF Types, Turns, TypeOK
<1>2. QED
  BY <1>1, InvHolds, PTL

\* Between changes the endpoint in the profile and the key in the credential
\* store are those of the last change that succeeded: a failed change puts the
\* key back, unless others wrote, a crash fell into it or putting it back failed.
THEOREM StoresAgreeHolds == Spec => []StoresAgree
<1>1. IInv => StoresAgree
  <2> SUFFICES ASSUME IInv, stage \in {"waiting", "reading"}, NEW p \in Provider \ torn
               PROVE  saved[p] = [url |-> config[p], key |-> keys[p]]
    BY DEF StoresAgree
  <2>1. ~Under(p)
    BY DEF Under, Changing
  <2>2. saved[p].url = config[p] /\ saved[p].key = keys[p]
    BY <2>1 DEF IInv, Agree
  <2>3. saved[p] = [url |-> saved[p].url, key |-> saved[p].key]
    BY DEF IInv, Base, Types
  <2>4. QED
    BY <2>2, <2>3
<1>2. QED
  BY <1>1, InvHolds, PTL

\* A request is sent with the endpoint and the key that were saved together,
\* never while a change of its provider is under way nor after the plugin was
\* unloaded.
THEOREM RequestsAreWhole == Spec => SentAsSaved
<1>1. IInv /\ [Next]_vars =>
        [\A v \in Evaluation :
           LET p == calls[v].provider
           IN  calls[v] # None /\ calls[v].stage = "ready"
                 /\ calls'[v] # None /\ calls'[v].stage = "sent"
               => /\ ~disposed
                  /\ stage \in {"keying", "saving", "restoring"}
                       => job[Head(queue)].provider # p
                  /\ p \notin torn =>
                       saved[p] = [url |-> calls[v].url, key |-> calls[v].key]]_vars
  BY DEF IInv, Carries, Unloaded, Carried, Under, Changing
<1>2. QED
  BY <1>1, InvHolds, PTL DEF Spec, SentAsSaved

\* A change commits only on the very revision its editor was shown: no change of
\* the service and no edit by others came between.
THEOREM CommitsOnWhatWasSeen == Spec => CommitsWhatWasSeen
<1>1. ASSUME IInv, [Next]_vars, NEW e \in Editor,
             job[e] # None, job'[e] = None, saved' # saved
      PROVE  job[e].revision = CurrentRevision
  <2>1. PICK f \in Editor : WriteConfig(f)
    BY <1>1 DEF Next, vars, queueVars, ghosts, FetchState, Submit, StartJob, ReadOldKey,
       WriteKey, FailConfig, RestoreKey, Evaluate, StartCall, ReadConnection, Send, Answer,
       Abort, OutsideEdit, OutsideKey, Dispose, Restart
  <2>2. e = f
    BY <1>1, <2>1 DEF WriteConfig, EndJob, IInv, Base, Types
  <2>3. Head(queue) = e /\ stage # "waiting" /\ config = base
    BY <2>1, <2>2 DEF WriteConfig, Turn, UnchangedSince
  <2>4. QED
    BY <1>1, <2>3 DEF IInv, Base, Shown, CurrentRevision
<1>2. IInv /\ [Next]_vars =>
        [\A e \in Editor : job[e] # None /\ job'[e] = None /\ saved' # saved
           => job[e].revision = CurrentRevision]_vars
  BY <1>1
<1>3. QED
  BY <1>2, InvHolds, PTL DEF Spec, CommitsWhatWasSeen

=============================================================================
