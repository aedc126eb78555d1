-------------------------- MODULE DecisionService --------------------------
(***************************************************************************)
(* The settings and the requests of the decision providers: the class      *)
(* DecisionService of dsh-next-decisions/src/host/service.ts over the      *)
(* profile's configuration (host/config.ts) and the credential store       *)
(* (host/credentials.ts).                                                  *)
(*                                                                         *)
(* Browsers save and remove providers against a revision they were shown;  *)
(* evaluations read a provider with its key and send a request.  Both wait *)
(* their turn in one queue, and a change spans two stores.  The settings   *)
(* can be edited by others, stores can fail, and the host can crash.       *)
(*                                                                         *)
(* A provider is reduced to its endpoint: names and models decide nothing  *)
(* but whether the configuration changed.  The profile is writable.        *)
(***************************************************************************)
EXTENDS Naturals, FiniteSets, Sequences, SequencesExt

CONSTANTS
  Provider, Url, Key,
  Editor,            \* browsers that edit the settings
  Evaluation,        \* requests that may be under way at once
  None,              \* no endpoint (the provider is absent), no key
  Keep,              \* a save that does not mention the key
  MAX_PROVIDERS,     \* 50
  MAX_ACTIVE,        \* 4
  MAX_PER_PROVIDER,  \* 2
  MaxGeneration,     \* bound: changes made by one instance of the service
  MaxBoot,           \* bound: restarts
  MaxOutside         \* bound: changes made by others

Task == Editor \cup Evaluation

Revision == [boot: 0..MaxBoot, generation: 0..MaxGeneration,
             config: [Provider -> Url \cup {None}]]

Job == [op: {"create", "edit", "remove"}, provider: Provider,
        url: Url \cup {None}, key: Key \cup {None, Keep}, revision: Revision]

Call == [stage: {"queued", "gone", "ready", "sent"}, provider: Provider,
         url: Url \cup {None}, key: Key \cup {None}]

ASSUME DecisionAssumption ==
  /\ None \notin Url \cup Key /\ Keep \notin Key \cup {None}
  /\ None \notin Job \cup Call
  /\ Editor \cap Evaluation = {}
  /\ MAX_PROVIDERS \in Nat /\ MAX_ACTIVE \in Nat /\ MAX_PER_PROVIDER \in Nat
  /\ MaxGeneration \in Nat /\ MaxBoot \in Nat /\ MaxOutside \in Nat

VARIABLES
  config,      \* the endpoint of each provider, in the profile
  keys,        \* the key of each provider, in the credential store
  boot,        \* the identity of the running instance
  generation,
  disposed,
  queue,       \* tasks in the order of serial()
  stage,       \* how far the first task is
  base,        \* the configuration it read
  oldKey,      \* the key it read
  job,         \* the change each editor waits for
  view,        \* the revision each editor was shown
  calls,       \* the evaluations
  outside,     \* how many changes others made
  saved,       \* the endpoint and key the last successful change left
  torn         \* providers that were changed by others or left half changed

queueVars == <<queue, stage, base, oldKey>>
ghosts == <<outside, saved, torn>>
vars == <<config, keys, boot, generation, disposed, queueVars, job, view, calls,
          ghosts>>

TypeOK ==
  /\ config \in [Provider -> Url \cup {None}]
  /\ keys \in [Provider -> Key \cup {None}]
  /\ boot \in 0..MaxBoot /\ generation \in 0..MaxGeneration
  /\ disposed \in BOOLEAN
  /\ \A n \in DOMAIN queue : queue[n] \in Task
  /\ stage \in {"waiting", "reading", "keying", "saving", "restoring"}
  /\ stage # "waiting" => queue # <<>>
  /\ base \in [Provider -> Url \cup {None}] \cup {None}
  /\ oldKey \in Key \cup {None}
  /\ \A e \in Editor : job[e] \in Job \cup {None}
  /\ \A e \in Editor : view[e] \in Revision \cup {None}
  /\ \A v \in Evaluation : calls[v] \in Call \cup {None}
  /\ saved \in [Provider -> [url: Url \cup {None}, key: Key \cup {None}]]
  /\ outside \in 0..MaxOutside
  /\ torn \subseteq Provider

Absent == [p \in Provider |-> None]

Init ==
  /\ config = Absent /\ keys = Absent
  /\ boot = 0 /\ generation = 0 /\ disposed = FALSE
  /\ queue = <<>> /\ stage = "waiting" /\ base = None /\ oldKey = None
  /\ job = [e \in Editor |-> None]
  /\ view = [e \in Editor |-> None]
  /\ calls = [v \in Evaluation |-> None]
  /\ saved = [p \in Provider |-> [url |-> None, key |-> None]]
  /\ outside = 0 /\ torn = {}

-----------------------------------------------------------------------------

\* revision()
CurrentRevision == [boot |-> boot, generation |-> generation, config |-> config]

Listed == {p \in Provider : config[p] # None}

\* The key a change leaves behind, given the one that is stored.
NextKey(j, old) == IF j.key = Keep THEN old ELSE j.key

\* remove() always deletes the key, save() writes it only when it changes.
WritesKey(j, old) == j.op = "remove" \/ NextKey(j, old) # old

\* The refusals of save() and remove() before anything is awaited.
Refused(j) ==
  \/ disposed
  \/ j.revision # CurrentRevision
  \/ j.op = "create" /\ (j.provider \in Listed \/ Cardinality(Listed) >= MAX_PROVIDERS)
  \/ j.op # "create" /\ j.provider \notin Listed

\* The refusals after the key was read.
RefusedLater(j, old) ==
  \/ /\ j.op = "edit" /\ j.url # config[j.provider]
     /\ old # None /\ j.key = Keep
  \/ disposed
  \/ config # base

\* Fault: only requests that were sent are cancelled.
CancelledSent(cs, P) ==
  [v \in Evaluation |->
     IF cs[v] # None /\ cs[v].provider \in P /\ cs[v].stage = "sent" THEN None ELSE cs[v]]

\* The evaluations cs after those of the providers P were aborted.  One that
\* still waits for its turn leaves a task in the queue that does nothing.
Cancelled(cs, P) ==
  [v \in Evaluation |->
     IF cs[v] = None \/ cs[v].provider \notin P THEN cs[v]
     ELSE IF cs[v].stage \in {"queued", "gone"} THEN [cs[v] EXCEPT !.stage = "gone"]
     ELSE None]

NextTurn == queue' = Tail(queue) /\ stage' = "waiting" /\ base' = None /\ oldKey' = None

-----------------------------------------------------------------------------
(* Editors *)

\* state(): it waits its turn too, reads the keys, and fails if the settings
\* changed meanwhile.
FetchState(e) ==
  /\ ~disposed
  /\ stage = "waiting"
  /\ view' = [view EXCEPT ![e] = CurrentRevision]
  /\ UNCHANGED <<config, keys, boot, generation, disposed, queueVars, job, calls, ghosts>>

Submit(e, op, p, url, key) ==
  /\ ~disposed
  /\ job[e] = None /\ view[e] # None
  /\ generation < MaxGeneration
  /\ op = "remove" => url = None /\ key = None
  /\ op # "remove" => url # None
  /\ job' = [job EXCEPT ![e] = [op |-> op, provider |-> p, url |-> url,
                                key |-> key, revision |-> view[e]]]
  /\ queue' = Append(queue, e)
  /\ UNCHANGED <<config, keys, boot, generation, disposed, stage, base, oldKey,
                 view, calls, ghosts>>

\* The change of e is over, and the editor may ask for the state again.
EndJob(e) ==
  /\ job' = [job EXCEPT ![e] = None]
  /\ NextTurn

\* The first task is the change of e, which has come this far.
Turn(e, s) == queue # <<>> /\ Head(queue) = e /\ job[e] # None /\ stage = s

StartJob(e) ==
  /\ Turn(e, "waiting")
  /\ \/ Refused(job[e]) /\ EndJob(e)
     \/ /\ ~Refused(job[e])
        /\ stage' = "reading" /\ base' = config
        /\ UNCHANGED <<queue, oldKey, job>>
  /\ UNCHANGED <<config, keys, boot, generation, disposed, view, calls, ghosts>>

ReadOldKey(e) ==
  LET old == keys[job[e].provider]
  IN  /\ Turn(e, "reading")
      /\ \/ EndJob(e) /\ UNCHANGED calls   \* the credential store failed
         \/ RefusedLater(job[e], old) /\ EndJob(e) /\ UNCHANGED calls
         \/ /\ ~RefusedLater(job[e], old)
            /\ calls' = Cancelled(calls, {job[e].provider})
            /\ oldKey' = old
            /\ stage' = IF WritesKey(job[e], old) THEN "keying" ELSE "saving"
            /\ UNCHANGED <<queue, base, job>>
      /\ UNCHANGED <<config, keys, boot, generation, disposed, view, ghosts>>

\* A write of the key that fails may have happened.
WriteKey(e) ==
  LET p == job[e].provider
      written == [keys EXCEPT ![p] = NextKey(job[e], oldKey)]
  IN  /\ Turn(e, "keying")
      /\ \/ keys' = written /\ stage' = "saving"
         \/ keys' \in {keys, written} /\ stage' = "restoring"
      /\ UNCHANGED <<config, boot, generation, disposed, queue, base, oldKey,
                     job, view, calls, ghosts>>

\* Fault: the configuration is written over whatever is there.
UnchangedSinceAny(e) == TRUE

\* edit() of configStore: the configuration is still the one that was read.
UnchangedSince(e) == config = base

WriteConfig(e) ==
  LET p == job[e].provider
  IN  /\ Turn(e, "saving")
      /\ UnchangedSince(e)
      /\ config' = [base EXCEPT ![p] = job[e].url]
      /\ generation' = generation + 1
      /\ saved' = [saved EXCEPT ![p] = [url |-> job[e].url,
                                        key |-> NextKey(job[e], oldKey)]]
      /\ torn' = IF keys[p] = NextKey(job[e], oldKey) THEN torn \ {p} ELSE torn
      /\ EndJob(e)
      /\ UNCHANGED <<keys, boot, disposed, view, calls, outside>>

\* Fault: a key that was written stays when the configuration is not.
NothingToRestore(e) == FALSE

ToRestore(e) == WritesKey(job[e], oldKey)

\* The configuration changed, or writing it failed.
FailConfig(e) ==
  /\ Turn(e, "saving")
  /\ \/ /\ ToRestore(e)
        /\ stage' = "restoring"
        /\ UNCHANGED <<generation, queue, base, oldKey, job>>
     \/ /\ ~ToRestore(e)
        /\ generation' = generation + 1
        /\ EndJob(e)
  /\ UNCHANGED <<config, keys, boot, disposed, view, calls, ghosts>>

RestoreKey(e) ==
  LET p == job[e].provider
  IN  /\ Turn(e, "restoring")
      /\ \/ keys' = [keys EXCEPT ![p] = oldKey] /\ torn' = torn
         \/ keys' = keys /\ torn' = torn \cup {p}
      /\ generation' = generation + 1
      /\ EndJob(e)
      /\ UNCHANGED <<config, boot, disposed, view, calls, outside, saved>>

-----------------------------------------------------------------------------
(* Evaluations *)

Active == {v \in Evaluation : calls[v] # None /\ calls[v].stage # "gone"}

Evaluate(v, p) ==
  /\ ~disposed
  /\ calls[v] = None
  /\ Cardinality(Active) < MAX_ACTIVE
  /\ Cardinality({w \in Active : calls[w].provider = p}) < MAX_PER_PROVIDER
  /\ calls' = [calls EXCEPT ![v] = [stage |-> "queued", provider |-> p,
                                    url |-> None, key |-> None]]
  /\ queue' = Append(queue, v)
  /\ UNCHANGED <<config, keys, boot, generation, disposed, stage, base, oldKey,
                 job, view, ghosts>>

StartCall(v) ==
  /\ queue # <<>> /\ Head(queue) = v /\ stage = "waiting"
  /\ \/ /\ calls[v].stage = "gone" \/ disposed \/ calls[v].provider \notin Listed
        /\ calls' = [calls EXCEPT ![v] = None]
        /\ NextTurn
     \/ /\ calls[v].stage # "gone" /\ ~disposed /\ calls[v].provider \in Listed
        /\ stage' = "reading" /\ base' = config
        /\ UNCHANGED <<queue, oldKey, calls>>
  /\ UNCHANGED <<config, keys, boot, generation, disposed, job, view, ghosts>>

ReadConnection(v) ==
  LET p == calls[v].provider
  IN  /\ queue # <<>> /\ Head(queue) = v /\ stage = "reading"
      /\ NextTurn
      /\ \/ /\ config = base
            /\ calls' = [calls EXCEPT ![v] = [stage |-> "ready", provider |-> p,
                                              url |-> base[p], key |-> keys[p]]]
         \/ calls' = [calls EXCEPT ![v] = None]   \* changed, or the store failed
      /\ UNCHANGED <<config, keys, boot, generation, disposed, job, view, ghosts>>

Send(v) ==
  /\ calls[v] # None /\ calls[v].stage = "ready"
  /\ calls' = [calls EXCEPT ![v].stage = "sent"]
  /\ UNCHANGED <<config, keys, boot, generation, disposed, queueVars, job, view, ghosts>>

Answer(v) ==
  /\ calls[v] # None /\ calls[v].stage = "sent"
  /\ calls' = [calls EXCEPT ![v] = None]
  /\ UNCHANGED <<config, keys, boot, generation, disposed, queueVars, job, view, ghosts>>

\* Fault: a read of the key cannot be abandoned.
AbortUnlessReading(v) ==
  /\ v \in Active
  /\ ~(queue # <<>> /\ Head(queue) = v /\ stage = "reading")
  /\ calls' = [calls EXCEPT ![v] =
                  IF @.stage = "queued" THEN [@ EXCEPT !.stage = "gone"] ELSE None]
  /\ UNCHANGED <<config, keys, boot, generation, disposed, queueVars, job, view, ghosts>>

\* The fifteen seconds are over, or the caller gave up.  A read of the key that
\* is under way is abandoned and gives the turn to the next task.
Abort(v) ==
  /\ v \in Active
  /\ IF queue # <<>> /\ Head(queue) = v /\ stage = "reading"
     THEN NextTurn /\ calls' = [calls EXCEPT ![v] = None]
     ELSE /\ calls' = [calls EXCEPT ![v] =
                         IF @.stage = "queued" THEN [@ EXCEPT !.stage = "gone"] ELSE None]
          /\ UNCHANGED queueVars
  /\ UNCHANGED <<config, keys, boot, generation, disposed, job, view, ghosts>>

-----------------------------------------------------------------------------
(* Others *)

\* Another settings page or a text editor.
OutsideEdit(p, url) ==
  /\ config[p] # url
  /\ config' = [config EXCEPT ![p] = url]
  /\ outside < MaxOutside /\ outside' = outside + 1
  /\ torn' = torn \cup {p}
  /\ UNCHANGED <<keys, boot, generation, disposed, queueVars, job, view, calls, saved>>

OutsideKey(p, key) ==
  /\ keys[p] # key
  /\ keys' = [keys EXCEPT ![p] = key]
  /\ outside < MaxOutside /\ outside' = outside + 1
  /\ torn' = torn \cup {p}
  /\ UNCHANGED <<config, boot, generation, disposed, queueVars, job, view, calls, saved>>

\* The host unloads the plugin; the change under way goes on.
Dispose ==
  /\ ~disposed
  /\ disposed' = TRUE
  /\ IF queue # <<>> /\ Head(queue) \in Evaluation /\ stage = "reading"
     THEN NextTurn /\ calls' = Cancelled([calls EXCEPT ![Head(queue)] = None], Provider)
     ELSE UNCHANGED queueVars /\ calls' = Cancelled(calls, Provider)
  /\ UNCHANGED <<config, keys, boot, generation, job, view, ghosts>>

\* The host stops between two steps and starts again.
Restart ==
  /\ boot < MaxBoot
  /\ boot' = boot + 1
  /\ generation' = 0 /\ disposed' = FALSE
  /\ queue' = <<>> /\ stage' = "waiting" /\ base' = None /\ oldKey' = None
  /\ job' = [e \in Editor |-> None]
  /\ calls' = [v \in Evaluation |-> None]
  /\ torn' = IF stage \in {"saving", "keying", "restoring"}
             THEN torn \cup {job[Head(queue)].provider} ELSE torn
  /\ UNCHANGED <<config, keys, view, outside, saved>>

Next ==
  \/ \E e \in Editor :
       \/ FetchState(e)
       \/ \E op \in {"create", "edit", "remove"}, p \in Provider,
             url \in Url \cup {None}, key \in Key \cup {None, Keep} :
            Submit(e, op, p, url, key)
       \/ StartJob(e) \/ ReadOldKey(e) \/ WriteKey(e)
       \/ WriteConfig(e) \/ FailConfig(e) \/ RestoreKey(e)
  \/ \E v \in Evaluation :
       \/ \E p \in Provider : Evaluate(v, p)
       \/ StartCall(v) \/ ReadConnection(v) \/ Send(v) \/ Answer(v) \/ Abort(v)
  \/ \E p \in Provider : \/ \E url \in Url \cup {None} : OutsideEdit(p, url)
                         \/ \E key \in Key \cup {None} : OutsideKey(p, key)
  \/ Dispose
  \/ Restart

Spec == Init /\ [][Next]_vars

\* The event loop runs the tasks, the stores answer a change with success or
\* failure, and every evaluation has a timer.  Nothing obliges the credential
\* store to answer an evaluation.
FairSpec ==
  /\ Spec
  /\ \A e \in Editor : WF_vars(StartJob(e) \/ ReadOldKey(e) \/ WriteKey(e)
                                 \/ WriteConfig(e) \/ FailConfig(e) \/ RestoreKey(e))
  /\ \A v \in Evaluation : WF_vars(StartCall(v)) /\ WF_vars(Abort(v))

-----------------------------------------------------------------------------
(* Properties *)

\* "Credential changes are compensated if the corresponding configuration
\* write fails" (docs/decisions.md): between changes, endpoint and key of a
\* provider are those of the last change that succeeded, unless others changed
\* them, a crash fell into a change, or the compensation itself failed.
StoresAgree ==
  stage \in {"waiting", "reading"} =>
    \A p \in Provider \ torn : saved[p] = [url |-> config[p], key |-> keys[p]]

\* A request carries the endpoint and the key that were saved together, and is
\* not sent while they are being changed or after the plugin was unloaded.
SentAsSaved ==
  [][\A v \in Evaluation :
       LET p == calls[v].provider
       IN  calls[v] # None /\ calls[v].stage = "ready"
             /\ calls'[v] # None /\ calls'[v].stage = "sent"
           => /\ ~disposed
              /\ stage \in {"keying", "saving", "restoring"}
                   => job[Head(queue)].provider # p
              /\ p \notin torn =>
                   saved[p] = [url |-> calls[v].url, key |-> calls[v].key]]_vars

\* A change is based on what its editor was shown: no other change of the
\* service and no foreign edit came between.
CommitsWhatWasSeen ==
  [][\A e \in Editor :
       job[e] # None /\ job'[e] = None /\ saved' # saved
         => job[e].revision = CurrentRevision]_vars

\* Every change ends, even when the credential store never answers the
\* evaluations that wait before it.
ChangesEnd == \A e \in Editor : job[e] # None ~> job[e] = None

=============================================================================
