--------------------------- MODULE DeliveryBroker ---------------------------
(***************************************************************************)
(* The host half of the notifier's delivery protocol: the class            *)
(* DeliveryBroker of dsh-next-notifier/src/host/delivery-broker.ts.        *)
(*                                                                         *)
(* Renderer clients report their presence and poll for alerts; the broker  *)
(* leases one alert per poll to one client and forgets it when the client  *)
(* acknowledges that it was shown.  A poll is one request that reports and *)
(* then claims (getPendingNotifications in host/rpc.ts).                   *)
(*                                                                         *)
(* Time is relative: every timestamp of the code is kept as the time       *)
(* elapsed since it was taken, cut off one unit after the last comparison  *)
(* that can still tell two ages apart, and every deadline as the time left *)
(* until it.  One Tick is one unit of all of them, so behaviours of any    *)
(* length have finitely many states.                                       *)
(***************************************************************************)
EXTENDS Naturals, FiniteSets

CONSTANTS
  Client,        \* renderer clients (ClientPresence.clientId)
  Session,       \* sessions an alert can be about
  Group,         \* alert groups: finished, approval, question
  Permission,    \* answers of the browser's notification permission
  Id,            \* alert ids; one is used per publication (randomUUID)
  Token,         \* lease tokens; one is used per lease (randomUUID)
  Event,         \* alerts: records [session, group, subagent]
  Presence,      \* what a client can report of itself
  Config,        \* settings the user can choose
  None,          \* no session, no lease
  Granted,       \* the permission that lets a hidden page notify
  MaxSequence,   \* bound: presence reports one client numbers
  CLIENT_TTL, FOCUS_TTL, EVENT_TTL, LEASE_TTL, MAX_PENDING, MAX_CLIENTS

ASSUME BrokerAssumption ==
  /\ Granted \in Permission
  /\ None \notin Client \cup Session
  /\ Event \subseteq [session: Session, group: Group, subagent: BOOLEAN]
  /\ Presence \subseteq [focused: BOOLEAN, visible: BOOLEAN, open: BOOLEAN,
                         session: Session \cup {None}, permission: Permission]
  /\ Config \subseteq [groups: SUBSET Group, subagent: BOOLEAN,
                       suppressFocused: BOOLEAN]
  /\ MaxSequence \in Nat
  /\ CLIENT_TTL \in Nat /\ FOCUS_TTL \in Nat /\ EVENT_TTL \in Nat
  /\ LEASE_TTL \in Nat \ {0}
  /\ MAX_PENDING \in Nat \ {0} /\ MAX_CLIENTS \in Nat \ {0}

VARIABLES
  clients,    \* known clients: last presence, its age, time left of a backoff
  pending,    \* alerts not yet acknowledged, by id
  config,     \* the settings, read afresh by every decision
  disposed,   \* the plugin was unloaded
  published,  \* ids ever used
  issued,     \* every delivery ever handed to a client
  accepted    \* the deliveries whose acknowledgement was answered with ok

vars == <<clients, pending, config, disposed, published, issued, accepted>>

-----------------------------------------------------------------------------
(* Types *)

Receipt == [id: Id, client: Client, token: Token]

ClientState == [presence: Presence, sequence: 1..MaxSequence,
                age: 0..CLIENT_TTL + 1, backoff: 0..LEASE_TTL]

Lease == [client: Client, token: Token, left: 0..LEASE_TTL]

\* earlier: the alerts inserted before this one and still pending; it stands
\* for the insertion order of the Map.
Alert == [event: Event, age: 0..EVENT_TTL + 1, lease: Lease \cup {None},
          earlier: SUBSET Id]

NoMap == [x \in {} |-> x]

TypeOK ==
  /\ DOMAIN clients \subseteq Client
  /\ \A c \in DOMAIN clients : clients[c] \in ClientState
  /\ DOMAIN pending \subseteq Id
  /\ \A i \in DOMAIN pending : pending[i] \in Alert
  /\ config \in Config
  /\ disposed \in BOOLEAN
  /\ published \subseteq Id
  /\ issued \subseteq Receipt
  /\ accepted \subseteq issued

-----------------------------------------------------------------------------
(* Pure parts of the handlers, over a client map cs and a pending map ps *)

Older(age, ttl) == IF age > ttl THEN age ELSE age + 1

Keep(f, S) == [x \in DOMAIN f \cap S |-> f[x]]

Without(ps, gone) ==
  [i \in DOMAIN ps \ gone |-> [ps[i] EXCEPT !.earlier = @ \ gone]]

PruneClients(cs) == Keep(cs, {c \in DOMAIN cs : cs[c].age <= CLIENT_TTL})

PrunePending(ps) == Without(ps, {i \in DOMAIN ps : ps[i].age > EVENT_TTL})

LiveClients(cs) ==
  {c \in DOMAIN cs : cs[c].presence.open /\ cs[c].age <= CLIENT_TTL}

Looking(cs, c) ==
  /\ cs[c].presence.focused
  /\ cs[c].presence.visible
  /\ cs[c].age <= FOCUS_TTL

Viewing(cs, session) ==
  \E c \in LiveClients(cs) : Looking(cs, c) /\ cs[c].presence.session = session

\* Every clause of allowed() and decide(): the first client found only selects
\* which of two equivalent reasons is reported, never the verdict, and a
\* missing permission keeps the alert for a later foreground toast.
Allowed(cs, event) ==
  /\ event.group \in config.groups
  /\ event.subagent => config.subagent
  /\ LiveClients(cs) # {}
  /\ config.suppressFocused => ~Viewing(cs, event.session)

Leased(alert) == alert.lease # None /\ alert.lease.left > 0

\* Fault: an expired lease still counts.
MatchExpired(ps, r) ==
  /\ r.id \in DOMAIN ps
  /\ ps[r.id].lease # None
  /\ ps[r.id].lease.client = r.client
  /\ ps[r.id].lease.token = r.token

\* match(): the alert is pending under exactly this unexpired lease.
Match(ps, r) ==
  /\ r.id \in DOMAIN ps
  /\ Leased(ps[r.id])
  /\ ps[r.id].lease.client = r.client
  /\ ps[r.id].lease.token = r.token

\* A report is a presence with the client that sent it and its number.
Accepts(cs, c, sequence) ==
  IF c \in DOMAIN cs THEN sequence > cs[c].sequence
                     ELSE Cardinality(DOMAIN cs) < MAX_CLIENTS

Changed(cs, c, presence) ==
  \/ c \notin DOMAIN cs
  \/ cs[c].presence.focused # presence.focused
  \/ cs[c].presence.visible # presence.visible
  \/ cs[c].presence.permission # presence.permission

Reported(cs, c, sequence, presence) ==
  IF Accepts(cs, c, sequence)
  THEN [d \in DOMAIN cs \cup {c} |->
          IF d # c THEN cs[d]
          ELSE [presence |-> presence, sequence |-> sequence, age |-> 0,
                backoff |-> IF Changed(cs, c, presence) THEN 0
                            ELSE cs[c].backoff]]
  ELSE cs

\* Fault: closing clears the queue but frees no lease.
VacatedLeased(cs, ps, c, sequence, presence) ==
  IF presence.open \/ ~Accepts(cs, c, sequence) THEN ps
  ELSE IF LiveClients(Reported(cs, c, sequence, presence)) = {} THEN NoMap ELSE ps

\* The alerts after that report, where cs is the client map before it.
Vacated(cs, ps, c, sequence, presence) ==
  IF presence.open \/ ~Accepts(cs, c, sequence) THEN ps
  ELSE IF LiveClients(Reported(cs, c, sequence, presence)) = {} THEN NoMap
  ELSE [i \in DOMAIN ps |->
          IF ps[i].lease # None /\ ps[i].lease.client = c
          THEN [ps[i] EXCEPT !.lease = None] ELSE ps[i]]

Ready(cs) == {c \in LiveClients(cs) : cs[c].backoff = 0}

\* A client that looks at the page goes first; a page in the background needs
\* the permission to show anything.
MayClaim(cs, c) ==
  /\ c \in Ready(cs)
  /\ IF \E d \in Ready(cs) : Looking(cs, d)
     THEN Looking(cs, c)
     ELSE cs[c].presence.permission = Granted

\* Fault: a leased alert is handed out again.
FreeOrLeased(cs, ps) == {i \in DOMAIN ps : Allowed(cs, ps[i].event)}

Free(cs, ps) == {i \in DOMAIN ps : Allowed(cs, ps[i].event) /\ ~Leased(ps[i])}

\* The first alert the loop of claim() can lease, as a set of at most one id.
NextAlert(cs, ps) == {i \in Free(cs, ps) : ps[i].earlier \cap Free(cs, ps) = {}}

\* The alerts that loop deletes on its way: those no longer allowed.
Dropped(cs, ps) ==
  {i \in DOMAIN ps : /\ ~Allowed(cs, ps[i].event)
                     /\ \A k \in NextAlert(cs, ps) : i \in ps[k].earlier}

-----------------------------------------------------------------------------
(* Operations *)

Init ==
  /\ clients = NoMap
  /\ pending = NoMap
  /\ config \in Config
  /\ disposed = FALSE
  /\ published = {}
  /\ issued = {}
  /\ accepted = {}

\* report(): requests of one client may overtake one another, so any number
\* may arrive at any time.
Report(c, sequence, presence) ==
  LET cs == PruneClients(clients)
  IN  /\ ~disposed
      /\ clients' = Reported(cs, c, sequence, presence)
      /\ pending' = Vacated(cs, PrunePending(pending), c, sequence, presence)
      /\ UNCHANGED <<config, disposed, published, issued, accepted>>

FreshTokens == Token \ {r.token : r \in issued}

\* getPendingNotifications: report() and then claim() in one request.  The
\* report may be refused as stale; the claim then uses what is known.
Poll(c, sequence, presence) ==
  LET known == PruneClients(clients)
      cs    == Reported(known, c, sequence, presence)
      ps    == Vacated(known, PrunePending(pending), c, sequence, presence)
      rest  == Without(ps, Dropped(cs, ps))
  IN  /\ ~disposed
      /\ clients' = cs
      /\ \/ /\ ~MayClaim(cs, c)
            /\ pending' = ps
            /\ issued' = issued
         \/ /\ MayClaim(cs, c)
            /\ NextAlert(cs, ps) = {}
            /\ pending' = rest
            /\ issued' = issued
         \/ /\ MayClaim(cs, c)
            /\ \E i \in NextAlert(cs, ps), t \in FreshTokens :
                 /\ pending' = [rest EXCEPT ![i].lease =
                                  [client |-> c, token |-> t, left |-> LEASE_TTL]]
                 /\ issued' = issued \cup {[id |-> i, client |-> c, token |-> t]}
      /\ UNCHANGED <<config, disposed, published, accepted>>

\* presence(): an inquiry, which also prunes.
Query ==
  /\ ~disposed
  /\ clients' = PruneClients(clients)
  /\ pending' = PrunePending(pending)
  /\ UNCHANGED <<config, disposed, published, issued, accepted>>

Oldest(ps) == {i \in DOMAIN ps : ps[i].earlier = {}}

Inserted(ps, i, event) ==
  [j \in DOMAIN ps \cup {i} |->
     IF j = i THEN [event |-> event, age |-> 0, lease |-> None,
                    earlier |-> DOMAIN ps]
              ELSE ps[j]]

\* publish(): an alert nobody may be told of is forgotten at once, and a full
\* queue loses its oldest alert, leased or not.
Publish(i, event) ==
  LET cs == PruneClients(clients)
      ps == PrunePending(pending)
      qs == Inserted(ps, i, event)
  IN  /\ ~disposed
      /\ i \notin published
      /\ clients' = cs
      /\ IF Allowed(cs, event)
         THEN /\ published' = published \cup {i}
              /\ pending' = IF Cardinality(DOMAIN qs) > MAX_PENDING
                            THEN Without(qs, Oldest(qs)) ELSE qs
         ELSE pending' = ps /\ published' = published
      /\ UNCHANGED <<config, disposed, issued, accepted>>

\* The function publish() returns: the publisher withdraws its alert.
Retract(i) ==
  /\ i \in DOMAIN pending
  /\ pending' = Without(pending, {i})
  /\ UNCHANGED <<clients, config, disposed, published, issued, accepted>>

\* ack(): the alert goes even when the settings no longer allow it; only an
\* allowed one is answered with ok, which is what lets the client play a sound.
Ack(r) ==
  LET cs == PruneClients(clients)
      ps == PrunePending(pending)
  IN  /\ ~disposed
      /\ clients' = cs
      /\ IF Match(ps, r)
         THEN /\ pending' = Without(ps, {r.id})
              /\ accepted' = IF Allowed(cs, ps[r.id].event)
                             THEN accepted \cup {r} ELSE accepted
         ELSE pending' = ps /\ accepted' = accepted
      /\ UNCHANGED <<config, disposed, published, issued>>

\* release(): the client could not show the alert, and will not be offered one
\* for a while unless what it reports changes.
Release(r) ==
  /\ Match(pending, r)
  /\ pending' = [pending EXCEPT ![r.id].lease = None]
  /\ clients' = IF r.client \in DOMAIN clients
                THEN [clients EXCEPT ![r.client].backoff = LEASE_TTL]
                ELSE clients
  /\ UNCHANGED <<config, disposed, published, issued, accepted>>

Dispose ==
  /\ ~disposed
  /\ disposed' = TRUE
  /\ clients' = NoMap
  /\ pending' = NoMap
  /\ UNCHANGED <<config, published, issued, accepted>>

SetConfig(c) ==
  /\ config' = c
  /\ UNCHANGED <<clients, pending, disposed, published, issued, accepted>>

LessLeft(lease) ==
  IF lease # None /\ lease.left > 0 THEN [lease EXCEPT !.left = @ - 1] ELSE lease

Tick ==
  /\ clients' = [c \in DOMAIN clients |->
       [clients[c] EXCEPT !.age = Older(@, CLIENT_TTL),
                          !.backoff = IF @ > 0 THEN @ - 1 ELSE 0]]
  /\ pending' = [i \in DOMAIN pending |->
       [pending[i] EXCEPT !.age = Older(@, EVENT_TTL), !.lease = LessLeft(@)]]
  /\ UNCHANGED <<config, disposed, published, issued, accepted>>

Request ==
  \/ \E c \in Client, n \in 1..MaxSequence, p \in Presence :
       Report(c, n, p) \/ Poll(c, n, p)
  \/ Query
  \/ \E r \in issued : Ack(r) \/ Release(r)

Next ==
  \/ Request
  \/ \E i \in Id, e \in Event : Publish(i, e)
  \/ \E i \in Id : Retract(i)
  \/ \E c \in Config : SetConfig(c)
  \/ Dispose
  \/ Tick

Spec == Init /\ [][Next]_vars

-----------------------------------------------------------------------------
(* Properties *)

\* A page that reported it is closed holds no lease, so its alerts can move to
\* another page at once; the reports of one page may arrive in any order.
ClosedHoldsNoLease ==
  \A i \in DOMAIN pending :
    LET lease == pending[i].lease
    IN  lease # None /\ lease.client \in DOMAIN clients
          => clients[lease.client].presence.open

\* The stages of an alert for the abstract protocol AlertLease.
stage ==
  [i \in Id |->
     IF i \notin published THEN "unpublished"
     ELSE IF i \in DOMAIN pending
          THEN IF Leased(pending[i]) THEN "held" ELSE "waiting"
     ELSE IF \E r \in accepted : r.id = i THEN "delivered"
     ELSE "withdrawn"]

holder ==
  [i \in Id |->
     CASE stage[i] = "held" ->
            [client |-> pending[i].lease.client, token |-> pending[i].lease.token]
       [] stage[i] = "delivered" ->
            LET r == CHOOSE r \in accepted : r.id = i
            IN  [client |-> r.client, token |-> r.token]
       [] OTHER -> None]

Abstract == INSTANCE AlertLease WITH Holder <- [client: Client, token: Token]

\* Every broker step is a step of the abstract protocol: a lease passes from
\* one holder to another only through being free, and only its current holder
\* can get the alert delivered, once.
ImplementsAlertLease == Abstract!Spec

=============================================================================
