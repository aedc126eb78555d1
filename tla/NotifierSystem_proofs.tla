------------------------ MODULE NotifierSystem_proofs ------------------------
(***************************************************************************)
(* Proofs about NotifierSystem for any pages, alerts, reports, requests    *)
(* and times: the broker keeps its promises behind its network, the sound  *)
(* of an alert plays once, and no two pages hold a lease of it they trust. *)
(***************************************************************************)
EXTENDS NotifierSystem, FiniteSetTheorems, TLAPS

-----------------------------------------------------------------------------
(* The broker *)

\* A client map and a pending map of the right types.
GoodClients(cs) ==
  /\ DOMAIN cs \subseteq Client
  /\ \A c \in DOMAIN cs : cs[c] \in ClientState

GoodPending(ps) ==
  /\ DOMAIN ps \subseteq Id
  /\ \A i \in DOMAIN ps : ps[i] \in Alert

LEMMA NoMapGood == GoodClients(NoMap) /\ GoodPending(NoMap) /\ DOMAIN NoMap = {}
BY DEF GoodClients, GoodPending, NoMap

\* Deleting alerts keeps the event and the lease of the others.
LEMMA WithoutGood ==
  ASSUME NEW ps, GoodPending(ps), NEW gone
  PROVE  /\ GoodPending(Without(ps, gone))
         /\ DOMAIN Without(ps, gone) = DOMAIN ps \ gone
         /\ \A i \in DOMAIN ps \ gone :
              Without(ps, gone)[i].lease = ps[i].lease
BY DEF GoodPending, Without, Alert

LEMMA PruneClientsGood ==
  ASSUME NEW cs, GoodClients(cs)
  PROVE  /\ GoodClients(PruneClients(cs))
         /\ DOMAIN PruneClients(cs) \subseteq DOMAIN cs
         /\ \A c \in DOMAIN PruneClients(cs) : PruneClients(cs)[c] = cs[c]
BY DEF GoodClients, PruneClients, Keep

LEMMA PrunePendingGood ==
  ASSUME NEW ps, GoodPending(ps)
  PROVE  /\ GoodPending(PrunePending(ps))
         /\ DOMAIN PrunePending(ps) \subseteq DOMAIN ps
         /\ \A i \in DOMAIN PrunePending(ps) :
              PrunePending(ps)[i].lease = ps[i].lease
<1> DEFINE gone == {i \in DOMAIN ps : ps[i].age > EVENT_TTL}
<1>1. PrunePending(ps) = Without(ps, gone)
  BY DEF PrunePending
<1> HIDE DEF gone
<1>2. /\ GoodPending(Without(ps, gone))
      /\ DOMAIN Without(ps, gone) = DOMAIN ps \ gone
      /\ \A i \in DOMAIN ps \ gone : Without(ps, gone)[i].lease = ps[i].lease
  BY WithoutGood
<1>3. QED
  BY <1>1, <1>2

LEMMA ReportedGood ==
  ASSUME NEW cs, GoodClients(cs), NEW c \in Client, NEW n \in 1..MaxSequence,
         NEW p \in Presence
  PROVE  GoodClients(Reported(cs, c, n, p))
<1> DEFINE b == IF Changed(cs, c, p) THEN 0 ELSE cs[c].backoff
<1>1. b \in 0..LEASE_TTL
  BY BrokerAssumption DEF GoodClients, ClientState, Changed
<1>2. [presence |-> p, sequence |-> n, age |-> 0, backoff |-> b] \in ClientState
  BY <1>1, BrokerAssumption DEF ClientState
<1>3. QED
  BY <1>2 DEF GoodClients, Reported

LEMMA VacatedGood ==
  ASSUME NEW cs, NEW ps, GoodPending(ps), NEW c, NEW n, NEW p
  PROVE  /\ GoodPending(Vacated(cs, ps, c, n, p))
         /\ DOMAIN Vacated(cs, ps, c, n, p) \subseteq DOMAIN ps
         /\ \A i \in DOMAIN Vacated(cs, ps, c, n, p) :
              Vacated(cs, ps, c, n, p)[i].lease \in {ps[i].lease, None}
<1>1. \A i \in DOMAIN ps : [ps[i] EXCEPT !.lease = None] \in Alert
  BY DEF GoodPending, Alert
<1>2. QED
  BY <1>1, NoMapGood DEF GoodPending, Vacated, Alert

-----------------------------------------------------------------------------

THEOREM InitTypeOK == Init => TypeOK
BY DEF Init, TypeOK, NoMap

LEMMA TypeOKIsGood ==
  TypeOK <=> /\ GoodClients(clients) /\ GoodPending(pending)
             /\ config \in Config /\ disposed \in BOOLEAN
             /\ published \subseteq Id
             /\ issued \subseteq Receipt /\ accepted \subseteq issued
BY DEF TypeOK, GoodClients, GoodPending

\* One step keeps every variable in its type.
LEMMA StepTypeOK == TypeOK /\ [Next]_vars => TypeOK'
<1> SUFFICES ASSUME TypeOK, [Next]_vars PROVE TypeOK'
  OBVIOUS
<1> USE TypeOKIsGood
<1>0. /\ GoodClients(clients) /\ GoodPending(pending)
      /\ config \in Config /\ disposed \in BOOLEAN
      /\ published \subseteq Id
      /\ issued \subseteq Receipt /\ accepted \subseteq issued
  OBVIOUS
<1> DEFINE Good == /\ GoodClients(clients') /\ GoodPending(pending')
                   /\ config' \in Config /\ disposed' \in BOOLEAN
                   /\ published' \subseteq Id
                   /\ issued' \subseteq Receipt /\ accepted' \subseteq issued'
<1> SUFFICES Good
  BY DEF TypeOK, GoodClients, GoodPending
<1>c. GoodClients(PruneClients(clients))
  BY <1>0, PruneClientsGood
<1>p. GoodPending(PrunePending(pending))
  BY <1>0, PrunePendingGood
<1>1. ASSUME NEW c \in Client, NEW n \in 1..MaxSequence, NEW p \in Presence,
             Report(c, n, p)
      PROVE  Good
  BY <1>0, <1>1, <1>c, <1>p, ReportedGood, VacatedGood DEF Report
<1>2. ASSUME NEW c \in Client, NEW n \in 1..MaxSequence, NEW p \in Presence,
             Poll(c, n, p)
      PROVE  Good
  <2> DEFINE known == PruneClients(clients)
             cs    == Reported(known, c, n, p)
             ps    == Vacated(known, PrunePending(pending), c, n, p)
             rest  == Without(ps, Dropped(cs, ps))
  <2>1. GoodClients(cs) /\ GoodPending(ps)
    BY <1>c, <1>p, ReportedGood, VacatedGood
  <2>2. GoodPending(rest)
    BY <2>1, WithoutGood
  <2>3. CASE issued' = issued /\ (pending' = ps \/ pending' = rest)
    BY <2>1, <2>2, <2>3, <1>0, <1>2 DEF Poll
  <2>4. ASSUME NEW i \in NextAlert(cs, ps), NEW t \in FreshTokens,
               pending' = [rest EXCEPT ![i].lease =
                             [client |-> c, token |-> t, left |-> LEASE_TTL]],
               issued' = issued \cup {[id |-> i, client |-> c, token |-> t]}
        PROVE  GoodPending(pending') /\ issued' \subseteq Receipt
    <3>1. i \in Id /\ t \in Token
      BY <2>1 DEF NextAlert, Free, GoodPending, FreshTokens
    <3>2. [client |-> c, token |-> t, left |-> LEASE_TTL] \in Lease
      BY <3>1, BrokerAssumption DEF Lease
    <3>3. GoodPending(pending')
      BY <2>2, <2>4, <3>2 DEF GoodPending, Alert
    <3>4. QED
      BY <3>1, <3>3, <2>4, <1>0 DEF Receipt
  <2>5. clients' = cs /\ UNCHANGED <<config, disposed, published, accepted>>
    BY <1>2 DEF Poll
  <2>6. \/ issued' = issued /\ (pending' = ps \/ pending' = rest)
        \/ \E i \in NextAlert(cs, ps), t \in FreshTokens :
             /\ pending' = [rest EXCEPT ![i].lease =
                              [client |-> c, token |-> t, left |-> LEASE_TTL]]
             /\ issued' = issued \cup {[id |-> i, client |-> c, token |-> t]}
    BY <1>2 DEF Poll
  <2>7. QED
    BY <2>1, <2>3, <2>4, <2>5, <2>6, <1>0
<1>3. ASSUME Query PROVE Good
  BY <1>0, <1>3, <1>c, <1>p DEF Query
<1>4. ASSUME NEW i \in Id, NEW e \in Event, Publish(i, e)
      PROVE  Good
  <2> DEFINE ps == PrunePending(pending)
             qs == Inserted(ps, i, e)
  <2>1. GoodPending(qs)
    BY <1>p, BrokerAssumption DEF Inserted, GoodPending, Alert
  <2>2. GoodPending(Without(qs, Oldest(qs)))
    BY <2>1, WithoutGood
  <2>3. QED
    BY <1>4, <1>0, <1>c, <1>p, <2>1, <2>2 DEF Publish
<1>5. ASSUME NEW i \in Id, Retract(i)
      PROVE  Good
  BY <1>5, <1>0, WithoutGood DEF Retract
<1>6. ASSUME NEW r \in issued, Ack(r)
      PROVE  Good
  <2> DEFINE ps == PrunePending(pending)
  <2>0. GoodPending(Without(ps, {r.id}))
    BY <1>p, WithoutGood
  <2>1. GoodClients(clients') /\ GoodPending(pending')
    BY <1>6, <1>c, <1>p, <2>0 DEF Ack
  <2>2. accepted' \subseteq issued'
    BY <1>6, <1>0 DEF Ack
  <2>3. QED
    BY <1>0, <1>6, <2>1, <2>2 DEF Ack
<1>7. ASSUME NEW r \in issued, Release(r)
      PROVE  Good
  <2>1. GoodPending(pending')
    BY <1>7, <1>0 DEF Release, GoodPending, Alert
  <2>2. \A c \in DOMAIN clients :
          [clients[c] EXCEPT !.backoff = LEASE_TTL] \in ClientState
    BY <1>0, BrokerAssumption DEF GoodClients, ClientState
  <2>3. GoodClients(clients')
    BY <1>7, <1>0, <2>2 DEF Release, GoodClients
  <2>4. QED
    BY <1>0, <1>7, <2>1, <2>3 DEF Release
<1>8. ASSUME NEW c \in Config, SetConfig(c) PROVE Good
  BY <1>0, <1>8 DEF SetConfig
<1>9. ASSUME Dispose PROVE Good
  BY <1>0, <1>9, NoMapGood DEF Dispose
<1>10. ASSUME Tick PROVE Good
  <2>1. ASSUME NEW c \in DOMAIN clients
        PROVE  [clients[c] EXCEPT !.age = Older(@, CLIENT_TTL),
                                  !.backoff = IF @ > 0 THEN @ - 1 ELSE 0]
                 \in ClientState
    <3>1. clients[c] \in ClientState
      BY <1>0 DEF GoodClients
    <3>2. Older(clients[c].age, CLIENT_TTL) \in 0..CLIENT_TTL + 1
      BY <3>1, BrokerAssumption DEF ClientState, Older
    <3>3. (IF clients[c].backoff > 0 THEN clients[c].backoff - 1 ELSE 0)
            \in 0..LEASE_TTL
      BY <3>1, BrokerAssumption DEF ClientState
    <3>4. QED
      BY <3>1, <3>2, <3>3 DEF ClientState
  <2>2. ASSUME NEW i \in DOMAIN pending
        PROVE  [pending[i] EXCEPT !.age = Older(@, EVENT_TTL),
                                  !.lease = LessLeft(@)] \in Alert
    <3>1. pending[i] \in Alert
      BY <1>0 DEF GoodPending
    <3>2. Older(pending[i].age, EVENT_TTL) \in 0..EVENT_TTL + 1
      BY <3>1, BrokerAssumption DEF Alert, Older
    <3>3. LessLeft(pending[i].lease) \in Lease \cup {None}
      BY <3>1, BrokerAssumption DEF Alert, LessLeft, Lease
    <3>4. QED
      BY <3>1, <3>2, <3>3 DEF Alert
  <2>3. QED
    BY <1>10, <1>0, <2>1, <2>2 DEF Tick, GoodClients, GoodPending
<1>11. CASE UNCHANGED vars
  BY <1>11, <1>0 DEF vars
<1>12. QED
  BY <1>1, <1>2, <1>3, <1>4, <1>5, <1>6, <1>7, <1>8, <1>9, <1>10, <1>11
  DEF Next, Request

\* Type correctness of the broker: ages, back-offs and leases stay within their
\* ranges and acknowledgements are only ever those of issued deliveries.
THEOREM TypeCorrect == Spec => []TypeOK
<1>1. QED
  BY InitTypeOK, StepTypeOK, PTL DEF Spec

-----------------------------------------------------------------------------
(* A closed page holds no lease. *)

NoClosedHolder(cs, ps) ==
  \A i \in DOMAIN ps :
    ps[i].lease # None /\ ps[i].lease.client \in DOMAIN cs
      => cs[ps[i].lease.client].presence.open

\* Forgetting clients, alerts and leases creates no closed holder.
LEMMA FewerHolders ==
  ASSUME NEW cs, NEW ps, NoClosedHolder(cs, ps),
         NEW ds, DOMAIN ds \subseteq DOMAIN cs,
         \A c \in DOMAIN ds : ds[c].presence = cs[c].presence,
         NEW qs, DOMAIN qs \subseteq DOMAIN ps,
         \A i \in DOMAIN qs : qs[i].lease \in {ps[i].lease, None}
  PROVE  NoClosedHolder(ds, qs)
BY DEF NoClosedHolder

LEMMA WithoutHolders ==
  ASSUME NEW cs, NEW ps, NoClosedHolder(cs, ps), GoodPending(ps), NEW gone
  PROVE  NoClosedHolder(cs, Without(ps, gone))
BY DEF NoClosedHolder, Without, GoodPending, Alert

LEMMA PruneHolders ==
  ASSUME TypeOK, NoClosedHolder(clients, pending)
  PROVE  NoClosedHolder(PruneClients(clients), PrunePending(pending))
<1>1. GoodClients(clients) /\ GoodPending(pending)
  BY TypeOKIsGood
<1>2. /\ DOMAIN PruneClients(clients) \subseteq DOMAIN clients
      /\ \A c \in DOMAIN PruneClients(clients) :
           PruneClients(clients)[c].presence = clients[c].presence
  BY <1>1, PruneClientsGood
<1>3. /\ DOMAIN PrunePending(pending) \subseteq DOMAIN pending
      /\ \A i \in DOMAIN PrunePending(pending) :
           PrunePending(pending)[i].lease \in {pending[i].lease, None}
  BY <1>1, PrunePendingGood
<1>4. QED
  BY <1>2, <1>3, FewerHolders

\* A report that closes a page also takes its leases back.
LEMMA ReportHolders ==
  ASSUME NEW cs, NEW ps, NoClosedHolder(cs, ps), GoodPending(ps),
         NEW c, NEW n, NEW p
  PROVE  NoClosedHolder(Reported(cs, c, n, p), Vacated(cs, ps, c, n, p))
<1> DEFINE ds == Reported(cs, c, n, p)
           qs == Vacated(cs, ps, c, n, p)
<1>1. CASE ~Accepts(cs, c, n)
  BY <1>1 DEF Reported, Vacated
<1>2. CASE Accepts(cs, c, n) /\ p.open
  BY <1>2 DEF Reported, Vacated, NoClosedHolder
<1>3. CASE Accepts(cs, c, n) /\ ~p.open
  <2>1. CASE LiveClients(ds) = {}
    BY <1>3, <2>1 DEF Vacated, NoClosedHolder, NoMap
  <2>2. CASE LiveClients(ds) # {}
    <3>1. qs = [i \in DOMAIN ps |->
                  IF ps[i].lease # None /\ ps[i].lease.client = c
                  THEN [ps[i] EXCEPT !.lease = None] ELSE ps[i]]
      BY <1>3, <2>2 DEF Vacated
    <3>2. \A i \in DOMAIN qs :
            /\ qs[i].lease \in {ps[i].lease, None}
            /\ qs[i].lease # None => qs[i].lease.client # c
      BY <3>1 DEF GoodPending, Alert
    <3>3. \A d \in DOMAIN ds : d # c => d \in DOMAIN cs /\ ds[d] = cs[d]
      BY <1>3 DEF Reported
    <3>4. DOMAIN qs = DOMAIN ps
      BY <3>1
    <3>5. QED
      BY <3>2, <3>3, <3>4 DEF NoClosedHolder
  <2>3. QED
    BY <2>1, <2>2
<1>4. QED
  BY <1>1, <1>2, <1>3

LEMMA StepHolders ==
  TypeOK /\ NoClosedHolder(clients, pending) /\ [Next]_vars
    => NoClosedHolder(clients', pending')
<1> SUFFICES ASSUME TypeOK, NoClosedHolder(clients, pending), [Next]_vars
             PROVE  NoClosedHolder(clients', pending')
  OBVIOUS
<1>0. GoodClients(clients) /\ GoodPending(pending)
  BY TypeOKIsGood
<1>c. GoodClients(PruneClients(clients))
  BY <1>0, PruneClientsGood
<1>p. GoodPending(PrunePending(pending))
  BY <1>0, PrunePendingGood
<1>h. NoClosedHolder(PruneClients(clients), PrunePending(pending))
  BY PruneHolders
<1>1. ASSUME NEW c \in Client, NEW n \in 1..MaxSequence, NEW p \in Presence,
             Report(c, n, p)
      PROVE  NoClosedHolder(clients', pending')
  BY <1>1, <1>p, <1>h, ReportHolders DEF Report
<1>2. ASSUME NEW c \in Client, NEW n \in 1..MaxSequence, NEW p \in Presence,
             Poll(c, n, p)
      PROVE  NoClosedHolder(clients', pending')
  <2> DEFINE known == PruneClients(clients)
             cs    == Reported(known, c, n, p)
             ps    == Vacated(known, PrunePending(pending), c, n, p)
             rest  == Without(ps, Dropped(cs, ps))
  <2>1. NoClosedHolder(cs, ps) /\ GoodPending(ps)
    BY <1>p, <1>h, ReportHolders, VacatedGood
  <2>2. GoodPending(rest)
    BY <2>1, WithoutGood
  <2>3. NoClosedHolder(cs, rest)
    BY <2>1, WithoutHolders
  <2>4. ASSUME MayClaim(cs, c), NEW i \in NextAlert(cs, ps), NEW t,
               pending' = [rest EXCEPT ![i].lease =
                             [client |-> c, token |-> t, left |-> LEASE_TTL]]
        PROVE  NoClosedHolder(cs, pending')
    <3>1. cs[c].presence.open
      BY <2>4 DEF MayClaim, Ready, LiveClients
    <3>2. /\ DOMAIN pending' = DOMAIN rest
          /\ \A j \in DOMAIN rest :
               \/ pending'[j].lease = rest[j].lease
               \/ pending'[j].lease.client = c
      BY <2>2, <2>4 DEF GoodPending, Alert
    <3>3. QED
      BY <2>3, <3>1, <3>2 DEF NoClosedHolder
  <2>5. clients' = cs
    BY <1>2 DEF Poll
  <2>6. \/ pending' = ps \/ pending' = rest
        \/ /\ MayClaim(cs, c)
           /\ \E i \in NextAlert(cs, ps), t \in FreshTokens :
                pending' = [rest EXCEPT ![i].lease =
                              [client |-> c, token |-> t, left |-> LEASE_TTL]]
    BY <1>2 DEF Poll
  <2>7. QED
    BY <2>1, <2>3, <2>4, <2>5, <2>6
<1>3. CASE Query
  BY <1>3, <1>h DEF Query
<1>4. ASSUME NEW i \in Id, NEW e \in Event, Publish(i, e)
      PROVE  NoClosedHolder(clients', pending')
  <2> DEFINE cs == PruneClients(clients)
             ps == PrunePending(pending)
             qs == Inserted(ps, i, e)
  <2>1. GoodPending(qs)
    BY <1>p, <1>4, BrokerAssumption DEF Inserted, GoodPending, Alert
  <2>2. NoClosedHolder(cs, qs)
    BY <1>h, <1>p DEF NoClosedHolder, Inserted
  <2>3. NoClosedHolder(cs, Without(qs, Oldest(qs)))
    BY <2>1, <2>2, WithoutHolders
  <2>4. QED
    BY <1>4, <1>h, <2>2, <2>3 DEF Publish
<1>5. ASSUME NEW i \in Id, Retract(i)
      PROVE  NoClosedHolder(clients', pending')
  <2>1. /\ DOMAIN pending' \subseteq DOMAIN pending
        /\ \A j \in DOMAIN pending' : pending'[j].lease = pending[j].lease
        /\ clients' = clients
    BY <1>0, <1>5 DEF Retract, Without, GoodPending, Alert
  <2>2. QED
    BY <2>1, FewerHolders
<1>6. ASSUME NEW r \in issued, Ack(r)
      PROVE  NoClosedHolder(clients', pending')
  <2> DEFINE ps == PrunePending(pending)
  <2>1. clients' = PruneClients(clients)
    BY <1>6 DEF Ack
  <2>3. NoClosedHolder(PruneClients(clients), Without(ps, {r.id}))
    BY <1>h, <1>p, WithoutHolders
  <2>4. pending' = Without(ps, {r.id}) \/ pending' = ps
    BY <1>6 DEF Ack
  <2>5. QED
    BY <1>h, <2>1, <2>3, <2>4
<1>7. ASSUME NEW r \in issued, Release(r)
      PROVE  NoClosedHolder(clients', pending')
  <2>1. /\ DOMAIN pending' = DOMAIN pending
        /\ \A i \in DOMAIN pending :
             pending'[i].lease \in {pending[i].lease, None}
    BY <1>0, <1>7 DEF Release, GoodPending, Alert
  <2>2. /\ DOMAIN clients' = DOMAIN clients
        /\ \A c \in DOMAIN clients :
             clients'[c].presence = clients[c].presence
    BY <1>0, <1>7 DEF Release, GoodClients, ClientState
  <2>3. QED
    BY <2>1, <2>2, FewerHolders
<1>8. ASSUME NEW c \in Config, SetConfig(c)
      PROVE  NoClosedHolder(clients', pending')
  BY <1>8 DEF SetConfig
<1>9. CASE Dispose
  BY <1>9 DEF Dispose, NoClosedHolder, NoMap
<1>10. CASE Tick
  <2>1. /\ DOMAIN clients' = DOMAIN clients
        /\ \A c \in DOMAIN clients :
             clients'[c].presence = clients[c].presence
    BY <1>0, <1>10 DEF Tick, GoodClients, ClientState
  <2>2. /\ DOMAIN pending' = DOMAIN pending
        /\ \A i \in DOMAIN pending :
             pending'[i].lease = LessLeft(pending[i].lease)
    BY <1>0, <1>10 DEF Tick, GoodPending, Alert
  <2>3. \A i \in DOMAIN pending :
          LessLeft(pending[i].lease) # None =>
            /\ pending[i].lease # None
            /\ LessLeft(pending[i].lease).client = pending[i].lease.client
    BY <1>0 DEF GoodPending, Alert, Lease, LessLeft
  <2>4. QED
    BY <2>1, <2>2, <2>3 DEF NoClosedHolder
<1>11. CASE UNCHANGED vars
  BY <1>11 DEF vars
<1>12. QED
  BY <1>1, <1>2, <1>3, <1>4, <1>5, <1>6, <1>7, <1>8, <1>9, <1>10, <1>11
  DEF Next, Request

\* Whatever order reports, polls, expiries and releases come in, a page that
\* has reported it is closed holds no lease.
THEOREM ClosedPagesHoldNoLease == Spec => []ClosedHoldsNoLease
<1>1. Init => NoClosedHolder(clients, pending)
  BY DEF Init, NoClosedHolder, NoMap
<1>2. NoClosedHolder(clients, pending) <=> ClosedHoldsNoLease
  BY DEF NoClosedHolder, ClosedHoldsNoLease
<1>3. (TypeOK /\ ClosedHoldsNoLease) /\ [Next]_vars => ClosedHoldsNoLease'
  BY StepHolders DEF NoClosedHolder, ClosedHoldsNoLease
<1>4. QED
  BY <1>1, <1>2, <1>3, TypeCorrect, PTL DEF Spec

-----------------------------------------------------------------------------
(* The broker implements the abstract protocol AlertLease. *)

\* An alert is pending or was accepted, never both, and is accepted once.
Once ==
  /\ DOMAIN pending \subseteq published
  /\ \A r \in accepted : r.id \in published \ DOMAIN pending
  /\ \A r, s \in accepted : r.id = s.id => r = s

SameHolder(a, b) ==
  Leased(a) /\ Leased(b) =>
    a.lease.client = b.lease.client /\ a.lease.token = b.lease.token

\* A step that publishes and accepts nothing: alerts may go, and a lease may
\* begin or end, but none passes from one holder to another.
Quiet ==
  /\ published' = published
  /\ accepted' = accepted
  /\ DOMAIN pending' \subseteq DOMAIN pending
  /\ \A i \in DOMAIN pending' : SameHolder(pending[i], pending'[i])

\* A step that publishes one alert, and may lose others.
Adds(k) ==
  /\ k \notin published
  /\ published' = published \cup {k}
  /\ accepted' = accepted
  /\ k \in DOMAIN pending'
  /\ DOMAIN pending' \subseteq DOMAIN pending \cup {k}
  /\ pending'[k].lease = None
  /\ \A i \in DOMAIN pending' \ {k} : SameHolder(pending[i], pending'[i])

\* A step that accepts the acknowledgement of a current lease.
Accepting(r) ==
  /\ Match(pending, r)
  /\ published' = published
  /\ accepted' = accepted \cup {r}
  /\ DOMAIN pending' \subseteq DOMAIN pending \ {r.id}
  /\ \A i \in DOMAIN pending' : SameHolder(pending[i], pending'[i])

\* The holder of an alert, by the stage it is in.
StageOf(i) ==
  /\ i \notin published => stage[i] = "unpublished" /\ holder[i] = None
  /\ i \in DOMAIN pending /\ Leased(pending[i]) =>
       /\ stage[i] = "held"
       /\ holder[i] = [client |-> pending[i].lease.client,
                       token |-> pending[i].lease.token]
       /\ holder[i] \in [client: Client, token: Token]
  /\ i \in DOMAIN pending /\ ~Leased(pending[i]) =>
       stage[i] = "waiting" /\ holder[i] = None
  /\ \A r \in accepted : r.id = i =>
       /\ stage[i] = "delivered"
       /\ holder[i] = [client |-> r.client, token |-> r.token]
  /\ i \in published \ DOMAIN pending /\ (\A r \in accepted : r.id # i) =>
       stage[i] = "withdrawn" /\ holder[i] = None

LEMMA Stages == TypeOK /\ Once => \A i \in Id : StageOf(i)
<1> SUFFICES ASSUME TypeOK, Once, NEW i \in Id PROVE StageOf(i)
  OBVIOUS
<1>1. i \notin published => stage[i] = "unpublished" /\ holder[i] = None
  BY DEF stage, holder
<1>2. ASSUME i \in DOMAIN pending, Leased(pending[i])
      PROVE  /\ stage[i] = "held"
             /\ holder[i] = [client |-> pending[i].lease.client,
                             token |-> pending[i].lease.token]
             /\ holder[i] \in [client: Client, token: Token]
  <2>1. stage[i] = "held"
    BY <1>2 DEF stage, Once
  <2>2. holder[i] = [client |-> pending[i].lease.client,
                     token |-> pending[i].lease.token]
    BY <2>1 DEF holder
  <2>3. pending[i].lease \in Lease
    BY <1>2 DEF TypeOK, Alert, Leased
  <2>4. QED
    BY <2>1, <2>2, <2>3 DEF Lease
<1>3. ASSUME i \in DOMAIN pending, ~Leased(pending[i])
      PROVE  stage[i] = "waiting" /\ holder[i] = None
  <2>1. stage[i] = "waiting"
    BY <1>3 DEF stage, Once
  <2>2. QED
    BY <2>1 DEF holder
<1>4. ASSUME NEW r \in accepted, r.id = i
      PROVE  /\ stage[i] = "delivered"
             /\ holder[i] = [client |-> r.client, token |-> r.token]
  <2>1. stage[i] = "delivered"
    BY <1>4 DEF stage, Once
  <2>2. (CHOOSE s \in accepted : s.id = i) = r
    BY <1>4 DEF Once
  <2>3. QED
    BY <2>1, <2>2 DEF holder
<1>5. ASSUME i \in published \ DOMAIN pending, \A r \in accepted : r.id # i
      PROVE  stage[i] = "withdrawn" /\ holder[i] = None
  <2>1. stage[i] = "withdrawn"
    BY <1>5 DEF stage
  <2>2. QED
    BY <2>1 DEF holder
<1>6. QED
  BY <1>1, <1>2, <1>3, <1>4, <1>5 DEF StageOf

LEMMA StagesNext == TypeOK' /\ Once' => (\A i \in Id : StageOf(i))'
BY Stages, PTL

LEMMA QuietOnce == Once /\ Quiet => Once'
BY DEF Once, Quiet

LEMMA AddsOnce == ASSUME NEW k, Once, Adds(k) PROVE Once'
BY DEF Once, Adds

LEMMA AcceptingOnce == ASSUME NEW r, Once, Accepting(r) PROVE Once'
BY DEF Once, Accepting, Match


LEMMA QuietMoves ==
  ASSUME TypeOK, Once, TypeOK', Once', Quiet, NEW i \in Id
  PROVE  Abstract!Move(i)
<1> USE DEF Abstract!Move, Abstract!Stay, Abstract!Lend, Abstract!GiveBack,
            Abstract!Withdraw
<1>1. StageOf(i) /\ StageOf(i)'
  BY Stages, StagesNext
<1>2. CASE i \notin published
  BY <1>1, <1>2 DEF StageOf, Quiet
<1>3. CASE i \in DOMAIN pending'
  <2>1. i \in DOMAIN pending /\ SameHolder(pending[i], pending'[i])
    BY <1>3 DEF Quiet
  <2>2. QED
    BY <1>1, <1>3, <2>1 DEF StageOf, SameHolder, Leased
<1>4. CASE i \in DOMAIN pending \ DOMAIN pending'
  <2>1. i \in published' /\ \A r \in accepted' : r.id # i
    BY <1>4 DEF Once, Quiet
  <2>2. QED
    BY <1>1, <1>4, <2>1 DEF StageOf
<1>5. CASE i \in published \ DOMAIN pending /\ i \notin DOMAIN pending'
  <2>1. i \in published' \ DOMAIN pending'
    BY <1>5 DEF Quiet
  <2>2. CASE \E a \in accepted : a.id = i
    <3>1. PICK a \in accepted : a.id = i
      BY <2>2
    <3>2. a \in accepted'
      BY <3>1 DEF Quiet
    <3>3. QED
      BY <1>1, <3>1, <3>2 DEF StageOf
  <2>3. CASE \A a \in accepted : a.id # i
    <3>1. \A a \in accepted' : a.id # i
      BY <2>3, <1>5 DEF Quiet
    <3>2. QED
      BY <1>1, <1>5, <2>1, <2>3, <3>1 DEF StageOf
  <2>4. QED
    BY <2>2, <2>3
<1>6. QED
  BY <1>2, <1>3, <1>4, <1>5

LEMMA AddsMoves ==
  ASSUME TypeOK, Once, TypeOK', Once', NEW k, Adds(k), NEW i \in Id
  PROVE  Abstract!Move(i)
<1> USE DEF Abstract!Move, Abstract!Stay, Abstract!Lend, Abstract!GiveBack,
            Abstract!Withdraw, Abstract!Appear
<1>1. StageOf(i) /\ StageOf(i)'
  BY Stages, StagesNext
<1>2. CASE i = k
  <2>1. i \in DOMAIN pending' /\ ~Leased(pending'[i])
    BY <1>2 DEF Adds, Leased
  <2>2. QED
    BY <1>1, <1>2, <2>1 DEF StageOf, Adds
<1>3. CASE i # k /\ i \notin published
  BY <1>1, <1>3 DEF StageOf, Adds
<1>4. CASE i # k /\ i \in DOMAIN pending'
  <2>1. i \in DOMAIN pending /\ SameHolder(pending[i], pending'[i])
    BY <1>4 DEF Adds
  <2>2. QED
    BY <1>1, <1>4, <2>1 DEF StageOf, SameHolder, Leased
<1>5. CASE i # k /\ i \in DOMAIN pending \ DOMAIN pending'
  <2>1. i \in published' /\ \A r \in accepted' : r.id # i
    BY <1>5 DEF Once, Adds
  <2>2. QED
    BY <1>1, <1>5, <2>1 DEF StageOf
<1>6. CASE i # k /\ i \in published \ DOMAIN pending /\ i \notin DOMAIN pending'
  <2>1. i \in published' \ DOMAIN pending'
    BY <1>6 DEF Adds
  <2>2. CASE \E a \in accepted : a.id = i
    <3>1. PICK a \in accepted : a.id = i
      BY <2>2
    <3>2. a \in accepted'
      BY <3>1 DEF Adds
    <3>3. QED
      BY <1>1, <3>1, <3>2 DEF StageOf
  <2>3. CASE \A a \in accepted : a.id # i
    <3>1. \A a \in accepted' : a.id # i
      BY <2>3, <1>6 DEF Adds
    <3>2. QED
      BY <1>1, <1>6, <2>1, <2>3, <3>1 DEF StageOf
  <2>4. QED
    BY <2>2, <2>3
<1>7. QED
  BY <1>2, <1>3, <1>4, <1>5, <1>6

LEMMA AcceptingMoves ==
  ASSUME TypeOK, Once, TypeOK', Once', NEW r, Accepting(r), NEW i \in Id
  PROVE  Abstract!Move(i)
<1> USE DEF Abstract!Move, Abstract!Stay, Abstract!GiveBack, Abstract!Lend,
            Abstract!Withdraw, Abstract!Deliver
<1>1. StageOf(i) /\ StageOf(i)'
  BY Stages, StagesNext
<1>2. CASE i = r.id
  <2>1. /\ i \in DOMAIN pending /\ Leased(pending[i])
        /\ pending[i].lease.client = r.client
        /\ pending[i].lease.token = r.token
    BY <1>2 DEF Accepting, Match
  <2>2. r \in accepted'
    BY DEF Accepting
  <2>3. stage[i] = "held" /\ holder[i] = [client |-> r.client, token |-> r.token]
    BY <1>1, <2>1 DEF StageOf
  <2>4. /\ stage'[i] = "delivered"
        /\ holder'[i] = [client |-> r.client, token |-> r.token]
    BY <1>1, <1>2, <2>2 DEF StageOf
  <2>5. QED
    BY <2>3, <2>4
<1>3. CASE i # r.id /\ i \notin published
  BY <1>1, <1>3 DEF StageOf, Accepting
<1>4. CASE i # r.id /\ i \in DOMAIN pending'
  <2>1. i \in DOMAIN pending /\ SameHolder(pending[i], pending'[i])
    BY <1>4 DEF Accepting
  <2>2. QED
    BY <1>1, <1>4, <2>1 DEF StageOf, SameHolder, Leased
<1>5. CASE i # r.id /\ i \in DOMAIN pending \ DOMAIN pending'
  <2>1. i \in published' /\ \A a \in accepted' : a.id # i
    BY <1>5 DEF Once, Accepting
  <2>2. QED
    BY <1>1, <1>5, <2>1 DEF StageOf
<1>6. CASE i # r.id /\ i \in published \ DOMAIN pending /\ i \notin DOMAIN pending'
  <2>1. i \in published' \ DOMAIN pending'
    BY <1>6 DEF Accepting
  <2>2. CASE \E a \in accepted : a.id = i
    <3>1. PICK a \in accepted : a.id = i
      BY <2>2
    <3>2. a \in accepted'
      BY <3>1 DEF Accepting
    <3>3. QED
      BY <1>1, <3>1, <3>2 DEF StageOf
  <2>3. CASE \A a \in accepted : a.id # i
    <3>1. \A a \in accepted' : a.id # i
      BY <2>3, <1>6 DEF Accepting
    <3>2. QED
      BY <1>1, <1>6, <2>1, <2>3, <3>1 DEF StageOf
  <2>4. QED
    BY <2>2, <2>3
<1>7. QED
  BY <1>2, <1>3, <1>4, <1>5, <1>6

\* Keeping some alerts, each under its lease or under none, moves no lease.
LEMMA KeptHolders ==
  ASSUME NEW ps, NEW qs, DOMAIN qs \subseteq DOMAIN ps,
         \A i \in DOMAIN qs : qs[i].lease \in {ps[i].lease, None}
  PROVE  \A i \in DOMAIN qs : SameHolder(ps[i], qs[i])
BY DEF SameHolder, Leased

LEMMA ExceptGood ==
  ASSUME NEW ps, GoodPending(ps), NEW k \in DOMAIN ps, NEW l
  PROVE  LET qs == [ps EXCEPT ![k].lease = l]
         IN  /\ DOMAIN qs = DOMAIN ps
             /\ qs[k].lease = l
             /\ \A i \in DOMAIN ps \ {k} : qs[i] = ps[i]
BY DEF GoodPending, Alert

\* Every step of the broker is one of the three kinds.
LEMMA StepKinds ==
  ASSUME TypeOK, Once, [Next]_vars
  PROVE  Quiet \/ (\E k \in Id : Adds(k)) \/ (\E r \in issued : Accepting(r))
<1> DEFINE pr == PrunePending(pending)
<1>0. GoodClients(clients) /\ GoodPending(pending)
  BY TypeOKIsGood
<1>p. /\ GoodPending(pr)
      /\ DOMAIN pr \subseteq DOMAIN pending
      /\ \A i \in DOMAIN pr : pr[i].lease = pending[i].lease
  BY <1>0, PrunePendingGood
<1> HIDE DEF pr
<1>v. ASSUME NEW cs, NEW c, NEW n, NEW q
      PROVE  LET ps == Vacated(cs, pr, c, n, q)
             IN  /\ GoodPending(ps)
                 /\ DOMAIN ps \subseteq DOMAIN pending
                 /\ \A i \in DOMAIN ps : ps[i].lease \in {pending[i].lease, None}
  BY <1>p, VacatedGood
<1>1. ASSUME NEW c \in Client, NEW n \in 1..MaxSequence, NEW q \in Presence,
             Report(c, n, q)
      PROVE  Quiet
  <2> DEFINE ps == Vacated(PruneClients(clients), pr, c, n, q)
  <2>1. pending' = ps /\ published' = published /\ accepted' = accepted
    BY <1>1 DEF Report, pr
  <2>2. /\ DOMAIN ps \subseteq DOMAIN pending
        /\ \A i \in DOMAIN ps : ps[i].lease \in {pending[i].lease, None}
    BY <1>v
  <2> HIDE DEF ps
  <2>3. QED
    BY <2>1, <2>2, KeptHolders DEF Quiet
<1>2. ASSUME NEW c \in Client, NEW n \in 1..MaxSequence, NEW q \in Presence,
             Poll(c, n, q)
      PROVE  Quiet
  <2> DEFINE known == PruneClients(clients)
             cs    == Reported(known, c, n, q)
             ps    == Vacated(known, pr, c, n, q)
             rest  == Without(ps, Dropped(cs, ps))
  <2>1. /\ GoodPending(ps)
        /\ DOMAIN ps \subseteq DOMAIN pending
        /\ \A i \in DOMAIN ps : ps[i].lease \in {pending[i].lease, None}
    BY <1>v
  <2>2. /\ published' = published /\ accepted' = accepted
        /\ \/ pending' = ps \/ pending' = rest
           \/ /\ MayClaim(cs, c)
              /\ \E i \in NextAlert(cs, ps), t \in FreshTokens :
                   pending' = [rest EXCEPT ![i].lease =
                                 [client |-> c, token |-> t, left |-> LEASE_TTL]]
    BY <1>2 DEF Poll, pr
  <2>3. /\ GoodPending(rest)
        /\ DOMAIN rest = DOMAIN ps \ Dropped(cs, ps)
        /\ \A i \in DOMAIN ps \ Dropped(cs, ps) : rest[i].lease = ps[i].lease
    <3> DEFINE gone == Dropped(cs, ps)
    <3> HIDE DEF gone, ps
    <3>1. /\ GoodPending(Without(ps, gone))
          /\ DOMAIN Without(ps, gone) = DOMAIN ps \ gone
          /\ \A i \in DOMAIN ps \ gone : Without(ps, gone)[i].lease = ps[i].lease
      BY <2>1, WithoutGood
    <3>2. QED
      BY <3>1 DEF gone
  <2>4. \A i \in NextAlert(cs, ps) :
          i \in DOMAIN ps /\ ~Leased(ps[i]) /\ i \notin Dropped(cs, ps)
    BY DEF NextAlert, Free, Dropped
  \* A page that may claim has not just reported that it is closed.
  <2>9. MayClaim(cs, c) => ps = pr
    BY DEF MayClaim, Ready, LiveClients, Reported, Vacated
  <2> HIDE DEF ps, cs, rest
  <2>5. CASE pending' = ps
    BY <2>1, <2>2, <2>5, KeptHolders DEF Quiet
  <2>6. CASE pending' = rest
    <3>1. /\ DOMAIN rest \subseteq DOMAIN pending
          /\ \A i \in DOMAIN rest : rest[i].lease \in {pending[i].lease, None}
      BY <2>1, <2>3
    <3>2. QED
      BY <3>1, <2>2, <2>6, KeptHolders DEF Quiet
  <2>7. ASSUME MayClaim(cs, c), NEW i \in NextAlert(cs, ps), NEW t,
               pending' = [rest EXCEPT ![i].lease =
                             [client |-> c, token |-> t, left |-> LEASE_TTL]]
        PROVE  Quiet
    <3>1. i \in DOMAIN rest /\ i \in DOMAIN pending
      BY <2>1, <2>3, <2>4
    <3>2. /\ DOMAIN pending' = DOMAIN rest
          /\ \A j \in DOMAIN rest \ {i} : pending'[j] = rest[j]
      BY <2>3, <2>7, <3>1, ExceptGood
    <3>3. \A j \in DOMAIN rest \ {i} : SameHolder(pending[j], pending'[j])
      BY <2>1, <2>3, <3>2 DEF SameHolder, Leased
    <3>4. SameHolder(pending[i], pending'[i])
      BY <1>p, <2>4, <2>7, <2>9 DEF SameHolder, Leased
    <3>5. QED
      BY <2>1, <2>2, <2>3, <3>2, <3>3, <3>4 DEF Quiet
  <2>8. QED
    BY <2>2, <2>5, <2>6, <2>7

<1>3. CASE Query
  BY <1>3, <1>p, KeptHolders DEF Query, Quiet, pr
<1>4. ASSUME NEW k \in Id, NEW e \in Event, Publish(k, e)
      PROVE  Quiet \/ Adds(k)
  <2> DEFINE qs   == Inserted(pr, k, e)
             gone == Oldest(qs)
  <2>1. CASE ~Allowed(PruneClients(clients), e)
    <3>1. pending' = pr /\ published' = published /\ accepted' = accepted
      BY <1>4, <2>1 DEF Publish, pr
    <3>2. QED
      BY <1>p, <3>1, KeptHolders DEF Quiet
  <2>2. CASE Allowed(PruneClients(clients), e)
    <3>1. /\ published' = published \cup {k} /\ accepted' = accepted
          /\ k \notin published
          /\ pending' = IF Cardinality(DOMAIN qs) > MAX_PENDING
                        THEN Without(qs, gone) ELSE qs
      BY <1>4, <2>2 DEF Publish, pr
    <3>2. /\ DOMAIN qs = DOMAIN pr \cup {k}
          /\ qs[k].lease = None
          /\ qs[k].earlier = DOMAIN pr
          /\ \A i \in DOMAIN pr : qs[i] = pr[i]
      BY <1>p, <3>1 DEF Inserted, Once
    <3>3. GoodPending(qs)
      BY <1>p, BrokerAssumption DEF Inserted, GoodPending, Alert
    \* A queue of one alert is never over its cap.
    <3>4. CASE Cardinality(DOMAIN qs) > MAX_PENDING
      <4>1. DOMAIN pr # {}
        <5>1. SUFFICES ASSUME DOMAIN pr = {} PROVE FALSE
          OBVIOUS
        <5>2. DOMAIN qs = {k}
          BY <3>2, <5>1
        <5>3. Cardinality({k}) = 1
          BY FS_Singleton
        <5>4. QED
          BY <3>4, <5>2, <5>3, BrokerAssumption
      <4>2. k \notin gone
        BY <3>2, <4>1 DEF Oldest
      <4> HIDE DEF gone, qs
      <4>3. /\ DOMAIN Without(qs, gone) = DOMAIN qs \ gone
            /\ \A i \in DOMAIN qs \ gone : Without(qs, gone)[i].lease = qs[i].lease
        BY <3>3, WithoutGood
      <4>4. pending' = Without(qs, gone)
        BY <3>1, <3>4
      <4>5. \A i \in DOMAIN pending' \ {k} : SameHolder(pending[i], pending'[i])
        BY <1>p, <3>2, <4>3, <4>4 DEF SameHolder, Leased
      <4>6. QED
        BY <1>p, <3>1, <3>2, <4>2, <4>3, <4>4, <4>5 DEF Adds
    <3>5. CASE ~(Cardinality(DOMAIN qs) > MAX_PENDING)
      <4> HIDE DEF gone, qs
      <4>1. pending' = qs
        BY <3>1, <3>5
      <4>2. \A i \in DOMAIN pending' \ {k} : SameHolder(pending[i], pending'[i])
        BY <1>p, <3>2, <4>1 DEF SameHolder, Leased
      <4>3. QED
        BY <1>p, <3>1, <3>2, <4>1, <4>2 DEF Adds
    <3>6. QED
      BY <3>4, <3>5
  <2>3. QED
    BY <2>1, <2>2
<1>5. ASSUME NEW k \in Id, Retract(k) PROVE Quiet
  <2>1. /\ DOMAIN pending' \subseteq DOMAIN pending
        /\ \A j \in DOMAIN pending' : pending'[j].lease \in {pending[j].lease, None}
    BY <1>0, <1>5 DEF Retract, Without, GoodPending, Alert
  <2>2. QED
    BY <1>5, <2>1, KeptHolders DEF Retract, Quiet
<1>6. ASSUME NEW r \in issued, Ack(r) PROVE Quiet \/ Accepting(r)
  <2> DEFINE qs == Without(pr, {r.id})
  <2>1. /\ DOMAIN qs = DOMAIN pr \ {r.id}
        /\ \A j \in DOMAIN qs : qs[j].lease \in {pr[j].lease, None}
    BY <1>p DEF Without, GoodPending, Alert
  <2>2. published' = published /\ (accepted' = accepted \/ accepted' = accepted \cup {r})
    BY <1>6 DEF Ack
  <2>3. \/ pending' = pr /\ accepted' = accepted
        \/ pending' = qs /\ Match(pr, r)
    BY <1>6 DEF Ack, pr
  <2> HIDE DEF qs
  <2>4. Match(pr, r) => Match(pending, r)
    BY <1>p DEF Match, Leased
  <2>5. CASE pending' = pr /\ accepted' = accepted
    BY <1>p, <2>2, <2>5, KeptHolders DEF Quiet
  <2>6. CASE pending' = qs /\ Match(pr, r)
    <3>1. /\ DOMAIN pending' \subseteq DOMAIN pending \ {r.id}
          /\ \A i \in DOMAIN pending' : SameHolder(pending[i], pending'[i])
      BY <1>p, <2>1, <2>6 DEF SameHolder, Leased
    <3>2. QED
      BY <2>2, <2>4, <2>6, <3>1 DEF Accepting, Quiet
  <2>7. QED
    BY <2>3, <2>5, <2>6
<1>7. ASSUME NEW r \in issued, Release(r) PROVE Quiet
  <2>1. /\ DOMAIN pending' = DOMAIN pending
        /\ \A i \in DOMAIN pending :
             pending'[i].lease \in {pending[i].lease, None}
    BY <1>0, <1>7 DEF Release, GoodPending, Alert
  <2>2. QED
    BY <1>7, <2>1, KeptHolders DEF Release, Quiet
<1>8. ASSUME NEW c \in Config, SetConfig(c) PROVE Quiet
  BY <1>8, KeptHolders DEF SetConfig, Quiet
<1>9. CASE Dispose
  BY <1>9 DEF Dispose, Quiet, NoMap
<1>10. CASE Tick
  <2>1. /\ DOMAIN pending' = DOMAIN pending
        /\ \A i \in DOMAIN pending :
             pending'[i].lease = LessLeft(pending[i].lease)
    BY <1>0, <1>10 DEF Tick, GoodPending, Alert
  <2>2. \A i \in DOMAIN pending : SameHolder(pending[i], pending'[i])
    BY <1>0, <2>1 DEF GoodPending, Alert, Lease, LessLeft, SameHolder, Leased
  <2>3. QED
    BY <1>10, <2>1, <2>2 DEF Tick, Quiet
<1>11. CASE UNCHANGED vars
  BY <1>11, KeptHolders DEF vars, Quiet
<1>12. QED
  BY <1>1, <1>2, <1>3, <1>4, <1>5, <1>6, <1>7, <1>8, <1>9, <1>10, <1>11
  DEF Next, Request

LEMMA StepOnce == TypeOK /\ Once /\ [Next]_vars => Once'
BY StepKinds, QuietOnce, AddsOnce, AcceptingOnce

\* Every step of the broker moves each alert as AlertLease allows.
LEMMA StepMoves ==
  TypeOK /\ Once /\ [Next]_vars => \A i \in Id : Abstract!Move(i)
BY StepTypeOK, StepOnce, StepKinds, QuietMoves, AddsMoves, AcceptingMoves

LEMMA InitMoves == Init => Abstract!Init
BY DEF Init, Abstract!Init, stage, holder, NoMap

\* An accepted alert is gone from the queue, and is accepted only once.
THEOREM AcceptedOnce == Spec => []Once
<1>1. Init => Once
  BY DEF Init, Once, NoMap
<1>2. QED
  BY <1>1, StepOnce, TypeCorrect, PTL DEF Spec

\* The broker implements the abstract protocol: an alert is lent to one holder
\* at a time, is delivered at most once, and only by its current holder.
THEOREM BrokerImplementsAlertLease == Spec => ImplementsAlertLease
<1>1. TypeOK /\ Once /\ [Next]_vars
        => [\A i \in Id : Abstract!Move(i)]_Abstract!alertVars
  BY StepMoves
<1>2. QED
  BY <1>1, InitMoves, TypeCorrect, AcceptedOnce, PTL
  DEF Spec, ImplementsAlertLease, Abstract!Spec

-----------------------------------------------------------------------------
(* The network and the pages *)

\* What a page has of the alerts it claimed.
Waits(c) == call[c] # None
CopyOf(c) == IF copy[c] = None THEN {} ELSE {copy[c]}
Claimed(c) == IF Waits(c) THEN call[c].claimed ELSE {}
Kept(c) == IF step[c] = "releasing" THEN {} ELSE CopyOf(c)
Held(c) == unacked[c] \cup Kept(c) \cup Claimed(c)

\* The types.
SystemTypes ==
  /\ page \in [Client -> PageState]
  /\ step \in [Client -> Steps]
  /\ call \in [Client -> Call \cup {None}]
  /\ copy \in [Client -> Delivered \cup {None}]
  /\ unacked \in [Client -> SUBSET Delivered]
  /\ strays \subseteq PollRequest \cup ReceiptRequest
  /\ IsFiniteSet(strays) /\ Cardinality(strays) <= MaxStrays

\* What a drainer awaits and works on at each of its steps.
Drainer(c) ==
  /\ step[c] \in {"idle", "showing"} <=> ~Waits(c)
  /\ step[c] \in {"idle", "polling"} <=> copy[c] = None
  /\ step[c] = "polling" =>
       call[c].request.kind = "poll" /\ call[c].request.client = c
  /\ step[c] \in {"retrying", "acking"} =>
       call[c].request = [kind |-> "ack", receipt |-> ReceiptOf(c, copy[c])]
  /\ step[c] = "releasing" =>
       call[c].request = [kind |-> "release", receipt |-> ReceiptOf(c, copy[c])]
  /\ Waits(c) =>
       /\ call[c].claimed # {} => step[c] = "polling" /\ call[c].answered
       /\ call[c].ok => /\ step[c] \in {"retrying", "acking"}
                        /\ ReceiptOf(c, copy[c]) \in accepted

\* Whatever a page has or sends was issued to it, about an alert that exists.
Issued(c) ==
  \A d \in unacked[c] \cup CopyOf(c) \cup Claimed(c) : ReceiptOf(c, d) \in issued
Receipts ==
  /\ \A c \in Client : Issued(c)
  /\ \A q \in strays : q \in ReceiptRequest => q.receipt \in issued
  /\ \A r \in issued : r.id \in published

\* Acknowledged is what was shown, and sounded what was accepted.
Displayed(c) ==
  /\ \A d \in unacked[c] : ReceiptOf(c, d) \in shown
  /\ step[c] \in {"retrying", "acking"} => ReceiptOf(c, copy[c]) \in shown
Seen ==
  /\ shown \subseteq issued /\ sounded \subseteq shown \cap accepted
  /\ \A c \in Client : Displayed(c)

Drainers == \A c \in Client : Drainer(c)
Base == TypeOK /\ Once /\ SystemTypes /\ Drainers /\ Receipts /\ Seen

-----------------------------------------------------------------------------
(* What a page does *)

Same(c) == /\ page'[c] = page[c] /\ step'[c] = step[c] /\ call'[c] = call[c]
           /\ copy'[c] = copy[c] /\ unacked'[c] = unacked[c]
Only(c) == /\ SystemTypes'
           /\ \A d \in Client \ {c} : Same(d)

\* What it stops listening to may still arrive, what it could not acknowledge
\* it keeps, and it sounds what was accepted.
Leaves(c) == strays' \subseteq strays \cup (IF Waits(c) THEN {call[c].request} ELSE {})
Keeps(c) ==
  unacked'[c] \subseteq
    unacked[c] \cup (IF step[c] \in {"retrying", "acking"} THEN {copy[c]} ELSE {})
Sounds(c) ==
  \/ sounded' = sounded
  \/ /\ step[c] \in {"retrying", "acking"} /\ Waits(c) /\ call[c].ok
     /\ sounded' = sounded \cup {ReceiptOf(c, copy[c])}
Finishes(c) == Leaves(c) /\ Keeps(c) /\ Sounds(c) /\ shown' = shown

NewPoll(c) == [kind |-> "poll", client |-> c, sequence |-> page[c].sequence + 1,
               presence |-> page[c].presence]
NewReport(c, p) == [kind |-> "report", client |-> c, sequence |-> page[c].sequence + 1,
                    presence |-> p]
Back(c, kind, d) == Ask([kind |-> kind, receipt |-> ReceiptOf(c, d)])

Announces(c) ==
  /\ \E p \in Presence :
       /\ page[c].sequence + 1 <= MaxSequence
       /\ page'[c] = [page[c] EXCEPT !.presence = p, !.sequence = page[c].sequence + 1,
                        !.closedAt = IF p.open THEN @ ELSE page[c].sequence + 1]
       /\ strays' \subseteq strays \cup {NewReport(c, p)}
  /\ step'[c] = step[c] /\ call'[c] = call[c] /\ copy'[c] = copy[c]
  /\ unacked'[c] = unacked[c] /\ shown' = shown /\ sounded' = sounded

Ends(c) ==
  /\ page'[c] = page[c] /\ step'[c] = "idle" /\ call'[c] = None /\ copy'[c] = None
  /\ Finishes(c)

Polls(c) ==
  /\ step[c] \in {"idle", "retrying"}
  /\ page[c].sequence + 1 <= MaxSequence
  /\ page'[c] = [page[c] EXCEPT !.sequence = page[c].sequence + 1]
  /\ step'[c] = "polling" /\ call'[c] = Ask(NewPoll(c)) /\ copy'[c] = None
  /\ Finishes(c)

Repeats(c) ==
  /\ step[c] = "idle" /\ step'[c] = "retrying"
  /\ copy'[c] \in unacked[c] /\ call'[c] = Back(c, "ack", copy'[c])
  /\ page'[c] = page[c] /\ unacked'[c] \subseteq unacked[c]
  /\ copy'[c] \in unacked'[c]
  /\ strays' = strays /\ shown' = shown /\ sounded' = sounded

Takes(c) ==
  /\ step[c] = "polling" /\ step'[c] = "showing"
  /\ copy'[c] \in Claimed(c) /\ call'[c] = None
  /\ page'[c] = page[c] /\ unacked'[c] = unacked[c]
  /\ strays' = strays /\ shown' = shown /\ sounded' = sounded

GivesBack(c) ==
  /\ step'[c] = "releasing" /\ call'[c] = Back(c, "release", copy'[c])
  /\ \/ step[c] = "polling" /\ copy'[c] \in Claimed(c) /\ shown' = shown
     \/ /\ step[c] = "showing" /\ copy'[c] = copy[c]
        /\ shown' \subseteq shown \cup {ReceiptOf(c, copy[c])} /\ shown \subseteq shown'
  /\ page'[c] = page[c] /\ unacked'[c] = unacked[c]
  /\ strays' = strays /\ sounded' = sounded

Confirms(c) ==
  /\ step[c] = "showing" /\ step'[c] = "acking"
  /\ copy'[c] = copy[c] /\ call'[c] = Back(c, "ack", copy[c])
  /\ shown' = shown \cup {ReceiptOf(c, copy[c])}
  /\ page'[c] = page[c] /\ unacked'[c] = unacked[c]
  /\ strays' = strays /\ sounded' = sounded

Clears(c) ==
  /\ page'[c] = [page[c] EXCEPT !.disposed = TRUE]
  /\ step'[c] = step[c] /\ call'[c] = call[c] /\ copy'[c] = copy[c]
  /\ unacked'[c] = {}
  /\ strays' = strays /\ shown' = shown /\ sounded' = sounded

PageMove(c) ==
  /\ Only(c) /\ UNCHANGED vars
  /\ \/ Announces(c) \/ Ends(c) \/ Polls(c) \/ Repeats(c)
     \/ Takes(c) \/ GivesBack(c) \/ Confirms(c) \/ Clears(c)

PageAction(c) ==
  \/ \E p \in Presence : PageEvent(c, p)
  \/ StartPoll(c) \/ Receive(c) \/ GiveUp(c) \/ Shown(c) \/ ShowFailed(c)
  \/ DisposeDrainer(c)

StrayTypes ==
  /\ strays' \subseteq PollRequest \cup ReceiptRequest
  /\ IsFiniteSet(strays') /\ Cardinality(strays') <= MaxStrays

LEMMA StrayFacts ==
  ASSUME SystemTypes, NEW q \in PollRequest \cup ReceiptRequest, Stray(q)
  PROVE  StrayTypes /\ strays' \subseteq strays \cup {q}
<1>1. IsFiniteSet(strays) /\ Cardinality(strays) <= MaxStrays
  BY DEF SystemTypes
<1>2. IsFiniteSet(strays \cup {q})
  BY <1>1, FS_AddElement
<1>3. strays' \in {strays, strays \cup {q}} /\ Cardinality(strays') <= MaxStrays
  BY <1>1 DEF Stray
<1>4. QED
  BY <1>1, <1>2, <1>3 DEF StrayTypes, SystemTypes

LEMMA Records ==
  ASSUME SystemTypes, NEW c \in Client
  PROVE  /\ \A q \in PollRequest \cup ReceiptRequest : Ask(q) \in Call /\ Ask(q) # None
         /\ page[c].sequence + 1 <= MaxSequence =>
              /\ NewPoll(c) \in PollRequest
              /\ \A p \in Presence : NewReport(c, p) \in PollRequest
              /\ page[c].sequence + 1 \in 1..MaxSequence
         /\ \A d \in Delivered, kind \in {"ack", "release"} :
              Back(c, kind, d) \in Call /\ Back(c, kind, d) # None
         /\ Waits(c) => /\ call[c] \in Call
                        /\ call[c].request \in PollRequest \cup ReceiptRequest
                        /\ call[c].claimed \subseteq Delivered
<1>1. ASSUME NEW q \in PollRequest \cup ReceiptRequest PROVE Ask(q) \in Call /\ Ask(q) # None
  <2>1. 0 \in 0..RPC_TIMEOUT /\ {} \in SUBSET Delivered
    BY SystemAssumption
  <2>2. Ask(q) \in Call
    BY <2>1 DEF Ask, Call
  <2>3. QED
    BY <2>2, SystemAssumption
<1>2. ASSUME page[c].sequence + 1 <= MaxSequence
      PROVE  /\ NewPoll(c) \in PollRequest
             /\ \A p \in Presence : NewReport(c, p) \in PollRequest
             /\ page[c].sequence + 1 \in 1..MaxSequence
  <2>1. page[c] \in PageState /\ page[c].sequence + 1 \in 1..MaxSequence
    BY <1>2, BrokerAssumption DEF SystemTypes, PageState
  <2>2. QED
    BY <2>1 DEF NewPoll, NewReport, PollRequest, PageState
<1>3. ASSUME NEW d \in Delivered, NEW kind \in {"ack", "release"}
      PROVE  Back(c, kind, d) \in Call /\ Back(c, kind, d) # None
  <2>1. ReceiptOf(c, d) \in Receipt
    BY DEF ReceiptOf, Receipt, Delivered
  <2>2. [kind |-> kind, receipt |-> ReceiptOf(c, d)] \in ReceiptRequest
    BY <2>1 DEF ReceiptRequest
  <2>3. QED
    BY <1>1, <2>2 DEF Back
<1>4. Waits(c) => /\ call[c] \in Call
                  /\ call[c].request \in PollRequest \cup ReceiptRequest
                  /\ call[c].claimed \subseteq Delivered
  <2>1. Waits(c) => call[c] \in Call
    BY DEF SystemTypes, Waits
  <2>2. ASSUME NEW k \in Call
        PROVE k.request \in PollRequest \cup ReceiptRequest /\ k.claimed \subseteq Delivered
    BY DEF Call
  <2>3. QED
    BY <2>1, <2>2
<1>5. QED
  BY <1>1, <1>2, <1>3, <1>4

\* A step of one drainer keeps the types if what becomes of that drainer has them.
LEMMA LocalTypes ==
  ASSUME SystemTypes, NEW c \in Client, StrayTypes,
         NEW P \in PageState, NEW S \in Steps, NEW K \in Call \cup {None},
         NEW D \in Delivered \cup {None}, NEW U \in SUBSET Delivered
  PROVE  /\ page' = [page EXCEPT ![c] = P] /\ step' = [step EXCEPT ![c] = S]
         /\ call' = [call EXCEPT ![c] = K] /\ copy' = [copy EXCEPT ![c] = D]
         /\ unacked' = [unacked EXCEPT ![c] = U]
         => /\ Only(c)
            /\ page'[c] = P /\ step'[c] = S /\ call'[c] = K /\ copy'[c] = D
            /\ unacked'[c] = U
<1> SUFFICES ASSUME
         page' = [page EXCEPT ![c] = P], step' = [step EXCEPT ![c] = S],
         call' = [call EXCEPT ![c] = K], copy' = [copy EXCEPT ![c] = D],
         unacked' = [unacked EXCEPT ![c] = U]
    PROVE /\ Only(c)
          /\ page'[c] = P /\ step'[c] = S /\ call'[c] = K /\ copy'[c] = D
          /\ unacked'[c] = U
  OBVIOUS
<1>1. SystemTypes'
  BY DEF SystemTypes, StrayTypes
<1>2. QED
  BY <1>1 DEF SystemTypes, Only, Same

LEMMA Unchanged ==
  ASSUME SystemTypes, NEW c \in Client
  PROVE  /\ page[c] \in PageState /\ step[c] \in Steps
         /\ call[c] \in Call \cup {None} /\ copy[c] \in Delivered \cup {None}
         /\ unacked[c] \in SUBSET Delivered
         /\ page = [page EXCEPT ![c] = page[c]] /\ step = [step EXCEPT ![c] = step[c]]
         /\ call = [call EXCEPT ![c] = call[c]] /\ copy = [copy EXCEPT ![c] = copy[c]]
         /\ unacked = [unacked EXCEPT ![c] = unacked[c]]
         /\ strays' = strays => StrayTypes
BY DEF SystemTypes, StrayTypes

\* Each way in which the request of a drainer may end.
LEMMA EndKinds ==
  ASSUME SystemTypes, NEW c \in Client, Drainer(c), Waits(c), StrayTypes, Leaves(c),
         UNCHANGED vars, shown' = shown, NEW failed \in BOOLEAN,
         \/ FinishRetry(c, failed) \/ FinishAck(c, failed) \/ FinishRelease(c)
         \/ FinishEmptyPoll(c)
  PROVE  PageMove(c)
<1> USE Unchanged, Records
<1>1. ASSUME Acknowledged(c, failed), step[c] \in {"retrying", "acking"}
      PROVE  /\ copy' = [copy EXCEPT ![c] = None] /\ Keeps(c) /\ Sounds(c)
             /\ \E U \in SUBSET Delivered : unacked' = [unacked EXCEPT ![c] = U]
  <2> DEFINE U == IF page[c].disposed THEN {}
                  ELSE {e \in unacked[c] : e.id # copy[c].id}
                         \cup (IF failed THEN {copy[c]} ELSE {})
  <2>1. copy' = [copy EXCEPT ![c] = None] /\ unacked' = [unacked EXCEPT ![c] = U]
    BY <1>1 DEF Acknowledged
  <2>2. copy[c] \in Delivered
    BY <1>1 DEF Drainer
  <2>3. U \in SUBSET Delivered /\ U \subseteq unacked[c] \cup {copy[c]}
    BY <2>2
  <2>4. unacked'[c] = U
    BY <2>1 DEF SystemTypes
  <2>5. Sounds(c)
    BY <1>1 DEF Acknowledged, Sounds
  <2> HIDE DEF U
  <2>6. QED
    BY <1>1, <2>1, <2>3, <2>4, <2>5 DEF Keeps
<1>2. ASSUME unacked' = unacked, sounded' = sounded PROVE Keeps(c) /\ Sounds(c)
  BY <1>2 DEF Keeps, Sounds
<1>3. CASE \/ FinishRetry(c, failed) /\ page[c].disposed
           \/ FinishAck(c, failed) \/ FinishRelease(c) \/ FinishEmptyPoll(c)
  <2>1. /\ page' = page /\ step' = [step EXCEPT ![c] = "idle"]
        /\ call' = [call EXCEPT ![c] = None]
    BY <1>3 DEF FinishRetry, FinishAck, FinishRelease, FinishEmptyPoll
  <2>2. copy' = [copy EXCEPT ![c] = None] /\ Keeps(c) /\ Sounds(c)
        /\ \E U \in SUBSET Delivered : unacked' = [unacked EXCEPT ![c] = U]
    <3>1. CASE FinishRetry(c, failed) \/ FinishAck(c, failed)
      BY <1>1, <3>1 DEF FinishRetry, FinishAck
    <3>2. CASE FinishRelease(c)
      BY <1>2, <3>2 DEF FinishRelease
    <3>3. CASE FinishEmptyPoll(c)
      <4>1. copy[c] = None /\ copy' = copy
        BY <3>3 DEF FinishEmptyPoll, Drainer
      <4>2. QED
        BY <1>2, <3>3, <4>1 DEF FinishEmptyPoll
    <3>4. QED
      BY <1>3, <3>1, <3>2, <3>3
  <2>3. PICK U \in SUBSET Delivered : unacked' = [unacked EXCEPT ![c] = U]
    BY <2>2
  <2>4. "idle" \in Steps
    BY DEF Steps
  <2>5. page' = [page EXCEPT ![c] = page[c]] /\ page[c] \in PageState
    BY <2>1
  <2>6. /\ Only(c) /\ page'[c] = page[c] /\ step'[c] = "idle" /\ call'[c] = None
        /\ copy'[c] = None
    <3> HIDE Unchanged, Records
    <3>1. None \in Call \cup {None} /\ None \in Delivered \cup {None}
      OBVIOUS
    <3>2. QED
      <4> DEFINE P == page[c]
      <4>1. P \in PageState /\ page' = [page EXCEPT ![c] = P]
        BY <2>5
      <4> HIDE DEF P
      <4>a. step' = [step EXCEPT ![c] = "idle"] /\ call' = [call EXCEPT ![c] = None]
        BY <2>1
      <4>b. copy' = [copy EXCEPT ![c] = None]
        BY <2>2
      <4>2. /\ Only(c) /\ page'[c] = P /\ step'[c] = "idle" /\ call'[c] = None
            /\ copy'[c] = None
        BY <2>3, <2>4, <3>1, <4>1, <4>a, <4>b, LocalTypes
      <4>3. QED
        BY <4>2 DEF P
  <2>7. QED
    BY <2>2, <2>6 DEF PageMove, Ends, Finishes
<1>4. CASE FinishRetry(c, failed) /\ ~page[c].disposed
  <2>1. step[c] = "retrying" /\ Acknowledged(c, failed) /\ SendPoll(c)
    BY <1>4 DEF FinishRetry
  <2>2. copy' = [copy EXCEPT ![c] = None] /\ Keeps(c) /\ Sounds(c)
        /\ \E U \in SUBSET Delivered : unacked' = [unacked EXCEPT ![c] = U]
    BY <1>1, <2>1
  <2>3. PICK U \in SUBSET Delivered : unacked' = [unacked EXCEPT ![c] = U]
    BY <2>2
  <2> DEFINE P == [page[c] EXCEPT !.sequence = page[c].sequence + 1]
             K == Ask(NewPoll(c))
  <2>4. /\ page[c].sequence + 1 <= MaxSequence
        /\ page' = [page EXCEPT ![c] = P] /\ call' = [call EXCEPT ![c] = K]
        /\ step' = [step EXCEPT ![c] = "polling"]
    BY <2>1 DEF SendPoll, NewPoll
  <2>5. P \in PageState /\ K \in Call /\ "polling" \in Steps
    BY <2>4, BrokerAssumption DEF PageState, Steps
  <2> HIDE DEF P, K
  <2>6. /\ Only(c) /\ page'[c] = P /\ step'[c] = "polling" /\ call'[c] = K
        /\ copy'[c] = None
    <3> HIDE Unchanged, Records
    <3>1. K \in Call \cup {None} /\ None \in Delivered \cup {None}
      BY <2>5
    <3>2. QED
      BY <2>2, <2>3, <2>4, <2>5, <3>1, LocalTypes
  <2>7. QED
    BY <2>1, <2>2, <2>4, <2>6 DEF PageMove, Polls, Finishes, P, K
<1>5. QED
  BY <1>3, <1>4

LEMMA AnnounceKind ==
  ASSUME SystemTypes, NEW c \in Client, NEW p \in Presence, PageEvent(c, p)
  PROVE  PageMove(c)
<1> DEFINE n == page[c].sequence + 1
           P == [page[c] EXCEPT !.presence = p, !.sequence = page[c].sequence + 1,
                   !.closedAt = IF p.open THEN @ ELSE page[c].sequence + 1]
<1>1. /\ page[c].sequence + 1 <= MaxSequence /\ page' = [page EXCEPT ![c] = P]
      /\ Stray(NewReport(c, p)) /\ UNCHANGED <<vars, step, call, copy, unacked, shown, sounded>>
  BY DEF PageEvent, NewReport
<1>2. NewReport(c, p) \in PollRequest
  BY <1>1, Records
<1>3. StrayTypes /\ strays' \subseteq strays \cup {NewReport(c, p)}
  BY <1>1, <1>2, StrayFacts
<1>4. P \in PageState
  <2>1. page[c] \in PageState /\ page[c].sequence + 1 \in 0..MaxSequence
    BY <1>1, BrokerAssumption DEF SystemTypes, PageState
  <2>2. QED
    BY <2>1 DEF PageState
<1>5. /\ step' = [step EXCEPT ![c] = step[c]] /\ step[c] \in Steps
      /\ call' = [call EXCEPT ![c] = call[c]] /\ call[c] \in Call \cup {None}
      /\ copy' = [copy EXCEPT ![c] = copy[c]] /\ copy[c] \in Delivered \cup {None}
      /\ unacked' = [unacked EXCEPT ![c] = unacked[c]] /\ unacked[c] \in SUBSET Delivered
  BY <1>1, Unchanged
<1>6. Only(c) /\ page'[c] = P
  <2>1. page' = [page EXCEPT ![c] = P]
    BY <1>1
  <2> HIDE DEF P
  <2>2. QED
    BY <1>3, <1>4, <1>5, <2>1, LocalTypes
<1>7. Announces(c)
  BY <1>1, <1>3, <1>6 DEF Announces
<1>8. QED
  BY <1>1, <1>6, <1>7 DEF PageMove

LEMMA StartKind ==
  ASSUME SystemTypes, NEW c \in Client, Drainer(c), StartPoll(c)
  PROVE  PageMove(c)
<1> DEFINE U == {d \in unacked[c] : d.left > 0}
<1>1. /\ step[c] = "idle" /\ copy[c] = None /\ ~Waits(c)
      /\ unacked' = [unacked EXCEPT ![c] = U] /\ U \in SUBSET Delivered
      /\ U \subseteq unacked[c]
      /\ UNCHANGED <<vars, strays, shown, sounded>>
  <2>1. unacked[c] \in SUBSET Delivered
    BY Unchanged
  <2>2. QED
    BY <2>1 DEF StartPoll, Drainer
<1>2. StrayTypes
  BY <1>1, Unchanged
<1>3. CASE SendPoll(c) /\ copy' = copy
  <2> DEFINE P == [page[c] EXCEPT !.sequence = page[c].sequence + 1]
             K == Ask(NewPoll(c))
  <2>1. /\ page[c].sequence + 1 <= MaxSequence
        /\ page' = [page EXCEPT ![c] = P] /\ call' = [call EXCEPT ![c] = K]
        /\ step' = [step EXCEPT ![c] = "polling"]
    BY <1>3 DEF SendPoll, NewPoll
  <2>2. P \in PageState /\ K \in Call \cup {None} /\ "polling" \in Steps
    BY <2>1, BrokerAssumption, Records, Unchanged DEF PageState, Steps
  <2>3. copy' = [copy EXCEPT ![c] = None] /\ None \in Delivered \cup {None}
    BY <1>1, <1>3, Unchanged
  <2> HIDE DEF P, K, U
  <2>4. /\ Only(c) /\ page'[c] = P /\ step'[c] = "polling" /\ call'[c] = K
        /\ copy'[c] = None /\ unacked'[c] = U
    <3>1. unacked' = [unacked EXCEPT ![c] = U] /\ U \in SUBSET Delivered
      BY <1>1
    <3>2. copy' = [copy EXCEPT ![c] = None] /\ None \in Delivered \cup {None}
      BY <2>3
    <3>3. page' = [page EXCEPT ![c] = P] /\ call' = [call EXCEPT ![c] = K]
          /\ step' = [step EXCEPT ![c] = "polling"]
      BY <2>1
    <3>4. QED
      BY <1>2, <2>2, <3>1, <3>2, <3>3, LocalTypes
  <2>5. Polls(c)
    BY <1>1, <2>1, <2>4 DEF Polls, Finishes, Leaves, Keeps, Sounds, P, K
  <2>6. QED
    BY <1>1, <2>4, <2>5 DEF PageMove
<1>4. ASSUME NEW d \in U, SendReceipt(c, "ack", d, "retrying"),
             copy' = [copy EXCEPT ![c] = d], page' = page
      PROVE  PageMove(c)
  <2> DEFINE K == Back(c, "ack", d)
             P == page[c]
  <2>1. call' = [call EXCEPT ![c] = K] /\ step' = [step EXCEPT ![c] = "retrying"]
    BY <1>4 DEF SendReceipt, Back
  <2>2. d \in Delivered \cup {None} /\ d \in unacked[c] /\ K \in Call \cup {None}
        /\ "retrying" \in Steps
    BY <1>1, Records DEF Steps
  <2>3. page' = [page EXCEPT ![c] = P] /\ P \in PageState
    BY <1>4, Unchanged
  <2> HIDE DEF P, K, U
  <2>4. /\ Only(c) /\ page'[c] = P /\ step'[c] = "retrying" /\ call'[c] = K
        /\ copy'[c] = d /\ unacked'[c] = U
    <3>1. unacked' = [unacked EXCEPT ![c] = U] /\ U \in SUBSET Delivered
      BY <1>1
    <3>2. copy' = [copy EXCEPT ![c] = d]
      BY <1>4
    <3>3. QED
      BY <1>2, <2>1, <2>2, <2>3, <3>1, <3>2, LocalTypes
  <2>5. Repeats(c)
    BY <1>1, <1>4, <2>2, <2>4 DEF Repeats, P, K
  <2>6. QED
    BY <1>1, <2>4, <2>5 DEF PageMove
<1>5. QED
  BY <1>3, <1>4 DEF StartPoll

\* It answers with an alert, which is shown or given back.
LEMMA AnswerKind ==
  ASSUME SystemTypes, NEW c \in Client, Drainer(c), Waits(c), NEW d \in call[c].claimed,
         FinishPoll(c, d), UNCHANGED <<vars, strays, shown>>
  PROVE  PageMove(c)
<1> DEFINE P == page[c]
           U == unacked[c]
<1>1. /\ step[c] = "polling" /\ copy' = [copy EXCEPT ![c] = d]
      /\ page' = [page EXCEPT ![c] = P] /\ unacked' = [unacked EXCEPT ![c] = U]
      /\ P \in PageState /\ U \in SUBSET Delivered /\ StrayTypes /\ sounded' = sounded
  BY Unchanged DEF FinishPoll
<1>2. d \in Delivered /\ d \in Delivered \cup {None} /\ d \in Claimed(c)
  BY Records DEF Claimed
<1>3. CASE SendReceipt(c, "release", d, "releasing")
  <2> DEFINE K == Back(c, "release", d)
  <2>1. call' = [call EXCEPT ![c] = K] /\ step' = [step EXCEPT ![c] = "releasing"]
    BY <1>3 DEF SendReceipt, Back
  <2>2. K \in Call \cup {None} /\ "releasing" \in Steps
    BY <1>2, Records DEF Steps
  <2> HIDE DEF P, K, U
  <2>4. /\ Only(c) /\ page'[c] = P /\ step'[c] = "releasing" /\ call'[c] = K
        /\ copy'[c] = d /\ unacked'[c] = U
    BY <1>1, <1>2, <2>1, <2>2, LocalTypes
  <2>5. GivesBack(c)
    BY <1>1, <1>2, <2>4 DEF GivesBack, P, K, U
  <2>6. QED
    BY <2>4, <2>5 DEF PageMove
<1>4. CASE step' = [step EXCEPT ![c] = "showing"] /\ call' = [call EXCEPT ![c] = None]
  <2>1. None \in Call \cup {None} /\ "showing" \in Steps
    BY DEF Steps
  <2> HIDE DEF P, U
  <2>4. /\ Only(c) /\ page'[c] = P /\ step'[c] = "showing" /\ call'[c] = None
        /\ copy'[c] = d /\ unacked'[c] = U
    BY <1>1, <1>2, <1>4, <2>1, LocalTypes
  <2>5. Takes(c)
    BY <1>1, <1>2, <2>4 DEF Takes, P, U
  <2>6. QED
    BY <2>4, <2>5 DEF PageMove
<1>5. QED
  BY <1>3, <1>4 DEF FinishPoll

\* What was shown is acknowledged or given back, and what was not is given back.
LEMMA ShownKind ==
  ASSUME SystemTypes, NEW c \in Client, Drainer(c), Shown(c) \/ ShowFailed(c)
  PROVE  PageMove(c)
<1> DEFINE P == page[c]
           U == unacked[c]
           D == copy[c]
<1>1. /\ step[c] = "showing" /\ D \in Delivered /\ D \in Delivered \cup {None}
      /\ page' = [page EXCEPT ![c] = P] /\ unacked' = [unacked EXCEPT ![c] = U]
      /\ copy' = [copy EXCEPT ![c] = D]
      /\ P \in PageState /\ U \in SUBSET Delivered /\ StrayTypes
      /\ UNCHANGED <<vars, strays, sounded>>
  BY Unchanged DEF Shown, ShowFailed, Drainer
<1>2. CASE SendReceipt(c, "release", D, "releasing")
            /\ shown' \subseteq shown \cup {ReceiptOf(c, D)} /\ shown \subseteq shown'
  <2> DEFINE K == Back(c, "release", D)
  <2>1. call' = [call EXCEPT ![c] = K] /\ step' = [step EXCEPT ![c] = "releasing"]
    BY <1>2 DEF SendReceipt, Back
  <2>2. K \in Call \cup {None} /\ "releasing" \in Steps
    BY <1>1, Records DEF Steps
  <2> HIDE DEF P, K, U, D
  <2>4. /\ Only(c) /\ page'[c] = P /\ step'[c] = "releasing" /\ call'[c] = K
        /\ copy'[c] = D /\ unacked'[c] = U
    BY <1>1, <2>1, <2>2, LocalTypes
  <2>5. GivesBack(c)
    BY <1>1, <1>2, <2>4 DEF GivesBack, P, K, U, D
  <2>6. QED
    BY <1>1, <2>4, <2>5 DEF PageMove
<1>3. CASE SendReceipt(c, "ack", D, "acking") /\ shown' = shown \cup {ReceiptOf(c, D)}
  <2> DEFINE K == Back(c, "ack", D)
  <2>1. call' = [call EXCEPT ![c] = K] /\ step' = [step EXCEPT ![c] = "acking"]
    BY <1>3 DEF SendReceipt, Back
  <2>2. K \in Call \cup {None} /\ "acking" \in Steps
    BY <1>1, Records DEF Steps
  <2> HIDE DEF P, K, U, D
  <2>4. /\ Only(c) /\ page'[c] = P /\ step'[c] = "acking" /\ call'[c] = K
        /\ copy'[c] = D /\ unacked'[c] = U
    BY <1>1, <2>1, <2>2, LocalTypes
  <2>5. Confirms(c)
    BY <1>1, <1>3, <2>4 DEF Confirms, P, K, U, D
  <2>6. QED
    BY <1>1, <2>4, <2>5 DEF PageMove
<1>4. QED
  BY <1>2, <1>3 DEF Shown, ShowFailed

LEMMA ClearKind ==
  ASSUME SystemTypes, NEW c \in Client, DisposeDrainer(c)
  PROVE  PageMove(c)
<1> DEFINE P == [page[c] EXCEPT !.disposed = TRUE]
<1>1. /\ page' = [page EXCEPT ![c] = P] /\ P \in PageState
      /\ unacked' = [unacked EXCEPT ![c] = {}] /\ {} \in SUBSET Delivered
      /\ UNCHANGED <<vars, strays, shown, sounded>> /\ StrayTypes
  BY Unchanged DEF DisposeDrainer, PageState
<1>2. /\ step' = [step EXCEPT ![c] = step[c]] /\ step[c] \in Steps
      /\ call' = [call EXCEPT ![c] = call[c]] /\ call[c] \in Call \cup {None}
      /\ copy' = [copy EXCEPT ![c] = copy[c]] /\ copy[c] \in Delivered \cup {None}
  BY Unchanged DEF DisposeDrainer
<1> HIDE DEF P
<1>3. /\ Only(c) /\ page'[c] = P /\ step'[c] = step[c] /\ call'[c] = call[c]
      /\ copy'[c] = copy[c] /\ unacked'[c] = {}
  BY <1>1, <1>2, LocalTypes
<1>4. QED
  BY <1>1, <1>3 DEF Clears, PageMove, P

\* Everything a page does is one of these moves.
LEMMA PageKinds ==
  ASSUME SystemTypes, NEW c \in Client, Drainer(c), PageAction(c)
  PROVE  PageMove(c)
<1>1. ASSUME Receive(c) PROVE PageMove(c)
  <2>1. /\ Waits(c) /\ UNCHANGED <<vars, strays, shown>> /\ StrayTypes /\ Leaves(c)
    BY <1>1, Unchanged DEF Receive, Waits, Leaves
  <2>2. \/ FinishRetry(c, FALSE) \/ FinishAck(c, FALSE) \/ FinishRelease(c)
        \/ FinishEmptyPoll(c) \/ \E d \in call[c].claimed : FinishPoll(c, d)
    BY <1>1 DEF Receive
  <2>3. QED
    BY <2>1, <2>2, EndKinds, AnswerKind
<1>2. ASSUME GiveUp(c) PROVE PageMove(c)
  <2>1. Waits(c) /\ UNCHANGED <<vars, shown>>
    BY <1>2 DEF GiveUp, Waits
  <2>2. StrayTypes /\ Leaves(c)
    <3>1. CASE strays' = strays
      BY <3>1, Unchanged DEF Leaves
    <3>2. CASE Stray(call[c].request)
      BY <2>1, <3>2, StrayFacts, Records DEF Leaves
    <3>3. QED
      BY <1>2, <3>1, <3>2 DEF GiveUp
  <2>3. \/ FinishRetry(c, TRUE) \/ FinishAck(c, TRUE) \/ FinishRelease(c)
        \/ FinishEmptyPoll(c)
    BY <1>2 DEF GiveUp
  <2>4. QED
    BY <2>1, <2>2, <2>3, EndKinds
<1>3. QED
  BY <1>1, <1>2, AnnounceKind, StartKind, ShownKind, ClearKind DEF PageAction

-----------------------------------------------------------------------------
(* Types, receipts and sounds *)

LEMMA SameDrainer ==
  ASSUME NEW c, Same(c), accepted \subseteq accepted'
  PROVE  Drainer(c) => Drainer(c)'
BY DEF Drainer, Same, Waits, ReceiptOf

LEMMA AskFacts ==
  ASSUME NEW q
  PROVE  /\ Ask(q).request = q /\ Ask(q).waited = 0 /\ ~Ask(q).answered
         /\ Ask(q).claimed = {} /\ ~Ask(q).ok
BY DEF Ask

LEMMA NewCall ==
  ASSUME SystemTypes, Drainers, NEW c \in Client, PageMove(c)
  PROVE  /\ Polls(c) => call'[c] # None /\ page[c].sequence + 1 <= MaxSequence
         /\ Repeats(c) \/ GivesBack(c) \/ Confirms(c) =>
              call'[c] # None /\ copy'[c] # None /\ copy'[c] \in Delivered
         /\ Takes(c) => copy'[c] # None /\ copy'[c] \in Delivered
<1>1. Drainer(c) /\ unacked[c] \subseteq Delivered /\ copy[c] \in Delivered \cup {None}
      /\ Claimed(c) \subseteq Delivered
  BY Records DEF Drainers, SystemTypes, Claimed
<1>2. Polls(c) => call'[c] # None /\ page[c].sequence + 1 <= MaxSequence
  BY Records DEF Polls
<1>3. Repeats(c) => copy'[c] \in Delivered /\ call'[c] = Back(c, "ack", copy'[c])
  BY <1>1 DEF Repeats
<1>4. GivesBack(c) => copy'[c] \in Delivered /\ call'[c] = Back(c, "release", copy'[c])
  BY <1>1 DEF GivesBack, Drainer
<1>5. Confirms(c) => copy'[c] \in Delivered /\ call'[c] = Back(c, "ack", copy'[c])
  BY <1>1 DEF Confirms, Drainer
<1>6. Takes(c) => copy'[c] \in Delivered
  BY <1>1 DEF Takes
<1>7. \A d \in Delivered : d # None /\ Back(c, "ack", d) # None /\ Back(c, "release", d) # None
  BY Records, SystemAssumption
<1>8. QED
  BY <1>2, <1>3, <1>4, <1>5, <1>6, <1>7

LEMMA PageDrainers ==
  ASSUME SystemTypes, Drainers, NEW c \in Client, PageMove(c)
  PROVE  Drainers'
<1>1. Drainer(c) /\ Only(c) /\ accepted' = accepted
  BY DEF Drainers, PageMove, vars
<1>2. \A d \in Client \ {c} : Drainer(d)'
  BY <1>1, SameDrainer DEF Drainers, Only
<1>3. Drainer(c)'
  <2>1. CASE Announces(c) \/ Clears(c)
    <3>1. step'[c] = step[c] /\ call'[c] = call[c] /\ copy'[c] = copy[c]
      BY <2>1 DEF Announces, Clears
    <3>2. QED
      BY <1>1, <3>1 DEF Drainer, Waits, ReceiptOf
  <2>2. CASE Ends(c)
    BY <2>2 DEF Ends, Drainer, Waits
  <2>3. CASE Polls(c)
    <3>1. /\ call'[c] # None /\ call'[c].request = NewPoll(c) /\ call'[c].claimed = {}
          /\ ~call'[c].ok /\ step'[c] = "polling" /\ copy'[c] = None
      BY <2>3, NewCall, AskFacts DEF Polls
    <3>2. QED
      BY <3>1 DEF Drainer, Waits, NewPoll
  <2>4. CASE Takes(c)
    <3>1. call'[c] = None /\ step'[c] = "showing" /\ copy'[c] # None
      BY <2>4, NewCall DEF Takes
    <3>2. QED
      BY <3>1 DEF Drainer, Waits
  <2>5. CASE Repeats(c) \/ Confirms(c)
    <3>1. /\ call'[c] # None /\ copy'[c] # None /\ step'[c] \in {"retrying", "acking"}
          /\ call'[c] = Back(c, "ack", copy'[c])
      BY <2>5, NewCall DEF Repeats, Confirms
    <3>2. /\ call'[c].request = [kind |-> "ack", receipt |-> ReceiptOf(c, copy'[c])]
          /\ call'[c].claimed = {} /\ ~call'[c].ok
      BY <3>1, AskFacts DEF Back
    <3>3. QED
      BY <3>1, <3>2 DEF Drainer, Waits, ReceiptOf
  <2>6. CASE GivesBack(c)
    <3>1. /\ call'[c] # None /\ copy'[c] # None /\ step'[c] = "releasing"
          /\ call'[c] = Back(c, "release", copy'[c])
      BY <2>6, NewCall DEF GivesBack
    <3>2. /\ call'[c].request = [kind |-> "release", receipt |-> ReceiptOf(c, copy'[c])]
          /\ call'[c].claimed = {} /\ ~call'[c].ok
      BY <3>1, AskFacts DEF Back
    <3>3. QED
      BY <3>1, <3>2 DEF Drainer, Waits, ReceiptOf
  <2>7. QED
    BY <2>1, <2>2, <2>3, <2>4, <2>5, <2>6 DEF PageMove
<1>4. QED
  BY <1>2, <1>3 DEF Drainers

\* What a page has after a move it had before; what it keeps to acknowledge it
\* had shown.
LEMMA PageHas ==
  ASSUME SystemTypes, Drainers, NEW c \in Client, PageMove(c)
  PROVE  /\ (unacked[c] \cup CopyOf(c) \cup Claimed(c))'
              \subseteq unacked[c] \cup CopyOf(c) \cup Claimed(c)
         /\ Held(c)' \subseteq Held(c)
         /\ Claimed(c)' \subseteq Claimed(c)
<1>1. Drainer(c)
  BY DEF Drainers
<1> DEFINE acks == step[c] \in {"retrying", "acking"}
<1>2. acks => copy[c] # None /\ copy[c] \in CopyOf(c) /\ copy[c] \in Kept(c)
  BY <1>1 DEF Drainer, CopyOf, Kept
<1>3. CASE Announces(c) \/ Clears(c)
  BY <1>3 DEF Announces, Clears, Held, Kept, CopyOf, Claimed, Waits
<1>4. CASE Ends(c)
  BY <1>2, <1>4 DEF Ends, Finishes, Keeps, Held, Kept, CopyOf, Claimed, Waits
<1>5. CASE Polls(c)
  <2>1. call'[c].claimed = {} /\ copy'[c] = None
    BY <1>5, AskFacts DEF Polls
  <2>2. QED
    BY <1>2, <1>5, <2>1 DEF Polls, Finishes, Keeps, Held, Kept, CopyOf, Claimed, Waits
<1>6. CASE Repeats(c)
  <2>1. call'[c].claimed = {}
    BY <1>6, AskFacts DEF Repeats, Back
  <2>2. QED
    BY <1>6, <2>1 DEF Repeats, Held, Kept, CopyOf, Claimed, Waits
<1>7. CASE Takes(c)
  BY <1>7 DEF Takes, Held, Kept, CopyOf, Claimed, Waits
<1>8. CASE GivesBack(c)
  <2>1. call'[c].claimed = {} /\ step'[c] = "releasing"
    BY <1>8, AskFacts DEF GivesBack, Back
  <2>2. copy'[c] \in CopyOf(c) \cup Claimed(c)
    <3>1. CASE step[c] = "showing"
      BY <1>1, <1>8, <3>1 DEF GivesBack, Drainer, CopyOf
    <3>2. QED
      BY <1>8, <3>1 DEF GivesBack
  <2>3. QED
    BY <1>8, <2>1, <2>2 DEF GivesBack, Held, Kept, CopyOf, Claimed, Waits
<1>9. CASE Confirms(c)
  <2>1. call'[c].claimed = {}
    BY <1>9, AskFacts DEF Confirms, Back
  <2>2. copy[c] # None
    BY <1>1, <1>9 DEF Confirms, Drainer
  <2>3. QED
    BY <1>9, <2>1, <2>2 DEF Confirms, Held, Kept, CopyOf, Claimed, Waits
<1>10. QED
  BY <1>3, <1>4, <1>5, <1>6, <1>7, <1>8, <1>9 DEF PageMove

LEMMA SameHas ==
  ASSUME NEW c, Same(c)
  PROVE  /\ (unacked[c] \cup CopyOf(c) \cup Claimed(c))'
              = unacked[c] \cup CopyOf(c) \cup Claimed(c)
         /\ Held(c)' = Held(c) /\ Claimed(c)' = Claimed(c)
         /\ Kept(c)' = Kept(c)
BY DEF Same, CopyOf, Claimed, Waits, Held, Kept

\* The request a page awaits is about the alert it works on.
LEMMA Awaited ==
  ASSUME SystemTypes, Drainers, NEW c \in Client, Waits(c)
  PROVE  /\ call[c].request \in PollRequest \cup ReceiptRequest
         /\ call[c].request \in ReceiptRequest =>
              /\ copy[c] \in Delivered /\ copy[c] \in CopyOf(c)
              /\ call[c].request.receipt = ReceiptOf(c, copy[c])
              /\ call[c].request.kind = "release" <=> step[c] = "releasing"
         /\ call[c].request \in PollRequest => step[c] = "polling"
<1>1. Drainer(c) /\ step[c] \in Steps /\ copy[c] \in Delivered \cup {None}
  BY DEF Drainers, SystemTypes
<1>2. call[c].request \in PollRequest \cup ReceiptRequest
  BY Records
<1>3. CASE step[c] = "polling"
  BY <1>1, <1>2, <1>3 DEF Drainer, ReceiptRequest, PollRequest
<1>4. CASE step[c] \in {"retrying", "acking", "releasing"}
  <2>1. copy[c] # None
    BY <1>1, <1>4 DEF Drainer
  <2>2. \E kind \in {"ack", "release"} :
          /\ call[c].request = [kind |-> kind, receipt |-> ReceiptOf(c, copy[c])]
          /\ kind = "release" <=> step[c] = "releasing"
    BY <1>1, <1>4 DEF Drainer
  <2>3. call[c].request \notin PollRequest
    BY <2>2 DEF PollRequest
  <2>4. QED
    BY <1>1, <1>2, <2>1, <2>2, <2>3 DEF CopyOf
<1>5. QED
  BY <1>1, <1>3, <1>4 DEF Steps, Drainer

LEMMA PageReceipts ==
  ASSUME SystemTypes, Drainers, Receipts, NEW c \in Client, PageMove(c)
  PROVE  Receipts'
<1>1. issued' = issued /\ published' = published
  BY DEF PageMove, vars
<1>2. Issued(c)'
  <2>1. (unacked[c] \cup CopyOf(c) \cup Claimed(c))'
          \subseteq unacked[c] \cup CopyOf(c) \cup Claimed(c)
    BY PageHas
  <2>2. Issued(c)
    BY DEF Receipts
  <2>3. QED
    BY <1>1, <2>1, <2>2 DEF Issued, ReceiptOf
<1>3. ASSUME NEW d \in Client \ {c} PROVE Issued(d)'
  <2>1. (unacked[d] \cup CopyOf(d) \cup Claimed(d))'
          = unacked[d] \cup CopyOf(d) \cup Claimed(d)
    BY SameHas DEF PageMove, Only
  <2>2. Issued(d)
    BY DEF Receipts
  <2>3. QED
    BY <1>1, <2>1, <2>2 DEF Issued, ReceiptOf
<1>4. ASSUME NEW q \in strays', q \in ReceiptRequest PROVE q.receipt \in issued
  <2>1. CASE q \in strays
    BY <1>4, <2>1 DEF Receipts
  <2>2. CASE Leaves(c) /\ Waits(c) /\ q = call[c].request
    <3>1. copy[c] \in CopyOf(c) /\ q.receipt = ReceiptOf(c, copy[c])
      BY <1>4, <2>2, Awaited
    <3>2. Issued(c)
      BY DEF Receipts
    <3>3. QED
      BY <3>1, <3>2 DEF Issued
  <2>3. CASE \E p \in Presence : q = NewReport(c, p)
    BY <1>4, <2>3 DEF NewReport, ReceiptRequest
  <2>4. QED
    BY <2>1, <2>2, <2>3 DEF PageMove, Announces, Ends, Polls, Finishes, Leaves, Repeats,
       Takes, GivesBack, Confirms, Clears
<1>5. QED
  BY <1>1, <1>2, <1>3, <1>4 DEF Receipts

LEMMA PageSeen ==
  ASSUME SystemTypes, Drainers, Receipts, Seen, NEW c \in Client, PageMove(c)
  PROVE  Seen'
<1>1. issued' = issued /\ accepted' = accepted /\ Drainer(c) /\ Displayed(c)
      /\ shown \subseteq issued /\ sounded \subseteq shown \cap accepted
  BY DEF PageMove, vars, Drainers, Seen
<1>2. shown \subseteq shown' /\ shown' \subseteq issued
  <2>1. step[c] = "showing" => ReceiptOf(c, copy[c]) \in issued
    <3>1. step[c] = "showing" => copy[c] \in CopyOf(c)
      BY <1>1 DEF Drainer, CopyOf
    <3>2. QED
      BY <3>1 DEF Receipts, Issued
  <2>2. \/ shown' = shown
        \/ /\ step[c] = "showing" /\ shown \subseteq shown'
           /\ shown' \subseteq shown \cup {ReceiptOf(c, copy[c])}
    BY DEF PageMove, Announces, Ends, Polls, Finishes, Repeats, Takes, GivesBack,
       Confirms, Clears
  <2>3. QED
    BY <1>1, <2>1, <2>2
<1>3. sounded' \subseteq shown' \cap accepted'
  <2>1. Sounds(c)
    BY DEF PageMove, Announces, Ends, Polls, Finishes, Repeats, Takes, GivesBack,
       Confirms, Clears, Sounds
  <2>2. QED
    BY <1>1, <1>2, <2>1 DEF Sounds, Drainer, Displayed
<1>4. Displayed(c)'
  <2>1. CASE Announces(c) \/ Clears(c)
    BY <1>1, <1>2, <2>1 DEF Announces, Clears, Displayed, ReceiptOf
  <2>2. CASE Ends(c) \/ Polls(c)
    <3>1. step'[c] \in {"idle", "polling"} /\ Keeps(c)
      BY <2>2 DEF Ends, Polls, Finishes
    <3>2. QED
      BY <1>1, <1>2, <3>1 DEF Displayed, Keeps, ReceiptOf
  <2>3. CASE Repeats(c)
    BY <1>1, <1>2, <2>3 DEF Repeats, Displayed, ReceiptOf
  <2>4. CASE Takes(c)
    BY <1>1, <1>2, <2>4 DEF Takes, Displayed, ReceiptOf
  <2>5. CASE GivesBack(c)
    BY <1>1, <1>2, <2>5 DEF GivesBack, Displayed, ReceiptOf
  <2>6. CASE Confirms(c)
    BY <1>1, <1>2, <2>6 DEF Confirms, Displayed, ReceiptOf
  <2>7. QED
    BY <2>1, <2>2, <2>3, <2>4, <2>5, <2>6 DEF PageMove
<1>5. ASSUME NEW d \in Client \ {c} PROVE Displayed(d)'
  BY <1>2 DEF PageMove, Only, Same, Seen, Displayed, ReceiptOf
<1>6. QED
  BY <1>1, <1>2, <1>3, <1>4, <1>5 DEF Seen

LEMMA PageBase ==
  ASSUME Base, NEW c \in Client, PageMove(c)
  PROVE  Base'
<1>1. TypeOK' /\ Once'
  BY DEF Base, PageMove, TypeOK, Once, vars
<1>2. SystemTypes'
  BY DEF PageMove, Only
<1>3. QED
  BY <1>1, <1>2, PageDrainers, PageReceipts, PageSeen DEF Base

\* What the host does with a request: an operation of the broker, by which at
\* most one alert is lent, to the sender of a poll, or one receipt accepted.
Lends(q) ==
  /\ q.kind = "poll"
  /\ \E i \in DOMAIN pending \cap DOMAIN pending', t \in FreshTokens :
       /\ issued' = issued \cup {[id |-> i, client |-> q.client, token |-> t]}
       /\ pending'[i].lease = [client |-> q.client, token |-> t, left |-> LEASE_TTL]
LEMMA ServeFacts ==
  ASSUME TypeOK, Once, NEW q \in PollRequest \cup ReceiptRequest, Serve(q),
         q \in ReceiptRequest => q.receipt \in issued
  PROVE  /\ [Next]_vars /\ published' = published
         /\ issued' = issued \/ Lends(q)
         /\ \/ accepted' = accepted
            \/ q.kind = "ack" /\ accepted' = accepted \cup {q.receipt}
<1>1. CASE q.kind = "report"
  <2>1. q.client \in Client /\ q.sequence \in 1..MaxSequence /\ q.presence \in Presence
    BY <1>1 DEF PollRequest, ReceiptRequest
  <2>2. Report(q.client, q.sequence, q.presence)
    BY <1>1 DEF Serve
  <2>3. Next
    BY <2>1, <2>2 DEF Next, Request
  <2>4. QED
    BY <2>2, <2>3 DEF Report
<1>2. CASE q.kind = "poll"
  <2>1. q.client \in Client /\ q.sequence \in 1..MaxSequence /\ q.presence \in Presence
    BY <1>2 DEF PollRequest, ReceiptRequest
  <2>2. Poll(q.client, q.sequence, q.presence)
    BY <1>2 DEF Serve
  <2>3. Next
    BY <2>1, <2>2 DEF Next, Request
  <2> DEFINE known == PruneClients(clients)
             cs == Reported(known, q.client, q.sequence, q.presence)
             pr == PrunePending(pending)
             ps == Vacated(known, pr, q.client, q.sequence, q.presence)
             rest == Without(ps, Dropped(cs, ps))
  <2>4. ASSUME NEW i \in NextAlert(cs, ps), NEW t \in FreshTokens,
               pending' = [rest EXCEPT ![i].lease =
                             [client |-> q.client, token |-> t, left |-> LEASE_TTL]],
               issued' = issued \cup {[id |-> i, client |-> q.client, token |-> t]}
        PROVE  Lends(q)
    <3>1. GoodPending(pending)
      BY TypeOKIsGood
    <3>2. GoodPending(pr) /\ DOMAIN pr \subseteq DOMAIN pending
      BY <3>1, PrunePendingGood
    <3>3. GoodPending(ps) /\ DOMAIN ps \subseteq DOMAIN pr
      BY <3>2, VacatedGood
    <3>4. i \in DOMAIN ps /\ i \notin Dropped(cs, ps)
      BY DEF NextAlert, Free, Dropped
    <3>5. GoodPending(rest) /\ DOMAIN rest = DOMAIN ps \ Dropped(cs, ps)
      BY <3>3, WithoutGood
    <3> DEFINE l == [client |-> q.client, token |-> t, left |-> LEASE_TTL]
               result == [rest EXCEPT ![i].lease = l]
    <3> HIDE DEF rest
    <3>6. i \in DOMAIN rest
      BY <3>4, <3>5
    <3>7. DOMAIN result = DOMAIN rest /\ result[i].lease = l
      <4> HIDE DEF l
      <4>1. QED
        BY <3>5, <3>6, ExceptGood
    <3>8. pending' = result
      BY <2>4 DEF rest
    <3>9. i \in DOMAIN pending \cap DOMAIN pending' /\ pending'[i].lease = l
      <4> HIDE DEF result, l
      <4>1. QED
        BY <3>2, <3>3, <3>4, <3>6, <3>7, <3>8
    <3>10. QED
      BY <1>2, <2>4, <3>9 DEF Lends
  <2>5. issued' = issued \/ Lends(q)
    BY <2>2, <2>4 DEF Poll
  <2>6. published' = published /\ accepted' = accepted
    BY <2>2 DEF Poll
  <2>7. QED
    BY <2>3, <2>5, <2>6
<1>3. CASE q.kind = "ack"
  <2>1. Ack(q.receipt) /\ q.receipt \in issued
    BY <1>3 DEF Serve, PollRequest
  <2>2. Next
    BY <2>1 DEF Next, Request
  <2>3. QED
    BY <1>3, <2>1, <2>2 DEF Ack
<1>4. CASE q.kind = "release"
  <2>1. q.receipt \in issued
    BY <1>4 DEF PollRequest
  <2>2. CASE Release(q.receipt)
    <3>1. Next
      BY <2>1, <2>2 DEF Next, Request
    <3>2. QED
      BY <2>2, <3>1 DEF Release
  <2>3. CASE UNCHANGED vars
    BY <2>3 DEF vars
  <2>4. QED
    BY <1>4, <2>2, <2>3 DEF Serve
<1>5. QED
  BY <1>1, <1>2, <1>3, <1>4 DEF PollRequest, ReceiptRequest

\* What else the broker does, without a page.
Alone == \/ \E i \in Id, e \in Event : Publish(i, e)
         \/ \E i \in Id : Retract(i)
         \/ Query \/ Dispose \/ \E c \in Config : SetConfig(c)

LEMMA AloneFacts ==
  ASSUME Alone
  PROVE  Next /\ issued' = issued /\ accepted' = accepted /\ published \subseteq published'
BY DEF Alone, Next, Request, Publish, Retract, Query, Dispose, SetConfig

\* Steps that leave the pages as they are and accept and issue nothing less.
LEMMA HostBase ==
  ASSUME Base, [Next]_vars, SystemTypes', UNCHANGED <<page, step, copy, unacked, shown, sounded>>,
         issued \subseteq issued', accepted \subseteq accepted', published \subseteq published',
         strays' \subseteq strays, \A r \in issued' \ issued : r.id \in published',
         \A c \in Client : Drainer(c)' /\ \A d \in Claimed(c)' \ Claimed(c) :
                                            ReceiptOf(c, d) \in issued'
  PROVE  Base'
<1>1. TypeOK' /\ Once'
  BY StepTypeOK, StepOnce DEF Base
<1>2. Drainers'
  BY DEF Drainers
<1>3. ASSUME NEW c \in Client PROVE Issued(c)'
  <2>1. CopyOf(c)' = CopyOf(c) /\ unacked'[c] = unacked[c]
    BY DEF CopyOf
  <2>2. Issued(c)
    BY DEF Base, Receipts
  <2>3. \A d \in Claimed(c)' : ReceiptOf(c, d) \in issued'
    BY <2>2 DEF Issued
  <2>4. \A d \in unacked[c] \cup CopyOf(c) : ReceiptOf(c, d) \in issued'
    BY <2>2 DEF Issued
  <2>5. QED
    BY <2>1, <2>3, <2>4 DEF Issued, ReceiptOf
<1>4. Receipts'
  <2>1. \A q \in strays' : q \in ReceiptRequest => q.receipt \in issued'
    BY DEF Base, Receipts
  <2>2. \A r \in issued' : r.id \in published'
    BY DEF Base, Receipts
  <2>3. QED
    BY <1>3, <2>1, <2>2 DEF Receipts
<1>5. Seen'
  BY DEF Base, Seen, Displayed, ReceiptOf
<1>6. QED
  BY <1>1, <1>2, <1>4, <1>5 DEF Base

LEMMA AloneBase ==
  ASSUME Base, Alone, UNCHANGED pageVars
  PROVE  Base'
<1>1. Next /\ issued' = issued /\ accepted' = accepted /\ published \subseteq published'
  BY AloneFacts
<1>2. SystemTypes'
  BY DEF Base, SystemTypes, pageVars
<1>3. ASSUME NEW c \in Client PROVE Drainer(c)' /\ Claimed(c)' = Claimed(c)
  <2>1. Same(c)
    BY DEF Same, pageVars
  <2>2. QED
    BY <1>1, <2>1, SameDrainer, SameHas DEF Base, Drainers
<1>4. QED
  BY <1>1, <1>2, <1>3, HostBase DEF pageVars

LEMMA StrayBase ==
  ASSUME Base, NEW q \in strays, ServeStray(q)
  PROVE  Base'
<1>1. /\ q \in PollRequest \cup ReceiptRequest
      /\ q \in ReceiptRequest => q.receipt \in issued
      /\ TypeOK /\ Once
  BY DEF Base, SystemTypes, Receipts
<1>2. /\ [Next]_vars /\ published' = published
      /\ issued' = issued \/ Lends(q)
      /\ accepted \subseteq accepted'
  BY <1>1, ServeFacts DEF ServeStray
<1>3. SystemTypes'
  <2>1. IsFiniteSet(strays) /\ Cardinality(strays) <= MaxStrays /\ strays' = strays \ {q}
    BY DEF Base, SystemTypes, ServeStray
  <2>2. IsFiniteSet(strays') /\ Cardinality(strays') <= MaxStrays
    <3>1. Cardinality(strays) \in Nat /\ MaxStrays \in Nat
      BY <2>1, FS_CardinalityType, SystemAssumption
    <3>2. IsFiniteSet(strays') /\ Cardinality(strays') = Cardinality(strays) - 1
      BY <2>1, FS_RemoveElement
    <3>3. QED
      BY <2>1, <3>1, <3>2
  <2>3. QED
    BY <2>1, <2>2 DEF Base, SystemTypes, ServeStray
<1>4. ASSUME NEW c \in Client PROVE Drainer(c)' /\ Claimed(c)' = Claimed(c)
  <2>1. Same(c)
    BY DEF Same, ServeStray
  <2>2. QED
    BY <1>2, <2>1, SameDrainer, SameHas DEF Base, Drainers
<1>5. \A r \in issued' \ issued : r.id \in published'
  <2>1. DOMAIN pending \subseteq published'
    BY <1>2 DEF Base, Once
  <2>2. ASSUME Lends(q) PROVE \A r \in issued' \ issued : r.id \in DOMAIN pending
    BY <2>2 DEF Lends
  <2>3. QED
    BY <1>2, <2>1, <2>2
<1>6. issued \subseteq issued'
  BY <1>2 DEF Lends
<1>7. QED
  BY <1>2, <1>3, <1>4, <1>5, <1>6, HostBase DEF ServeStray

\* The answer to a request: what it may hold.
LEMMA CallFacts ==
  ASSUME Base, NEW c \in Client, ServeCall(c)
  PROVE  LET q == call[c].request
         IN  /\ Waits(c) /\ ~call[c].answered /\ q \in PollRequest \cup ReceiptRequest
             /\ Serve(q) /\ [Next]_vars /\ published' = published
             /\ q \in ReceiptRequest => q.receipt \in issued
             /\ issued' = issued \/ Lends(q)
             /\ \/ accepted' = accepted
                \/ q.kind = "ack" /\ accepted' = accepted \cup {q.receipt}
<1>1. /\ Waits(c) /\ ~call[c].answered /\ Serve(call[c].request)
      /\ TypeOK /\ Once /\ SystemTypes /\ Drainers
  BY DEF ServeCall, Waits, Base
<1>2. /\ call[c].request \in PollRequest \cup ReceiptRequest
      /\ call[c].request \in ReceiptRequest => call[c].request.receipt \in issued
  BY <1>1, Awaited DEF Base, Receipts, Issued
<1>3. QED
  BY <1>1, <1>2, ServeFacts

\* The deliveries of an answer.
Fresh(c) ==
  {[id |-> r.id, token |-> r.token, left |-> LEASE_TTL,
    age |-> pending'[r.id].age, poll |-> call[c].request.sequence] : r \in issued' \ issued}

LEMMA AnswerFacts ==
  ASSUME Base, NEW c \in Client, ServeCall(c)
  PROVE  /\ call'[c] = [call[c] EXCEPT !.answered = TRUE, !.ok = accepted' # accepted,
                                       !.claimed = Fresh(c)]
         /\ call'[c] \in Call
         /\ Fresh(c) \subseteq Delivered
         /\ call'[c].request = call[c].request /\ call'[c].answered
         /\ call'[c].claimed = Fresh(c) /\ call'[c].ok = (accepted' # accepted)
         /\ call'[c].waited = call[c].waited
         /\ call' = [call EXCEPT ![c] = call'[c]]
<1> DEFINE q == call[c].request
           K == [call[c] EXCEPT !.answered = TRUE, !.ok = accepted' # accepted,
                                !.claimed = Fresh(c)]
<1>1. call' = [call EXCEPT ![c] = K]
  BY DEF ServeCall, Fresh
<1>2. call \in [Client -> Call \cup {None}] /\ call[c] \in Call
  BY Records, CallFacts DEF Base, SystemTypes
<1>3. Fresh(c) \subseteq Delivered
  <2>1. CASE issued' = issued
    BY <2>1 DEF Fresh
  <2>2. CASE Lends(q)
    <3>1. PICK i \in DOMAIN pending \cap DOMAIN pending', t \in FreshTokens :
            issued' = issued \cup {[id |-> i, client |-> q.client, token |-> t]}
      BY <2>2 DEF Lends
    <3>2. TypeOK'
      BY CallFacts, StepTypeOK DEF Base
    <3>3. i \in Id /\ pending'[i].age \in 0..EVENT_TTL + 1
      BY <3>2 DEF TypeOK, Alert
    <3>4. t \in Token /\ LEASE_TTL \in 0..LEASE_TTL
      BY BrokerAssumption DEF FreshTokens
    <3>5. q.sequence \in 1..MaxSequence
      BY <2>2, CallFacts DEF Lends, PollRequest, ReceiptRequest
    <3>6. \A r \in issued' \ issued : r.id = i /\ r.token = t
      BY <3>1
    <3>7. QED
      BY <3>3, <3>4, <3>5, <3>6 DEF Fresh, Delivered
  <2>3. QED
    BY <2>1, <2>2, CallFacts
<1>4. /\ K \in Call /\ K.request = q /\ K.answered /\ K.claimed = Fresh(c)
      /\ K.ok = (accepted' # accepted) /\ K.waited = call[c].waited
  <2> DEFINE F == Fresh(c)
             B == accepted' # accepted
  <2>1. F \in SUBSET Delivered /\ B \in BOOLEAN
    BY <1>3
  <2>2. K = [call[c] EXCEPT !.answered = TRUE, !.ok = B, !.claimed = F]
    OBVIOUS
  <2> HIDE DEF F, B, K
  <2>3. /\ K \in Call /\ K.request = q /\ K.answered /\ K.claimed = F
        /\ K.ok = B /\ K.waited = call[c].waited
    BY <1>2, <2>1, <2>2 DEF Call
  <2>4. QED
    BY <2>3 DEF F, B
<1>5. call'[c] = K
  <2> HIDE DEF K
  <2>1. QED
    BY <1>1, <1>2
<1>6. QED
  BY <1>1, <1>3, <1>4, <1>5

LEMMA CallBase ==
  ASSUME Base, NEW c \in Client, ServeCall(c)
  PROVE  Base'
<1> DEFINE q == call[c].request
<1>1. /\ Waits(c) /\ [Next]_vars /\ published' = published
      /\ issued' = issued \/ Lends(q)
      /\ accepted \subseteq accepted'
      /\ Drainer(c) /\ step[c] \in Steps /\ call'[c] # None
  <2>1. Drainer(c) /\ step[c] \in Steps
    BY DEF Base, Drainers, SystemTypes
  <2>2. call'[c] # None
    BY AnswerFacts, SystemAssumption
  <2>3. QED
    BY <2>1, <2>2, CallFacts
<1>2. SystemTypes'
  <2>1. call' \in [Client -> Call \cup {None}]
    BY AnswerFacts DEF Base, SystemTypes
  <2>2. QED
    BY <2>1 DEF Base, SystemTypes, ServeCall
<1>3. Drainer(c)'
  <2>1. UNCHANGED <<step, copy>>
    BY DEF ServeCall
  <2>2. call'[c].claimed # {} => step[c] = "polling"
    <3>1. call'[c].claimed # {} => q.kind = "poll"
      <4>1. issued' = issued => Fresh(c) = {}
        BY DEF Fresh
      <4>2. call'[c].claimed = Fresh(c)
        BY AnswerFacts
      <4>3. Lends(q) => q.kind = "poll"
        BY DEF Lends
      <4>4. QED
        BY <1>1, <4>1, <4>2, <4>3
    <3>2. QED
      BY <1>1, <3>1 DEF Drainer, Steps
  <2>3. call'[c].ok => /\ step[c] \in {"retrying", "acking"}
                       /\ ReceiptOf(c, copy[c]) \in accepted'
    <3>1. call'[c].ok => q.kind = "ack" /\ q.receipt \in accepted'
      BY CallFacts, AnswerFacts
    <3>2. q.kind = "ack" => step[c] \in {"retrying", "acking"}
      BY <1>1 DEF Drainer, Steps
    <3>3. step[c] \in {"retrying", "acking"} => q.receipt = ReceiptOf(c, copy[c])
      BY <1>1 DEF Drainer
    <3>4. QED
      BY <3>1, <3>2, <3>3
  <2>4. call'[c].request = q /\ call'[c].answered
    BY AnswerFacts
  <2>5. QED
    BY <1>1, <2>1, <2>2, <2>3, <2>4 DEF Drainer, Waits, ReceiptOf
<1>4. ASSUME NEW d \in Client \ {c} PROVE Drainer(d)' /\ Claimed(d)' = Claimed(d)
  <2>1. Same(d)
    BY AnswerFacts DEF Same, ServeCall, Base, SystemTypes
  <2>2. QED
    BY <1>1, <2>1, SameDrainer, SameHas DEF Base, Drainers
<1>5. \A d \in Claimed(c)' : ReceiptOf(c, d) \in issued'
  <2>1. Claimed(c)' = Fresh(c)
    BY <1>1, AnswerFacts DEF Claimed, Waits
  <2>2. \A r \in issued' \ issued : ReceiptOf(c, [id |-> r.id, token |-> r.token,
            left |-> LEASE_TTL, age |-> pending'[r.id].age, poll |-> q.sequence]) = r
    <3>1. CASE issued' = issued
      BY <3>1
    <3>2. CASE Lends(q)
      <4>1. q.client = c
        BY <1>1, <3>2 DEF Lends, Drainer, Steps
      <4>2. QED
        BY <3>2, <4>1 DEF Lends, ReceiptOf
    <3>3. QED
      BY <1>1, <3>1, <3>2
  <2>3. QED
    BY <2>1, <2>2 DEF Fresh
<1>6. \A r \in issued' \ issued : r.id \in published'
  <2>1. DOMAIN pending \subseteq published'
    BY <1>1 DEF Base, Once
  <2>2. ASSUME Lends(q) PROVE \A r \in issued' \ issued : r.id \in DOMAIN pending
    BY <2>2 DEF Lends
  <2>3. QED
    BY <1>1, <2>1, <2>2
<1>7. issued \subseteq issued'
  BY <1>1 DEF Lends
<1>8. QED
  BY <1>1, <1>2, <1>3, <1>4, <1>5, <1>6, <1>7, HostBase DEF ServeCall

\* Time shortens what a page has, and changes nothing else of it.
LEMMA ShorterFacts ==
  ASSUME NEW d \in Delivered
  PROVE  /\ Shorter(d) \in Delivered /\ Shorter(d) # None
         /\ Shorter(d).id = d.id /\ Shorter(d).token = d.token /\ Shorter(d).poll = d.poll
         /\ d.left \in Nat /\ Shorter(d).left \in Nat
         /\ Shorter(d).left > 0 => Shorter(d).left = d.left - 1 /\ d.left > 0
<1>1. d.left \in 0..LEASE_TTL /\ d.age \in 0..EVENT_TTL + 1
  BY DEF Delivered
<1>2. Older(d.age, EVENT_TTL) \in 0..EVENT_TTL + 1
  BY <1>1, BrokerAssumption DEF Older
<1>3. (IF d.left > 0 THEN d.left - 1 ELSE 0) \in 0..LEASE_TTL
  BY <1>1, BrokerAssumption
<1>4. Shorter(d) \in Delivered
  BY <1>2, <1>3 DEF Shorter, Delivered
<1>5. /\ Shorter(d).id = d.id /\ Shorter(d).token = d.token /\ Shorter(d).poll = d.poll
      /\ Shorter(d).left = IF d.left > 0 THEN d.left - 1 ELSE 0
  BY DEF Shorter, Delivered
<1>6. QED
  BY <1>1, <1>4, <1>5, BrokerAssumption, SystemAssumption

LEMMA ElapseFacts ==
  ASSUME SystemTypes, Elapse, NEW c \in Client
  PROVE  /\ Tick /\ UNCHANGED <<page, step, strays, shown, sounded>>
         /\ copy[c] = None => copy'[c] = None
         /\ copy[c] # None =>
              copy[c] \in Delivered /\ copy'[c] = Shorter(copy[c]) /\ copy'[c] # None
         /\ unacked'[c] = {Shorter(d) : d \in unacked[c]} /\ unacked[c] \subseteq Delivered
         /\ call[c] = None => call'[c] = None
         /\ Waits(c) =>
              /\ call[c] \in Call /\ call[c].waited < RPC_TIMEOUT
              /\ call'[c] \in Call /\ call'[c] # None
              /\ call'[c].waited = call[c].waited + 1
              /\ call'[c].request = call[c].request /\ call'[c].answered = call[c].answered
              /\ call'[c].ok = call[c].ok
              /\ call'[c].claimed = {Shorter(d) : d \in call[c].claimed}
              /\ call[c].claimed \subseteq Delivered
<1>1. /\ Tick /\ UNCHANGED <<page, step, strays, shown, sounded>>
      /\ copy'[c] = (IF copy[c] = None THEN None ELSE Shorter(copy[c]))
      /\ unacked'[c] = {Shorter(d) : d \in unacked[c]} /\ unacked[c] \subseteq Delivered
      /\ copy[c] \in Delivered \cup {None}
      /\ call[c] = None => call'[c] = None
      /\ Waits(c) => call[c].waited < RPC_TIMEOUT
  BY DEF Elapse, SystemTypes, Waits
<1>2. copy[c] # None => copy[c] \in Delivered /\ copy'[c] = Shorter(copy[c]) /\ copy'[c] # None
  BY <1>1, ShorterFacts
<1>3. ASSUME Waits(c)
      PROVE  /\ call[c] \in Call /\ call[c].waited < RPC_TIMEOUT
             /\ call'[c] \in Call /\ call'[c] # None
             /\ call'[c].waited = call[c].waited + 1
             /\ call'[c].request = call[c].request /\ call'[c].answered = call[c].answered
             /\ call'[c].ok = call[c].ok
             /\ call'[c].claimed = {Shorter(d) : d \in call[c].claimed}
             /\ call[c].claimed \subseteq Delivered
  <2> DEFINE S == {Shorter(d) : d \in call[c].claimed}
             w == call[c].waited + 1
             K == [call[c] EXCEPT !.waited = w, !.claimed = S]
  <2>1. call[c] \in Call /\ call[c].claimed \subseteq Delivered
    BY <1>3, Records
  <2>2. call'[c] = K
    BY <1>3 DEF Elapse, Waits
  <2>3. S \in SUBSET Delivered
    BY <2>1, ShorterFacts
  <2>4. w \in 0..RPC_TIMEOUT
    <3>1. call[c].waited \in 0..RPC_TIMEOUT
      BY <2>1 DEF Call
    <3>2. QED
      BY <1>1, <1>3, <3>1, SystemAssumption
  <2>5. /\ K \in Call /\ K.waited = w /\ K.request = call[c].request
        /\ K.answered = call[c].answered /\ K.ok = call[c].ok /\ K.claimed = S
    <3> HIDE DEF S, w
    <3>1. QED
      BY <2>1, <2>3, <2>4 DEF Call
  <2> HIDE DEF K
  <2>6. QED
    BY <1>1, <1>3, <2>1, <2>2, <2>5, SystemAssumption
<1>4. QED
  BY <1>1, <1>2, <1>3

LEMMA ElapseBase ==
  ASSUME Base, Elapse
  PROVE  Base'
<1>1. /\ SystemTypes /\ Drainers /\ Receipts /\ Seen
      /\ UNCHANGED <<page, step, strays, shown, sounded>> /\ Next
      /\ UNCHANGED <<issued, accepted, published>>
  BY DEF Base, Elapse, Tick, Next
<1>2. TypeOK' /\ Once'
  BY <1>1, StepTypeOK, StepOnce DEF Base
<1>3. SystemTypes'
  <2>1. call' \in [Client -> Call \cup {None}] /\ copy' \in [Client -> Delivered \cup {None}]
        /\ unacked' \in [Client -> SUBSET Delivered]
    <3>1. \A c \in Client : /\ call'[c] \in Call \cup {None}
                            /\ copy'[c] \in Delivered \cup {None}
                            /\ unacked'[c] \in SUBSET Delivered
      <4>1. TAKE c \in Client
      <4>2. call'[c] \in Call \cup {None} /\ copy'[c] \in Delivered \cup {None}
        BY <1>1, ElapseFacts, ShorterFacts DEF Waits
      <4>3. unacked'[c] \in SUBSET Delivered
        BY <1>1, ElapseFacts, ShorterFacts
      <4>4. QED
        BY <4>2, <4>3
    <3>2. /\ call' = [c \in Client |-> call'[c]] /\ copy' = [c \in Client |-> copy'[c]]
          /\ unacked' = [c \in Client |-> unacked'[c]]
      BY DEF Elapse
    <3>3. QED
      BY <3>1, <3>2
  <2>2. QED
    BY <1>1, <2>1 DEF SystemTypes
<1>4. ASSUME NEW c \in Client PROVE Drainer(c)' /\ Issued(c)' /\ Displayed(c)'
  <2>1. Drainer(c) /\ Issued(c) /\ Displayed(c)
    BY <1>1 DEF Drainers, Receipts, Seen
  <2>2. \A d \in Delivered : ReceiptOf(c, Shorter(d)) = ReceiptOf(c, d)
    BY ShorterFacts DEF ReceiptOf
  <2>3. copy[c] # None => ReceiptOf(c, copy'[c]) = ReceiptOf(c, copy[c])
    BY <1>1, <2>2, ElapseFacts
  <2>4. /\ Waits(c)' <=> Waits(c)
        /\ copy'[c] = None <=> copy[c] = None
        /\ Waits(c) => /\ call'[c].request = call[c].request /\ call'[c].answered = call[c].answered
                       /\ call'[c].ok = call[c].ok
                       /\ call'[c].claimed # {} => call[c].claimed # {}
    BY <1>1, ElapseFacts DEF Waits
  <2>5. Drainer(c)'
    BY <1>1, <2>1, <2>3, <2>4 DEF Drainer, Waits, ReceiptOf
  <2>6. Issued(c)'
    <3>1. \A d \in (unacked[c] \cup CopyOf(c) \cup Claimed(c))' :
            \E e \in unacked[c] \cup CopyOf(c) \cup Claimed(c) : e \in Delivered /\ d = Shorter(e)
      BY <1>1, <2>4, ElapseFacts DEF CopyOf, Claimed, Waits
    <3>2. QED
      BY <1>1, <2>1, <2>2, <3>1 DEF Issued, ReceiptOf
  <2>7. Displayed(c)'
    <3>1. \A d \in unacked'[c] : \E e \in unacked[c] : e \in Delivered /\ d = Shorter(e)
      BY <1>1, ElapseFacts
    <3>2. step[c] \in {"retrying", "acking"} => copy[c] # None
      BY <2>1 DEF Drainer
    <3>3. QED
      BY <1>1, <2>1, <2>2, <2>3, <3>1, <3>2 DEF Displayed, ReceiptOf
  <2>8. QED
    BY <2>5, <2>6, <2>7
<1>5. Receipts' /\ Seen' /\ Drainers'
  BY <1>1, <1>4 DEF Receipts, Seen, Drainers
<1>6. QED
  BY <1>2, <1>3, <1>5 DEF Base

\* Who takes a step.
LEMMA WhoSteps ==
  SystemNext =>
    \/ \E c \in Client : PageAction(c)
    \/ \E c \in Client : ServeCall(c)
    \/ \E q \in strays : ServeStray(q)
    \/ Alone /\ UNCHANGED pageVars
    \/ Elapse
BY DEF SystemNext, PageAction, Alone

LEMMA InitBase == SystemInit => Base
<1> SUFFICES ASSUME SystemInit PROVE Base
  OBVIOUS
<1>1. TypeOK /\ Once
  BY InitTypeOK DEF SystemInit, Init, Once, NoMap
<1>2. SystemTypes
  <2>1. IsFiniteSet(strays) /\ Cardinality(strays) <= MaxStrays
    BY FS_EmptySet, SystemAssumption DEF SystemInit
  <2>2. page \in [Client -> PageState]
    <3>1. 0 \in 0..MaxSequence
      BY BrokerAssumption
    <3>2. [presence: {p \in Presence : p.open}, sequence: {0}, disposed: {FALSE}, closedAt: {0}]
            \subseteq PageState
      BY <3>1 DEF PageState
    <3>3. QED
      BY <3>2 DEF SystemInit
  <2>3. QED
    BY <2>1, <2>2 DEF SystemInit, SystemTypes, Steps
<1>3. Drainers /\ Receipts /\ Seen
  BY DEF SystemInit, Init, Drainers, Drainer, Waits, Receipts, Issued, CopyOf, Claimed, Seen,
     Displayed
<1>4. QED
  BY <1>1, <1>2, <1>3 DEF Base

LEMMA NextBase == Base /\ [SystemNext]_allVars => Base'
<1> SUFFICES ASSUME Base, [SystemNext]_allVars PROVE Base'
  OBVIOUS
<1>1. ASSUME NEW c \in Client, PageAction(c) PROVE Base'
  BY <1>1, PageKinds, PageBase DEF Base, Drainers
<1>2. CASE UNCHANGED allVars
  <2>1. UNCHANGED <<clients, pending, config, disposed, published, issued, accepted,
                    page, step, call, copy, unacked, strays, shown, sounded>>
    BY <1>2 DEF allVars, vars, pageVars
  <2>2. TypeOK' /\ Once' /\ SystemTypes' /\ Drainers' /\ Receipts' /\ Seen'
    BY <2>1 DEF Base, TypeOK, Once, SystemTypes, Drainers, Drainer, Waits, Receipts, Issued,
       CopyOf, Claimed, Seen, Displayed, ReceiptOf
  <2>3. QED
    BY <2>2 DEF Base
<1>3. QED
  BY <1>1, <1>2, WhoSteps, CallBase, StrayBase, AloneBase, ElapseBase

LEMMA BaseHolds == SystemSpec => []Base
BY InitBase, NextBase, PTL DEF SystemSpec

\* What happens to the broker is what a broker does.
LEMMA BrokerSteps == Base /\ [SystemNext]_allVars => [Next]_vars
<1> SUFFICES ASSUME Base, [SystemNext]_allVars PROVE [Next]_vars
  OBVIOUS
<1>1. ASSUME NEW c \in Client, PageAction(c) PROVE [Next]_vars
  BY <1>1, PageKinds DEF Base, Drainers, PageMove
<1>2. ASSUME NEW c \in Client, ServeCall(c) PROVE [Next]_vars
  BY <1>2, CallFacts
<1>3. ASSUME NEW q \in strays, ServeStray(q) PROVE [Next]_vars
  <2>1. /\ q \in PollRequest \cup ReceiptRequest /\ TypeOK /\ Once
        /\ q \in ReceiptRequest => q.receipt \in issued
    BY DEF Base, SystemTypes, Receipts
  <2>2. QED
    BY <1>3, <2>1, ServeFacts DEF ServeStray
<1>4. QED
  BY <1>1, <1>2, <1>3, WhoSteps, AloneFacts DEF Elapse, Next, allVars

-----------------------------------------------------------------------------
(* The screens *)

\* The requests on their way, and what the host and they say of a page: the
\* number of a report and whether the page was open.
Underway(q) == q \in strays \/ \E c \in Client : Waits(c) /\ call[c].request = q
Said(c, n, open) ==
  \/ c \in DOMAIN clients /\ clients[c].sequence = n /\ clients[c].presence.open = open
  \/ \E q \in PollRequest :
       Underway(q) /\ q.client = c /\ q.sequence = n /\ q.presence.open = open

\* What says that a page is open is newer than all that says it is closed,
\* unless it is older than the last closing.
Numbers(c) ==
  /\ page[c].closedAt <= page[c].sequence
  /\ \A n \in 1..MaxSequence, open \in BOOLEAN : Said(c, n, open) => n <= page[c].sequence
  /\ \A n, o \in 1..MaxSequence :
       Said(c, n, FALSE) /\ Said(c, o, TRUE) /\ o > page[c].closedAt => n < o
  /\ ~page[c].presence.open =>
       \A o \in 1..MaxSequence : Said(c, o, TRUE) => o <= page[c].closedAt

\* When the host has heard of a page since a poll was made, not long ago.
Late(c) ==
  /\ Waits(c) /\ step[c] = "polling" /\ ~call[c].answered
  /\ c \in DOMAIN clients /\ clients[c].sequence >= call[c].request.sequence
  => clients[c].age <= call[c].waited

\* No release is under way for what is held, nor will be.
Released ==
  \A q \in ReceiptRequest : Underway(q) /\ q.kind = "release" =>
    \A d \in Held(q.receipt.client) : d.token # q.receipt.token
Apart(c) ==
  /\ \A e \in unacked[c], d \in Claimed(c) : e.token # d.token
  /\ step[c] \in {"showing", "acking", "releasing"} =>
       \A e \in unacked[c] : e.token # copy[c].token

\* What a page believes to hold it holds, while the alert exists, and for so
\* long that its client does not expire before.
Lent(c, d) ==
  d.id \in DOMAIN pending =>
    /\ pending[d.id].lease # None
    /\ pending[d.id].lease.client = c /\ pending[d.id].lease.token = d.token
    /\ d.left <= pending[d.id].lease.left
    /\ c \in DOMAIN clients /\ clients[c].presence.open
    /\ clients[c].sequence >= d.poll /\ clients[c].age + d.left <= CLIENT_TTL + 1

Screen ==
  /\ \A c \in Client : Numbers(c) /\ Late(c) /\ Apart(c)
  /\ \A c \in Client : \A d \in Believed(c) : Lent(c, d)
  /\ Released /\ OneHolder

LEMMA BelievedIsHeld ==
  ASSUME NEW c
  PROVE  Believed(c) = {d \in Held(c) : d.left > 0 /\ d.poll > page[c].closedAt}
BY DEF Believed, Held, Kept, CopyOf, Claimed, Waits

LEMMA NumbersFewer ==
  ASSUME NEW c, Numbers(c),
         page'[c].presence = page[c].presence, page'[c].sequence = page[c].sequence,
         page'[c].closedAt = page[c].closedAt,
         \A n \in 1..MaxSequence, open \in BOOLEAN : Said(c, n, open)' => Said(c, n, open)
  PROVE  Numbers(c)'
<1> DEFINE NewSaid(n, open) == Said(c, n, open)'
<1>1. \A n \in 1..MaxSequence, open \in BOOLEAN : NewSaid(n, open) => Said(c, n, open)
  OBVIOUS
<1> HIDE DEF NewSaid
<1>2. /\ page'[c].closedAt <= page'[c].sequence
      /\ \A n \in 1..MaxSequence, open \in BOOLEAN : NewSaid(n, open) => n <= page'[c].sequence
      /\ \A n, o \in 1..MaxSequence :
           NewSaid(n, FALSE) /\ NewSaid(o, TRUE) /\ o > page'[c].closedAt => n < o
      /\ ~page'[c].presence.open =>
           \A o \in 1..MaxSequence : NewSaid(o, TRUE) => o <= page'[c].closedAt
  BY <1>1 DEF Numbers
<1>3. QED
  BY <1>2 DEF Numbers, NewSaid

LEMMA NumbersMore ==
  ASSUME SystemTypes, NEW c \in Client, Numbers(c), NEW p \in Presence,
         page[c].sequence + 1 <= MaxSequence,
         page'[c].presence = p, page'[c].sequence = page[c].sequence + 1,
         \/ page'[c].closedAt = IF p.open THEN page[c].closedAt ELSE page[c].sequence + 1
         \/ p = page[c].presence /\ page'[c].closedAt = page[c].closedAt,
         \A n \in 1..MaxSequence, open \in BOOLEAN :
           Said(c, n, open)' => Said(c, n, open) \/ (n = page[c].sequence + 1 /\ open = p.open)
  PROVE  Numbers(c)'
<1> DEFINE NewSaid(n, open) == Said(c, n, open)'
           top == page[c].sequence + 1
           closed == page[c].closedAt
<1>1. /\ \A n \in 1..MaxSequence, open \in BOOLEAN :
           NewSaid(n, open) => Said(c, n, open) \/ (n = top /\ open = p.open)
      /\ page'[c].sequence = top /\ top \in 1..MaxSequence
  BY BrokerAssumption DEF SystemTypes, PageState
<1>2. /\ closed \in Nat /\ page[c].sequence \in Nat /\ top \in Nat /\ p.open \in BOOLEAN
      /\ page[c].presence.open \in BOOLEAN
  <2>1. page[c] \in PageState
    BY DEF SystemTypes
  <2>2. page[c].presence \in Presence /\ closed \in Nat /\ page[c].sequence \in Nat
    BY <2>1, BrokerAssumption DEF PageState
  <2>3. QED
    BY <2>2, BrokerAssumption
<1>3. \/ page'[c].closedAt = IF p.open THEN closed ELSE top
      \/ p = page[c].presence /\ page'[c].closedAt = closed
  OBVIOUS
<1>4. /\ closed <= page[c].sequence
      /\ \A n \in 1..MaxSequence, open \in BOOLEAN : Said(c, n, open) => n <= page[c].sequence
      /\ \A n, o \in 1..MaxSequence :
           Said(c, n, FALSE) /\ Said(c, o, TRUE) /\ o > closed => n < o
      /\ ~page[c].presence.open => \A o \in 1..MaxSequence : Said(c, o, TRUE) => o <= closed
  BY DEF Numbers
<1>5. \A n \in 1..MaxSequence, open \in BOOLEAN : Said(c, n, open) => n < top
  BY <1>2, <1>4
<1>6. closed < top /\ page'[c].closedAt \in Nat /\ page'[c].closedAt <= page'[c].sequence
  <2>1. closed < top
    BY <1>2, <1>4
  <2> HIDE DEF top, closed
  <2>2. QED
    BY <1>1, <1>2, <1>3, <2>1
<1> HIDE DEF NewSaid, top, closed
<1>7. \A n \in 1..MaxSequence, open \in BOOLEAN : NewSaid(n, open) => n <= page'[c].sequence
  BY <1>1, <1>2, <1>5
<1>8. ASSUME ~p.open, NEW o \in 1..MaxSequence, NewSaid(o, TRUE)
      PROVE  o <= page'[c].closedAt
  <2>1. Said(c, o, TRUE)
    BY <1>1, <1>8
  <2>2. o < top
    BY <1>5, <2>1
  <2>3. CASE page'[c].closedAt = top
    BY <1>2, <2>2, <2>3
  <2>4. CASE ~page[c].presence.open /\ page'[c].closedAt = closed
    BY <1>4, <2>1, <2>4
  <2>5. QED
    BY <1>3, <1>8, <2>3, <2>4
<1>9. ASSUME NEW n \in 1..MaxSequence, NEW o \in 1..MaxSequence,
             NewSaid(n, FALSE), NewSaid(o, TRUE), o > page'[c].closedAt
      PROVE  n < o
  <2>1. CASE p.open
    <3>1. page'[c].closedAt = closed /\ Said(c, n, FALSE)
      BY <1>1, <1>3, <1>9, <2>1
    <3>2. n < top
      BY <1>5, <3>1
    <3>3. Said(c, o, TRUE) \/ o = top
      BY <1>1, <1>9
    <3>4. QED
      BY <1>4, <1>9, <3>1, <3>2, <3>3
  <2>2. CASE ~p.open
    <3>1. o <= page'[c].closedAt
      BY <1>8, <1>9, <2>2
    <3>2. o \in Int /\ page'[c].closedAt \in Int
      BY <1>6
    <3>3. QED
      BY <1>9, <3>1, <3>2
  <2>3. QED
    BY <1>2, <2>1, <2>2
<1>10. ~page'[c].presence.open =>
         \A o \in 1..MaxSequence : NewSaid(o, TRUE) => o <= page'[c].closedAt
  BY <1>8
<1>11. QED
  BY <1>6, <1>7, <1>9, <1>10 DEF Numbers, NewSaid

LEMMA Numbering ==
  ASSUME TypeOK, NEW c, c \in DOMAIN clients
  PROVE  /\ clients[c].sequence \in 1..MaxSequence /\ clients[c].presence.open \in BOOLEAN
         /\ clients[c].age \in Nat /\ clients[c].sequence \in Nat
         /\ Said(c, clients[c].sequence, clients[c].presence.open)
<1>1. clients[c] \in ClientState
  BY DEF TypeOK
<1>2. /\ clients[c].sequence \in 1..MaxSequence /\ clients[c].presence \in Presence
      /\ clients[c].age \in 0..CLIENT_TTL + 1
  BY <1>1 DEF ClientState
<1>3. QED
  BY <1>2, BrokerAssumption DEF Said

\* A drainer adds to what is under way at most its new poll, its new report and
\* a receipt of what it holds.
LEMMA PageUnderway ==
  ASSUME SystemTypes, Drainers, NEW c \in Client, PageMove(c), NEW q, Underway(q)'
  PROVE  \/ Underway(q)
         \/ Polls(c) /\ q = NewPoll(c)
         \/ Announces(c) /\ \E p \in Presence : q = NewReport(c, p)
         \/ \E d \in Delivered : q = [kind |-> "ack", receipt |-> ReceiptOf(c, d)]
         \/ GivesBack(c) /\ q = [kind |-> "release", receipt |-> ReceiptOf(c, copy'[c])]
<1>1. CASE q \in strays'
  <2>1. CASE strays' \subseteq strays
    BY <1>1, <2>1 DEF Underway
  <2>2. CASE Leaves(c)
    BY <1>1, <2>2 DEF Leaves, Underway
  <2>3. CASE Announces(c)
    BY <1>1, <2>3 DEF Announces, Underway
  <2>4. QED
    BY <2>1, <2>2, <2>3 DEF PageMove, Ends, Polls, Finishes, Repeats, Takes, GivesBack,
       Confirms, Clears
<1>2. ASSUME NEW d \in Client, Waits(d)', call'[d].request = q
      PROVE  \/ Underway(q)
             \/ Polls(c) /\ q = NewPoll(c)
             \/ \E e \in Delivered : q = [kind |-> "ack", receipt |-> ReceiptOf(c, e)]
             \/ GivesBack(c) /\ q = [kind |-> "release", receipt |-> ReceiptOf(c, copy'[c])]
  <2>1. CASE d # c
    BY <1>2, <2>1 DEF PageMove, Only, Same, Underway, Waits
  <2>2. CASE d = c /\ call'[c] = call[c]
    BY <1>2, <2>2 DEF Underway, Waits
  <2>3. CASE d = c /\ Polls(c)
    BY <1>2, <2>3, AskFacts DEF Polls
  <2>4. CASE d = c /\ (Repeats(c) \/ Confirms(c))
    <3>1. copy'[c] \in Delivered /\ call'[c] = Back(c, "ack", copy'[c])
      BY <2>4, NewCall DEF Repeats, Confirms
    <3>2. QED
      BY <1>2, <2>4, <3>1, AskFacts DEF Back
  <2>5. CASE d = c /\ GivesBack(c)
    BY <1>2, <2>5, AskFacts DEF GivesBack, Back
  <2>6. QED
    BY <1>2, <2>1, <2>2, <2>3, <2>4, <2>5 DEF PageMove, Announces, Ends, Takes, Clears, Waits
<1>3. QED
  BY <1>1, <1>2 DEF Underway

\* What a page move says of a page, and of which page.
LEMMA PageSaid ==
  ASSUME SystemTypes, Drainers, NEW c \in Client, PageMove(c),
         NEW e \in Client, NEW n \in 1..MaxSequence, NEW open \in BOOLEAN,
         Said(e, n, open)'
  PROVE  \/ Said(e, n, open)
         \/ /\ e = c /\ n = page[c].sequence + 1
            /\ Announces(c) \/ (Polls(c) /\ open = page[c].presence.open)
<1>1. CASE /\ e \in DOMAIN clients' /\ clients'[e].sequence = n
           /\ clients'[e].presence.open = open
  BY <1>1 DEF PageMove, vars, Said
<1>2. ASSUME NEW q \in PollRequest, Underway(q)', q.client = e, q.sequence = n,
             q.presence.open = open
      PROVE  \/ Said(e, n, open)
             \/ /\ e = c /\ n = page[c].sequence + 1
                /\ Announces(c) \/ (Polls(c) /\ open = page[c].presence.open)
  <2>1. CASE Underway(q)
    BY <1>2, <2>1 DEF Said
  <2>2. CASE Polls(c) /\ q = NewPoll(c)
    BY <1>2, <2>2 DEF NewPoll
  <2>3. CASE Announces(c) /\ \E p \in Presence : q = NewReport(c, p)
    BY <1>2, <2>3 DEF NewReport
  <2>4. CASE \/ \E d \in Delivered : q = [kind |-> "ack", receipt |-> ReceiptOf(c, d)]
             \/ q = [kind |-> "release", receipt |-> ReceiptOf(c, copy'[c])]
    BY <1>2, <2>4 DEF PollRequest
  <2>5. QED
    BY <1>2, <2>1, <2>2, <2>3, <2>4, PageUnderway
<1>3. QED
  BY <1>1, <1>2 DEF Said

LEMMA PageNumbers ==
  ASSUME Base, \A e \in Client : Numbers(e), NEW c \in Client, PageMove(c),
         NEW e \in Client
  PROVE  Numbers(e)'
<1> USE DEF Base
<1>1. ASSUME page'[e].presence = page[e].presence, page'[e].sequence = page[e].sequence,
             page'[e].closedAt = page[e].closedAt,
             e # c \/ ~(Polls(c) \/ Announces(c))
      PROVE  Numbers(e)'
  <2>1. \A n \in 1..MaxSequence, open \in BOOLEAN : Said(e, n, open)' => Said(e, n, open)
    BY <1>1, PageSaid
  <2>2. QED
    BY <1>1, <2>1, NumbersFewer
<1>2. CASE e # c
  BY <1>1, <1>2 DEF PageMove, Only, Same
<1>3. CASE e = c /\ Polls(c)
  <2>1. page[c] \in PageState /\ page[c].presence \in Presence
    BY DEF SystemTypes, PageState
  <2>2. /\ page[c].sequence + 1 <= MaxSequence
        /\ page'[c].presence = page[c].presence /\ page'[c].sequence = page[c].sequence + 1
        /\ page'[c].closedAt = page[c].closedAt
    BY <1>3, <2>1 DEF Polls, PageState
  <2>3. ~Announces(c)
    BY <1>3 DEF Polls, Announces
  <2>4. \A n \in 1..MaxSequence, open \in BOOLEAN :
          Said(c, n, open)' => Said(c, n, open)
            \/ (n = page[c].sequence + 1 /\ open = page[c].presence.open)
    BY <2>3, PageSaid
  <2>5. QED
    BY <1>3, <2>1, <2>2, <2>4, NumbersMore
<1>4. CASE e = c /\ Announces(c)
  <2>1. PICK p \in Presence :
          /\ page[c].sequence + 1 <= MaxSequence
          /\ page'[c] = [page[c] EXCEPT !.presence = p, !.sequence = page[c].sequence + 1,
                           !.closedAt = IF p.open THEN @ ELSE page[c].sequence + 1]
          /\ strays' \subseteq strays \cup {NewReport(c, p)}
    BY <1>4 DEF Announces
  <2>2. page[c] \in PageState
    BY DEF SystemTypes
  <2>3. /\ page'[c].presence = p /\ page'[c].sequence = page[c].sequence + 1
        /\ page'[c].closedAt = IF p.open THEN page[c].closedAt ELSE page[c].sequence + 1
    BY <2>1, <2>2 DEF PageState
  <2>4. ASSUME NEW n \in 1..MaxSequence, NEW open \in BOOLEAN, Said(c, n, open)'
        PROVE  Said(c, n, open) \/ (n = page[c].sequence + 1 /\ open = p.open)
    <3>1. CASE /\ c \in DOMAIN clients' /\ clients'[c].sequence = n
               /\ clients'[c].presence.open = open
      BY <3>1 DEF PageMove, vars, Said
    <3>2. ASSUME NEW q \in PollRequest, Underway(q)', q.client = c, q.sequence = n,
                 q.presence.open = open
          PROVE  Said(c, n, open) \/ (n = page[c].sequence + 1 /\ open = p.open)
      <4>1. CASE Underway(q)
        BY <3>2, <4>1 DEF Said
      <4>2. CASE q = NewReport(c, p)
        BY <3>2, <4>2 DEF NewReport
      <4>3. Underway(q) \/ q = NewReport(c, p)
        <5>1. CASE q \in strays'
          BY <2>1, <5>1 DEF Underway
        <5>2. ASSUME NEW d \in Client, Waits(d)', call'[d].request = q
              PROVE  Underway(q)
          <6>1. call'[d] = call[d]
            BY <1>4 DEF Announces, PageMove, Only, Same
          <6>2. QED
            BY <5>2, <6>1 DEF Underway, Waits
        <5>3. QED
          BY <3>2, <5>1, <5>2 DEF Underway
      <4>4. QED
        BY <4>1, <4>2, <4>3
    <3>3. QED
      BY <2>4, <3>1, <3>2 DEF Said
  <2>5. QED
    BY <1>4, <2>1, <2>3, <2>4, NumbersMore
<1>5. CASE e = c /\ ~(Polls(c) \/ Announces(c))
  <2>1. page[c] \in PageState
    BY DEF SystemTypes
  <2>2. /\ page'[c].presence = page[c].presence /\ page'[c].sequence = page[c].sequence
        /\ page'[c].closedAt = page[c].closedAt
    BY <1>5, <2>1 DEF PageMove, Ends, Repeats, Takes, GivesBack, Confirms, Clears, PageState
  <2>3. QED
    BY <1>1, <1>5, <2>2
<1>6. QED
  BY <1>2, <1>3, <1>4, <1>5

LEMMA PageLate ==
  ASSUME Base, \A e \in Client : Numbers(e) /\ Late(e), NEW c \in Client, PageMove(c),
         NEW e \in Client
  PROVE  Late(e)'
<1>1. clients' = clients
  BY DEF PageMove, vars
<1>2. CASE step'[e] = step[e] /\ call'[e] = call[e]
  BY <1>1, <1>2 DEF Late, Waits
<1>3. CASE e = c /\ Polls(c)
  <2>1. call'[c].request.sequence = page[c].sequence + 1
    BY <1>3, AskFacts DEF Polls, NewPoll
  <2>2. ASSUME c \in DOMAIN clients PROVE clients[c].sequence < page[c].sequence + 1
    <3>1. /\ clients[c].sequence \in 1..MaxSequence /\ clients[c].presence.open \in BOOLEAN
          /\ Said(c, clients[c].sequence, clients[c].presence.open)
          /\ clients[c].sequence \in Nat
      BY <2>2, Numbering DEF Base
    <3>2. clients[c].sequence <= page[c].sequence
      BY <3>1 DEF Numbers
    <3>3. page[c].sequence \in Nat
      BY BrokerAssumption DEF Base, SystemTypes, PageState
    <3>4. QED
      BY <3>1, <3>2, <3>3
  <2>3. ASSUME c \in DOMAIN clients PROVE ~(clients[c].sequence >= page[c].sequence + 1)
    <3>1. clients[c].sequence \in Nat /\ page[c].sequence \in Nat
      BY <2>3, Numbering, BrokerAssumption DEF Base, SystemTypes, PageState
    <3>2. QED
      BY <2>2, <2>3, <3>1
  <2>4. QED
    BY <1>1, <1>3, <2>1, <2>3 DEF Late
<1>4. CASE e = c /\ step'[c] # "polling"
  BY <1>4 DEF Late
<1>5. CASE e # c
  BY <1>2, <1>5 DEF PageMove, Only, Same
<1>6. QED
  BY <1>2, <1>3, <1>4, <1>5 DEF PageMove, Announces, Ends, Repeats, Takes, GivesBack,
     Confirms, Clears

LEMMA PageApart ==
  ASSUME Base, \A e \in Client : Apart(e), NEW c \in Client, PageMove(c), NEW e \in Client
  PROVE  Apart(e)'
<1>1. CASE e # c
  <2>1. Same(e)
    BY <1>1 DEF PageMove, Only
  <2>2. QED
    BY <2>1, SameHas DEF Apart, Same
<1>2. CASE e = c
  <2>1. Apart(c) /\ Claimed(c)' \subseteq Claimed(c) /\ Drainer(c)
    BY PageHas DEF Base, Drainers
  <2>2. CASE Ends(c) \/ Polls(c)
    <3>1. Claimed(c)' = {} /\ step'[c] \in {"idle", "polling"}
      BY <2>2, AskFacts DEF Ends, Polls, Claimed, Waits
    <3>2. QED
      BY <1>2, <3>1 DEF Apart
  <2>3. ASSUME unacked'[c] \subseteq unacked[c],
               step'[c] \in {"showing", "acking", "releasing"} =>
                 \/ copy'[c] \in Claimed(c)
                 \/ step[c] \in {"showing", "acking", "releasing"} /\ copy'[c] = copy[c]
        PROVE  Apart(c)'
    BY <2>1, <2>3 DEF Apart
  <2>4. CASE Announces(c) \/ Clears(c)
    BY <1>2, <2>3, <2>4 DEF Announces, Clears
  <2>5. CASE Repeats(c)
    BY <1>2, <2>3, <2>5 DEF Repeats
  <2>6. CASE Takes(c) \/ GivesBack(c) \/ Confirms(c)
    BY <1>2, <2>3, <2>6 DEF Takes, GivesBack, Confirms
  <2>7. QED
    BY <2>2, <2>4, <2>5, <2>6 DEF PageMove
<1>3. QED
  BY <1>1, <1>2

LEMMA PageReleased ==
  ASSUME Base, Released, \A e \in Client : Apart(e), NEW c \in Client, PageMove(c)
  PROVE  Released'
<1>1. \A e \in Client : Held(e)' \subseteq Held(e)
  BY PageHas, SameHas DEF PageMove, Only, Base
<1>2. ASSUME NEW q \in ReceiptRequest, Underway(q)', q.kind = "release",
             NEW d \in Held(q.receipt.client)'
      PROVE  d.token # q.receipt.token
  <2>1. CASE Underway(q)
    <3>1. q.receipt.client \in Client
      BY DEF ReceiptRequest, Receipt
    <3>2. QED
      BY <1>1, <1>2, <2>1, <3>1 DEF Released
  <2>2. CASE GivesBack(c) /\ q = [kind |-> "release", receipt |-> ReceiptOf(c, copy'[c])]
    <3>1. q.receipt.client = c /\ q.receipt.token = copy'[c].token
      BY <2>2 DEF ReceiptOf
    <3>2. Claimed(c)' = {} /\ step'[c] = "releasing"
      BY <2>2, AskFacts DEF GivesBack, Back, Claimed
    <3>3. Held(c)' = unacked'[c]
      BY <3>2 DEF Held, Kept
    <3>4. Apart(c)'
      BY PageApart
    <3>5. d \in unacked'[c]
      BY <1>2, <3>1, <3>3
    <3>6. QED
      BY <3>1, <3>2, <3>4, <3>5 DEF Apart
  <2>3. CASE \/ Polls(c) /\ q = NewPoll(c)
             \/ \E p \in Presence : q = NewReport(c, p)
             \/ \E e \in Delivered : q = [kind |-> "ack", receipt |-> ReceiptOf(c, e)]
    BY <1>2, <2>3 DEF NewPoll, NewReport
  <2>4. QED
    BY <1>2, <2>1, <2>2, <2>3, PageUnderway DEF Base
<1>3. QED
  BY <1>2 DEF Released

LEMMA HeldTypes ==
  ASSUME SystemTypes, NEW c \in Client
  PROVE  Held(c) \subseteq Delivered /\ page[c].closedAt \in Nat
<1>1. /\ unacked[c] \subseteq Delivered /\ Claimed(c) \subseteq Delivered
      /\ copy[c] \in Delivered \cup {None} /\ page[c] \in PageState
  BY Records DEF SystemTypes, Claimed
<1>2. page[c].closedAt \in Nat
  BY <1>1, BrokerAssumption DEF PageState
<1>3. QED
  BY <1>1, <1>2 DEF Held, Kept, CopyOf

LEMMA BelievedFewer ==
  ASSUME SystemTypes, SystemTypes', NEW c \in Client, Held(c)' \subseteq Held(c),
         page[c].closedAt <= page'[c].closedAt
  PROVE  Believed(c)' \subseteq Believed(c)
<1> DEFINE NewHeld == Held(c)'
           NewBelieved == Believed(c)'
<1>1. /\ page[c].closedAt \in Nat /\ page'[c].closedAt \in Nat
      /\ Held(c) \subseteq Delivered
  <2>1. page'[c].closedAt \in Nat
    BY BrokerAssumption DEF SystemTypes, PageState
  <2>2. QED
    BY <2>1, HeldTypes
<1>2. /\ Believed(c) = {d \in Held(c) : d.left > 0 /\ d.poll > page[c].closedAt}
      /\ NewBelieved = {d \in NewHeld : d.left > 0 /\ d.poll > page'[c].closedAt}
  BY DEF Believed, Held, Kept, CopyOf, Claimed, Waits
<1>3. NewHeld \subseteq Held(c)
  OBVIOUS
<1>4. \A d \in Delivered : d.poll \in Nat
  BY BrokerAssumption DEF Delivered
<1> HIDE DEF NewHeld, NewBelieved
<1>5. ASSUME NEW d \in NewBelieved PROVE d \in Believed(c)
  <2>2. d \in Held(c) /\ d.left > 0 /\ d.poll > page'[c].closedAt /\ d.poll \in Nat
    BY <1>1, <1>2, <1>3, <1>4, <1>5
  <2>3. d.poll > page[c].closedAt
    BY <1>1, <2>2
  <2>4. QED
    BY <1>2, <2>2, <2>3
<1>6. QED
  BY <1>5 DEF NewBelieved

\* A page that moves believes to hold no more than it did.
LEMMA PageBelieves ==
  ASSUME Base, NEW c \in Client, Numbers(c), PageMove(c), NEW e \in Client
  PROVE  Believed(e)' \subseteq Believed(e)
<1>1. Held(e)' \subseteq Held(e) /\ SystemTypes /\ SystemTypes'
  BY PageHas, SameHas DEF PageMove, Only, Base
<1>2. page[e].closedAt <= page'[e].closedAt
  <2>1. page[e].closedAt \in Nat /\ page[e] \in PageState
    BY HeldTypes DEF Base, SystemTypes
  <2>2. CASE page'[e].closedAt = page[e].closedAt
    BY <2>1, <2>2
  <2>3. CASE e = c /\ Announces(c)
    <3>1. page[c].closedAt <= page[c].sequence /\ page[c].sequence \in Nat
      BY BrokerAssumption DEF Numbers, Base, SystemTypes, PageState
    <3>2. page'[c].closedAt \in {page[c].closedAt, page[c].sequence + 1}
      BY <2>1, <2>3 DEF Announces, PageState
    <3>3. QED
      BY <2>1, <2>3, <3>1, <3>2
  <2>4. CASE e # c
    BY <2>2, <2>4 DEF PageMove, Only, Same
  <2>5. CASE e = c /\ ~Announces(c)
    <3>1. page'[c].closedAt = page[c].closedAt
      BY <2>1, <2>5 DEF PageMove, Ends, Polls, Repeats, Takes, GivesBack, Confirms, Clears,
         PageState
    <3>2. QED
      BY <2>2, <2>5, <3>1
  <2>6. QED
    BY <2>3, <2>4, <2>5
<1>3. QED
  BY <1>1, <1>2, BelievedFewer

LEMMA PageScreen ==
  ASSUME Base, Screen, NEW c \in Client, PageMove(c)
  PROVE  Screen'
<1>1. \A e \in Client : Numbers(e) /\ Late(e) /\ Apart(e)
  BY DEF Screen
<1>2. \A e \in Client : Numbers(e)' /\ Late(e)' /\ Apart(e)'
  BY <1>1, PageNumbers, PageLate, PageApart
<1>3. Released'
  BY <1>1, PageReleased DEF Screen
<1>4. \A e \in Client : Believed(e)' \subseteq Believed(e)
  BY <1>1, PageBelieves
<1>5. ASSUME NEW e \in Client, NEW d \in Believed(e)' PROVE Lent(e, d)'
  <2>1. Lent(e, d)
    BY <1>4, <1>5 DEF Screen
  <2>2. clients' = clients /\ pending' = pending
    BY DEF PageMove, vars
  <2>3. QED
    BY <2>1, <2>2 DEF Lent
<1>6. OneHolder'
  <2>1. OneHolder
    BY DEF Screen
  <2>2. QED
    BY <1>4, <2>1 DEF OneHolder
<1>7. QED
  BY <1>2, <1>3, <1>5, <1>6 DEF Screen

-----------------------------------------------------------------------------
(* What the host does to clients and leases *)

\* A client stays as it is, or a report of it is accepted, as newer than what is
\* known of a client that has not expired.
Newer(q) ==
  q.client \in DOMAIN clients /\ clients[q.client].age <= CLIENT_TTL =>
    clients[q.client].sequence < q.sequence
SameClient(c) ==
  /\ c \in DOMAIN clients /\ clients'[c].presence = clients[c].presence
  /\ clients'[c].sequence = clients[c].sequence /\ clients'[c].age = clients[c].age
Heard(c, q) ==
  /\ q \in PollRequest /\ q.client = c /\ Newer(q)
  /\ clients'[c].presence = q.presence /\ clients'[c].sequence = q.sequence
  /\ clients'[c].age = 0

\* A lease stays as it is, or had run out, or ends by a closing or a release.
SameLease(j) == j \in DOMAIN pending /\ pending'[j].lease = pending[j].lease
Vacates(j, q) ==
  /\ q \in PollRequest /\ ~q.presence.open /\ Newer(q)
  /\ pending[j].lease # None /\ pending[j].lease.client = q.client
Returns(j, q) ==
  /\ q \in ReceiptRequest /\ q.kind = "release" /\ pending[j].lease # None
  /\ pending[j].lease.client = q.receipt.client /\ pending[j].lease.token = q.receipt.token
Frees(j, q) ==
  j \in DOMAIN pending /\ (Vacates(j, q) \/ Returns(j, q) \/ ~Leased(pending[j]))

HostStep ==
  /\ \A c \in DOMAIN clients' : SameClient(c) \/ \E q : Underway(q) /\ Heard(c, q)
  /\ \A j \in DOMAIN pending' :
       j \notin published \/ SameLease(j) \/ \E q : Underway(q) /\ Frees(j, q)
  /\ DOMAIN pending' = {} \/ \A c \in DOMAIN clients :
       clients[c].age <= CLIENT_TTL => c \in DOMAIN clients'

LEMMA PruneFacts ==
  ASSUME TypeOK
  PROVE  /\ DOMAIN PruneClients(clients) = {c \in DOMAIN clients : clients[c].age <= CLIENT_TTL}
         /\ \A c \in DOMAIN PruneClients(clients) : PruneClients(clients)[c] = clients[c]
         /\ GoodPending(pending) /\ GoodPending(PrunePending(pending))
         /\ DOMAIN PrunePending(pending) \subseteq DOMAIN pending
         /\ \A i \in DOMAIN PrunePending(pending) :
              PrunePending(pending)[i].lease = pending[i].lease
<1>1. GoodPending(pending)
  BY TypeOKIsGood
<1>2. /\ DOMAIN PruneClients(clients) = {c \in DOMAIN clients : clients[c].age <= CLIENT_TTL}
      /\ \A c \in DOMAIN PruneClients(clients) : PruneClients(clients)[c] = clients[c]
  BY DEF PruneClients, Keep
<1>3. QED
  BY <1>1, <1>2, PrunePendingGood

LEMMA WithoutLeases ==
  ASSUME NEW ps, GoodPending(ps), NEW gone
  PROVE  /\ GoodPending(Without(ps, gone)) /\ DOMAIN Without(ps, gone) \subseteq DOMAIN ps
         /\ \A j \in DOMAIN Without(ps, gone) : Without(ps, gone)[j].lease = ps[j].lease
<1> DEFINE rest == Without(ps, gone)
<1>1. /\ GoodPending(rest) /\ DOMAIN rest = DOMAIN ps \ gone
      /\ \A j \in DOMAIN ps \ gone : rest[j].lease = ps[j].lease
  BY WithoutGood
<1> HIDE DEF rest
<1>2. DOMAIN rest \subseteq DOMAIN ps /\ \A j \in DOMAIN rest : rest[j].lease = ps[j].lease
  BY <1>1
<1>3. QED
  BY <1>1, <1>2 DEF rest

LEMMA HearsOne ==
  ASSUME TypeOK, NEW q \in PollRequest,
         clients' = Reported(PruneClients(clients), q.client, q.sequence, q.presence)
  PROVE  /\ \A c \in DOMAIN clients' : SameClient(c) \/ Heard(c, q)
         /\ \A c \in DOMAIN clients : clients[c].age <= CLIENT_TTL => c \in DOMAIN clients'
         /\ Accepts(PruneClients(clients), q.client, q.sequence) => Newer(q)
         /\ q.client \in DOMAIN clients' => clients'[q.client].sequence >= q.sequence
<1> DEFINE known == PruneClients(clients)
           accepts == Accepts(known, q.client, q.sequence)
<1>1. /\ DOMAIN known = {c \in DOMAIN clients : clients[c].age <= CLIENT_TTL}
      /\ \A c \in DOMAIN known : known[c] = clients[c]
  BY PruneFacts
<1> HIDE DEF known
<1>2. q.client \in DOMAIN known =>
        q.sequence \in Nat /\ known[q.client].sequence \in Nat
  BY <1>1, Numbering, BrokerAssumption DEF PollRequest
<1>3. accepts => Newer(q)
  BY <1>1, <1>2 DEF Accepts, Newer
<1>4. CASE accepts
  <2>1. /\ DOMAIN clients' = DOMAIN known \cup {q.client}
        /\ \A c \in DOMAIN known \ {q.client} : clients'[c] = known[c]
        /\ clients'[q.client].presence = q.presence
        /\ clients'[q.client].sequence = q.sequence /\ clients'[q.client].age = 0
    BY <1>4 DEF Reported, known
  <2>2. Heard(q.client, q)
    BY <1>3, <1>4, <2>1 DEF Heard
  <2>3. \A c \in DOMAIN known \ {q.client} : SameClient(c)
    BY <1>1, <2>1 DEF SameClient
  <2>4. q.sequence \in Nat
    BY BrokerAssumption DEF PollRequest
  <2>5. clients'[q.client].sequence >= q.sequence
    BY <2>1, <2>4
  <2>6. QED
    BY <1>1, <1>3, <2>1, <2>2, <2>3, <2>5 DEF known
<1>5. CASE ~accepts
  <2>1. clients' = known
    BY <1>5 DEF Reported, known
  <2>2. \A c \in DOMAIN known : SameClient(c)
    BY <1>1, <2>1 DEF SameClient
  <2>3. q.client \in DOMAIN known => known[q.client].sequence >= q.sequence
    BY <1>2, <1>5 DEF Accepts
  <2>4. QED
    BY <1>1, <1>5, <2>1, <2>2, <2>3 DEF known
<1>6. QED
  BY <1>4, <1>5

LEMMA HearsNone ==
  ASSUME TypeOK, clients' = PruneClients(clients)
  PROVE  /\ \A c \in DOMAIN clients' : SameClient(c)
         /\ \A c \in DOMAIN clients : clients[c].age <= CLIENT_TTL => c \in DOMAIN clients'
<1> DEFINE known == PruneClients(clients)
<1>1. /\ DOMAIN known = {c \in DOMAIN clients : clients[c].age <= CLIENT_TTL}
      /\ \A c \in DOMAIN known : known[c] = clients[c]
  BY PruneFacts
<1> HIDE DEF known
<1>2. clients' = known
  BY DEF known
<1>3. QED
  BY <1>1, <1>2 DEF SameClient

\* A closing that is accepted frees the leases of its page.
LEMMA VacatedFrees ==
  ASSUME TypeOK, NEW q \in PollRequest,
         Accepts(PruneClients(clients), q.client, q.sequence) => Newer(q)
  PROVE  LET ps == Vacated(PruneClients(clients), PrunePending(pending),
                           q.client, q.sequence, q.presence)
         IN  /\ GoodPending(ps)
             /\ \A j \in DOMAIN ps :
                  /\ j \in DOMAIN pending
                  /\ ps[j].lease = pending[j].lease \/ (ps[j].lease = None /\ Vacates(j, q))
<1> DEFINE known == PruneClients(clients)
           pr == PrunePending(pending)
           ps == Vacated(known, pr, q.client, q.sequence, q.presence)
<1>1. /\ GoodPending(pr) /\ DOMAIN pr \subseteq DOMAIN pending
      /\ \A i \in DOMAIN pr : pr[i].lease = pending[i].lease
  BY PruneFacts
<1>2. GoodPending(ps) /\ DOMAIN ps \subseteq DOMAIN pr
  BY <1>1, VacatedGood
<1> HIDE DEF known, pr
<1>3. ASSUME NEW j \in DOMAIN ps
      PROVE  ps[j].lease = pr[j].lease \/ (ps[j].lease = None /\ Vacates(j, q))
  <2>1. j \in DOMAIN pr /\ pr[j] \in Alert
    BY <1>1, <1>2, <1>3 DEF GoodPending
  <2>2. CASE ps = pr
    BY <2>2
  <2>3. CASE ps = NoMap
    BY <1>3, <2>3 DEF NoMap
  <2>4. ASSUME ~q.presence.open, Accepts(known, q.client, q.sequence),
               ps = [i \in DOMAIN pr |->
                       IF pr[i].lease # None /\ pr[i].lease.client = q.client
                       THEN [pr[i] EXCEPT !.lease = None] ELSE pr[i]]
        PROVE  ps[j].lease = pr[j].lease \/ (ps[j].lease = None /\ Vacates(j, q))
    <3>1. CASE pr[j].lease # None /\ pr[j].lease.client = q.client
      <4>1. ps[j].lease = None
        BY <2>1, <2>4, <3>1 DEF Alert
      <4>2. Vacates(j, q)
        BY <1>1, <2>1, <2>4, <3>1 DEF Vacates, known
      <4>3. QED
        BY <4>1, <4>2
    <3>2. CASE ~(pr[j].lease # None /\ pr[j].lease.client = q.client)
      BY <2>1, <2>4, <3>2
    <3>3. QED
      BY <3>1, <3>2
  <2>5. QED
    BY <2>2, <2>3, <2>4 DEF Vacated
<1>4. QED
  BY <1>1, <1>2, <1>3 DEF known, pr

\* A poll is answered with an alert only if its sender is known to be open, by
\* a report at least as new.
Answerable(q) ==
  /\ q \in PollRequest /\ q.client \in DOMAIN clients'
  /\ clients'[q.client].presence.open /\ clients'[q.client].sequence >= q.sequence

LEMMA PollHost ==
  ASSUME TypeOK, NEW q \in PollRequest, Underway(q), Poll(q.client, q.sequence, q.presence)
  PROVE  HostStep /\ (issued' = issued \/ Answerable(q))
<1> DEFINE known == PruneClients(clients)
           cs == Reported(known, q.client, q.sequence, q.presence)
           ps == Vacated(known, PrunePending(pending), q.client, q.sequence, q.presence)
           rest == Without(ps, Dropped(cs, ps))
<1>1. clients' = cs
  BY DEF Poll
<1>2. /\ \A c \in DOMAIN clients' : SameClient(c) \/ Heard(c, q)
      /\ \A c \in DOMAIN clients : clients[c].age <= CLIENT_TTL => c \in DOMAIN clients'
      /\ Accepts(known, q.client, q.sequence) => Newer(q)
      /\ q.client \in DOMAIN clients' => clients'[q.client].sequence >= q.sequence
  BY <1>1, HearsOne
<1>3. /\ GoodPending(ps)
      /\ \A j \in DOMAIN ps :
           /\ j \in DOMAIN pending
           /\ ps[j].lease = pending[j].lease \/ (ps[j].lease = None /\ Vacates(j, q))
  BY <1>2, VacatedFrees
<1>4. /\ GoodPending(rest) /\ DOMAIN rest \subseteq DOMAIN ps
      /\ \A j \in DOMAIN rest : rest[j].lease = ps[j].lease
  <2> HIDE DEF ps, cs
  <2>1. QED
    BY <1>3, WithoutLeases
<1>5. MayClaim(cs, q.client) => Answerable(q)
  BY <1>1, <1>2 DEF MayClaim, Ready, LiveClients, Answerable
<1>6. CASE pending' \in {ps, rest} /\ issued' = issued
  <2>1. ASSUME NEW j \in DOMAIN pending' PROVE SameLease(j) \/ Frees(j, q)
    <3> HIDE DEF ps, rest
    <3>1. j \in DOMAIN ps /\ pending'[j].lease = ps[j].lease
      BY <1>4, <1>6, <2>1
    <3>2. QED
      BY <1>3, <3>1 DEF SameLease, Frees
  <2>2. QED
    BY <1>2, <1>6, <2>1 DEF HostStep
<1>7. ASSUME MayClaim(cs, q.client), NEW i \in NextAlert(cs, ps), NEW t \in FreshTokens,
             pending' = [rest EXCEPT ![i].lease =
                           [client |-> q.client, token |-> t, left |-> LEASE_TTL]]
      PROVE  HostStep /\ Answerable(q)
  <2> DEFINE l == [client |-> q.client, token |-> t, left |-> LEASE_TTL]
             result == [rest EXCEPT ![i].lease = l]
  <2>1. i \in DOMAIN ps /\ ~Leased(ps[i]) /\ i \notin Dropped(cs, ps)
    BY DEF NextAlert, Free, Dropped
  <2>2. i \in DOMAIN rest
    <3> HIDE DEF ps, cs
    <3>1. DOMAIN rest = DOMAIN ps \ Dropped(cs, ps)
      BY <1>3, WithoutGood
    <3>2. QED
      BY <2>1, <3>1
  <2>3. pending' = result
    BY <1>7
  <2>4. DOMAIN result = DOMAIN rest /\ \A j \in DOMAIN rest \ {i} : result[j] = rest[j]
    <3> HIDE DEF rest, l
    <3>1. QED
      BY <1>4, <2>2, ExceptGood
  <2>5. ASSUME NEW j \in DOMAIN pending' PROVE SameLease(j) \/ Frees(j, q)
    <3> HIDE DEF ps, rest, result
    <3>1. CASE j # i
      <4>1. j \in DOMAIN ps /\ pending'[j].lease = ps[j].lease
        BY <1>4, <2>3, <2>4, <2>5, <3>1
      <4>2. QED
        BY <1>3, <4>1 DEF SameLease, Frees
    <3>2. CASE j = i
      <4>1. ~Leased(pending[i]) \/ Vacates(i, q)
        BY <1>3, <2>1 DEF Leased
      <4>2. QED
        BY <1>3, <2>1, <3>2, <4>1 DEF Frees
    <3>3. QED
      BY <3>1, <3>2
  <2>6. QED
    BY <1>2, <1>5, <1>7, <2>5 DEF HostStep
<1>8. QED
  BY <1>6, <1>7 DEF Poll

LEMMA ServeHost ==
  ASSUME TypeOK, NEW q \in PollRequest \cup ReceiptRequest, Underway(q), Serve(q)
  PROVE  HostStep /\ (issued' = issued \/ Answerable(q))
<1>1. CASE q.kind = "report"
  <2>1. q \in PollRequest /\ Report(q.client, q.sequence, q.presence)
    BY <1>1 DEF Serve, ReceiptRequest
  <2> DEFINE ps == Vacated(PruneClients(clients), PrunePending(pending),
                           q.client, q.sequence, q.presence)
  <2>2. /\ \A c \in DOMAIN clients' : SameClient(c) \/ Heard(c, q)
        /\ \A c \in DOMAIN clients : clients[c].age <= CLIENT_TTL => c \in DOMAIN clients'
        /\ Accepts(PruneClients(clients), q.client, q.sequence) => Newer(q)
    BY <2>1, HearsOne DEF Report
  <2>3. \A j \in DOMAIN ps :
          /\ j \in DOMAIN pending
          /\ ps[j].lease = pending[j].lease \/ (ps[j].lease = None /\ Vacates(j, q))
    BY <2>1, <2>2, VacatedFrees
  <2>4. pending' = ps /\ issued' = issued
    BY <2>1 DEF Report
  <2>5. \A j \in DOMAIN pending' : SameLease(j) \/ Frees(j, q)
    <3> HIDE DEF ps
    <3>1. QED
      BY <2>3, <2>4 DEF SameLease, Frees
  <2>6. QED
    BY <2>2, <2>4, <2>5 DEF HostStep
<1>2. CASE q.kind = "poll"
  <2>1. q \in PollRequest /\ Poll(q.client, q.sequence, q.presence)
    BY <1>2 DEF Serve, ReceiptRequest
  <2>2. QED
    BY <2>1, PollHost
<1>3. CASE q.kind = "ack"
  <2>1. Ack(q.receipt)
    BY <1>3 DEF Serve
  <2>2. clients' = PruneClients(clients) /\ issued' = issued
        /\ pending' \in {PrunePending(pending), Without(PrunePending(pending), {q.receipt.id})}
    BY <2>1 DEF Ack
  <2>3. \A j \in DOMAIN pending' : SameLease(j)
    <3> DEFINE pr == PrunePending(pending)
    <3>1. /\ GoodPending(pr) /\ DOMAIN pr \subseteq DOMAIN pending
          /\ \A i \in DOMAIN pr : pr[i].lease = pending[i].lease
      BY PruneFacts
    <3> HIDE DEF pr
    <3>2. pending' \in {pr, Without(pr, {q.receipt.id})}
      BY <2>2 DEF pr
    <3>3. QED
      BY <3>1, <3>2, WithoutLeases DEF SameLease
  <2>4. QED
    BY <2>2, <2>3, HearsNone DEF HostStep
<1>4. CASE q.kind = "release"
  <2>1. q \in ReceiptRequest
    BY <1>4 DEF PollRequest
  <2>2. CASE Release(q.receipt)
    <3>1. Match(pending, q.receipt)
          /\ pending' = [pending EXCEPT ![q.receipt.id].lease = None]
          /\ issued' = issued
          /\ clients' \in {clients, [clients EXCEPT ![q.receipt.client].backoff = LEASE_TTL]}
      BY <2>2 DEF Release
    <3>2. \A c \in DOMAIN clients' : SameClient(c)
      <4>1. \A c \in DOMAIN clients : clients[c] \in ClientState
        BY DEF TypeOK
      <4>2. QED
        BY <3>1, <4>1 DEF SameClient, ClientState
    <3>3. DOMAIN clients' = DOMAIN clients
      BY <3>1
    <3>4. ASSUME NEW j \in DOMAIN pending' PROVE SameLease(j) \/ Frees(j, q)
      <4>1. j \in DOMAIN pending
        BY <3>1, <3>4
      <4>2. CASE j # q.receipt.id
        BY <3>1, <4>1, <4>2 DEF SameLease
      <4>3. CASE j = q.receipt.id
        BY <1>4, <2>1, <3>1, <4>1, <4>3 DEF Frees, Returns, Match, Leased
      <4>4. QED
        BY <4>2, <4>3
    <3>5. QED
      BY <3>1, <3>2, <3>3, <3>4 DEF HostStep
  <2>3. CASE UNCHANGED vars
    BY <2>3 DEF vars, HostStep, SameClient, SameLease
  <2>4. QED
    BY <1>4, <2>2, <2>3 DEF Serve
<1>5. QED
  BY <1>1, <1>2, <1>3, <1>4 DEF PollRequest, ReceiptRequest

LEMMA AloneHost ==
  ASSUME TypeOK, Alone
  PROVE  HostStep
<1> DEFINE pr == PrunePending(pending)
<1>1. /\ GoodPending(pr) /\ DOMAIN pr \subseteq DOMAIN pending
      /\ \A i \in DOMAIN pr : pr[i].lease = pending[i].lease
      /\ GoodPending(pending)
  BY PruneFacts
<1>2. ASSUME NEW i \in Id, NEW e \in Event, Publish(i, e) PROVE HostStep
  <2> DEFINE qs == Inserted(pr, i, e)
  <2>1. clients' = PruneClients(clients) /\ i \notin published
        /\ pending' \in {pr, qs, Without(qs, Oldest(qs))}
    BY <1>2 DEF Publish
  <2> HIDE DEF pr
  <2>2. /\ GoodPending(qs) /\ DOMAIN qs = DOMAIN pr \cup {i}
        /\ \A j \in DOMAIN pr \ {i} : qs[j] = pr[j]
    BY <1>1, BrokerAssumption DEF Inserted, GoodPending, Alert
  <2> HIDE DEF qs
  <2>3. \A j \in DOMAIN pending' : j \notin published \/ SameLease(j)
    <3>1. TAKE j \in DOMAIN pending'
    <3>2. CASE j = i
      BY <2>1, <3>2
    <3>3. CASE j # i
      <4>1. j \in DOMAIN pr /\ pending'[j].lease = pr[j].lease
        BY <2>1, <2>2, <3>3, WithoutLeases
      <4>2. QED
        BY <1>1, <4>1 DEF SameLease
    <3>4. QED
      BY <3>2, <3>3
  <2>4. QED
    BY <2>1, <2>3, HearsNone DEF HostStep
<1>3. ASSUME NEW i \in Id, Retract(i) PROVE HostStep
  <2>1. clients' = clients /\ pending' = Without(pending, {i})
    BY <1>3 DEF Retract
  <2>2. \A j \in DOMAIN pending' : SameLease(j)
    BY <1>1, <2>1, WithoutLeases DEF SameLease
  <2>3. QED
    BY <2>1, <2>2 DEF HostStep, SameClient
<1>4. CASE Query
  <2>1. clients' = PruneClients(clients) /\ pending' = pr
    BY <1>4 DEF Query
  <2>2. \A j \in DOMAIN pending' : SameLease(j)
    <3> HIDE DEF pr
    <3>1. QED
      BY <1>1, <2>1 DEF SameLease
  <2>3. QED
    BY <2>1, <2>2, HearsNone DEF HostStep
<1>5. CASE Dispose
  BY <1>5, NoMapGood DEF Dispose, HostStep
<1>6. ASSUME NEW c \in Config, SetConfig(c) PROVE HostStep
  BY <1>6 DEF SetConfig, HostStep, SameClient, SameLease
<1>7. QED
  BY <1>2, <1>3, <1>4, <1>5, <1>6 DEF Alone

-----------------------------------------------------------------------------
(* The screens while the host works and time goes on *)

LEMMA HostNumbers ==
  ASSUME HostStep, page' = page, strays' \subseteq strays,
         \A e \in Client : Waits(e)' => Waits(e) /\ call'[e].request = call[e].request,
         NEW c \in Client, Numbers(c)
  PROVE  Numbers(c)'
<1>1. ASSUME NEW q, Underway(q)' PROVE Underway(q)
  BY <1>1 DEF Underway
<1>2. ASSUME NEW n \in 1..MaxSequence, NEW open \in BOOLEAN, Said(c, n, open)'
      PROVE  Said(c, n, open)
  <2>1. CASE /\ c \in DOMAIN clients' /\ clients'[c].sequence = n
             /\ clients'[c].presence.open = open
    <3>1. CASE SameClient(c)
      BY <2>1, <3>1 DEF SameClient, Said
    <3>2. ASSUME NEW q, Underway(q), Heard(c, q) PROVE Said(c, n, open)
      BY <2>1, <3>2 DEF Heard, Said
    <3>3. QED
      BY <2>1, <3>1, <3>2 DEF HostStep
  <2>2. CASE \E q \in PollRequest :
               Underway(q)' /\ q.client = c /\ q.sequence = n /\ q.presence.open = open
    BY <1>1, <2>2 DEF Said
  <2>3. QED
    BY <1>2, <2>1, <2>2 DEF Said
<1>3. QED
  BY <1>2, NumbersFewer

LEMMA HostLate ==
  ASSUME SystemTypes, HostStep, NEW c \in Client, Late(c), step'[c] = step[c],
         call'[c] = call[c] \/ (Waits(c)' => call'[c].answered)
  PROVE  Late(c)'
<1>1. CASE Waits(c)' => call'[c].answered
  BY <1>1 DEF Late
<1>2. CASE call'[c] = call[c] /\ SameClient(c)
  BY <1>2 DEF Late, SameClient, Waits
<1>3. ASSUME NEW q, Heard(c, q), call'[c] = call[c] PROVE Late(c)'
  <2>1. Waits(c) => call[c].waited \in Nat
    <3>1. Waits(c) => call[c] \in Call
      BY Records
    <3>2. QED
      BY <3>1, SystemAssumption DEF Call
  <2>2. clients'[c].age = 0
    BY <1>3 DEF Heard
  <2>3. Waits(c) => 0 <= call[c].waited
    BY <2>1
  <2>4. QED
    BY <1>3, <2>2, <2>3 DEF Late, Waits
<1>4. CASE c \notin DOMAIN clients'
  BY <1>4 DEF Late
<1>5. QED
  BY <1>1, <1>2, <1>3, <1>4 DEF HostStep

\* A poll or report that is accepted of a page that holds an alert does not
\* close it: every closing since the claim is newer than what was known.
LEMMA StaysOpen ==
  ASSUME Base, NEW c \in Client, Numbers(c), NEW d \in Believed(c), Lent(c, d),
         d.id \in DOMAIN pending, NEW q \in PollRequest, Underway(q), q.client = c, Newer(q)
  PROVE  q.presence.open /\ q.sequence >= d.poll
<1>1. /\ c \in DOMAIN clients /\ clients[c].presence.open /\ clients[c].sequence >= d.poll
      /\ clients[c].age + d.left <= CLIENT_TTL + 1
  BY DEF Lent
<1>2. /\ d.left \in Nat /\ d.left > 0 /\ d.poll \in Nat /\ d.poll > page[c].closedAt
      /\ page[c].closedAt \in Nat
  <2>1. d \in Held(c) /\ d.left > 0 /\ d.poll > page[c].closedAt
    BY BelievedIsHeld
  <2>2. d \in Delivered /\ page[c].closedAt \in Nat
    BY <2>1, HeldTypes DEF Base
  <2>3. d.left \in Nat /\ d.poll \in Nat
    BY <2>2, BrokerAssumption DEF Delivered
  <2>4. QED
    BY <2>1, <2>2, <2>3
<1>3. /\ clients[c].sequence \in 1..MaxSequence /\ clients[c].sequence \in Nat
      /\ clients[c].age \in Nat /\ Said(c, clients[c].sequence, clients[c].presence.open)
  BY <1>1, Numbering DEF Base
<1>4. q.sequence \in 1..MaxSequence /\ q.sequence \in Nat /\ q.presence.open \in BOOLEAN
  <2>1. q.sequence \in 1..MaxSequence /\ q.presence \in Presence
    BY DEF PollRequest
  <2>2. QED
    BY <2>1, BrokerAssumption
<1>5. clients[c].age <= CLIENT_TTL
  BY <1>1, <1>2, <1>3, BrokerAssumption
<1>6. clients[c].sequence < q.sequence
  BY <1>1, <1>5 DEF Newer
<1>7. ASSUME ~q.presence.open PROVE FALSE
  <2>1. Said(c, q.sequence, FALSE)
    BY <1>4, <1>7 DEF Said
  <2>2. Said(c, clients[c].sequence, TRUE)
    BY <1>1, <1>3
  <2>3. clients[c].sequence > page[c].closedAt
    BY <1>1, <1>2, <1>3
  <2>4. q.sequence < clients[c].sequence
    BY <1>3, <1>4, <2>1, <2>2, <2>3 DEF Numbers
  <2>5. QED
    BY <1>3, <1>4, <1>6, <2>4
<1>8. q.sequence >= d.poll
  BY <1>1, <1>2, <1>3, <1>4, <1>6
<1>9. QED
  BY <1>4, <1>7, <1>8

LEMMA HostLent ==
  ASSUME Base, Released, HostStep, NEW c \in Client, Numbers(c),
         NEW d \in Believed(c), Lent(c, d)
  PROVE  Lent(c, d)'
<1> SUFFICES ASSUME d.id \in DOMAIN pending' PROVE Lent(c, d)'
  BY DEF Lent
<1>1. d \in Held(c) /\ d \in Delivered /\ d.left \in Nat /\ d.left > 0
  <2>1. d \in Held(c) /\ d.left > 0
    BY BelievedIsHeld
  <2>2. d \in Delivered
    BY <2>1, HeldTypes DEF Base
  <2>3. d.left \in Nat
    BY <2>2, BrokerAssumption DEF Delivered
  <2>4. QED
    BY <2>1, <2>2, <2>3
<1>2. d.id \in published
  <2>1. d \in unacked[c] \cup CopyOf(c) \cup Claimed(c)
    BY <1>1 DEF Held, Kept
  <2>2. ReceiptOf(c, d) \in issued
    BY <2>1 DEF Base, Receipts, Issued
  <2>3. ReceiptOf(c, d).id = d.id
    BY DEF ReceiptOf
  <2>4. QED
    BY <2>2, <2>3 DEF Base, Receipts
<1>3. SameLease(d.id) \/ \E q : Underway(q) /\ Frees(d.id, q)
  BY <1>2 DEF HostStep
<1>4. d.id \in DOMAIN pending
  BY <1>3 DEF SameLease, Frees
<1>5. /\ pending[d.id].lease # None
      /\ pending[d.id].lease.client = c /\ pending[d.id].lease.token = d.token
      /\ d.left <= pending[d.id].lease.left
      /\ c \in DOMAIN clients /\ clients[c].presence.open
      /\ clients[c].sequence >= d.poll /\ clients[c].age + d.left <= CLIENT_TTL + 1
  BY <1>4 DEF Lent
<1>6. Leased(pending[d.id])
  <2>1. pending[d.id] \in Alert
    BY <1>4 DEF Base, TypeOK
  <2>2. pending[d.id].lease.left \in Nat
    BY <1>5, <2>1, BrokerAssumption DEF Alert, Lease
  <2>3. QED
    BY <1>1, <1>5, <2>2 DEF Leased
<1>7. ASSUME NEW q, Underway(q), Frees(d.id, q) PROVE FALSE
  <2>1. CASE Vacates(d.id, q)
    BY <1>4, <1>5, <1>7, <2>1, StaysOpen DEF Vacates
  <2>2. CASE Returns(d.id, q)
    <3>1. q.receipt.client = c /\ q.receipt.token = d.token
      BY <1>5, <2>2 DEF Returns
    <3>2. q \in ReceiptRequest /\ q.kind = "release"
      BY <2>2 DEF Returns
    <3>3. QED
      BY <1>1, <1>7, <3>1, <3>2 DEF Released
  <2>3. QED
    BY <1>6, <1>7, <2>1, <2>2 DEF Frees
<1>8. SameLease(d.id)
  BY <1>3, <1>7
<1>9. c \in DOMAIN clients'
  <2>1. clients[c].age \in Nat
    BY <1>5, Numbering DEF Base
  <2>2. clients[c].age <= CLIENT_TTL
    BY <1>1, <1>5, <2>1, BrokerAssumption
  <2>3. QED
    BY <1>5, <2>2 DEF HostStep
<1>10. CASE SameClient(c)
  BY <1>5, <1>8, <1>9, <1>10 DEF Lent, SameLease, SameClient
<1>11. ASSUME NEW q, Underway(q), Heard(c, q) PROVE Lent(c, d)'
  <2>1. q.presence.open /\ q.sequence >= d.poll
    BY <1>4, <1>11, StaysOpen DEF Heard
  <2>2. 0 + d.left <= CLIENT_TTL + 1
    <3>1. d.left \in 0..LEASE_TTL
      BY <1>1 DEF Delivered
    <3>2. QED
      BY <3>1, BrokerAssumption, SystemAssumption
  <2>3. QED
    BY <1>5, <1>8, <1>9, <1>11, <2>1, <2>2 DEF Lent, SameLease, Heard
<1>12. QED
  BY <1>9, <1>10, <1>11 DEF HostStep

LEMMA QuietScreen ==
  ASSUME Base, Screen, HostStep, UNCHANGED <<page, step, call, copy, unacked>>,
         strays' \subseteq strays
  PROVE  Screen'
<1>1. \A c \in Client : Numbers(c)' /\ Late(c)'
  BY HostNumbers, HostLate DEF Base, Screen, Waits
<1>2. \A c : Held(c)' = Held(c) /\ Believed(c)' = Believed(c) /\ Claimed(c)' = Claimed(c)
  BY DEF Held, Believed, Kept, CopyOf, Claimed, Waits
<1>3. \A c \in Client : Apart(c)'
  BY <1>2 DEF Screen, Apart
<1>4. Released'
  <2>1. ASSUME NEW q, Underway(q)' PROVE Underway(q)
    BY <2>1 DEF Underway, Waits
  <2>2. QED
    BY <1>2, <2>1 DEF Screen, Released
<1>5. ASSUME NEW c \in Client, NEW d \in Believed(c)' PROVE Lent(c, d)'
  <2>1. d \in Believed(c) /\ Lent(c, d) /\ Numbers(c) /\ Released
    BY <1>2, <1>5 DEF Screen
  <2>2. QED
    BY <2>1, HostLent
<1>6. OneHolder'
  BY <1>2 DEF Screen, OneHolder
<1>7. QED
  BY <1>1, <1>3, <1>4, <1>5, <1>6 DEF Screen

\* What an answer brings is lent to its page, of which the host has heard since
\* the poll was made, or not long before.
LEMMA FreshLent ==
  ASSUME Base, Screen, NEW c \in Client, ServeCall(c), NEW d \in Fresh(c)
  PROVE  /\ d.id \in DOMAIN pending' /\ Lent(c, d)'
         /\ d.token \notin {r.token : r \in issued}
<1> DEFINE q == call[c].request
<1>1. /\ Waits(c) /\ ~call[c].answered /\ q \in PollRequest \cup ReceiptRequest /\ Serve(q)
      /\ issued' = issued \/ Lends(q)
  BY CallFacts
<1>2. issued' # issued
  BY DEF Fresh
<1>3. Underway(q) /\ TypeOK /\ SystemTypes /\ Drainers /\ TypeOK'
  BY <1>1, CallBase DEF Underway, Base
<1>4. HostStep /\ Answerable(q) /\ Lends(q)
  BY <1>1, <1>2, <1>3, ServeHost
<1>5. q \in PollRequest /\ step[c] = "polling" /\ q.client = c
  <2>1. q \in PollRequest
    BY <1>4 DEF Answerable
  <2>2. step[c] = "polling"
    BY <1>1, <1>3, <2>1, Awaited
  <2>3. QED
    BY <1>3, <2>1, <2>2 DEF Drainers, Drainer
<1>6. PICK i \in DOMAIN pending \cap DOMAIN pending', t \in FreshTokens :
        /\ issued' = issued \cup {[id |-> i, client |-> c, token |-> t]}
        /\ pending'[i].lease = [client |-> c, token |-> t, left |-> LEASE_TTL]
  BY <1>4, <1>5 DEF Lends
<1>7. d.id = i /\ d.token = t /\ d.left = LEASE_TTL /\ d.poll = q.sequence
  <2>1. PICK r \in issued' \ issued :
          d = [id |-> r.id, token |-> r.token, left |-> LEASE_TTL,
               age |-> pending'[r.id].age, poll |-> q.sequence]
    BY DEF Fresh
  <2>2. r.id = i /\ r.token = t
    BY <1>6, <2>1
  <2>3. QED
    BY <2>1, <2>2
<1>8. /\ c \in DOMAIN clients' /\ clients'[c].presence.open
      /\ clients'[c].sequence >= d.poll
  BY <1>4, <1>5, <1>7 DEF Answerable
<1>9. clients'[c].age + d.left <= CLIENT_TTL + 1
  <2>1. CASE clients'[c].age = 0
    BY <1>7, <2>1, BrokerAssumption, SystemAssumption
  <2>2. CASE SameClient(c)
    <3>1. clients[c].age <= call[c].waited
      BY <1>1, <1>5, <1>7, <1>8, <2>2 DEF Screen, Late, SameClient
    <3>2. call[c].waited \in 0..RPC_TIMEOUT
      <4>1. call[c] \in Call
        BY <1>1, <1>3, Records
      <4>2. QED
        BY <4>1 DEF Call
    <3>3. clients[c].age \in Nat /\ clients'[c].age = clients[c].age
      BY <1>3, <2>2, Numbering DEF SameClient
    <3>4. QED
      BY <1>7, <3>1, <3>2, <3>3, BrokerAssumption, SystemAssumption
  <2>3. SameClient(c) \/ clients'[c].age = 0
    BY <1>4, <1>8 DEF HostStep, Heard
  <2>4. QED
    BY <2>1, <2>2, <2>3
<1>10. d.left <= pending'[d.id].lease.left /\ pending'[d.id].lease # None
  <2>1. pending'[i].lease.left = LEASE_TTL /\ LEASE_TTL \in Nat
    BY <1>6, BrokerAssumption
  <2>2. t \in Token /\ LEASE_TTL \in 0..LEASE_TTL
    BY BrokerAssumption DEF FreshTokens
  <2>3. pending'[i].lease \in Lease
    BY <1>6, <2>2 DEF Lease
  <2>4. QED
    BY <1>7, <2>1, <2>3, SystemAssumption
<1>11. Lent(c, d)'
  BY <1>6, <1>7, <1>8, <1>9, <1>10 DEF Lent
<1>12. QED
  BY <1>6, <1>7, <1>11 DEF FreshTokens

LEMMA CallScreen ==
  ASSUME Base, Screen, NEW c \in Client, ServeCall(c)
  PROVE  Screen'
<1>1. /\ UNCHANGED <<page, step, copy, unacked, strays>>
      /\ call'[c].claimed = Fresh(c) /\ call'[c].answered
      /\ call'[c].request = call[c].request /\ Waits(c)
      /\ \A e \in Client \ {c} : call'[e] = call[e]
  BY AnswerFacts, CallFacts DEF ServeCall, Base, SystemTypes
<1>2. HostStep
  <2>1. /\ call[c].request \in PollRequest \cup ReceiptRequest /\ Serve(call[c].request)
        /\ Underway(call[c].request) /\ TypeOK
    BY <1>1, CallFacts DEF Underway, Base
  <2>2. QED
    BY <2>1, ServeHost
<1>3. \A e \in Client : /\ Waits(e)' => Waits(e) /\ call'[e].request = call[e].request
                        /\ call'[e] = call[e] \/ (Waits(e)' => call'[e].answered)
  BY <1>1 DEF Waits
<1>4. \A e \in Client : Numbers(e)' /\ Late(e)'
  BY <1>1, <1>2, <1>3, HostNumbers, HostLate DEF Base, Screen
<1>5. /\ \A e \in Client \ {c} : Claimed(e)' = Claimed(e)
      /\ Claimed(c)' \subseteq Fresh(c)
      /\ \A e \in Client : Kept(e)' = Kept(e) /\ CopyOf(e)' = CopyOf(e)
  BY <1>1 DEF Claimed, Waits, Kept, CopyOf
<1>6. ASSUME NEW d \in Fresh(c), NEW e \in Client,
             NEW f \in unacked[e] \cup CopyOf(e) \cup Claimed(e)
      PROVE  f.token # d.token
  <2>1. ReceiptOf(e, f) \in issued /\ ReceiptOf(e, f).token = f.token
    BY DEF Base, Receipts, Issued, ReceiptOf
  <2>2. QED
    BY <2>1, FreshLent
<1>7. \A e \in Client : Apart(e)'
  <2>1. \A e \in Client \ {c} : Apart(e)'
    BY <1>1, <1>5 DEF Screen, Apart
  <2>2. Apart(c)'
    BY <1>1, <1>5, <1>6 DEF Screen, Apart
  <2>3. QED
    BY <2>1, <2>2
<1>8. Released'
  <2>1. ASSUME NEW q, Underway(q)' PROVE Underway(q)
    BY <1>1, <1>3, <2>1 DEF Underway
  <2>2. ASSUME NEW q \in ReceiptRequest, Underway(q)', q.kind = "release",
               NEW d \in Held(q.receipt.client)'
        PROVE  d.token # q.receipt.token
    <3>1. q.receipt.client \in Client
      BY DEF ReceiptRequest, Receipt
    <3>2. CASE d \in Held(q.receipt.client)
      BY <2>1, <2>2, <3>2 DEF Screen, Released
    <3>3. CASE d \in Fresh(c)
      <4>1. q.receipt \in issued
        <5>1. CASE q \in strays
          BY <5>1 DEF Base, Receipts
        <5>2. ASSUME NEW e \in Client, Waits(e), call[e].request = q
              PROVE  q.receipt \in issued
          <6>1. copy[e] \in CopyOf(e) /\ q.receipt = ReceiptOf(e, copy[e])
            BY <5>2, Awaited DEF Base
          <6>2. QED
            BY <6>1 DEF Base, Receipts, Issued
        <5>3. QED
          BY <2>1, <2>2, <5>1, <5>2 DEF Underway
      <4>2. QED
        BY <3>3, <4>1, FreshLent
    <3>4. QED
      BY <1>1, <1>5, <2>2, <3>1, <3>2, <3>3 DEF Held
  <2>3. QED
    BY <2>2 DEF Released
<1>9. ASSUME NEW e \in Client, NEW d \in Believed(e)'
      PROVE  /\ Lent(e, d)'
             /\ d \in Believed(e) \/ (e = c /\ d \in Fresh(c))
  <2>1. d \in Held(e)' /\ d.left > 0 /\ d.poll > page[e].closedAt
    BY <1>1, <1>9 DEF Believed, Held, Kept, CopyOf, Claimed, Waits
  <2>2. d \in Held(e) \/ (e = c /\ d \in Fresh(c))
    BY <1>1, <1>5, <2>1 DEF Held
  <2>3. CASE d \in Held(e)
    <3>1. d \in Believed(e)
      BY <2>1, <2>3, BelievedIsHeld
    <3>2. QED
      BY <1>2, <3>1, HostLent DEF Screen
  <2>4. CASE e = c /\ d \in Fresh(c)
    BY <2>4, FreshLent
  <2>5. QED
    BY <2>2, <2>3, <2>4
<1>10. OneHolder'
  <2>1. ASSUME NEW e \in Client, NEW d \in Client, e # d, NEW a \in Believed(e)',
               NEW b \in Believed(d)', a.id = b.id
        PROVE  FALSE
    <3>1. CASE a \in Believed(e) /\ b \in Believed(d)
      BY <2>1, <3>1 DEF Screen, OneHolder
    <3>2. CASE a \in Fresh(c) \/ b \in Fresh(c)
      <4>1. a.id \in DOMAIN pending'
        BY <2>1, <3>2, FreshLent
      <4>2. Lent(e, a)' /\ Lent(d, b)'
        BY <1>9, <2>1
      <4>3. pending'[a.id].lease.client = e /\ pending'[a.id].lease.client = d
        BY <2>1, <4>1, <4>2 DEF Lent
      <4>4. QED
        BY <2>1, <4>3
    <3>3. QED
      BY <1>9, <2>1, <3>1, <3>2
  <2>2. QED
    BY <2>1 DEF OneHolder
<1>11. QED
  BY <1>4, <1>7, <1>8, <1>9, <1>10 DEF Screen

LEMMA TickFacts ==
  ASSUME TypeOK, Tick
  PROVE  /\ DOMAIN clients' = DOMAIN clients /\ DOMAIN pending' = DOMAIN pending
         /\ \A c \in DOMAIN clients :
              /\ clients'[c].presence = clients[c].presence
              /\ clients'[c].sequence = clients[c].sequence
              /\ clients[c].age \in Nat /\ clients'[c].age \in Nat
              /\ clients'[c].age <= clients[c].age + 1
         /\ \A i \in DOMAIN pending : pending'[i].lease = LessLeft(pending[i].lease)
<1>1. DOMAIN clients' = DOMAIN clients /\ DOMAIN pending' = DOMAIN pending
  BY DEF Tick
<1>2. ASSUME NEW c \in DOMAIN clients
      PROVE  /\ clients'[c].presence = clients[c].presence
             /\ clients'[c].sequence = clients[c].sequence
             /\ clients[c].age \in Nat /\ clients'[c].age \in Nat
             /\ clients'[c].age <= clients[c].age + 1
  <2>1. clients[c] \in ClientState /\ clients[c].age \in Nat
    BY Numbering DEF TypeOK
  <2>2. /\ clients'[c].presence = clients[c].presence
        /\ clients'[c].sequence = clients[c].sequence
        /\ clients'[c].age = Older(clients[c].age, CLIENT_TTL)
    BY <2>1 DEF Tick, ClientState
  <2>3. QED
    BY <2>1, <2>2 DEF Older
<1>3. ASSUME NEW i \in DOMAIN pending PROVE pending'[i].lease = LessLeft(pending[i].lease)
  <2>1. pending[i] \in Alert
    BY DEF TypeOK
  <2>2. QED
    BY <2>1 DEF Tick, Alert
<1>4. QED
  BY <1>1, <1>2, <1>3

\* As time goes on the page's lease runs out with the host's, and no sooner does
\* the client expire.
LEMMA ElapseLent ==
  ASSUME Base, Tick, NEW c \in Client, NEW d \in Delivered, Lent(c, d), d.left > 0
  PROVE  Lent(c, Shorter(d))'
<1> DEFINE s == Shorter(d)
<1>1. s.id = d.id /\ s.token = d.token /\ s.poll = d.poll /\ d.left \in Nat
      /\ s.left = d.left - 1
  <2>1. d.left \in Nat
    BY BrokerAssumption DEF Delivered
  <2>2. QED
    BY <2>1 DEF Shorter, Delivered
<1> HIDE DEF s
<1>2. ASSUME s.id \in DOMAIN pending'
      PROVE  /\ pending'[s.id].lease # None
             /\ pending'[s.id].lease.client = c /\ pending'[s.id].lease.token = s.token
             /\ s.left <= pending'[s.id].lease.left
             /\ c \in DOMAIN clients' /\ clients'[c].presence.open
             /\ clients'[c].sequence >= s.poll /\ clients'[c].age + s.left <= CLIENT_TTL + 1
  <2> DEFINE l == pending[d.id].lease
  <2>1. /\ d.id \in DOMAIN pending /\ pending'[s.id].lease = LessLeft(l)
        /\ pending[d.id] \in Alert
    BY <1>1, <1>2, TickFacts DEF Base, TypeOK
  <2>2. /\ l # None /\ l.client = c /\ l.token = d.token /\ d.left <= l.left
        /\ c \in DOMAIN clients /\ clients[c].presence.open
        /\ clients[c].sequence >= d.poll /\ clients[c].age + d.left <= CLIENT_TTL + 1
    BY <2>1 DEF Lent
  <2>3. l \in Lease /\ l.left \in Nat
    <3>1. l \in Lease
      BY <2>1, <2>2 DEF Alert
    <3>2. QED
      BY <3>1, BrokerAssumption DEF Lease
  <2> HIDE DEF l
  <2>4. LessLeft(l) = [l EXCEPT !.left = l.left - 1]
    BY <1>1, <2>2, <2>3 DEF LessLeft
  <2>5. /\ LessLeft(l).client = c /\ LessLeft(l).token = d.token
        /\ LessLeft(l).left = l.left - 1 /\ LessLeft(l) # None
    <3>1. /\ LessLeft(l).client = c /\ LessLeft(l).token = d.token
          /\ LessLeft(l).left = l.left - 1
      BY <2>2, <2>3, <2>4 DEF Lease
    <3>2. LessLeft(l) \in Lease
      <4>1. l.left - 1 \in 0..LEASE_TTL
        BY <1>1, <2>2, <2>3, BrokerAssumption DEF Lease
      <4>2. QED
        BY <2>3, <2>4, <4>1 DEF Lease
    <3>3. QED
      BY <3>1, <3>2, SystemAssumption
  <2>6. /\ c \in DOMAIN clients' /\ clients'[c].presence = clients[c].presence
        /\ clients'[c].sequence = clients[c].sequence
        /\ clients[c].age \in Nat /\ clients'[c].age \in Nat
        /\ clients'[c].age <= clients[c].age + 1
    BY <2>2, TickFacts DEF Base
  <2>7. clients'[c].age + s.left <= CLIENT_TTL + 1
    BY <1>1, <2>2, <2>6, BrokerAssumption
  <2>8. s.left <= LessLeft(l).left
    BY <1>1, <2>2, <2>3, <2>5
  <2>9. QED
    BY <1>1, <2>1, <2>2, <2>5, <2>6, <2>7, <2>8
<1>3. Lent(c, s)'
  BY <1>2 DEF Lent
<1>4. QED
  BY <1>3 DEF s, Shorter, Older

LEMMA ElapseScreen ==
  ASSUME Base, Screen, Elapse
  PROVE  Screen'
<1>1. /\ Tick /\ UNCHANGED <<page, step, strays>> /\ TypeOK /\ SystemTypes
      /\ \A c \in Client : Numbers(c) /\ Late(c) /\ Apart(c)
  BY DEF Elapse, Base, Screen
<1>2. \A c \in Client : /\ Waits(c)' <=> Waits(c)
                        /\ Waits(c) => /\ call'[c].request = call[c].request
                                       /\ call'[c].answered = call[c].answered
                                       /\ call'[c].waited = call[c].waited + 1
                                       /\ call[c].waited \in Nat
  <2>1. TAKE c \in Client
  <2>2. Waits(c) => call[c].waited \in Nat
    <3>1. Waits(c) => call[c] \in Call
      BY <1>1, Records
    <3>2. QED
      BY <3>1, SystemAssumption DEF Call
  <2>3. QED
    BY <1>1, <2>2, ElapseFacts DEF Waits
<1>3. ASSUME NEW q, Underway(q)' PROVE Underway(q)
  BY <1>1, <1>2, <1>3 DEF Underway
<1>4. ASSUME NEW c \in Client PROVE Numbers(c)'
  <2>1. \A n \in 1..MaxSequence, open \in BOOLEAN : Said(c, n, open)' => Said(c, n, open)
    BY <1>1, <1>3, TickFacts DEF Said
  <2>2. QED
    BY <1>1, <2>1, NumbersFewer
<1>5. ASSUME NEW c \in Client PROVE Late(c)'
  <2>1. SUFFICES ASSUME Waits(c)', step'[c] = "polling", ~call'[c].answered,
                        c \in DOMAIN clients', clients'[c].sequence >= call'[c].request.sequence
                 PROVE  clients'[c].age <= call'[c].waited
    BY DEF Late
  <2>2. /\ Waits(c) /\ step[c] = "polling" /\ ~call[c].answered /\ c \in DOMAIN clients
        /\ clients[c].sequence >= call[c].request.sequence
        /\ clients[c].age \in Nat /\ clients'[c].age \in Nat
        /\ clients'[c].age <= clients[c].age + 1
    BY <1>1, <1>2, <2>1, TickFacts
  <2>3. clients[c].age <= call[c].waited
    BY <1>1, <2>2 DEF Late
  <2>4. QED
    BY <1>2, <2>2, <2>3
<1>6. ASSUME NEW c \in Client
      PROVE  /\ \A d \in unacked'[c] : \E e \in unacked[c] : e \in Delivered /\ d = Shorter(e)
             /\ \A d \in Claimed(c)' : \E e \in Claimed(c) : e \in Delivered /\ d = Shorter(e)
             /\ \A d \in CopyOf(c)' : \E e \in CopyOf(c) : e \in Delivered /\ d = Shorter(e)
             /\ copy[c] # None => copy'[c].token = copy[c].token
  <2>1. copy[c] # None => copy'[c].token = copy[c].token
    BY <1>1, ElapseFacts, ShorterFacts
  <2>2. QED
    BY <1>1, <1>2, <2>1, ElapseFacts DEF Claimed, CopyOf, Waits
<1>7. \A c \in Client : \A d \in Held(c)' : \E e \in Held(c) : e \in Delivered /\ d = Shorter(e)
  BY <1>1, <1>6 DEF Held, Kept
<1>8. ASSUME NEW c \in Client PROVE Apart(c)'
  <2>1. step[c] \in {"showing", "acking", "releasing"} => copy[c] # None
    BY DEF Base, Drainers, Drainer
  <2>2. Apart(c)
    BY <1>1
  <2>3. ASSUME NEW e \in unacked'[c], NEW d \in Claimed(c)' PROVE e.token # d.token
    <3>1. PICK x \in unacked[c] : x \in Delivered /\ e = Shorter(x)
      BY <1>6
    <3>2. PICK y \in Claimed(c) : y \in Delivered /\ d = Shorter(y)
      BY <1>6
    <3>3. e.token = x.token /\ d.token = y.token
      BY <3>1, <3>2, ShorterFacts
    <3>4. QED
      BY <2>2, <3>3 DEF Apart
  <2>4. ASSUME step[c] \in {"showing", "acking", "releasing"}, NEW e \in unacked'[c]
        PROVE  e.token # copy'[c].token
    <3>1. PICK x \in unacked[c] : x \in Delivered /\ e = Shorter(x)
      BY <1>6
    <3>2. e.token = x.token
      BY <3>1, ShorterFacts
    <3>3. QED
      BY <1>6, <2>1, <2>2, <2>4, <3>2 DEF Apart
  <2>5. QED
    BY <1>1, <2>3, <2>4 DEF Apart
<1>9. ASSUME NEW q \in ReceiptRequest, Underway(q)', q.kind = "release",
             NEW d \in Held(q.receipt.client)'
      PROVE  d.token # q.receipt.token
  <2>1. q.receipt.client \in Client
    BY DEF ReceiptRequest, Receipt
  <2>2. PICK e \in Held(q.receipt.client) : e \in Delivered /\ d = Shorter(e)
    BY <1>7, <1>9, <2>1
  <2>3. d.token = e.token
    BY <2>2, ShorterFacts
  <2>4. Underway(q)
    BY <1>3, <1>9
  <2>5. QED
    BY <1>9, <2>3, <2>4 DEF Screen, Released
<1>10. Released'
  BY <1>9 DEF Released
<1>11. ASSUME NEW c \in Client, NEW d \in Believed(c)'
       PROVE  \E e \in Believed(c) : e \in Delivered /\ d = Shorter(e) /\ e.left > 0
  <2>1. d \in Held(c)' /\ d.left > 0 /\ d.poll > page[c].closedAt
    BY <1>1, <1>11 DEF Believed, Held, Kept, CopyOf, Claimed, Waits
  <2>2. PICK e \in Held(c) : e \in Delivered /\ d = Shorter(e)
    BY <1>7, <2>1
  <2>3. e.left > 0 /\ e.poll = d.poll
    BY <2>1, <2>2, ShorterFacts
  <2>4. QED
    BY <2>1, <2>2, <2>3, BelievedIsHeld
<1>12. ASSUME NEW c \in Client, NEW d \in Believed(c)' PROVE Lent(c, d)'
  <2>1. PICK e \in Believed(c) : e \in Delivered /\ d = Shorter(e) /\ e.left > 0
    BY <1>11, <1>12
  <2>2. Lent(c, Shorter(e))'
    BY <1>1, <2>1, ElapseLent DEF Screen
  <2>3. QED
    BY <2>1, <2>2 DEF Lent, Shorter
<1>13. OneHolder'
  <2>1. ASSUME NEW c \in Client, NEW d \in Client, c # d, NEW a \in Believed(c)',
               NEW b \in Believed(d)', a.id = b.id
        PROVE  FALSE
    <3>1. PICK x \in Believed(c) : x \in Delivered /\ a = Shorter(x)
      BY <1>11, <2>1
    <3>2. PICK y \in Believed(d) : y \in Delivered /\ b = Shorter(y)
      BY <1>11, <2>1
    <3>3. x.id = y.id
      BY <2>1, <3>1, <3>2, ShorterFacts
    <3>4. QED
      BY <2>1, <3>3 DEF Screen, OneHolder
  <2>2. QED
    BY <2>1 DEF OneHolder
<1>14. QED
  BY <1>4, <1>5, <1>8, <1>10, <1>12, <1>13 DEF Screen

LEMMA InitScreen == SystemInit => Screen
<1> SUFFICES ASSUME SystemInit PROVE Screen
  OBVIOUS
<1>1. /\ DOMAIN clients = {} /\ strays = {}
      /\ \A c \in Client :
           /\ ~Waits(c) /\ unacked[c] = {} /\ copy[c] = None /\ step[c] = "idle"
           /\ page[c].closedAt = 0 /\ page[c].sequence = 0 /\ page[c].presence.open
  <2>1. DOMAIN clients = {} /\ strays = {}
    BY NoMapGood DEF SystemInit, Init
  <2>2. ASSUME NEW c \in Client
        PROVE  page[c].closedAt = 0 /\ page[c].sequence = 0 /\ page[c].presence.open
    BY DEF SystemInit
  <2>3. QED
    BY <2>1, <2>2 DEF SystemInit, Waits
<1>2. \A c, n, open : c \in Client => ~Said(c, n, open)
  BY <1>1 DEF Said, Underway
<1>3. \A c \in Client : Held(c) = {} /\ Claimed(c) = {} /\ Believed(c) = {}
  <2>1. \A c \in Client : Held(c) = {} /\ Claimed(c) = {}
    BY <1>1 DEF Held, Kept, CopyOf, Claimed
  <2>2. QED
    BY <2>1, BelievedIsHeld
<1>4. \A c \in Client : Numbers(c) /\ Late(c) /\ Apart(c)
  <2>1. \A c \in Client : page[c].closedAt <= page[c].sequence
    BY <1>1
  <2>2. QED
    BY <1>1, <1>2, <1>3, <2>1 DEF Numbers, Late, Apart
<1>5. Released
  BY <1>1 DEF Released, Underway
<1>6. OneHolder
  BY <1>3 DEF OneHolder
<1>7. QED
  BY <1>3, <1>4, <1>5, <1>6 DEF Screen

LEMMA NextScreen == Base /\ Screen /\ [SystemNext]_allVars => Screen'
<1> SUFFICES ASSUME Base, Screen, [SystemNext]_allVars PROVE Screen'
  OBVIOUS
<1>1. ASSUME NEW c \in Client, PageAction(c) PROVE Screen'
  BY <1>1, PageKinds, PageScreen DEF Base, Drainers
<1>2. ASSUME NEW q \in strays, ServeStray(q) PROVE Screen'
  <2>1. q \in PollRequest \cup ReceiptRequest /\ Underway(q) /\ Serve(q) /\ TypeOK
    BY <1>2 DEF ServeStray, Underway, Base, SystemTypes
  <2>2. HostStep
    BY <2>1, ServeHost
  <2>3. QED
    BY <1>2, <2>2, QuietScreen DEF ServeStray
<1>3. CASE Alone /\ UNCHANGED pageVars
  BY <1>3, AloneHost, QuietScreen DEF Base, pageVars
<1>4. CASE UNCHANGED allVars
  <2>1. HostStep
    BY <1>4 DEF allVars, vars, HostStep, SameClient, SameLease
  <2>2. QED
    BY <1>4, <2>1, QuietScreen DEF allVars, pageVars
<1>5. QED
  BY <1>1, <1>2, <1>3, <1>4, WhoSteps, CallScreen, ElapseScreen

-----------------------------------------------------------------------------
(* Theorems *)

\* The pages, their requests and the broker behind them keep their types.
THEOREM SystemTypeCorrect == SystemSpec => []SystemTypeOK
<1>1. Base => SystemTypeOK
  BY DEF Base, SystemTypes, Seen, SystemTypeOK
<1>2. QED
  BY <1>1, BaseHolds, PTL

\* Behind its network the broker still behaves as one: what pages send late,
\* twice or out of order are operations the broker allows. So all that is
\* proved of the broker holds in the system.
THEOREM SystemImplementsBroker == SystemSpec => Spec
<1>1. SystemInit => Init
  BY DEF SystemInit
<1>2. QED
  BY <1>1, BrokerSteps, BaseHolds, PTL DEF SystemSpec, Spec

\* The sound of an alert plays once over all pages and repetitions, where it was
\* shown (acknowledge of the drainer, ack of the broker).
THEOREM SoundsOnce == SystemSpec => []SoundOnce
<1>1. Base => SoundOnce
  BY DEF Base, Seen, Once, SoundOnce
<1>2. QED
  BY <1>1, BaseHolds, PTL

\* No two pages trust in a lease of one alert: whatever requests are lost, late or
\* overtaken, two pages never both believe to hold a running lease of it
\* (claim, report and match of the broker; poll, show and dispose of the drainer).
THEOREM HeldByOnePage == SystemSpec => []OneHolder
<1>1. SystemInit => Base /\ Screen
  BY InitBase, InitScreen
<1>2. Base /\ Screen /\ [SystemNext]_allVars => Base' /\ Screen'
  BY NextBase, NextScreen
<1>3. Screen => OneHolder
  BY DEF Screen
<1>4. QED
  BY <1>1, <1>2, <1>3, PTL DEF SystemSpec

=============================================================================
