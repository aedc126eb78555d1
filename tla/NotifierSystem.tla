--------------------------- MODULE NotifierSystem ---------------------------
(***************************************************************************)
(* The notifier as a whole: the broker of DeliveryBroker, a page per       *)
(* client with its presence reporter (client/presence.ts) and its          *)
(* single-flight drainer (client/drainer.ts, rendered by toasts.tsx), and  *)
(* the HTTP requests between them (client/rpc.ts, host/rpc.ts).            *)
(*                                                                         *)
(* A request can be lost, can be answered after its caller gave up, and    *)
(* can be overtaken by a later one.  A request whose caller no longer      *)
(* listens is a stray; a presence report is one from the start.  The       *)
(* clocks of host and pages advance together.                              *)
(***************************************************************************)
EXTENDS DeliveryBroker

CONSTANTS
  RPC_TIMEOUT,  \* how long a page waits for an answer
  MaxStrays     \* bound: requests nobody listens to that still arrive

\* A claimed alert as its page knows it: its lease, the time left of it, the
\* age of the alert, and the poll that claimed it.
Delivered == [id: Id, token: Token, left: 0..LEASE_TTL, age: 0..EVENT_TTL + 1,
              poll: 1..MaxSequence]

PollRequest == [kind: {"poll", "report"}, client: Client,
                sequence: 1..MaxSequence, presence: Presence]
ReceiptRequest == [kind: {"ack", "release"}, receipt: Receipt]

\* A request that is awaited, and since when.
Call == [request: PollRequest \cup ReceiptRequest, waited: 0..RPC_TIMEOUT,
         answered: BOOLEAN, claimed: SUBSET Delivered, ok: BOOLEAN]

\* A lease ends before the client it was lent to expires, even if it was lent
\* at the last moment of a poll and the client has not reported since.
ASSUME SystemAssumption ==
  /\ MaxStrays \in Nat /\ RPC_TIMEOUT \in Nat
  /\ RPC_TIMEOUT + LEASE_TTL <= CLIENT_TTL + 1
  /\ None \notin Lease \cup Delivered \cup Call

VARIABLES
  page,     \* what each page reports, its last report number, disposal
  step,     \* where the drainer of each page is
  call,     \* the request the drainer awaits, with its answer once there is one
  copy,     \* the delivery the drainer is working on
  unacked,  \* shown deliveries whose acknowledgement must be sent again
  strays,   \* requests on the network nobody listens to
  shown,    \* every delivery a page has displayed
  sounded   \* every delivery whose sound a page has played

pageVars == <<page, step, call, copy, unacked, strays, shown, sounded>>
allVars == <<vars, pageVars>>

Steps == {"idle", "retrying", "polling", "showing", "acking", "releasing"}

PageState == [presence: Presence, sequence: 0..MaxSequence, disposed: BOOLEAN,
              closedAt: 0..MaxSequence]

SystemTypeOK ==
  /\ TypeOK
  /\ page \in [Client -> PageState]
  /\ step \in [Client -> Steps]
  /\ call \in [Client -> Call \cup {None}]
  /\ copy \in [Client -> Delivered \cup {None}]
  /\ unacked \in [Client -> SUBSET Delivered]
  /\ strays \subseteq PollRequest \cup ReceiptRequest
  /\ Cardinality(strays) <= MaxStrays
  /\ shown \subseteq issued /\ sounded \subseteq shown

ReceiptOf(c, d) == [id |-> d.id, client |-> c, token |-> d.token]

Ask(request) ==
  [request |-> request, waited |-> 0, answered |-> FALSE, claimed |-> {}, ok |-> FALSE]

SystemInit ==
  /\ Init
  /\ page \in [Client -> [presence: {p \in Presence : p.open}, sequence: {0},
                          disposed: {FALSE}, closedAt: {0}]]
  /\ step = [c \in Client |-> "idle"]
  /\ call = [c \in Client |-> None]
  /\ copy = [c \in Client |-> None]
  /\ unacked = [c \in Client |-> {}]
  /\ strays = {}
  /\ shown = {}
  /\ sounded = {}

\* A request without a listener may be lost, or be served later.
Stray(request) ==
  strays' \in {S \in {strays, strays \cup {request}} : Cardinality(S) <= MaxStrays}

-----------------------------------------------------------------------------
(* The page *)

\* A focus, visibility, pagehide or pageshow event: the reporter numbers a
\* snapshot and sends it without waiting for the answer.
PageEvent(c, p) ==
  LET n == page[c].sequence + 1
  IN  /\ n <= MaxSequence
      /\ p # page[c].presence
      /\ page' = [page EXCEPT ![c].presence = p, ![c].sequence = n,
                              ![c].closedAt = IF p.open THEN @ ELSE n]
      /\ Stray([kind |-> "report", client |-> c, sequence |-> n, presence |-> p])
      /\ UNCHANGED <<vars, step, call, copy, unacked, shown, sounded>>

SendPoll(c) ==
  LET n == page[c].sequence + 1
  IN  /\ n <= MaxSequence
      /\ page' = [page EXCEPT ![c].sequence = n]
      /\ call' = [call EXCEPT ![c] =
           Ask([kind |-> "poll", client |-> c, sequence |-> n,
                presence |-> page[c].presence])]
      /\ step' = [step EXCEPT ![c] = "polling"]

SendReceipt(c, kind, d, next) ==
  /\ call' = [call EXCEPT ![c] =
                Ask([kind |-> kind, receipt |-> ReceiptOf(c, d)])]
  /\ step' = [step EXCEPT ![c] = next]

\* poll() first repeats one acknowledgement that is still worth sending and
\* forgets those whose lease ran out, then asks for an alert.
StartPoll(c) ==
  LET live == {d \in unacked[c] : d.left > 0}
  IN  /\ step[c] = "idle"
      /\ ~page[c].disposed
      /\ unacked' = [unacked EXCEPT ![c] = live]
      /\ \/ /\ live = {}
            /\ SendPoll(c)
            /\ copy' = copy
         \/ \E d \in live :
              /\ SendReceipt(c, "ack", d, "retrying")
              /\ copy' = [copy EXCEPT ![c] = d]
              /\ page' = page
      /\ UNCHANGED <<vars, strays, shown, sounded>>

\* Fault: the sound plays whatever the host answers.
AcknowledgedAloud(c, failed) ==
  LET d == copy[c]
  IN  /\ unacked' = [unacked EXCEPT ![c] =
           IF page[c].disposed THEN {}
           ELSE {e \in @ : e.id # d.id} \cup (IF failed THEN {d} ELSE {})]
      /\ copy' = [copy EXCEPT ![c] = None]
      /\ sounded' = IF ~failed /\ ~page[c].disposed
                    THEN sounded \cup {ReceiptOf(c, d)} ELSE sounded

\* The awaited acknowledgement came back (ok plays the sound, once) or failed.
Acknowledged(c, failed) ==
  LET d == copy[c]
      r == ReceiptOf(c, d)
  IN  /\ unacked' = [unacked EXCEPT ![c] =
           IF page[c].disposed THEN {}
           ELSE {e \in @ : e.id # d.id} \cup (IF failed THEN {d} ELSE {})]
      /\ copy' = [copy EXCEPT ![c] = None]
      /\ sounded' = IF ~failed /\ call[c].ok /\ ~page[c].disposed
                    THEN sounded \cup {r} ELSE sounded

FinishRetry(c, failed) ==
  /\ step[c] = "retrying"
  /\ Acknowledged(c, failed)
  /\ IF page[c].disposed
     THEN /\ step' = [step EXCEPT ![c] = "idle"]
          /\ call' = [call EXCEPT ![c] = None]
          /\ page' = page
     ELSE SendPoll(c)

FinishAck(c, failed) ==
  /\ step[c] = "acking"
  /\ Acknowledged(c, failed)
  /\ step' = [step EXCEPT ![c] = "idle"]
  /\ call' = [call EXCEPT ![c] = None]
  /\ page' = page

FinishRelease(c) ==
  /\ step[c] = "releasing"
  /\ step' = [step EXCEPT ![c] = "idle"]
  /\ call' = [call EXCEPT ![c] = None]
  /\ copy' = [copy EXCEPT ![c] = None]
  /\ UNCHANGED <<page, unacked, sounded>>

\* No alert was claimed, or the claim failed.
FinishEmptyPoll(c) ==
  /\ step[c] = "polling"
  /\ step' = [step EXCEPT ![c] = "idle"]
  /\ call' = [call EXCEPT ![c] = None]
  /\ UNCHANGED <<page, copy, unacked, sounded>>

\* A claimed alert is shown unless the drainer was disposed meanwhile, or the
\* answer came after the lease or when the alert was too old.
FinishPoll(c, d) ==
  /\ step[c] = "polling"
  /\ copy' = [copy EXCEPT ![c] = d]
  /\ IF page[c].disposed \/ d.left = 0 \/ d.age > EVENT_TTL
     THEN SendReceipt(c, "release", d, "releasing")
     ELSE /\ step' = [step EXCEPT ![c] = "showing"]
          /\ call' = [call EXCEPT ![c] = None]
  /\ UNCHANGED <<page, unacked, sounded>>

\* The answer of the awaited request arrives.
Receive(c) ==
  /\ call[c] # None
  /\ call[c].answered
  /\ \/ FinishRetry(c, FALSE)
     \/ FinishAck(c, FALSE)
     \/ FinishRelease(c)
     \/ call[c].claimed = {} /\ FinishEmptyPoll(c)
     \/ \E d \in call[c].claimed : FinishPoll(c, d)
  /\ UNCHANGED <<vars, strays, shown>>

\* The awaited request fails or times out.  An answer on its way is lost; a
\* request the host has not seen is lost too, or reaches it later as a stray.
GiveUp(c) ==
  /\ call[c] # None
  /\ \/ FinishRetry(c, TRUE)
     \/ FinishAck(c, TRUE)
     \/ FinishRelease(c)
     \/ FinishEmptyPoll(c)
  /\ IF call[c].answered THEN strays' = strays ELSE Stray(call[c].request)
  /\ UNCHANGED <<vars, shown>>

\* show() resolved.  A drainer disposed meanwhile gives the alert back even if
\* it was displayed.
Shown(c) ==
  /\ step[c] = "showing"
  /\ shown' = shown \cup {ReceiptOf(c, copy[c])}
  /\ IF page[c].disposed
     THEN SendReceipt(c, "release", copy[c], "releasing")
     ELSE SendReceipt(c, "ack", copy[c], "acking")
  /\ UNCHANGED <<vars, page, copy, unacked, strays, sounded>>

\* The page lost focus, has no permission, or the browser refused.
ShowFailed(c) ==
  /\ step[c] = "showing"
  /\ SendReceipt(c, "release", copy[c], "releasing")
  /\ UNCHANGED <<vars, page, copy, unacked, strays, shown, sounded>>

\* The toast layer is unmounted; requests in flight continue.
DisposeDrainer(c) ==
  /\ ~page[c].disposed
  /\ page' = [page EXCEPT ![c].disposed = TRUE]
  /\ unacked' = [unacked EXCEPT ![c] = {}]
  /\ UNCHANGED <<vars, step, call, copy, strays, shown, sounded>>

-----------------------------------------------------------------------------
(* The host *)

\* The handlers of host/rpc.ts.
Serve(request) ==
  \/ /\ request.kind = "report"
     /\ Report(request.client, request.sequence, request.presence)
  \/ /\ request.kind = "poll"
     /\ Poll(request.client, request.sequence, request.presence)
  \/ /\ request.kind = "ack"
     /\ Ack(request.receipt)
  \/ /\ request.kind = "release"
     /\ IF Match(pending, request.receipt) THEN Release(request.receipt)
                                           ELSE UNCHANGED vars

ServeCall(c) ==
  /\ call[c] # None
  /\ ~call[c].answered
  /\ Serve(call[c].request)
  /\ call' = [call EXCEPT ![c].answered = TRUE,
                          ![c].ok = accepted' # accepted,
                          ![c].claimed =
                {[id |-> r.id, token |-> r.token, left |-> LEASE_TTL,
                  age |-> pending'[r.id].age, poll |-> call[c].request.sequence] : r \in issued' \ issued}]
  /\ UNCHANGED <<page, step, copy, unacked, strays, shown, sounded>>

ServeStray(request) ==
  /\ Serve(request)
  /\ strays' = strays \ {request}
  /\ UNCHANGED <<page, step, call, copy, unacked, shown, sounded>>

-----------------------------------------------------------------------------

Shorter(d) == [d EXCEPT !.left = IF @ > 0 THEN @ - 1 ELSE 0,
                        !.age = Older(@, EVENT_TTL)]

\* Time goes on for everybody; no request is awaited longer than RPC_TIMEOUT.
Elapse ==
  /\ \A c \in Client : call[c] # None => call[c].waited < RPC_TIMEOUT
  /\ Tick
  /\ copy' = [c \in Client |-> IF copy[c] = None THEN None ELSE Shorter(copy[c])]
  /\ unacked' = [c \in Client |-> {Shorter(d) : d \in unacked[c]}]
  /\ call' = [c \in Client |->
       IF call[c] = None THEN None
       ELSE [call[c] EXCEPT !.waited = @ + 1, !.claimed = {Shorter(d) : d \in @}]]
  /\ UNCHANGED <<page, step, strays, shown, sounded>>

SystemNext ==
  \/ \E c \in Client, p \in Presence : PageEvent(c, p)
  \/ \E c \in Client : \/ StartPoll(c) \/ Receive(c) \/ GiveUp(c)
                       \/ Shown(c) \/ ShowFailed(c) \/ DisposeDrainer(c)
                       \/ ServeCall(c)
  \/ \E request \in strays : ServeStray(request)
  \/ \E i \in Id, e \in Event : Publish(i, e) /\ UNCHANGED pageVars
  \/ \E i \in Id : Retract(i) /\ UNCHANGED pageVars
  \/ /\ \/ Query \/ Dispose \/ \E c \in Config : SetConfig(c)
     /\ UNCHANGED pageVars
  \/ Elapse

SystemSpec == SystemInit /\ [][SystemNext]_allVars

-----------------------------------------------------------------------------
(* Properties *)

\* The deliveries a page believes it still holds: claimed, on their way to it,
\* being shown or waiting for their acknowledgement, with the lease not over
\* by the page's own clock, and claimed after it last reported closing.
Believed(c) ==
  {d \in unacked[c]
         \cup (IF copy[c] = None \/ step[c] = "releasing" THEN {} ELSE {copy[c]})
         \cup (IF call[c] = None THEN {} ELSE call[c].claimed) :
     d.left > 0 /\ d.poll > page[c].closedAt}

\* "Only one client holds an alert's delivery lease at a time" (docs/notifier.md):
\* two pages never both count on a lease of the same alert that is not over by
\* their own clocks, whatever is lost, late or reordered.  This is no promise
\* about screens: a toast stays longer (12 s) than a lease (10 s), so that an
\* alert may still be seen in one window when it is lent to the next.
OneHolder ==
  \A c, d \in Client : c # d =>
    \A a \in Believed(c), b \in Believed(d) : a.id # b.id

\* The sound of an alert plays once over all windows and acknowledgement
\* retries, and only in a window that displayed it.
SoundOnce ==
  \A r \in sounded : /\ r \in shown
                     /\ \A s \in sounded : r.id = s.id => r = s

=============================================================================
