--------------------------- MODULE Subscriptions ---------------------------
(***************************************************************************)
(* The subscriptions of dsh-next-oauth-providers: the class                *)
(* SubscriptionsService of host/service.ts with its configuration          *)
(* (host/config-scope.ts), its grants (host/credentials.ts), the routes    *)
(* and rows it registers (index.ts), and the panels of the pages that sign *)
(* in (client/SubscriptionPanel.tsx).                                      *)
(*                                                                         *)
(* A sign-in is carried out by a library that may go on for as long as it  *)
(* likes after it was told to stop.  A change of the configuration is a    *)
(* replacement of the whole of it, computed from what the live section     *)
(* says; what was written becomes live a little later, and whoever wrote   *)
(* it waits for that, but not for ever.                                    *)
(***************************************************************************)
EXTENDS Naturals, FiniteSets, Functions

CONSTANTS
  Families,      \* how many families there are; they are visited in order
  Ported,        \* families whose callback port is probed before sign-in
  Attempt,       \* sign-ins
  Request,       \* other requests of pages: settings, sign-out
  Page,          \* instances of the panel
  Shown,         \* families a panel may be opened for
  Ops,           \* what the requests ask
  Model,         \* the catalogues a family may be given
  Listed,        \* which families may be listed when the service starts
  Granted,       \* which of them may have a grant then
  None,          \* nothing: no family, no sign-in, the default catalogue
  Early,         \* whether pages may ask before the grants have been read
  MaxClicks,     \* bound: clicks on "Sign in" in one panel
  MaxOutside     \* bound: rows deleted on the native Models page

Family == 1..Families
Operations == {"add", "apply", "set", "refresh", "remove", "disconnect"}

\* Configurations, and replacements of them that wait.
Catalogue == Model \cup {None}
Listing == UNION {[S -> Catalogue] : S \in SUBSET Family}
Replacement == [stage : {"edit", "sent"}, config : Listing]

ASSUME SubscriptionsAssumption ==
  /\ Families \in Nat \ {0} /\ Ported \subseteq Family /\ Shown \subseteq Family
  /\ Ops \subseteq Operations
  /\ None \notin Attempt \cup Model \cup Family \cup Replacement
  /\ Listed \subseteq SUBSET Family /\ Granted \subseteq SUBSET Family
  /\ Attempt \cap Request = {}
  /\ "hydrate" \notin Attempt \cup Request
  /\ Early \in BOOLEAN /\ MaxClicks \in Nat /\ MaxOutside \in Nat

VARIABLES
  up,           \* the service has not been disposed
  hydration,    \* the reading of the grants at the start
  granted,      \* the credential store: families with a grant
  connected,    \* families the service serves
  routes,       \* what it registered with the Harness
  directory,    \* the rows it declared on the Models page
  saved,        \* the configuration that was written last: listed families
  live,         \* the configuration the service reads
  attempt,      \* the sign-in that owns the service
  signin,       \* each sign-in: its family, status and how far it is
  write,        \* replacements of the configuration that wait
  request,      \* the other requests
  prunes,       \* grants that are being dropped after a change
  panel,        \* the panels
  net,          \* messages between panels and host
  signedOut,    \* families signed out since their last sign-in began
  outside       \* rows deleted by others

confVars == <<saved, live, outside>>
hostVars == <<up, hydration, granted, connected, routes, directory, prunes, signedOut>>
pageVars == <<panel, net>>
vars == <<hostVars, confVars, attempt, signin, write, request, pageVars>>

Writer == Attempt \cup Request \cup {"hydrate"}
Message ==
  [type : {"start"}, page : Page, click : 1..MaxClicks, family : Family]
    \cup [type : {"started"}, page : Page, click : 1..MaxClicks, sign : Attempt]
    \cup [type : {"cancel"}, page : Page, sign : Attempt]

TypeOK ==
  /\ up \in BOOLEAN
  /\ hydration \in [at : Family \cup {Families + 1}, next : SUBSET Family,
                    legacy : BOOLEAN, over : BOOLEAN]
  /\ granted \in SUBSET Family /\ connected \in SUBSET Family
  /\ routes \in SUBSET Family /\ directory \in SUBSET Family /\ signedOut \in SUBSET Family
  /\ saved \in Listing /\ live \in Listing
  /\ attempt \in Attempt \cup {None}
  /\ signin \in [Attempt ->
       [family : Family \cup {None}, page : Page \cup {None}, click : 0..MaxClicks,
        status : {"none", "running", "authorized", "failed", "cancelled"},
        stage : {"none", "probe", "login", "asked", "stored", "reading", "saving",
                 "done"}]]
  /\ write \in [Writer -> Replacement \cup {None}]
  /\ request \in [Request ->
       [op : Ops \cup {None}, family : Family \cup {None}, models : Catalogue,
        stage : {"none", "deleting", "fetching", "writing", "between", "second",
                 "done", "failed"}]]
  /\ prunes \subseteq [listed : SUBSET Family, family : Family]
  /\ panel \in [Page ->
       [state : {"open", "closed", "gone"}, family : Family, click : 0..MaxClicks,
        owned : Attempt \cup {None}]]
  /\ net \subseteq Message
  /\ outside \in 0..MaxOutside

(***************************************************************************)
(* The sign-in (service.ts).                                               *)
(***************************************************************************)
Running(a) == signin[a].status = "running"

\* Whether sign-in a still owns the service.
IsCurrent(a) == up /\ attempt = a /\ Running(a)

\* Ends a sign-in: its timer, its prompt and its signal with it.
Cancelled(a) ==
  IF a # None /\ Running(a)
  THEN [signin EXCEPT ![a].status = "cancelled",
                      ![a].stage = IF @ = "asked" THEN "login" ELSE @]
  ELSE signin

Routes(next) == IF up THEN next ELSE {}

Connect(next) == connected' = next /\ routes' = Routes(next)

(***************************************************************************)
(* The configuration (config-scope.ts, settings.ts).                       *)
(***************************************************************************)
WithProvider(c, f) == [g \in DOMAIN c \cup {f} |-> IF g \in DOMAIN c THEN c[g] ELSE None]
WithoutProvider(c, f) == Restrict(c, DOMAIN c \ {f})
WithModels(c, f, m) == [g \in DOMAIN c \cup {f} |-> IF g = f THEN m ELSE c[g]]

\* A change begins with what is live.
Change(w, c) == write' = [write EXCEPT ![w] = [stage |-> "edit", config |-> c]]

\* The editor replaces the whole section.
Edit(w) ==
  /\ write[w] # None
  /\ write[w].stage = "edit"
  /\ saved' = write[w].config
  /\ write' = [write EXCEPT ![w].stage = "sent"]
  /\ UNCHANGED <<hostVars, live, outside, attempt, signin, request, pageVars>>

\* The patch of the profile is reloaded.
Publish ==
  /\ saved # live
  /\ live' = saved
  /\ UNCHANGED <<hostVars, saved, outside, attempt, signin, write, request, pageVars>>

\* A change waits until what it wrote is live; after two seconds it goes on
\* without a word, whatever is live then.
Published(w) == write[w] # None /\ write[w].stage = "sent"

\* The row of a family is deleted on the native Models page.
OutsideDelete(f) ==
  /\ outside < MaxOutside
  /\ f \in DOMAIN saved
  /\ saved' = WithoutProvider(saved, f)
  /\ outside' = outside + 1
  /\ UNCHANGED <<hostVars, live, attempt, signin, write, request, pageVars>>

(***************************************************************************)
(* Grants of families that are no longer listed (pruneUnlisted, and        *)
(* onConfigChanged of index.ts).                                           *)
(***************************************************************************)
ToPrune(listed, from, serving) == {f \in serving \ listed : f >= from}
First(S) == CHOOSE f \in S : \A g \in S : f <= g

\* What follows a change that a user made, with the families served then.
ConfigChanged ==
  LET todo == ToPrune(DOMAIN live, 1, connected) IN
  IF todo = {}
  THEN directory' = DOMAIN live /\ UNCHANGED prunes
  ELSE /\ prunes' = prunes \cup {[listed |-> DOMAIN live, family |-> First(todo)]}
       /\ UNCHANGED directory

PruneNext(p, from) ==
  LET todo == IF up THEN ToPrune(p.listed, from, connected') ELSE {} IN
  IF todo = {}
  THEN /\ prunes' = prunes \ {p}
       /\ routes' = Routes(connected')
       /\ directory' = IF up THEN DOMAIN live ELSE {}
  ELSE /\ prunes' = (prunes \ {p}) \cup {[p EXCEPT !.family = First(todo)]}
       /\ UNCHANGED <<routes, directory>>

Prune(p) ==
  /\ p \in prunes
  /\ granted' = granted \ {p.family}
  /\ connected' = connected \ {p.family}
  /\ PruneNext(p, p.family + 1)
  /\ UNCHANGED <<up, hydration, signedOut, confVars, attempt, signin, write, request,
                 pageVars>>

\* The store refuses: the exception ends the loop, and nothing is synced.
PruneFails(p) ==
  /\ p \in prunes
  /\ prunes' = prunes \ {p}
  /\ UNCHANGED <<up, hydration, granted, connected, routes, directory, signedOut,
                 confVars, attempt, signin, write, request, pageVars>>

(***************************************************************************)
(* The start (hydrate).                                                    *)
(***************************************************************************)
Init ==
  /\ up = TRUE
  /\ hydration \in [at : {1}, next : {{}}, legacy : BOOLEAN, over : {FALSE}]
  /\ granted \in Granted
  /\ connected = {} /\ routes = {} /\ directory = {}
  /\ prunes = {} /\ signedOut = {}
  /\ saved \in {[f \in S |-> None] : S \in Listed}
  /\ live = saved /\ outside = 0
  /\ attempt = None
  /\ signin = [a \in Attempt |-> [family |-> None, page |-> None, click |-> 0,
                                  status |-> "none", stage |-> "none"]]
  /\ write = [w \in Writer |-> None]
  /\ request = [r \in Request |->
       [op |-> None, family |-> None, models |-> None, stage |-> "none"]]
  /\ panel \in [Page ->
       [state : {"open"}, family : Shown, click : {0}, owned : {None}]]
  /\ net = {}

\* One family's grant is read; after the last one the routes are replaced,
\* and a section in an old form is written anew.
Hydrate ==
  LET f == hydration.at
      next == hydration.next \cup IF f \in granted THEN {f} ELSE {} IN
  /\ up /\ f \in Family
  /\ hydration' = [hydration EXCEPT !.at = f + 1, !.next = next,
                                    !.over = f = Families /\ ~hydration.legacy]
  /\ IF f # Families
     THEN UNCHANGED <<connected, routes, directory, write>>
     ELSE /\ Connect(next)
          /\ IF hydration.legacy
             THEN Change("hydrate", live) /\ UNCHANGED directory
             ELSE directory' = DOMAIN live /\ UNCHANGED write
  /\ UNCHANGED <<up, granted, prunes, signedOut, confVars, attempt, signin, request,
                 pageVars>>

\* The section in its new form has been waited for, or could not be written.
HydrationSaved ==
  /\ write["hydrate"] # None
  /\ \/ Published("hydrate") /\ directory' = IF up THEN DOMAIN live ELSE {}
     \/ write["hydrate"].stage = "edit" /\ UNCHANGED directory
  /\ write' = [write EXCEPT !["hydrate"] = None]
  /\ hydration' = [hydration EXCEPT !.over = TRUE]
  /\ UNCHANGED <<up, granted, connected, routes, prunes, signedOut, confVars, attempt,
                 signin, request, pageVars>>

Serving == up /\ (hydration.over \/ Early)

(***************************************************************************)
(* Signing in.                                                             *)
(***************************************************************************)
Owner(a) == signin[a].page

\* The answer to the page that asked; nobody hears it in a page that is gone.
Tell(msgs) == net' = {m \in msgs : m.type = "started" => panel[m.page].state # "gone"}

Started(a) == [type |-> "started", page |-> Owner(a), click |-> signin[a].click, sign |-> a]

\* The owner is reserved before the callback port is probed.
StartLogin(m) ==
  /\ m \in net /\ m.type = "start"
  /\ IF ~up \/ (attempt # None /\ Running(attempt))
     THEN net' = net \ {m} /\ UNCHANGED <<attempt, signin, signedOut>>
     ELSE \E a \in Attempt :
       /\ signin[a].stage = "none"
       /\ attempt' = a
       /\ signin' = [signin EXCEPT ![a] =
            [family |-> m.family, page |-> m.page, click |-> m.click, status |-> "running",
             stage |-> IF m.family \in Ported THEN "probe" ELSE "login"]]
       /\ signedOut' = signedOut \ {m.family}
       /\ Tell((net \ {m}) \cup IF m.family \in Ported THEN {}
            ELSE {[type |-> "started", page |-> m.page, click |-> m.click, sign |-> a]})
  /\ UNCHANGED <<up, hydration, granted, connected, routes, directory, prunes, confVars,
                 write, request, panel>>

\* The port is free, or taken.
Probed(a) ==
  /\ signin[a].stage = "probe"
  /\ \/ /\ IsCurrent(a)
        /\ signin' = [signin EXCEPT ![a].stage = "login"]
        /\ Tell(net \cup {Started(a)})
     \/ /\ signin' = [signin EXCEPT ![a].stage = "done",
                                    ![a].status = IF IsCurrent(a) THEN "failed" ELSE @]
        /\ UNCHANGED net
  /\ UNCHANGED <<hostVars, confVars, attempt, write, request, panel>>

Stays == <<hostVars, confVars, attempt, write, request, pageVars>>

\* The library asks the user for a value; after its end nobody is asked.
Ask(a) ==
  /\ signin[a].stage = "login" /\ IsCurrent(a)
  /\ signin' = [signin EXCEPT ![a].stage = "asked"]
  /\ UNCHANGED Stays

\* The user answers, or the library withdraws its question.
SubmitPrompt(a) ==
  /\ signin[a].stage = "asked"
  /\ signin' = [signin EXCEPT ![a].stage = "login"]
  /\ UNCHANGED Stays

Deleting ==
  {p.family : p \in prunes}
    \cup {request[r].family : r \in {q \in Request : request[q].stage = "deleting"}}

\* Fault: the store does not look at the signal.
CommitLate(a) ==
  /\ signin[a].stage \in {"login", "asked"}
  /\ signin[a].family \notin Deleting
  /\ granted' = granted \cup {signin[a].family}
  /\ signin' = [signin EXCEPT ![a].stage = "stored"]
  /\ UNCHANGED <<up, hydration, connected, routes, directory, prunes, signedOut,
                 confVars, attempt, write, request, pageVars>>

\* The library has the lock of the record, for which deletions wait in turn
\* too, and commits what it was granted, unless its signal was aborted
\* meanwhile (credentials.ts).
Commit(a) ==
  /\ signin[a].stage \in {"login", "asked"}
  /\ signin[a].family \notin Deleting
  /\ signin[a].status # "cancelled"
  /\ granted' = granted \cup {signin[a].family}
  /\ signin' = [signin EXCEPT ![a].stage = "stored"]
  /\ UNCHANGED <<up, hydration, connected, routes, directory, prunes, signedOut,
                 confVars, attempt, write, request, pageVars>>

\* A sign-in that does not own the service any more just ends.
Fail(a) == [signin EXCEPT ![a].stage = "done",
                          ![a].status = IF IsCurrent(a) THEN "failed" ELSE @]

LoginFails(a) ==
  /\ signin[a].stage \in {"login", "asked"}
  /\ signin' = Fail(a)
  /\ UNCHANGED Stays

\* The library has returned.
LoginReturns(a) ==
  /\ signin[a].stage = "stored"
  /\ signin' = [signin EXCEPT ![a].stage = IF IsCurrent(a) THEN "reading" ELSE "done"]
  /\ UNCHANGED Stays

\* The grant is read back; the family gets its row.
ReadBack(a) ==
  /\ signin[a].stage = "reading"
  /\ IF IsCurrent(a) /\ signin[a].family \in granted
     THEN /\ signin' = [signin EXCEPT ![a].stage = "saving"]
          /\ Change(a, WithProvider(live, signin[a].family))
     ELSE signin' = Fail(a) /\ UNCHANGED write
  /\ UNCHANGED <<hostVars, confVars, attempt, request, pageVars>>

\* The family is served, whether its row could be saved or not.
Saved(a) ==
  /\ signin[a].stage = "saving"
  /\ \/ Published(a) /\ IF up THEN ConfigChanged ELSE UNCHANGED <<directory, prunes>>
     \/ write[a].stage = "edit" /\ UNCHANGED <<directory, prunes>>
  /\ write' = [write EXCEPT ![a] = None]
  /\ IF IsCurrent(a)
     THEN /\ signin' = [signin EXCEPT ![a].stage = "done", ![a].status = "authorized"]
          /\ Connect(connected \cup {signin[a].family})
     ELSE /\ signin' = [signin EXCEPT ![a].stage = "done"]
          /\ UNCHANGED <<connected, routes>>
  /\ UNCHANGED <<up, hydration, granted, signedOut, confVars, attempt, request, pageVars>>

\* A quarter of an hour has passed.
Timeout(a) ==
  /\ Running(a)
  /\ signin' = Cancelled(a)
  /\ UNCHANGED Stays

\* The page cancels the sign-in it knows, if that is still the last one.
CancelLogin(m) ==
  /\ m \in net /\ m.type = "cancel"
  /\ net' = net \ {m}
  /\ signin' = IF attempt = m.sign THEN Cancelled(m.sign) ELSE signin
  /\ UNCHANGED <<hostVars, confVars, attempt, write, request, panel>>

(***************************************************************************)
(* The other requests.                                                     *)
(***************************************************************************)
Move(r, stage) == [request EXCEPT ![r].stage = stage]

Submit(r) ==
  /\ Serving /\ request[r].stage = "none"
  /\ \E op \in Ops, f \in Family, m \in Catalogue :
       LET Begin(stage) == request' = [request EXCEPT ![r] =
                           [op |-> op, family |-> f, models |-> m, stage |-> stage]] IN
       \/ /\ op \in {"add", "apply", "set"} /\ (op = "add" => m = None)
          /\ Begin(IF op = "set" THEN "second" ELSE "writing")
          /\ Change(r, IF op = "set" THEN WithModels(live, f, m) ELSE WithProvider(live, f))
          /\ UNCHANGED signin
       \/ /\ op = "refresh" /\ m # None
          /\ Begin(IF f \in connected THEN "fetching" ELSE "failed")
          /\ UNCHANGED <<signin, write>>
       \/ /\ op \in {"remove", "disconnect"} /\ m = None
          /\ Begin("deleting")
          /\ signin' = IF attempt # None /\ signin[attempt].family = f
                       THEN Cancelled(attempt) ELSE signin
          /\ UNCHANGED write
  /\ UNCHANGED <<hostVars, confVars, attempt, pageVars>>

\* The provider's list of models has come.
Fetched(r) ==
  /\ request[r].stage = "fetching"
  /\ IF up
     THEN /\ request' = Move(r, "second")
          /\ Change(r, WithModels(live, request[r].family, request[r].models))
     ELSE request' = Move(r, "failed") /\ UNCHANGED write
  /\ UNCHANGED <<hostVars, confVars, attempt, signin, pageVars>>

\* How a request goes on; the state that is read for its answer may fail,
\* and whoever asked then does not go on.
Answered(r, stage) == request' = Move(r, stage) \/ request' = Move(r, "failed")

\* The grant is deleted, or the store refuses.
Deleted(r) ==
  LET f == request[r].family IN
  /\ request[r].stage = "deleting"
  /\ \/ /\ granted' = granted \ {f}
        /\ IF up
           THEN /\ Connect(connected \ {f})
                /\ Answered(r, IF request[r].op = "remove" THEN "between" ELSE "done")
                /\ signedOut' = signedOut \cup
                     IF \E a \in Attempt : Running(a) /\ signin[a].family = f
                     THEN {} ELSE {f}
           ELSE /\ request' = Move(r, "failed")
                /\ UNCHANGED <<connected, routes, signedOut>>
     \/ /\ request' = Move(r, "failed")
        /\ UNCHANGED <<granted, connected, routes, signedOut>>
  /\ UNCHANGED <<up, hydration, directory, prunes, confVars, attempt, signin, write,
                 pageVars>>

\* The second half: an Apply sets the catalogue when the page has heard of
\* the row, a removal takes the row away when the grant is gone.
GoOn(r) ==
  LET f == request[r].family IN
  /\ request[r].stage = "between"
  /\ IF up
     THEN /\ request' = Move(r, "second")
          /\ Change(r, IF request[r].op = "remove" THEN WithoutProvider(live, f)
                       ELSE WithModels(live, f, request[r].models))
     ELSE request' = Move(r, "failed") /\ UNCHANGED write
  /\ UNCHANGED <<hostVars, confVars, attempt, signin, pageVars>>

\* What was written has been waited for and the change is announced; the routes are
\* registered anew when a served catalogue changed.
Settled(r) ==
  LET f == request[r].family IN
  /\ request[r].stage \in {"writing", "second"}
  /\ Published(r)
  /\ write' = [write EXCEPT ![r] = None]
  /\ IF up
     THEN /\ ConfigChanged
          /\ routes' = IF \/ request[r].op \in {"set", "apply"} /\ f \in connected
                          \/ request[r].op = "refresh"
                       THEN Routes(connected) ELSE routes
          /\ Answered(r, IF request[r].op = "apply" /\ request[r].stage = "writing"
                         THEN "between" ELSE "done")
     ELSE /\ request' = Move(r, "failed")
          /\ UNCHANGED <<directory, prunes, routes>>
  /\ UNCHANGED <<up, hydration, granted, connected, signedOut, confVars, attempt, signin,
                 pageVars>>

\* The editor of the profile refuses.
NotWritten(r) ==
  /\ request[r].stage \in {"writing", "second"}
  /\ write[r].stage = "edit"
  /\ write' = [write EXCEPT ![r] = None]
  /\ request' = Move(r, "failed")
  /\ UNCHANGED <<hostVars, confVars, attempt, signin, pageVars>>

Dispose ==
  /\ up
  /\ up' = FALSE
  /\ signin' = Cancelled(attempt)
  /\ connected' = {} /\ routes' = {} /\ directory' = {}
  /\ UNCHANGED <<hydration, granted, prunes, signedOut, confVars, attempt, write, request,
                 pageVars>>

(***************************************************************************)
(* The panel of a page (SubscriptionPanel.tsx).                            *)
(***************************************************************************)
HostStays == <<hostVars, confVars, attempt, signin, write, request>>

\* The button is there until the answer has come.
Click(p) ==
  /\ Serving
  /\ panel[p].state = "open" /\ panel[p].owned = None /\ panel[p].click < MaxClicks
  /\ panel' = [panel EXCEPT ![p].click = @ + 1]
  /\ net' = net \cup {[type |-> "start", page |-> p, click |-> panel[p].click + 1,
                       family |-> panel[p].family]}
  /\ UNCHANGED HostStays

\* Fault: an answer that comes too late is forgotten.
HearStartedSilent(m) ==
  /\ m \in net /\ m.type = "started"
  /\ net' = net \ {m}
  /\ panel' = IF panel[m.page].state = "open" /\ panel[m.page].click = m.click
              THEN [panel EXCEPT ![m.page].owned = m.sign] ELSE panel
  /\ UNCHANGED HostStays

\* An answer to an earlier click, or one that finds the panel closed, is
\* answered by a cancellation.
HearStarted(m) ==
  /\ m \in net /\ m.type = "started"
  /\ IF panel[m.page].state = "open" /\ panel[m.page].click = m.click
     THEN /\ panel' = [panel EXCEPT ![m.page].owned = m.sign]
          /\ net' = net \ {m}
     ELSE /\ net' = (net \ {m}) \cup
                     {[type |-> "cancel", page |-> m.page, sign |-> m.sign]}
          /\ UNCHANGED panel
  /\ UNCHANGED HostStays

\* The panel asks every 400 ms how its sign-in does, and after a cancellation.
Poll(p) ==
  /\ panel[p].owned # None
  /\ attempt = panel[p].owned /\ ~Running(attempt)
  /\ panel' = [panel EXCEPT ![p].owned = None]
  /\ UNCHANGED <<HostStays, net>>

CancelClick(p) ==
  /\ panel[p].owned # None
  /\ net' = net \cup {[type |-> "cancel", page |-> p, sign |-> panel[p].owned]}
  /\ UNCHANGED <<HostStays, panel>>

\* Cancel, Apply, another editor, or leaving the Models page.  A panel in
\* which nobody clicked has nothing to leave behind.
Close(p) ==
  /\ panel[p].state = "open" /\ panel[p].click > 0
  /\ panel' = [panel EXCEPT ![p].state = "closed", ![p].owned = None]
  /\ net' = net \cup IF panel[p].owned = None THEN {}
                     ELSE {[type |-> "cancel", page |-> p, sign |-> panel[p].owned]}
  /\ UNCHANGED HostStays

\* The browser or the tab ends without a word.
Vanish(p) ==
  /\ panel[p].state # "gone" /\ panel[p].click > 0
  /\ panel' = [panel EXCEPT ![p].state = "gone", ![p].owned = None]
  /\ net' = {m \in net : ~(m.page = p /\ m.type = "started")}
  /\ UNCHANGED HostStays

(***************************************************************************)
(* The specification.                                                      *)
(***************************************************************************)
Library(a) ==
  \/ Ask(a) \/ SubmitPrompt(a) \/ Commit(a) \/ LoginFails(a)

Host ==
  \/ Hydrate \/ HydrationSaved
  \/ \E m \in net : StartLogin(m) \/ CancelLogin(m)
  \/ \E a \in Attempt : Probed(a) \/ LoginReturns(a) \/ ReadBack(a) \/ Saved(a)
                          \/ Timeout(a)
  \/ \E r \in Request : Submit(r) \/ Fetched(r) \/ Deleted(r) \/ GoOn(r)
                          \/ Settled(r) \/ NotWritten(r)
  \/ \E p \in prunes : Prune(p) \/ PruneFails(p)
  \/ Dispose

Panels ==
  \/ \E p \in Page : Click(p) \/ Poll(p) \/ CancelClick(p) \/ Close(p) \/ Vanish(p)
  \/ \E m \in net : HearStarted(m)

Profile == Publish \/ (\E w \in Writer : Edit(w)) \/ (\E f \in Family : OutsideDelete(f))

Next == Host \/ Panels \/ Profile \/ \E a \in Attempt : Library(a)

Spec == Init /\ [][Next]_vars

(***************************************************************************)
(* What is expected of it.                                                 *)
(***************************************************************************)

\* docs/oauth-providers.md: closing an editor, switching editors or leaving
\* Models cancels an unfinished sign-in.  However clicks, answers and
\* cancellations pass one another, a sign-in that still runs is the one the
\* service answers for, and it is shown in a panel, about to be told to one
\* or about to be cancelled, unless its tab just vanished.
SignInIsOwned ==
  \A a \in Attempt : Running(a) =>
    /\ attempt = a
    /\ \/ panel[Owner(a)].state = "gone"
       \/ signin[a].stage = "probe"
       \/ panel[Owner(a)].owned = a
       \/ \E m \in net : m.type \in {"started", "cancel"} /\ m.sign = a

\* disconnect() and removeProvider(): a family that was signed out stays so
\* until the next sign-in begins, whatever an earlier sign-in of it, which
\* may go on after it was cancelled, still does.
SignedOutStaysOut ==
  \A f \in signedOut : f \notin granted \cup connected

=============================================================================
