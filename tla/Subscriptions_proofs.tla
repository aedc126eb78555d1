------------------------ MODULE Subscriptions_proofs ------------------------
(***************************************************************************)
(* Proofs about Subscriptions for any families, sign-ins, requests and     *)
(* panels: a sign-in that runs is owned, and a family signed out stays so. *)
(***************************************************************************)
EXTENDS Subscriptions, FiniteSetTheorems, TLAPS

\* The types.
SignIn ==
  [family : Family \cup {None}, page : Page \cup {None}, click : 0..MaxClicks,
   status : {"none", "running", "authorized", "failed", "cancelled"},
   stage : {"none", "probe", "login", "asked", "stored", "reading", "saving", "done"}]
Panel ==
  [state : {"open", "closed", "gone"}, family : Family, click : 0..MaxClicks,
   owned : Attempt \cup {None}]
Asked ==
  [op : Ops \cup {None}, family : Family \cup {None}, models : Catalogue,
   stage : {"none", "deleting", "fetching", "writing", "between", "second", "done",
            "failed"}]
Hydration == [at : Family \cup {Families + 1}, next : SUBSET Family, legacy : BOOLEAN, over : BOOLEAN]

Types ==
  /\ up \in BOOLEAN /\ hydration \in Hydration
  /\ granted \subseteq Family /\ connected \subseteq Family /\ signedOut \subseteq Family
  /\ routes \subseteq Family /\ directory \subseteq Family
  /\ saved \in Listing /\ live \in Listing /\ outside \in 0..MaxOutside
  /\ attempt \in Attempt \cup {None}
  /\ signin \in [Attempt -> SignIn]
  /\ write \in [Writer -> Replacement \cup {None}]
  /\ request \in [Request -> Asked]
  /\ prunes \subseteq [listed : SUBSET Family, family : Family]
  /\ panel \in [Page -> Panel]
  /\ net \subseteq Message

\* A request that was made is about a family.
Asking == \A r \in Request : request[r].stage # "none" => request[r].family \in Family

\* The sign-in that runs is the last one, its library has not ended, and none
\* runs in a service that was disposed.
LastRuns ==
  /\ \A a \in Attempt : Running(a) => attempt = a /\ up
  /\ \A a \in Attempt :
       /\ signin[a].stage = "none" => signin[a].status = "none"
       /\ signin[a].stage \in {"probe", "login", "asked"} =>
            signin[a].status \in {"running", "cancelled"}

\* A click is behind at most one message or one sign-in.
FromClick(a, p, n) ==
  signin[a].stage # "none" /\ signin[a].page = p /\ signin[a].click = n
Starts == {m \in net : m.type = "start"}
Clicks ==
  /\ \A m \in Starts : m.family = panel[m.page].family /\ m.click <= panel[m.page].click
  /\ \A m \in Starts, a \in Attempt : ~FromClick(a, m.page, m.click)
  /\ \A a \in Attempt : signin[a].stage # "none" =>
       /\ signin[a].page \in Page /\ signin[a].family \in Family
       /\ signin[a].click \in 1..panel[signin[a].page].click
  /\ \A a, b \in Attempt :
       signin[a].stage # "none" /\ FromClick(b, signin[a].page, signin[a].click) => a = b

\* Answers and panels know the click they belong to.
Answers ==
  /\ \A m \in net : m.type = "started" => FromClick(m.sign, m.page, m.click)
  /\ \A p \in Page : panel[p].owned # None =>
       panel[p].state = "open" /\ FromClick(panel[p].owned, p, panel[p].click)

\* Nobody was signed out before the grants had been read.
AfterHydration ==
  /\ hydration.over => hydration.at = Families + 1
  /\ write["hydrate"] # None => hydration.at = Families + 1
  /\ ~hydration.over =>
       signedOut = {} /\ \A r \in Request : request[r].stage = "none"

\* What was signed out has no grant, and no sign-in of it runs.
NoneComesBack ==
  /\ SignedOutStaysOut
  /\ \A f \in signedOut, a \in Attempt : Running(a) => signin[a].family # f

\* Who has a change that waits.
Writers ==
  /\ \A a \in Attempt : write[a] # None <=> signin[a].stage = "saving"
  /\ \A r \in Request : write[r] # None <=> request[r].stage \in {"writing", "second"}
  /\ write["hydrate"] # None => hydration.at = Families + 1
  /\ hydration.at \in 1..Families + 1

SignInInv == LastRuns /\ Clicks /\ Answers /\ SignInIsOwned
OutInv == AfterHydration /\ NoneComesBack

-----------------------------------------------------------------------------
(* Numbers *)

\* A set of numbers that is not empty has a least one: of the finite sets 0..k one has
\* no other inside it.
LEMMA Least ==
  ASSUME NEW S \in SUBSET Nat, S # {}
  PROVE \E f \in S : \A g \in S : f <= g
<1> DEFINE T == {0..k : k \in S}
<1>1. \A k \in S : 0..k \in SUBSET Nat /\ IsFiniteSet(0..k)
  BY FS_Interval
<1>2. T \in SUBSET FiniteSubsetsOf(Nat) /\ T # {}
  BY <1>1 DEF FiniteSubsetsOf
<1>3. IsWellFoundedOn(StrictSubsetOrdering(Nat), FiniteSubsetsOf(Nat))
  BY FS_StrictSubsetOrderingWellFounded, Zenon
<1> HIDE DEF T
<1>4. PICK t \in T : \A y \in T : ~ (<<y, t>> \in StrictSubsetOrdering(Nat))
  <2>1. \E t \in T : \A y \in T : ~ (<<y, t>> \in StrictSubsetOrdering(Nat))
    BY <1>2, <1>3, WFMin, Zenon
  <2>2. QED
    BY <2>1
<1>5. PICK f \in S : t = 0..f
  BY DEF T
<1>6. ASSUME NEW g \in S, g < f PROVE FALSE
  <2>1. 0..g \in T /\ 0..g \subseteq 0..f
    BY <1>6 DEF T
  <2>2. 0..g # 0..f
    <3>1. f \in 0..f /\ f \notin 0..g
      BY <1>6
    <3>2. QED
      BY <3>1
  <2>3. 0..g \in SUBSET Nat /\ 0..f \in SUBSET Nat
    BY <1>1
  <2> DEFINE ss == <<0..g, 0..f>>
  <2>4. ss \in (SUBSET Nat) \X (SUBSET Nat) /\ ss[1] = 0..g /\ ss[2] = 0..f
    BY <2>3
  <2>5. ss \in StrictSubsetOrdering(Nat)
    BY <2>1, <2>2, <2>4 DEF StrictSubsetOrdering
  <2>6. QED
    BY <1>4, <1>5, <2>1, <2>5
<1>7. QED
  BY <1>6

-----------------------------------------------------------------------------
(* Configurations *)

LEMMA ListingDomain ==
  ASSUME NEW c \in Listing
  PROVE  DOMAIN c \subseteq Family /\ \A g \in DOMAIN c : c[g] \in Catalogue
<1>1. PICK S \in SUBSET Family : c \in [S -> Catalogue]
  BY DEF Listing
<1>2. QED
  BY <1>1

LEMMA MakeListing ==
  ASSUME NEW S \in SUBSET Family, NEW c \in [S -> Catalogue]
  PROVE  c \in Listing
  BY DEF Listing

\* A change of one family gives a configuration.
LEMMA WithProviderTypes ==
  ASSUME NEW c \in Listing, NEW f \in Family
  PROVE  WithProvider(c, f) \in Listing
<1>1. WithProvider(c, f) \in [DOMAIN c \cup {f} -> Catalogue]
  BY ListingDomain DEF WithProvider, Catalogue
<1>2. DOMAIN c \cup {f} \in SUBSET Family
  BY ListingDomain
<1>3. QED
  BY <1>1, <1>2, MakeListing

LEMMA WithoutProviderTypes ==
  ASSUME NEW c \in Listing, NEW f \in Family
  PROVE  WithoutProvider(c, f) \in Listing
<1>1. WithoutProvider(c, f) \in [DOMAIN c \ {f} -> Catalogue]
  BY ListingDomain DEF WithoutProvider, Restrict
<1>2. DOMAIN c \ {f} \in SUBSET Family
  BY ListingDomain
<1>3. QED
  BY <1>1, <1>2, MakeListing

LEMMA WithModelsTypes ==
  ASSUME NEW c \in Listing, NEW f \in Family, NEW m \in Catalogue
  PROVE  WithModels(c, f, m) \in Listing
<1>1. WithModels(c, f, m) \in [DOMAIN c \cup {f} -> Catalogue]
  BY ListingDomain DEF WithModels
<1>2. DOMAIN c \cup {f} \in SUBSET Family
  BY ListingDomain
<1>3. QED
  BY <1>1, <1>2, MakeListing

LEMMA ChangeTypes ==
  ASSUME Types, NEW w \in Writer, NEW c \in Listing, Change(w, c)
  PROVE  write' \in [Writer -> Replacement \cup {None}]
<1> DEFINE r == [stage |-> "edit", config |-> c]
<1>1. r \in Replacement
  BY DEF Replacement
<1>2. write' = [write EXCEPT ![w] = r]
  BY DEF Change
<1> HIDE DEF r
<1>3. QED
  BY <1>1, <1>2 DEF Types

-----------------------------------------------------------------------------
(* Sign-ins and messages *)

LEMMA MessageFields ==
  /\ \A m \in Message : m.type = "start" =>
       m.page \in Page /\ m.click \in 1..MaxClicks /\ m.family \in Family
  /\ \A m \in Message : m.type = "started" =>
       m.page \in Page /\ m.click \in 1..MaxClicks /\ m.sign \in Attempt
  /\ \A m \in Message : m.type = "cancel" => m.page \in Page /\ m.sign \in Attempt
  BY DEF Message

\* A sign-in is cancelled when it runs, and nothing else of it or of others changes.
LEMMA CancelledOnly ==
  ASSUME Types, NEW a \in Attempt \cup {None}, signin' = Cancelled(a)
  PROVE  /\ signin' \in [Attempt -> SignIn]
         /\ \A b \in Attempt :
              /\ signin'[b].page = signin[b].page /\ signin'[b].click = signin[b].click
              /\ signin'[b].family = signin[b].family
              /\ b # a => signin'[b] = signin[b]
              /\ signin'[b].stage \in {signin[b].stage, "login"}
              /\ signin'[b].stage # signin[b].stage => signin[b].stage = "asked"
              /\ b = a => ~Running(b)'
              /\ ~Running(b) => signin'[b] = signin[b]
              /\ Running(b)' => signin'[b] = signin[b]
              /\ signin'[b].status \in {signin[b].status, "cancelled"}
<1>1. CASE a # None /\ Running(a)
  <2>1. a \in Attempt /\ signin[a] \in SignIn
    BY <1>1 DEF Types
  <2>2. signin' = [signin EXCEPT ![a] =
          [signin[a] EXCEPT !.status = "cancelled",
                            !.stage = IF @ = "asked" THEN "login" ELSE @]]
    BY <1>1, <2>1 DEF Cancelled, Types
  <2>3. ASSUME NEW b \in Attempt, b # a PROVE signin'[b] = signin[b]
    BY <2>1, <2>2, <2>3 DEF Types
  <2> DEFINE s == [signin[a] EXCEPT !.status = "cancelled",
                                   !.stage = IF @ = "asked" THEN "login" ELSE @]
  <2>4. signin'[a] = s
    BY <2>1, <2>2 DEF Types
  <2>5. /\ s \in SignIn /\ s.page = signin[a].page /\ s.click = signin[a].click
        /\ s.family = signin[a].family /\ s.status = "cancelled"
        /\ s.stage = IF signin[a].stage = "asked" THEN "login" ELSE signin[a].stage
    BY <2>1 DEF SignIn
  <2> HIDE DEF s
  <2>6. signin' \in [Attempt -> SignIn]
    BY <2>1, <2>2, <2>5 DEF Types, s
  <2>7. QED
    BY <1>1, <2>3, <2>4, <2>5, <2>6 DEF Running
<1>2. CASE ~(a # None /\ Running(a))
  <2>1. signin' = signin
    BY <1>2 DEF Cancelled
  <2>2. None \notin Attempt
    BY SubscriptionsAssumption
  <2>3. QED
    BY <1>2, <2>1, <2>2 DEF Types, Running
<1>3. QED
  BY <1>1, <1>2

\* A sign-in goes on: it does not begin to run, and a probe that runs on is a probe.
Goes(a) ==
  /\ signin' \in [Attempt -> SignIn]
  /\ \A b \in Attempt \ {a} : signin'[b] = signin[b]
  /\ signin'[a].page = signin[a].page /\ signin'[a].click = signin[a].click
  /\ signin'[a].family = signin[a].family
  /\ signin[a].stage # "none" /\ signin'[a].stage # "none"
  /\ Running(a)' => Running(a) /\ (signin[a].stage = "probe" => signin'[a].stage = "probe")
  /\ signin'[a].stage \in {"probe", "login", "asked"} =>
       signin'[a].status \in {"running", "cancelled"}

LEMMA StageGoes ==
  ASSUME Types, LastRuns, NEW a \in Attempt, signin[a].stage # "none",
         NEW sg \in {"login", "asked", "stored", "reading", "saving", "done"},
         signin' = [signin EXCEPT ![a].stage = sg],
         signin[a].stage = "probe" => ~Running(a),
         sg \in {"login", "asked"} => signin[a].status \in {"running", "cancelled"}
  PROVE  Goes(a) /\ signin'[a].stage = sg /\ signin'[a].status = signin[a].status
<1> DEFINE s == [signin[a] EXCEPT !.stage = sg]
<1>1. signin[a] \in SignIn
  BY DEF Types
<1>2. /\ s \in SignIn /\ s.stage = sg /\ s.status = signin[a].status
      /\ s.page = signin[a].page /\ s.click = signin[a].click
      /\ s.family = signin[a].family
  BY <1>1 DEF SignIn
<1>3. signin' = [signin EXCEPT ![a] = s]
  BY DEF Types
<1> HIDE DEF s
<1>4. signin'[a] = s /\ signin' \in [Attempt -> SignIn]
      /\ \A b \in Attempt \ {a} : signin'[b] = signin[b]
  BY <1>2, <1>3 DEF Types
<1>5. QED
  BY <1>2, <1>4 DEF Goes, Running

\* Its end: it runs no more.
LEMMA EndGoes ==
  ASSUME Types, LastRuns, NEW a \in Attempt, signin[a].stage # "none",
         NEW st \in {"authorized", "failed", "cancelled"},
         signin' = [signin EXCEPT ![a].stage = "done",
                                  ![a].status = IF IsCurrent(a) THEN st ELSE @]
  PROVE  Goes(a) /\ ~Running(a)' /\ signin'[a].stage = "done"
<1> DEFINE s == [signin[a] EXCEPT !.stage = "done",
                                  !.status = IF IsCurrent(a) THEN st ELSE @]
<1>1. signin[a] \in SignIn
  BY DEF Types
<1>2. /\ s \in SignIn /\ s.stage = "done"
      /\ s.status = IF IsCurrent(a) THEN st ELSE signin[a].status
      /\ s.page = signin[a].page /\ s.click = signin[a].click
      /\ s.family = signin[a].family
  BY <1>1 DEF SignIn
<1>3. signin' = [signin EXCEPT ![a] = s]
  BY DEF Types
<1> HIDE DEF s
<1>4. signin'[a] = s /\ signin' \in [Attempt -> SignIn]
      /\ \A b \in Attempt \ {a} : signin'[b] = signin[b]
  BY <1>2, <1>3 DEF Types
<1>5. Running(a) <=> IsCurrent(a)
  BY DEF LastRuns, IsCurrent
<1>6. s.status # "running"
  BY <1>2, <1>5 DEF Running
<1>7. QED
  BY <1>2, <1>4, <1>6 DEF Goes, Running

\* The steps of a sign-in.
SignInStep(a) ==
  \/ Ask(a) \/ SubmitPrompt(a) \/ Commit(a) \/ LoginFails(a) \/ Probed(a)
  \/ LoginReturns(a) \/ ReadBack(a) \/ Saved(a) \/ Timeout(a)

LEMMA SignInGoes ==
  ASSUME Types, LastRuns, NEW a \in Attempt, SignInStep(a),
         ~(Probed(a) /\ signin' = [signin EXCEPT ![a].stage = "login"])
  PROVE  Goes(a)
<1>1. signin[a].stage # "none"
  BY DEF SignInStep, Ask, SubmitPrompt, Commit, LoginFails, Probed, LoginReturns, ReadBack,
     Saved, Timeout, LastRuns, Running
<1>2. CASE Ask(a)
  BY <1>1, <1>2, StageGoes DEF Ask, IsCurrent, Running
<1>3. CASE SubmitPrompt(a)
  BY <1>1, <1>3, StageGoes DEF SubmitPrompt, LastRuns
<1>4. CASE Commit(a)
  BY <1>1, <1>4, StageGoes DEF Commit
<1>5. CASE LoginFails(a)
  BY <1>1, <1>5, EndGoes DEF LoginFails, Fail
<1>6. CASE Probed(a)
  BY <1>1, <1>6, EndGoes DEF Probed
<1>7. CASE LoginReturns(a)
  <2>1. (IF IsCurrent(a) THEN "reading" ELSE "done") \in {"reading", "done"}
    OBVIOUS
  <2>2. QED
    BY <1>1, <1>7, <2>1, StageGoes DEF LoginReturns
<1>8. CASE ReadBack(a)
  BY <1>1, <1>8, StageGoes, EndGoes DEF ReadBack, Fail
<1>9. CASE Saved(a)
  <2>1. CASE IsCurrent(a)
    <3>1. signin' = [signin EXCEPT ![a].stage = "done",
                                   ![a].status = IF IsCurrent(a) THEN "authorized" ELSE @]
      BY <1>9, <2>1 DEF Saved
    <3>2. QED
      BY <1>1, <3>1, EndGoes
  <2>2. CASE ~IsCurrent(a)
    BY <1>1, <1>9, <2>2, StageGoes DEF Saved
  <2>3. QED
    BY <2>1, <2>2
<1>10. CASE Timeout(a)
  BY <1>1, <1>10, CancelledOnly DEF Timeout, Goes, LastRuns
<1>11. QED
  BY <1>2, <1>3, <1>4, <1>5, <1>6, <1>7, <1>8, <1>9, <1>10 DEF SignInStep

LEMMA CancelledGoes ==
  ASSUME Types, LastRuns, NEW a \in Attempt \cup {None}, signin' = Cancelled(a)
  PROVE  UNCHANGED signin \/ (a \in Attempt /\ Goes(a))
<1>1. CASE a # None /\ Running(a)
  <2>1. a \in Attempt /\ signin[a].stage # "none"
    BY <1>1 DEF LastRuns, Running
  <2>2. QED
    BY <1>1, <2>1, CancelledOnly DEF Goes, LastRuns
<1>2. CASE ~(a # None /\ Running(a))
  BY <1>2 DEF Cancelled
<1>3. QED
  BY <1>1, <1>2

-----------------------------------------------------------------------------
(* A sign-in that runs is owned *)

\* Sign-ins go on, end or stay as they were.
Onward ==
  \A b \in Attempt :
    /\ signin'[b].page = signin[b].page /\ signin'[b].click = signin[b].click
    /\ signin'[b].family = signin[b].family
    /\ signin'[b].stage = "none" <=> signin[b].stage = "none"
    /\ signin'[b].stage = "none" => signin'[b].status = "none"
    /\ signin'[b].stage \in {"probe", "login", "asked"} =>
         signin'[b].status \in {"running", "cancelled"}
    /\ Running(b)' => Running(b)
    /\ Running(b)' /\ signin[b].stage = "probe" => signin'[b].stage = "probe"

LEMMA GoesGoOn ==
  ASSUME LastRuns, UNCHANGED signin \/ \E a \in Attempt : Goes(a)
  PROVE  Onward
<1>1. CASE UNCHANGED signin
  BY <1>1 DEF Onward, LastRuns, Running
<1>2. ASSUME NEW a \in Attempt, Goes(a) PROVE Onward
  BY <1>2 DEF Onward, LastRuns, Goes, Running
<1>3. QED
  BY <1>1, <1>2

LEMMA GoOnKeepsSignIn ==
  ASSUME Types, SignInInv, Onward, UNCHANGED <<attempt, panel>>,
         \A b \in Attempt : Running(b)' => up',
         net' \subseteq net,
         \A m \in net \ net' : m.type = "cancel" /\ ~Running(m.sign)'
  PROVE  SignInInv'
<1> USE DEF SignInInv
<1>1. \A b \in Attempt :
        /\ signin'[b].page = signin[b].page /\ signin'[b].click = signin[b].click
        /\ signin'[b].family = signin[b].family
        /\ signin'[b].stage = "none" <=> signin[b].stage = "none"
        /\ Running(b)' => Running(b)
        /\ Running(b)' /\ signin[b].stage = "probe" => signin'[b].stage = "probe"
  BY DEF Onward
<1>2. LastRuns'
  BY <1>1 DEF LastRuns, Onward
<1>3. Clicks'
  BY <1>1 DEF Clicks, Starts, FromClick
<1>4. Answers'
  <2>1. \A m \in net : m.type = "started" => m.sign \in Attempt
    BY MessageFields DEF Types
  <2>2. \A p \in Page : panel[p].owned # None => panel[p].owned \in Attempt
    BY DEF Types, Panel
  <2>3. QED
    BY <1>1, <2>1, <2>2 DEF Answers, FromClick
<1>5. SignInIsOwned'
  <2> SUFFICES ASSUME NEW b \in Attempt, Running(b)'
               PROVE  /\ attempt' = b
                      /\ \/ panel'[Owner(b)'].state = "gone"
                         \/ signin'[b].stage = "probe"
                         \/ panel'[Owner(b)'].owned = b
                         \/ \E m \in net' : m.type \in {"started", "cancel"} /\ m.sign = b
    BY DEF SignInIsOwned
  <2>1. Running(b) /\ Owner(b)' = Owner(b)
    BY <1>1 DEF Owner
  <2>2. CASE \E m \in net : m.type \in {"started", "cancel"} /\ m.sign = b
    BY <2>1, <2>2 DEF SignInIsOwned
  <2>3. CASE ~\E m \in net : m.type \in {"started", "cancel"} /\ m.sign = b
    BY <1>1, <2>1, <2>3 DEF SignInIsOwned
  <2>4. QED
    BY <2>2, <2>3
<1>6. QED
  BY <1>2, <1>3, <1>4, <1>5

LEMMA SameKeepsSignIn ==
  ASSUME SignInInv, UNCHANGED <<signin, attempt, panel, net, up>>
  PROVE  SignInInv'
  BY DEF SignInInv, LastRuns, Clicks, Starts, Answers, FromClick, SignInIsOwned, Running, Owner

\* The answer is on its way, unless nobody is there to hear it.
LEMMA ProbedKeepsSignIn ==
  ASSUME Types, SignInInv, NEW a \in Attempt, Probed(a),
         signin' = [signin EXCEPT ![a].stage = "login"], Tell(net \cup {Started(a)}),
         IsCurrent(a)
  PROVE  SignInInv'
<1> USE DEF SignInInv
<1>1. signin[a] \in SignIn /\ signin[a].stage = "probe" /\ UNCHANGED <<attempt, panel, up>>
  BY DEF Types, Probed, hostVars
<1>2. /\ signin'[a] = [signin[a] EXCEPT !.stage = "login"]
      /\ \A b \in Attempt \ {a} : signin'[b] = signin[b]
  BY DEF Types
<1>3. /\ signin'[a].page = signin[a].page /\ signin'[a].click = signin[a].click
      /\ signin'[a].family = signin[a].family /\ signin'[a].stage = "login"
      /\ signin'[a].status = signin[a].status /\ Running(a)
  BY <1>1, <1>2 DEF SignIn, IsCurrent
<1>4. \A b \in Attempt :
        /\ signin'[b].page = signin[b].page /\ signin'[b].click = signin[b].click
        /\ signin'[b].family = signin[b].family
        /\ signin'[b].stage = "none" <=> signin[b].stage = "none"
        /\ Running(b)' <=> Running(b)
  BY <1>1, <1>2, <1>3 DEF Running
<1>5. \A m \in net' : m \in net \/ m = Started(a)
  BY DEF Tell
<1>6. /\ Started(a).type = "started" /\ Started(a).page = signin[a].page
      /\ Started(a).click = signin[a].click /\ Started(a).sign = a
  BY DEF Started, Owner
<1>7. LastRuns'
  BY <1>1, <1>2, <1>3, <1>4 DEF LastRuns, Running
<1>8. Clicks'
  <2>1. \A m \in net' : m.type = "start" => m \in Starts
    BY <1>5, <1>6 DEF Starts
  <2>2. QED
    BY <1>1, <1>4, <2>1 DEF Clicks, Starts, FromClick
<1>9. Answers'
  <2>1. \A m \in net : m.type = "started" => m.sign \in Attempt
    BY MessageFields DEF Types
  <2>2. \A p \in Page : panel[p].owned # None => panel[p].owned \in Attempt
    BY DEF Types, Panel
  <2>3. \A m \in net' : m.type = "started" => FromClick(m.sign, m.page, m.click)'
    BY <1>1, <1>4, <1>5, <1>6, <2>1 DEF Answers, FromClick
  <2>4. QED
    BY <1>1, <1>4, <2>2, <2>3 DEF Answers, FromClick
<1>10. SignInIsOwned'
  <2> SUFFICES ASSUME NEW b \in Attempt, Running(b)'
               PROVE  /\ attempt' = b
                      /\ \/ panel'[Owner(b)'].state = "gone"
                         \/ \E m \in net' : m.type \in {"started", "cancel"} /\ m.sign = b
    BY DEF SignInIsOwned
  <2>1. b = a /\ attempt' = b /\ Owner(b)' = signin[a].page
    BY <1>1, <1>3, <1>4 DEF LastRuns, Owner
  <2>2. QED
    BY <1>1, <1>6, <2>1 DEF Tell
<1>11. QED
  BY <1>7, <1>8, <1>9, <1>10

\* A new sign-in takes the place of one that ended, for a click nobody used yet.
LEMMA StartKeepsSignIn ==
  ASSUME Types, SignInInv, NEW m \in net, StartLogin(m)
  PROVE  SignInInv'
<1> USE DEF SignInInv
<1>1. /\ m.type = "start" /\ m.page \in Page /\ m.click \in 1..MaxClicks /\ m.family \in Family
      /\ UNCHANGED <<panel, up>>
  BY MessageFields DEF Types, StartLogin
<1>2. CASE ~up \/ (attempt # None /\ Running(attempt))
  <2>1. net' = net \ {m} /\ UNCHANGED <<attempt, signin>>
    BY <1>2 DEF StartLogin
  <2>2. LastRuns' /\ Answers'
    BY <1>1, <2>1 DEF LastRuns, Answers, FromClick, Running
  <2>3. Clicks'
    BY <1>1, <2>1 DEF Clicks, Starts, FromClick
  <2>4. SignInIsOwned'
    BY <1>1, <2>1 DEF SignInIsOwned, Running, Owner
  <2>5. QED
    BY <2>2, <2>3, <2>4
<1>3. CASE ~(~up \/ (attempt # None /\ Running(attempt)))
  <2> DEFINE sg == IF m.family \in Ported THEN "probe" ELSE "login"
             new(a) == [family |-> m.family, page |-> m.page, click |-> m.click,
                        status |-> "running", stage |-> sg]
             ans(a) == [type |-> "started", page |-> m.page, click |-> m.click, sign |-> a]
  <2>1. PICK a \in Attempt :
          /\ signin[a].stage = "none"
          /\ attempt' = a
          /\ signin' = [signin EXCEPT ![a] = new(a)]
          /\ Tell((net \ {m}) \cup IF m.family \in Ported THEN {} ELSE {ans(a)})
    BY <1>3 DEF StartLogin
  <2>2. \A b \in Attempt : ~Running(b)
    BY <1>3, SubscriptionsAssumption DEF LastRuns
  <2>3. /\ signin'[a] = new(a) /\ \A b \in Attempt \ {a} : signin'[b] = signin[b]
    BY <2>1 DEF Types
  <2>4. /\ signin'[a].page = m.page /\ signin'[a].click = m.click
        /\ signin'[a].family = m.family /\ signin'[a].status = "running"
        /\ signin'[a].stage = sg /\ sg \in {"probe", "login"}
    BY <2>3
  <2>5. /\ ans(a).type = "started" /\ ans(a).page = m.page
        /\ ans(a).click = m.click /\ ans(a).sign = a
    OBVIOUS
  <2>6. \A n \in net' : n \in net \ {m} \/ n = ans(a)
    BY <2>1 DEF Tell
  <2>7. m.click <= panel[m.page].click /\ m.family = panel[m.page].family
    BY <1>1 DEF Clicks, Starts
  <2>8. \A n \in Starts : n # m => ~(n.page = m.page /\ n.click = m.click)
    <3>1. ASSUME NEW n \in Starts, n.page = m.page, n.click = m.click PROVE n = m
      <4>1. n.family = m.family
        BY <1>1, <3>1 DEF Clicks, Starts
      <4>2. n \in Message /\ m \in Message /\ n.type = "start" /\ m.type = "start"
        BY <1>1 DEF Types, Starts
      <4>3. QED
        BY <3>1, <4>1, <4>2 DEF Message
    <3>2. QED
      BY <3>1
  <2>9. \A b \in Attempt : ~FromClick(b, m.page, m.click)
    BY <1>1 DEF Clicks, Starts
  <2> HIDE DEF sg, new, ans
  <2>10. LastRuns'
    BY <1>1, <1>3, <2>1, <2>2, <2>3, <2>4 DEF LastRuns, Running
  <2>11. Clicks'
    <3>1. \A n \in Starts' : n \in Starts /\ n # m
      BY <2>5, <2>6 DEF Starts
    <3>2. \A n \in Starts' : n.family = panel[n.page].family /\ n.click <= panel[n.page].click
      BY <3>1 DEF Clicks
    <3>3. \A n \in Starts', b \in Attempt : ~FromClick(b, n.page, n.click)'
      BY <2>3, <2>4, <2>8, <3>1 DEF Clicks, FromClick
    <3>4. \A b \in Attempt : signin'[b].stage # "none" =>
            /\ signin'[b].page \in Page /\ signin'[b].family \in Family
            /\ signin'[b].click \in 1..panel[signin'[b].page].click
      BY <1>1, <2>3, <2>4, <2>7 DEF Clicks, Types, Panel
    <3>5. \A b, c \in Attempt :
            signin'[b].stage # "none" /\ FromClick(c, signin[b].page, signin[b].click)'
              => b = c
      <4> SUFFICES ASSUME NEW b \in Attempt, NEW c \in Attempt, signin'[b].stage # "none",
                          FromClick(c, signin[b].page, signin[b].click)'
                   PROVE  b = c
        OBVIOUS
      <4>1. CASE b = a /\ c # a
        BY <2>3, <2>4, <2>9, <4>1 DEF FromClick
      <4>2. CASE b # a /\ c = a
        BY <2>3, <2>4, <2>9, <4>2 DEF FromClick
      <4>3. CASE b # a /\ c # a
        BY <2>3, <4>3 DEF Clicks, FromClick
      <4>4. QED
        BY <4>1, <4>2, <4>3
    <3>6. QED
      BY <1>1, <3>2, <3>3, <3>4, <3>5 DEF Clicks
  <2>12. Answers'
    <3>1. \A n \in net : n.type = "started" => n.sign \in Attempt
      BY MessageFields DEF Types
    <3>2. \A p \in Page : panel[p].owned # None => panel[p].owned \in Attempt
      BY DEF Types, Panel
    <3>3. \A b \in Attempt : \A p, k : FromClick(b, p, k) => FromClick(b, p, k)'
      BY <2>1, <2>3 DEF FromClick
    <3>4. FromClick(a, m.page, m.click)'
      BY <2>4 DEF FromClick
    <3>5. QED
      BY <1>1, <2>5, <2>6, <3>1, <3>2, <3>3, <3>4 DEF Answers
  <2>13. SignInIsOwned'
    <3> SUFFICES ASSUME NEW b \in Attempt, Running(b)'
                 PROVE  /\ attempt' = b
                        /\ \/ panel'[Owner(b)'].state = "gone"
                           \/ signin'[b].stage = "probe"
                           \/ \E n \in net' : n.type \in {"started", "cancel"} /\ n.sign = b
      BY DEF SignInIsOwned
    <3>1. b = a
      BY <2>2, <2>3 DEF Running
    <3>2. Owner(b)' = m.page
      BY <2>4, <3>1 DEF Owner
    <3>3. CASE m.family \in Ported
      BY <2>1, <2>4, <3>1, <3>3 DEF sg
    <3>4. CASE m.family \notin Ported
      BY <1>1, <2>1, <2>5, <3>1, <3>2, <3>4 DEF Tell
    <3>5. QED
      BY <2>1, <3>1, <3>3, <3>4
  <2>14. QED
    BY <2>10, <2>11, <2>12, <2>13
<1>4. QED
  BY <1>2, <1>3

-----------------------------------------------------------------------------
(* The types *)

LEMMA TypesAreTypeOK == Types <=> TypeOK
  BY DEF Types, TypeOK, SignIn, Panel, Asked, Hydration

LEMMA FamiliesAreNumbers == Family \subseteq Nat /\ 1 \in Family
  BY SubscriptionsAssumption DEF Family

\* The dropping of grants goes from family to family.
LEMMA FirstIsFamily ==
  ASSUME NEW S \in SUBSET Family, S # {}
  PROVE  First(S) \in S
<1>1. \E f \in S : \A g \in S : f <= g
  BY Least, FamiliesAreNumbers
<1>2. QED
  BY <1>1 DEF First

LEMMA ConfigChangedTypes ==
  ASSUME Types, ConfigChanged
  PROVE  prunes' \subseteq [listed : SUBSET Family, family : Family]
         /\ directory' \subseteq Family
<1> DEFINE todo == ToPrune(DOMAIN live, 1, connected)
<1>1. todo \subseteq Family /\ DOMAIN live \subseteq Family
  BY ListingDomain DEF ToPrune, Types
<1>2. CASE todo = {}
  BY <1>1, <1>2 DEF ConfigChanged, Types
<1>3. CASE todo # {}
  <2>1. First(todo) \in Family
    BY <1>1, <1>3, FirstIsFamily
  <2> HIDE DEF todo
  <2>2. [listed |-> DOMAIN live, family |-> First(todo)]
          \in [listed : SUBSET Family, family : Family]
    BY <1>1, <2>1
  <2>3. prunes' = prunes \cup {[listed |-> DOMAIN live, family |-> First(todo)]}
        /\ directory' = directory
    BY <1>3 DEF ConfigChanged, todo
  <2>4. QED
    BY <2>2, <2>3 DEF Types
<1>4. QED
  BY <1>2, <1>3

LEMMA PruneTypes ==
  ASSUME Types, NEW p \in prunes, Prune(p)
  PROVE  /\ prunes' \subseteq [listed : SUBSET Family, family : Family]
         /\ directory' \subseteq Family /\ routes' \subseteq Family
         /\ granted' \subseteq Family /\ connected' \subseteq Family
<1> DEFINE todo == IF up THEN ToPrune(p.listed, p.family + 1, connected') ELSE {}
<1>1. granted' \subseteq Family /\ connected' \subseteq Family /\ DOMAIN live \subseteq Family
  BY ListingDomain DEF Prune, Types
<1>2. todo \subseteq Family
  BY <1>1 DEF ToPrune
<1>3. PruneNext(p, p.family + 1)
  BY DEF Prune
<1>4. CASE todo = {}
  <2>1. /\ prunes' = prunes \ {p} /\ routes' = Routes(connected')
        /\ directory' = IF up THEN DOMAIN live ELSE {}
    BY <1>3, <1>4 DEF PruneNext
  <2>2. QED
    BY <1>1, <2>1 DEF Types, Routes
<1>5. CASE todo # {}
  <2>1. First(todo) \in Family
    BY <1>2, <1>5, FirstIsFamily
  <2>2. /\ prunes' = (prunes \ {p}) \cup {[p EXCEPT !.family = First(todo)]}
        /\ routes' = routes /\ directory' = directory
    BY <1>3, <1>5 DEF PruneNext
  <2> HIDE DEF todo
  <2>3. [p EXCEPT !.family = First(todo)] \in [listed : SUBSET Family, family : Family]
    BY <2>1 DEF Types
  <2>4. QED
    BY <1>1, <2>2, <2>3 DEF Types
<1>6. QED
  BY <1>4, <1>5

\* A replacement that was sent is one that waits.
LEMMA ReplacementTypes ==
  ASSUME Types, NEW w \in Writer, write[w] # None
  PROVE  /\ write[w].config \in Listing
         /\ [write[w] EXCEPT !.stage = "sent"] \in Replacement
         /\ [write[w] EXCEPT !.stage = "sent"] # None
<1>1. write[w] \in Replacement
  BY DEF Types
<1>2. write[w].config \in Listing /\ [write[w] EXCEPT !.stage = "sent"] \in Replacement
  BY <1>1 DEF Replacement
<1>3. QED
  BY <1>2, SubscriptionsAssumption

LEMMA EditWrites ==
  ASSUME Types, NEW w \in Writer, Edit(w)
  PROVE  /\ write' \in [Writer -> Replacement \cup {None}]
         /\ \A v \in Writer : write'[v] # None <=> write[v] # None
<1> DEFINE r == [write[w] EXCEPT !.stage = "sent"]
<1>1. r \in Replacement /\ r # None /\ write[w] # None
  BY ReplacementTypes DEF Edit
<1>2. write' = [write EXCEPT ![w] = r]
  BY DEF Edit
<1> HIDE DEF r
<1>3. QED
  BY <1>1, <1>2 DEF Types

\* The parts of the state that a sign-in's steps change keep their types.
LEMMA SignInTypes ==
  ASSUME Types, SignInInv, NEW a \in Attempt, SignInStep(a)
  PROVE  Types'
<1> USE DEF SignInInv
<1>1. signin' \in [Attempt -> SignIn]
  <2>1. CASE Probed(a) /\ signin' = [signin EXCEPT ![a].stage = "login"]
    <3> DEFINE s == [signin[a] EXCEPT !.stage = "login"]
    <3>1. s \in SignIn
      BY DEF Types, SignIn
    <3>2. signin' = [signin EXCEPT ![a] = s]
      BY <2>1 DEF Types
    <3> HIDE DEF s
    <3>3. QED
      BY <3>1, <3>2 DEF Types
  <2>2. CASE ~(Probed(a) /\ signin' = [signin EXCEPT ![a].stage = "login"])
    BY <2>2, SignInGoes DEF Goes
  <2>3. QED
    BY <2>1, <2>2
<1>2. signin[a].stage # "none" =>
        signin[a].family \in Family /\ signin[a].page \in Page
        /\ signin[a].click \in 1..MaxClicks
  <2>1. \A p \in Page : panel[p].click \in 0..MaxClicks
    BY DEF Types, Panel
  <2>2. QED
    BY <2>1, SubscriptionsAssumption DEF Clicks
<1>3. CASE Ask(a) \/ SubmitPrompt(a) \/ LoginFails(a) \/ LoginReturns(a) \/ Timeout(a)
  BY <1>1, <1>3 DEF Ask, SubmitPrompt, LoginFails, LoginReturns, Timeout, Stays, Types,
     hostVars, confVars, pageVars
<1>4. CASE Commit(a)
  BY <1>1, <1>2, <1>4 DEF Commit, Types, confVars, pageVars
<1>5. CASE Probed(a)
  <2>1. Started(a) \in Message
    BY <1>2, <1>5 DEF Started, Owner, Message, Probed
  <2>2. net' \subseteq Message
    BY <1>5, <2>1 DEF Probed, Tell, Types
  <2>3. QED
    BY <1>1, <1>5, <2>2 DEF Probed, Types, hostVars, confVars
<1>6. CASE ReadBack(a)
  <2>1. CASE IsCurrent(a) /\ signin[a].family \in granted
    <3>1. signin[a].family \in Family /\ WithProvider(live, signin[a].family) \in Listing
      BY <1>2, <1>6, WithProviderTypes DEF ReadBack, Types
    <3>2. Change(a, WithProvider(live, signin[a].family))
      BY <1>6, <2>1 DEF ReadBack
    <3>3. write' \in [Writer -> Replacement \cup {None}]
      BY <3>1, <3>2, ChangeTypes DEF Writer
    <3>4. QED
      BY <1>1, <1>6, <3>3 DEF ReadBack, Types, hostVars, confVars, pageVars
  <2>2. CASE ~(IsCurrent(a) /\ signin[a].family \in granted)
    BY <1>1, <1>6, <2>2 DEF ReadBack, Types, hostVars, confVars, pageVars
  <2>3. QED
    BY <2>1, <2>2
<1>7. CASE Saved(a)
  <2>1. prunes' \subseteq [listed : SUBSET Family, family : Family] /\ directory' \subseteq Family
    BY <1>7, ConfigChangedTypes DEF Saved, Types
  <2>2. connected' \subseteq Family /\ routes' \subseteq Family
    BY <1>2, <1>7 DEF Saved, Types, Connect, Routes
  <2>3. write' \in [Writer -> Replacement \cup {None}]
    BY <1>7 DEF Saved, Types
  <2>4. QED
    BY <1>1, <1>7, <2>1, <2>2, <2>3 DEF Saved, Types, confVars, pageVars
<1>8. QED
  BY <1>3, <1>4, <1>5, <1>6, <1>7 DEF SignInStep

LEMMA StartTypes ==
  ASSUME Types, NEW m \in net, StartLogin(m)
  PROVE  Types'
<1>1. m.page \in Page /\ m.click \in 1..MaxClicks /\ m.family \in Family
  BY MessageFields DEF Types, StartLogin
<1>2. CASE ~up \/ (attempt # None /\ Running(attempt))
  BY <1>2 DEF StartLogin, Types, confVars
<1>3. CASE ~(~up \/ (attempt # None /\ Running(attempt)))
  <2> DEFINE new(a) == [family |-> m.family, page |-> m.page, click |-> m.click,
                        status |-> "running",
                        stage |-> IF m.family \in Ported THEN "probe" ELSE "login"]
             ans(a) == [type |-> "started", page |-> m.page, click |-> m.click, sign |-> a]
  <2>1. PICK a \in Attempt :
          /\ attempt' = a
          /\ signin' = [signin EXCEPT ![a] = new(a)]
          /\ signedOut' = signedOut \ {m.family}
          /\ Tell((net \ {m}) \cup IF m.family \in Ported THEN {} ELSE {ans(a)})
    BY <1>3 DEF StartLogin
  <2>2. new(a) \in SignIn /\ ans(a) \in Message
    BY <1>1 DEF SignIn, Message
  <2> HIDE DEF new, ans
  <2>3. signin' \in [Attempt -> SignIn] /\ net' \subseteq Message
    BY <2>1, <2>2 DEF Types, Tell
  <2>4. QED
    BY <2>1, <2>3 DEF StartLogin, Types, confVars
<1>4. QED
  BY <1>2, <1>3

LEMMA MoveTypes ==
  ASSUME Types, Asking, NEW r \in Request, request[r].stage # "none",
         NEW sg \in {"deleting", "fetching", "writing", "between", "second", "done", "failed"},
         request' = Move(r, sg)
  PROVE  /\ request' \in [Request -> Asked] /\ Asking'
         /\ \A q \in Request \ {r} : request'[q] = request[q]
         /\ request'[r].stage = sg
<1> DEFINE s == [request[r] EXCEPT !.stage = sg]
<1>1. request[r] \in Asked
  BY DEF Types
<1>2. s \in Asked /\ s.family = request[r].family /\ s.stage = sg
  BY <1>1 DEF Asked
<1>3. request' = [request EXCEPT ![r] = s]
  BY DEF Move, Types
<1> HIDE DEF s
<1>4. /\ request'[r] = s /\ request' \in [Request -> Asked]
      /\ \A q \in Request \ {r} : request'[q] = request[q]
  BY <1>2, <1>3 DEF Types
<1>5. QED
  BY <1>2, <1>4 DEF Asking

\* The parts of the state that a request's steps change keep their types.
RequestStep(r) ==
  \/ Submit(r) \/ Fetched(r) \/ Deleted(r) \/ GoOn(r) \/ Settled(r) \/ NotWritten(r)

LEMMA SubmitTypes ==
  ASSUME Types, Asking, NEW r \in Request, Submit(r)
  PROVE  Types' /\ Asking'
<1> DEFINE new(op, f, m, sg) == [op |-> op, family |-> f, models |-> m, stage |-> sg]
<1>1. ASSUME NEW op \in Ops, NEW f \in Family, NEW m \in Catalogue,
             NEW sg \in {"deleting", "fetching", "writing", "second", "failed"},
             request' = [request EXCEPT ![r] = new(op, f, m, sg)]
      PROVE  request' \in [Request -> Asked] /\ Asking'
  <2>1. new(op, f, m, sg) \in Asked /\ new(op, f, m, sg).family \in Family
    BY DEF Asked
  <2> HIDE DEF new
  <2>2. QED
    BY <1>1, <2>1 DEF Types, Asking
<1>2. PICK op \in Ops, f \in Family, m \in Catalogue :
       \/ /\ request' = [request EXCEPT ![r] =
                new(op, f, m, IF op = "set" THEN "second" ELSE "writing")]
          /\ Change(r, IF op = "set" THEN WithModels(live, f, m) ELSE WithProvider(live, f))
          /\ UNCHANGED signin
       \/ /\ request' = [request EXCEPT ![r] =
                new(op, f, m, IF f \in connected THEN "fetching" ELSE "failed")]
          /\ UNCHANGED <<signin, write>>
       \/ /\ request' = [request EXCEPT ![r] = new(op, f, m, "deleting")]
          /\ signin' = IF attempt # None /\ signin[attempt].family = f
                       THEN Cancelled(attempt) ELSE signin
          /\ UNCHANGED write
  BY DEF Submit
<1> HIDE DEF new
<1>3. request' \in [Request -> Asked] /\ Asking'
  BY <1>1, <1>2
<1>4. write' \in [Writer -> Replacement \cup {None}]
  <2>1. WithModels(live, f, m) \in Listing /\ WithProvider(live, f) \in Listing
    BY WithModelsTypes, WithProviderTypes DEF Types
  <2>2. QED
    BY <1>2, <2>1, ChangeTypes DEF Writer, Types
<1>5. signin' \in [Attempt -> SignIn]
  BY <1>2, CancelledOnly DEF Types
<1>6. QED
  BY <1>3, <1>4, <1>5 DEF Submit, Types, hostVars, confVars, pageVars

LEMMA RequestTypes ==
  ASSUME Types, Asking, NEW r \in Request, RequestStep(r)
  PROVE  Types' /\ Asking'
<1>1. request[r] \in Asked /\ r \in Writer
  BY DEF Types, Writer
<1>2. CASE Submit(r)
  BY <1>2, SubmitTypes
<1> SUFFICES ASSUME ~Submit(r), request[r].stage # "none"
             PROVE  Types' /\ Asking'
  BY <1>2 DEF RequestStep, Fetched, Deleted, GoOn, Settled, NotWritten
<1>3. request[r].family \in Family /\ request[r].models \in Catalogue
  BY <1>1 DEF Asked, Asking
<1>4. \A f \in Family, m \in Catalogue :
        /\ WithModels(live, f, m) \in Listing /\ WithoutProvider(live, f) \in Listing
        /\ \A c \in Listing : Change(r, c) => write' \in [Writer -> Replacement \cup {None}]
  BY <1>1, WithModelsTypes, WithoutProviderTypes, ChangeTypes DEF Types
<1>5. CASE Fetched(r)
  <2>1. request' \in [Request -> Asked] /\ Asking'
    BY <1>5, MoveTypes DEF Fetched
  <2>2. write' \in [Writer -> Replacement \cup {None}]
    BY <1>3, <1>4, <1>5 DEF Fetched, Types
  <2>3. QED
    BY <1>5, <2>1, <2>2 DEF Fetched, Types, hostVars, confVars, pageVars
<1>6. CASE Deleted(r)
  <2>1. request' \in [Request -> Asked] /\ Asking'
    <3>1. \E sg \in {"between", "done", "failed"} : request' = Move(r, sg)
      BY <1>6 DEF Deleted, Answered
    <3>2. QED
      BY <3>1, MoveTypes
  <2>2. QED
    BY <1>3, <1>6, <2>1 DEF Deleted, Types, Connect, Routes, confVars, pageVars
<1>7. CASE GoOn(r)
  <2>1. request' \in [Request -> Asked] /\ Asking'
    BY <1>7, MoveTypes DEF GoOn
  <2>2. write' \in [Writer -> Replacement \cup {None}]
    BY <1>3, <1>4, <1>7 DEF GoOn, Types
  <2>3. QED
    BY <1>7, <2>1, <2>2 DEF GoOn, Types, hostVars, confVars, pageVars
<1>8. CASE Settled(r)
  <2>1. request' \in [Request -> Asked] /\ Asking'
    <3>1. \E sg \in {"between", "done", "failed"} : request' = Move(r, sg)
      BY <1>8 DEF Settled, Answered
    <3>2. QED
      BY <3>1, MoveTypes
  <2>2. write' \in [Writer -> Replacement \cup {None}]
    BY <1>8 DEF Settled, Types
  <2>3. /\ prunes' \subseteq [listed : SUBSET Family, family : Family]
        /\ directory' \subseteq Family
    BY <1>8, ConfigChangedTypes DEF Settled, Types
  <2>4. routes' \subseteq Family
    BY <1>8 DEF Settled, Types, Routes
  <2>5. QED
    BY <1>8, <2>1, <2>2, <2>3, <2>4 DEF Settled, Types, confVars, pageVars
<1>9. CASE NotWritten(r)
  <2>1. request' \in [Request -> Asked] /\ Asking'
    BY <1>9, MoveTypes DEF NotWritten
  <2>2. QED
    BY <1>9, <2>1 DEF NotWritten, Types, hostVars, confVars, pageVars
<1>10. QED
  BY <1>5, <1>6, <1>7, <1>8, <1>9 DEF RequestStep

LEMMA ConfigTypes ==
  ASSUME Types, Publish \/ (\E w \in Writer : Edit(w)) \/ (\E f \in Family : OutsideDelete(f))
  PROVE  Types'
<1>1. CASE Publish
  BY <1>1 DEF Publish, Types, hostVars, pageVars
<1>2. ASSUME NEW w \in Writer, Edit(w) PROVE Types'
  <2>1. write[w].config \in Listing
    BY <1>2, ReplacementTypes DEF Edit
  <2>2. QED
    BY <1>2, <2>1, EditWrites DEF Edit, Types, hostVars, pageVars
<1>3. ASSUME NEW f \in Family, OutsideDelete(f) PROVE Types'
  <2>1. saved' \in Listing
    BY <1>3, WithoutProviderTypes DEF OutsideDelete, Types
  <2>2. outside' \in 0..MaxOutside
    BY <1>3, SubscriptionsAssumption DEF OutsideDelete, Types
  <2>3. QED
    BY <1>3, <2>1, <2>2 DEF OutsideDelete, Types, hostVars, pageVars
<1>4. QED
  BY <1>1, <1>2, <1>3

LEMMA HydrateTypes ==
  ASSUME Types, Hydrate \/ HydrationSaved
  PROVE  Types'
<1>1. DOMAIN live \subseteq Family /\ "hydrate" \in Writer
  BY ListingDomain DEF Types, Writer
<1>2. CASE Hydrate
  <2> DEFINE f == hydration.at
             next == hydration.next \cup IF f \in granted THEN {f} ELSE {}
             over == f = Families /\ ~hydration.legacy
  <2>1. /\ f \in Family /\ hydration \in Hydration
        /\ hydration' = [hydration EXCEPT !.at = f + 1, !.next = next, !.over = over]
    BY <1>2 DEF Hydrate, Types
  <2>2. next \subseteq Family /\ over \in BOOLEAN
    BY <2>1 DEF Hydration
  <2>3. f + 1 \in Family \cup {Families + 1}
    BY <2>1, SubscriptionsAssumption DEF Family
  <2>4. hydration' \in Hydration
    <3> HIDE DEF f, next, over
    <3>1. QED
      BY <2>1, <2>2, <2>3 DEF Hydration
  <2>5. connected' \subseteq Family /\ routes' \subseteq Family /\ directory' \subseteq Family
    BY <1>1, <1>2, <2>2 DEF Hydrate, Types, Connect, Routes
  <2>6. write' \in [Writer -> Replacement \cup {None}]
    BY <1>1, <1>2, ChangeTypes DEF Hydrate, Types
  <2>7. QED
    BY <1>2, <2>4, <2>5, <2>6 DEF Hydrate, Types, confVars, pageVars
<1>3. CASE HydrationSaved
  <2>1. hydration' \in Hydration
    BY <1>3 DEF HydrationSaved, Types, Hydration
  <2>2. write' \in [Writer -> Replacement \cup {None}]
    BY <1>3 DEF HydrationSaved, Types
  <2>3. QED
    BY <1>1, <1>3, <2>1, <2>2 DEF HydrationSaved, Types, confVars, pageVars
<1>4. QED
  BY <1>2, <1>3

LEMMA HostTypes ==
  ASSUME Types,
         \/ \E p \in prunes : Prune(p) \/ PruneFails(p)
         \/ \E m \in net : CancelLogin(m)
         \/ Dispose
  PROVE  Types'
<1>1. ASSUME NEW p \in prunes, Prune(p) PROVE Types'
  BY <1>1, PruneTypes DEF Prune, Types, confVars, pageVars
<1>2. ASSUME NEW p \in prunes, PruneFails(p) PROVE Types'
  BY <1>2 DEF PruneFails, Types, confVars, pageVars
<1>3. ASSUME NEW m \in net, CancelLogin(m) PROVE Types'
  <2>1. m.sign \in Attempt
    BY <1>3, MessageFields DEF CancelLogin, Types
  <2>2. signin' \in [Attempt -> SignIn]
    BY <1>3, <2>1, CancelledOnly DEF CancelLogin, Types
  <2>3. QED
    BY <1>3, <2>2 DEF CancelLogin, Types, hostVars, confVars
<1>4. CASE Dispose
  <2>1. signin' \in [Attempt -> SignIn]
    BY <1>4, CancelledOnly DEF Dispose, Types
  <2>2. QED
    BY <1>4, <2>1 DEF Dispose, Types, confVars, pageVars
<1>5. QED
  BY <1>1, <1>2, <1>3, <1>4

\* The steps of a panel.
PanelStep(p) == Click(p) \/ Poll(p) \/ CancelClick(p) \/ Close(p) \/ Vanish(p)

LEMMA PanelTypes ==
  ASSUME Types, SignInInv,
         (\E p \in Page : PanelStep(p)) \/ (\E m \in net : HearStarted(m))
  PROVE  Types'
<1>1. UNCHANGED HostStays
  BY DEF PanelStep, Click, Poll, CancelClick, Close, Vanish, HearStarted
<1> SUFFICES panel' \in [Page -> Panel] /\ net' \subseteq Message
  BY <1>1 DEF HostStays, hostVars, confVars, Types
<1>2. ASSUME NEW p \in Page, PanelStep(p)
      PROVE  panel' \in [Page -> Panel] /\ net' \subseteq Message
  <2>1. panel[p] \in Panel
    BY DEF Types
  <2>2. CASE Click(p)
    <3> DEFINE k == panel[p].click + 1
    <3>1. k \in 1..MaxClicks /\ panel[p].family \in Family
      BY <2>1, <2>2, SubscriptionsAssumption DEF Click, Panel
    <3>2. [panel[p] EXCEPT !.click = k] \in Panel
      BY <2>1, <3>1 DEF Panel
    <3>3. panel' = [panel EXCEPT ![p] = [panel[p] EXCEPT !.click = k]]
      BY <2>2 DEF Click, Types
    <3>4. [type |-> "start", page |-> p, click |-> k, family |-> panel[p].family] \in Message
      BY <3>1 DEF Message
    <3>5. net' = net \cup {[type |-> "start", page |-> p, click |-> k, family |-> panel[p].family]}
      BY <2>2 DEF Click
    <3> HIDE DEF k
    <3>6. QED
      BY <3>2, <3>3, <3>4, <3>5 DEF Types
  <2>3. CASE Poll(p)
    BY <2>1, <2>3 DEF Poll, Types, Panel
  <2>4. CASE CancelClick(p)
    BY <2>1, <2>4 DEF CancelClick, Types, Panel, Message
  <2>5. CASE Close(p)
    <3>1. [panel[p] EXCEPT !.state = "closed", !.owned = None] \in Panel
      BY <2>1 DEF Panel
    <3>2. panel' = [panel EXCEPT ![p] = [panel[p] EXCEPT !.state = "closed", !.owned = None]]
      BY <2>5 DEF Close, Types
    <3>3. panel[p].owned # None =>
            [type |-> "cancel", page |-> p, sign |-> panel[p].owned] \in Message
      BY <2>1 DEF Panel, Message
    <3>4. QED
      BY <2>5, <3>1, <3>2, <3>3 DEF Close, Types
  <2>6. CASE Vanish(p)
    <3>1. [panel[p] EXCEPT !.state = "gone", !.owned = None] \in Panel
      BY <2>1 DEF Panel
    <3>2. panel' = [panel EXCEPT ![p] = [panel[p] EXCEPT !.state = "gone", !.owned = None]]
      BY <2>6 DEF Vanish, Types
    <3>3. QED
      BY <2>6, <3>1, <3>2 DEF Vanish, Types
  <2>7. QED
    BY <1>2, <2>2, <2>3, <2>4, <2>5, <2>6 DEF PanelStep
<1>3. ASSUME NEW m \in net, HearStarted(m)
      PROVE  panel' \in [Page -> Panel] /\ net' \subseteq Message
  <2>1. m.page \in Page /\ m.sign \in Attempt /\ panel[m.page] \in Panel
    BY <1>3, MessageFields DEF HearStarted, Types
  <2>2. [panel[m.page] EXCEPT !.owned = m.sign] \in Panel
    BY <2>1 DEF Panel
  <2>3. [type |-> "cancel", page |-> m.page, sign |-> m.sign] \in Message
    BY <2>1 DEF Message
  <2>4. [panel EXCEPT ![m.page].owned = m.sign] \in [Page -> Panel]
    <3>1. [panel EXCEPT ![m.page].owned = m.sign]
            = [panel EXCEPT ![m.page] = [panel[m.page] EXCEPT !.owned = m.sign]]
      BY <2>1 DEF Types
    <3>2. QED
      BY <2>1, <2>2, <3>1 DEF Types
  <2>5. QED
    BY <1>3, <2>3, <2>4 DEF HearStarted, Types
<1>4. QED
  BY <1>2, <1>3

-----------------------------------------------------------------------------
(* Whatever is done, a sign-in that runs is owned *)

LEMMA CancelsKeepSignIn ==
  ASSUME Types, SignInInv,
         \/ \E m \in net : CancelLogin(m)
         \/ \E r \in Request : Submit(r)
         \/ Dispose
  PROVE  SignInInv'
<1> USE DEF SignInInv
<1>1. \A b \in Attempt : Running(b) => up
  BY DEF LastRuns
<1>2. ASSUME NEW m \in net, CancelLogin(m) PROVE SignInInv'
  <2>1. m.sign \in Attempt
    BY <1>2, MessageFields DEF CancelLogin, Types
  <2>2. net' = net \ {m} /\ m.type = "cancel" /\ UNCHANGED <<attempt, panel, up>>
    BY <1>2 DEF CancelLogin, hostVars
  <2>3. CASE attempt = m.sign
    <3>1. signin' = Cancelled(m.sign)
      BY <1>2, <2>3 DEF CancelLogin
    <3>2. Onward
      BY <2>1, <3>1, CancelledGoes, GoesGoOn
    <3>3. ~Running(m.sign)'
      BY <2>1, <3>1, CancelledOnly
    <3>4. QED
      BY <1>1, <2>2, <3>2, <3>3, GoOnKeepsSignIn DEF Onward
  <2>4. CASE attempt # m.sign
    <3>1. UNCHANGED signin
      BY <1>2, <2>4 DEF CancelLogin
    <3>2. Onward
      BY <3>1, GoesGoOn
    <3>3. ~Running(m.sign)'
      BY <2>1, <2>4, <3>1 DEF LastRuns, Running
    <3>4. QED
      BY <1>1, <2>2, <3>2, <3>3, GoOnKeepsSignIn DEF Onward
  <2>5. QED
    BY <2>3, <2>4
<1>3. ASSUME NEW r \in Request, Submit(r) PROVE SignInInv'
  <2>1. UNCHANGED signin \/ signin' = Cancelled(attempt)
    BY <1>3 DEF Submit
  <2>2. attempt \in Attempt \cup {None} /\ UNCHANGED <<attempt, panel, net, up>>
    BY <1>3 DEF Submit, Types, hostVars, pageVars
  <2>3. Onward
    BY <2>1, <2>2, CancelledGoes, GoesGoOn
  <2>4. QED
    BY <1>1, <2>2, <2>3, GoOnKeepsSignIn DEF Onward
<1>4. CASE Dispose
  <2>1. /\ attempt \in Attempt \cup {None} /\ UNCHANGED <<attempt, panel, net>>
        /\ signin' = Cancelled(attempt)
    BY <1>4 DEF Dispose, Types, pageVars
  <2>2. Onward
    BY <2>1, CancelledGoes, GoesGoOn
  <2>3. \A b \in Attempt : ~Running(b)'
    BY <2>1, <2>2, CancelledOnly DEF Onward, LastRuns
  <2>4. QED
    BY <2>1, <2>2, <2>3, GoOnKeepsSignIn
<1>5. QED
  BY <1>2, <1>3, <1>4

LEMMA SignInStepKeepsSignIn ==
  ASSUME Types, SignInInv, NEW a \in Attempt, SignInStep(a)
  PROVE  SignInInv'
<1> USE DEF SignInInv
<1>1. UNCHANGED <<attempt, panel, up>>
  BY DEF SignInStep, Ask, SubmitPrompt, Commit, LoginFails, Probed, LoginReturns, ReadBack,
     Saved, Timeout, Stays, hostVars, pageVars
<1>2. CASE Probed(a) /\ signin' = [signin EXCEPT ![a].stage = "login"]
  <2>1. IsCurrent(a) /\ Tell(net \cup {Started(a)})
    <3>1. signin[a] \in SignIn /\ signin[a].stage = "probe"
      BY <1>2 DEF Probed, Types
    <3>2. signin'[a].stage = "login"
      BY <1>2 DEF Types
    <3>3. ASSUME signin' = [signin EXCEPT ![a].stage = "done",
                              ![a].status = IF IsCurrent(a) THEN "failed" ELSE @]
          PROVE  FALSE
      BY <3>1, <3>2, <3>3, EndGoes
    <3>4. QED
      BY <1>2, <3>3 DEF Probed
  <2>2. QED
    BY <1>2, <2>1, ProbedKeepsSignIn
<1>3. CASE ~(Probed(a) /\ signin' = [signin EXCEPT ![a].stage = "login"])
  <2>1. Onward
    BY <1>3, SignInGoes, GoesGoOn
  <2>2. net' = net
    BY <1>3 DEF SignInStep, Ask, SubmitPrompt, Commit, LoginFails, Probed, LoginReturns,
       ReadBack, Saved, Timeout, Stays, pageVars
  <2>3. \A b \in Attempt : Running(b)' => up'
    BY <1>1, <2>1 DEF Onward, LastRuns
  <2>4. QED
    BY <1>1, <2>1, <2>2, <2>3, GoOnKeepsSignIn
<1>4. QED
  BY <1>2, <1>3

LEMMA ClickKeepsSignIn ==
  ASSUME Types, SignInInv, NEW p \in Page, Click(p)
  PROVE  SignInInv'
<1> USE DEF SignInInv
<1> DEFINE k == panel[p].click + 1
           msg == [type |-> "start", page |-> p, click |-> k, family |-> panel[p].family]
<1>1. /\ panel[p] \in Panel /\ panel[p].owned = None /\ panel[p].click \in Nat /\ k \in Nat
      /\ UNCHANGED <<signin, attempt, up>>
  BY SubscriptionsAssumption DEF Types, Panel, Click, HostStays, hostVars
<1>2. /\ panel'[p].click = k /\ panel'[p].family = panel[p].family
      /\ panel'[p].state = panel[p].state /\ panel'[p].owned = None
      /\ \A q \in Page \ {p} : panel'[q] = panel[q]
      /\ net' = net \cup {msg}
  <2>1. panel' = [panel EXCEPT ![p] = [panel[p] EXCEPT !.click = k]]
    BY DEF Click, Types
  <2>2. panel'[p] = [panel[p] EXCEPT !.click = k]
        /\ \A q \in Page \ {p} : panel'[q] = panel[q]
    BY <2>1 DEF Types
  <2>3. QED
    BY <1>1, <2>2 DEF Panel, Click
<1>3. msg.type = "start" /\ msg.page = p /\ msg.click = k /\ msg.family = panel[p].family
  OBVIOUS
<1>4. \A q \in Page : panel[q].click \in Nat
  BY SubscriptionsAssumption DEF Types, Panel
<1> HIDE DEF k, msg
<1>5. LastRuns'
  BY <1>1 DEF LastRuns, Running
<1>6. Clicks'
  <2>1. \A n \in net' : n.type = "start" => n \in Starts \/ n = msg
    BY <1>2 DEF Starts
  <2>2. \A n \in Starts : n.page \in Page /\ n.click \in Nat
    BY MessageFields DEF Types, Starts
  <2>3. \A a \in Attempt : ~FromClick(a, p, k)
    BY <1>1 DEF Clicks, FromClick, k
  <2>4. \A a \in Attempt : signin[a].stage # "none" =>
          signin[a].click \in 1..panel'[signin[a].page].click
    BY <1>1, <1>2, <1>4 DEF Clicks, k
  <2>5. \A n \in Starts' : n.family = panel'[n.page].family /\ n.click <= panel'[n.page].click
    BY <1>1, <1>2, <1>3, <1>4, <2>1, <2>2 DEF Clicks, Starts, k
  <2>6. \A n \in Starts', a \in Attempt : ~FromClick(a, n.page, n.click)'
    BY <1>1, <1>3, <2>1, <2>3 DEF Clicks, Starts, FromClick
  <2>7. QED
    BY <1>1, <2>4, <2>5, <2>6 DEF Clicks, FromClick
<1>7. Answers'
  <2>1. \A n \in net' : n.type = "started" => n \in net
    BY <1>2, <1>3
  <2>2. QED
    BY <1>1, <1>2, <2>1 DEF Answers, FromClick
<1>8. SignInIsOwned'
  <2>1. net \subseteq net' /\ None \notin Attempt
    BY <1>2, SubscriptionsAssumption
  <2>2. \A a \in Attempt : Running(a) => Owner(a) \in Page
    BY DEF Clicks, Owner, LastRuns, Running
  <2>3. QED
    BY <1>1, <1>2, <2>1, <2>2 DEF SignInIsOwned, Running, Owner
<1>9. QED
  BY <1>5, <1>6, <1>7, <1>8

\* What a panel forgets it cancels; a vanished one has nobody left to own.
Leaves(p, s) ==
  /\ panel'[p].click = panel[p].click /\ panel'[p].family = panel[p].family
  /\ panel'[p].state = s /\ panel'[p].owned = None
  /\ \A q \in Page \ {p} : panel'[q] = panel[q]

LEMMA PanelLeaves ==
  ASSUME Types, NEW p \in Page, NEW s,
         panel' = [panel EXCEPT ![p].state = s, ![p].owned = None]
  PROVE  Leaves(p, s)
<1> DEFINE r == [panel[p] EXCEPT !.state = s, !.owned = None]
<1>1. panel[p] \in Panel
  BY DEF Types
<1>2. r.click = panel[p].click /\ r.family = panel[p].family /\ r.state = s /\ r.owned = None
  BY <1>1 DEF Panel
<1>3. panel' = [panel EXCEPT ![p] = r]
  BY DEF Types
<1> HIDE DEF r
<1>4. panel'[p] = r /\ \A q \in Page \ {p} : panel'[q] = panel[q]
  BY <1>3 DEF Types
<1>5. QED
  BY <1>2, <1>4 DEF Leaves

LEMMA LeavingKeepsSignIn ==
  ASSUME Types, SignInInv, NEW p \in Page, NEW s, Leaves(p, s),
         UNCHANGED <<signin, attempt, up>>,
         \A m \in net' : m.type # "cancel" => m \in net,
         \A m \in net : m \in net' \/ (m.type = "started" /\ m.page = p /\ s = "gone"),
         \A a \in Attempt : s # "gone" /\ Running(a) /\ panel[p].owned = a =>
           \E m \in net' : m.type = "cancel" /\ m.sign = a,
         panel[p].state = "gone" => s = "gone"
  PROVE  SignInInv'
<1> USE DEF SignInInv
<1>1. /\ panel'[p].click = panel[p].click /\ panel'[p].family = panel[p].family
      /\ panel'[p].state = s /\ panel'[p].owned = None
      /\ \A q \in Page \ {p} : panel'[q] = panel[q]
  BY DEF Leaves
<1>2. LastRuns'
  BY DEF LastRuns, Running
<1>3. Clicks'
  <2>1. \A n \in Starts' : n \in Starts
    BY DEF Starts
  <2>2. \A n \in Starts : n.page \in Page
    BY MessageFields DEF Types, Starts
  <2>3. \A n \in Starts' : n.family = panel'[n.page].family /\ n.click <= panel'[n.page].click
    BY <1>1, <2>1, <2>2 DEF Clicks
  <2>4. \A n \in Starts', a \in Attempt : ~FromClick(a, n.page, n.click)'
    BY <2>1 DEF Clicks, FromClick
  <2>5. \A a \in Attempt : signin[a].stage # "none" =>
          signin[a].click \in 1..panel'[signin[a].page].click
    BY <1>1 DEF Clicks
  <2>6. QED
    BY <2>3, <2>4, <2>5 DEF Clicks, FromClick
<1>4. Answers'
  <2>1. \A n \in net' : n.type = "started" => n \in net
    OBVIOUS
  <2>2. \A q \in Page : panel'[q].owned # None =>
          q # p /\ panel'[q] = panel[q]
    BY <1>1
  <2>3. QED
    BY <2>1, <2>2 DEF Answers, FromClick
<1>5. SignInIsOwned'
  <2> SUFFICES ASSUME NEW b \in Attempt, Running(b)
               PROVE  \/ panel'[Owner(b)].state = "gone"
                      \/ signin[b].stage = "probe"
                      \/ panel'[Owner(b)].owned = b
                      \/ \E m \in net' : m.type \in {"started", "cancel"} /\ m.sign = b
    BY DEF SignInIsOwned, Running, Owner, LastRuns
  <2>1. Owner(b) \in Page /\ signin[b].stage # "none"
    BY DEF Clicks, Owner, LastRuns, Running
  <2>2. \A m \in net : m.type = "started" /\ m.sign = b => m.page = Owner(b)
    BY DEF Answers, FromClick, Owner
  <2>3. \/ panel[Owner(b)].state = "gone"
        \/ signin[b].stage = "probe"
        \/ panel[Owner(b)].owned = b
        \/ \E m \in net : m.type \in {"started", "cancel"} /\ m.sign = b
    BY DEF SignInIsOwned
  <2>4. CASE \E m \in net : m.type \in {"started", "cancel"} /\ m.sign = b
    BY <1>1, <2>2, <2>4
  <2>5. CASE Owner(b) = p
    BY <1>1, <2>3, <2>4, <2>5
  <2>6. CASE Owner(b) # p
    BY <1>1, <2>1, <2>3, <2>4, <2>6
  <2>7. QED
    BY <2>5, <2>6
<1>6. QED
  BY <1>2, <1>3, <1>4, <1>5

LEMMA HearKeepsSignIn ==
  ASSUME Types, SignInInv, NEW m \in net, HearStarted(m)
  PROVE  SignInInv'
<1> USE DEF SignInInv
<1>1. /\ m.type = "started" /\ m.page \in Page /\ m.sign \in Attempt
      /\ FromClick(m.sign, m.page, m.click) /\ UNCHANGED <<signin, attempt, up>>
  BY MessageFields DEF HearStarted, Types, Answers, HostStays, hostVars
<1>2. \A n \in net' : n.type # "cancel" => n \in net
  BY DEF HearStarted
<1>3. \A n \in net : n \in net' \/ n = m
  BY DEF HearStarted
<1>4. \A q \in Page :
        /\ panel'[q].click = panel[q].click /\ panel'[q].family = panel[q].family
        /\ panel'[q].state = panel[q].state
        /\ panel'[q].owned = panel[q].owned
             \/ (q = m.page /\ panel'[q].owned = m.sign /\ panel[q].state = "open"
                 /\ panel[q].click = m.click)
  <2>1. panel[m.page] \in Panel
    BY <1>1 DEF Types
  <2>2. CASE panel[m.page].state = "open" /\ panel[m.page].click = m.click
    <3>1. panel' = [panel EXCEPT ![m.page] = [panel[m.page] EXCEPT !.owned = m.sign]]
      BY <1>1, <2>2 DEF HearStarted, Types
    <3>2. panel'[m.page] = [panel[m.page] EXCEPT !.owned = m.sign]
          /\ \A q \in Page \ {m.page} : panel'[q] = panel[q]
      BY <1>1, <3>1 DEF Types
    <3>3. QED
      BY <2>1, <2>2, <3>2 DEF Panel
  <2>3. CASE ~(panel[m.page].state = "open" /\ panel[m.page].click = m.click)
    BY <2>3 DEF HearStarted
  <2>4. QED
    BY <2>2, <2>3
<1>5. \/ panel'[m.page].owned = m.sign
      \/ \E n \in net' : n.type = "cancel" /\ n.sign = m.sign
  <2>1. CASE panel[m.page].state = "open" /\ panel[m.page].click = m.click
    <3>1. panel[m.page] \in Panel
      BY <1>1 DEF Types
    <3>2. panel' = [panel EXCEPT ![m.page] = [panel[m.page] EXCEPT !.owned = m.sign]]
      BY <1>1, <2>1 DEF HearStarted, Types
    <3>3. panel'[m.page] = [panel[m.page] EXCEPT !.owned = m.sign]
      BY <1>1, <3>2 DEF Types
    <3>4. QED
      BY <3>1, <3>3 DEF Panel
  <2>2. CASE ~(panel[m.page].state = "open" /\ panel[m.page].click = m.click)
    <3> DEFINE c == [type |-> "cancel", page |-> m.page, sign |-> m.sign]
    <3>1. c \in net' /\ c.type = "cancel" /\ c.sign = m.sign
      BY <2>2 DEF HearStarted
    <3>2. QED
      BY <3>1
  <2>3. QED
    BY <2>1, <2>2
<1>6. LastRuns'
  BY <1>1 DEF LastRuns, Running
<1>7. Clicks'
  <2>1. \A n \in Starts' : n \in Starts
    BY <1>2 DEF Starts
  <2>2. \A n \in Starts : n.page \in Page
    BY MessageFields DEF Types, Starts
  <2>3. \A n \in Starts' : n.family = panel'[n.page].family /\ n.click <= panel'[n.page].click
    BY <1>4, <2>1, <2>2 DEF Clicks
  <2>4. \A n \in Starts', a \in Attempt : ~FromClick(a, n.page, n.click)'
    BY <1>1, <2>1 DEF Clicks, FromClick
  <2>5. \A a \in Attempt : signin[a].stage # "none" =>
          signin[a].click \in 1..panel'[signin[a].page].click
    BY <1>4 DEF Clicks
  <2>6. QED
    BY <1>1, <2>3, <2>4, <2>5 DEF Clicks, FromClick
<1>8. Answers'
  BY <1>1, <1>2, <1>4 DEF Answers, FromClick
<1>9. SignInIsOwned'
  <2> SUFFICES ASSUME NEW b \in Attempt, Running(b)
               PROVE  \/ panel'[Owner(b)].state = "gone"
                      \/ signin[b].stage = "probe"
                      \/ panel'[Owner(b)].owned = b
                      \/ \E n \in net' : n.type \in {"started", "cancel"} /\ n.sign = b
    BY <1>1 DEF SignInIsOwned, Running, Owner, LastRuns
  <2>1. Owner(b) \in Page /\ signin[b].stage # "none"
    BY DEF Clicks, Owner, LastRuns, Running
  <2>2. CASE b = m.sign
    BY <1>1, <1>5, <2>2 DEF FromClick, Owner
  <2>3. CASE b # m.sign
    <3>1. panel[Owner(b)].owned = b => panel'[Owner(b)].owned = b
      BY <1>1, <1>4, <2>1, <2>3, SubscriptionsAssumption DEF Answers, Clicks, FromClick
    <3>2. QED
      BY <1>3, <1>4, <2>1, <2>3, <3>1 DEF SignInIsOwned
  <2>4. QED
    BY <2>2, <2>3
<1>10. QED
  BY <1>6, <1>7, <1>8, <1>9

LEMMA PanelKeepsSignIn ==
  ASSUME Types, SignInInv, NEW p \in Page, PanelStep(p)
  PROVE  SignInInv'
<1>1. /\ UNCHANGED <<signin, attempt, up>> /\ panel[p] \in Panel
  BY DEF PanelStep, Click, Poll, CancelClick, Close, Vanish, HostStays, hostVars, Types
<1>2. CASE Click(p)
  BY <1>2, ClickKeepsSignIn
<1>3. CASE Poll(p)
  <2>1. panel'[p] = [panel[p] EXCEPT !.owned = None]
        /\ \A q \in Page \ {p} : panel'[q] = panel[q]
    <3>1. panel' = [panel EXCEPT ![p] = [panel[p] EXCEPT !.owned = None]]
      BY <1>3 DEF Poll, Types
    <3>2. QED
      BY <3>1 DEF Types
  <2>2. Leaves(p, panel[p].state)
    BY <1>1, <2>1 DEF Leaves, Panel
  <2>3. net' = net /\ \A a \in Attempt : ~Running(a)
    BY <1>3 DEF Poll, SignInInv, LastRuns
  <2>4. QED
    BY <1>1, <2>2, <2>3, LeavingKeepsSignIn
<1>4. CASE CancelClick(p)
  <2>1. /\ UNCHANGED panel /\ net \subseteq net'
        /\ \A m \in net' : m \in net \/ m.type = "cancel"
    BY <1>4 DEF CancelClick
  <2>2. LastRuns'
    BY <1>1 DEF SignInInv, LastRuns, Running
  <2>3. Clicks' /\ Answers'
    BY <1>1, <2>1 DEF SignInInv, Clicks, Starts, Answers, FromClick
  <2>4. SignInIsOwned'
    BY <1>1, <2>1 DEF SignInInv, SignInIsOwned, Running, Owner
  <2>5. QED
    BY <2>2, <2>3, <2>4 DEF SignInInv
<1>5. CASE Close(p)
  <2>1. Leaves(p, "closed")
    BY <1>5, PanelLeaves DEF Close
  <2>2. panel[p].owned # None =>
          \E m \in net' : m.type = "cancel" /\ m.sign = panel[p].owned
    <3> DEFINE c == [type |-> "cancel", page |-> p, sign |-> panel[p].owned]
    <3>1. panel[p].owned # None => c \in net' /\ c.type = "cancel" /\ c.sign = panel[p].owned
      BY <1>5 DEF Close
    <3>2. QED
      BY <3>1
  <2>3. net \subseteq net' /\ \A m \in net' : m \in net \/ m.type = "cancel"
    BY <1>5 DEF Close
  <2>4. panel[p].state # "gone" /\ None \notin Attempt
    BY <1>5, SubscriptionsAssumption DEF Close
  <2>5. QED
    BY <1>1, <2>1, <2>2, <2>3, <2>4, LeavingKeepsSignIn
<1>6. CASE Vanish(p)
  <2>1. Leaves(p, "gone")
    BY <1>6, PanelLeaves DEF Vanish
  <2>2. net' = {m \in net : ~(m.page = p /\ m.type = "started")}
    BY <1>6 DEF Vanish
  <2>3. QED
    BY <1>1, <2>1, <2>2, LeavingKeepsSignIn
<1>7. QED
  BY <1>2, <1>3, <1>4, <1>5, <1>6 DEF PanelStep

\* The types, with what the sign-ins need of them.
Base == Types /\ Asking /\ SignInInv

LEMMA InitBase ==
  Init => Base
<1> SUFFICES ASSUME Init PROVE Base
  OBVIOUS
<1>1. Types
  <2>1. hydration \in Hydration
    BY FamiliesAreNumbers DEF Init, Hydration
  <2>2. granted \subseteq Family
    BY SubscriptionsAssumption DEF Init
  <2>3. saved \in Listing /\ live \in Listing
    <3>1. PICK S \in Listed : saved = [f \in S |-> None] /\ live = saved
      BY DEF Init
    <3>2. S \in SUBSET Family
      BY SubscriptionsAssumption
    <3>3. saved \in [S -> Catalogue]
      BY <3>1 DEF Catalogue
    <3>4. QED
      BY <3>1, <3>2, <3>3, MakeListing
  <2>4. signin \in [Attempt -> SignIn]
    BY SubscriptionsAssumption DEF Init, SignIn
  <2>5. write \in [Writer -> Replacement \cup {None}]
    BY DEF Init
  <2>6. request \in [Request -> Asked]
    BY DEF Init, Asked, Catalogue
  <2>7. panel \in [Page -> Panel]
    BY SubscriptionsAssumption DEF Init, Panel
  <2>8. QED
    BY <2>1, <2>2, <2>3, <2>4, <2>5, <2>6, <2>7, SubscriptionsAssumption DEF Init, Types
<1>2. Asking
  BY DEF Init, Asking
<1>3. SignInInv
  BY DEF Init, SignInInv, LastRuns, Clicks, Starts, Answers, SignInIsOwned, Running, FromClick
<1>4. QED
  BY <1>1, <1>2, <1>3 DEF Base

\* Every step, one group of actions at a time.
LEMMA NextBase ==
  Base /\ [Next]_vars => Base'
<1> SUFFICES ASSUME Base, [Next]_vars PROVE Base'
  OBVIOUS
<1> USE DEF Base
<1>1. ASSUME NEW a \in Attempt, SignInStep(a) PROVE Base'
  <2>1. UNCHANGED request
    BY <1>1 DEF SignInStep, Ask, SubmitPrompt, Commit, LoginFails, Probed, LoginReturns,
       ReadBack, Saved, Timeout, Stays
  <2>2. QED
    BY <1>1, <2>1, SignInTypes, SignInStepKeepsSignIn DEF Asking
<1>2. ASSUME NEW r \in Request, RequestStep(r) PROVE Base'
  <2>1. CASE Submit(r)
    BY <1>2, <2>1, RequestTypes, CancelsKeepSignIn
  <2>2. CASE ~Submit(r)
    <3>1. UNCHANGED <<signin, attempt, panel, net, up>>
      BY <1>2, <2>2 DEF RequestStep, Fetched, Deleted, GoOn, Settled, NotWritten, hostVars,
         pageVars
    <3>2. QED
      BY <1>2, <3>1, RequestTypes, SameKeepsSignIn
  <2>3. QED
    BY <2>1, <2>2
<1>3. ASSUME NEW p \in Page, PanelStep(p) PROVE Base'
  <2>1. UNCHANGED request
    BY <1>3 DEF PanelStep, Click, Poll, CancelClick, Close, Vanish, HostStays
  <2>2. QED
    BY <1>3, <2>1, PanelTypes, PanelKeepsSignIn DEF Asking
<1>4. ASSUME NEW m \in net, HearStarted(m) PROVE Base'
  <2>1. UNCHANGED request
    BY <1>4 DEF HearStarted, HostStays
  <2>2. QED
    BY <1>4, <2>1, PanelTypes, HearKeepsSignIn DEF Asking
<1>5. ASSUME NEW m \in net, StartLogin(m) PROVE Base'
  <2>1. UNCHANGED request
    BY <1>5 DEF StartLogin
  <2>2. QED
    BY <1>5, <2>1, StartTypes, StartKeepsSignIn DEF Asking
<1>6. CASE (\E m \in net : CancelLogin(m)) \/ Dispose
  <2>1. UNCHANGED request
    BY <1>6 DEF CancelLogin, Dispose
  <2>2. QED
    BY <1>6, <2>1, HostTypes, CancelsKeepSignIn DEF Asking
<1>7. CASE Profile
  <2>1. UNCHANGED <<request, signin, attempt, panel, net, up>>
    BY <1>7 DEF Profile, Publish, Edit, OutsideDelete, hostVars, pageVars
  <2>2. QED
    BY <1>7, <2>1, ConfigTypes, SameKeepsSignIn DEF Asking, Profile
<1>8. CASE Hydrate \/ HydrationSaved
  <2>1. UNCHANGED <<request, signin, attempt, panel, net, up>>
    BY <1>8 DEF Hydrate, HydrationSaved, pageVars
  <2>2. QED
    BY <1>8, <2>1, HydrateTypes, SameKeepsSignIn DEF Asking
<1>9. ASSUME NEW p \in prunes, Prune(p) \/ PruneFails(p) PROVE Base'
  <2>1. UNCHANGED <<request, signin, attempt, panel, net, up>>
    BY <1>9 DEF Prune, PruneFails, pageVars
  <2>2. QED
    BY <1>9, <2>1, HostTypes, SameKeepsSignIn DEF Asking
<1>10. CASE UNCHANGED vars
  BY <1>10, SameKeepsSignIn DEF vars, hostVars, confVars, pageVars, Types, Asking
<1>11. QED
  BY <1>1, <1>2, <1>3, <1>4, <1>5, <1>6, <1>7, <1>8, <1>9, <1>10
     DEF Next, Host, Panels, Profile, Library, SignInStep, RequestStep, PanelStep

-----------------------------------------------------------------------------
(* A family that was signed out stays so *)

LEMMA SignInStepRuns ==
  ASSUME Types, SignInInv, NEW a \in Attempt, SignInStep(a)
  PROVE  \A b \in Attempt : /\ signin'[b].family = signin[b].family
                            /\ Running(b)' => Running(b)
<1>1. CASE Probed(a) /\ signin' = [signin EXCEPT ![a].stage = "login"]
  <2>1. signin'[a] = [signin[a] EXCEPT !.stage = "login"] /\ signin[a] \in SignIn
        /\ \A b \in Attempt \ {a} : signin'[b] = signin[b]
    BY <1>1 DEF Types
  <2>2. QED
    BY <2>1 DEF SignIn, Running
<1>2. CASE ~(Probed(a) /\ signin' = [signin EXCEPT ![a].stage = "login"])
  BY <1>2, SignInGoes, GoesGoOn DEF Onward, SignInInv
<1>3. QED
  BY <1>1, <1>2

LEMMA WritersDiffer ==
  /\ "hydrate" \in Writer /\ "hydrate" \notin Attempt \cup Request
  /\ Attempt \cap Request = {} /\ Attempt \subseteq Writer /\ Request \subseteq Writer
  BY SubscriptionsAssumption DEF Writer

\* What happens to the replacements that wait: one begins, one is done with, or none does
\* anything.
Begins(w) == \E c \in Listing : Change(w, c)
Ends(w) == write' = [write EXCEPT ![w] = None]
Rests == UNCHANGED write

LEMMA BeginsEnds ==
  ASSUME Types, NEW w \in Writer
  PROVE  /\ Begins(w) => write'[w] # None /\ \A v \in Writer \ {w} : write'[v] = write[v]
         /\ Ends(w) => write'[w] = None /\ \A v \in Writer \ {w} : write'[v] = write[v]
<1>1. ASSUME Begins(w)
      PROVE  write'[w] # None /\ \A v \in Writer \ {w} : write'[v] = write[v]
  <2>1. PICK c \in Listing : Change(w, c)
    BY <1>1 DEF Begins
  <2> DEFINE r == [stage |-> "edit", config |-> c]
  <2>2. write'[w] = r /\ \A v \in Writer \ {w} : write'[v] = write[v]
    BY <2>1 DEF Change, Types
  <2>3. r \in Replacement
    BY DEF Replacement
  <2>4. QED
    BY <2>2, <2>3, SubscriptionsAssumption
<1>2. ASSUME Ends(w)
      PROVE  write'[w] = None /\ \A v \in Writer \ {w} : write'[v] = write[v]
  BY <1>2 DEF Ends, Types
<1>3. QED
  BY <1>1, <1>2

LEMMA SignInWrites ==
  ASSUME Types, SignInInv, Writers, NEW a \in Attempt, SignInStep(a)
  PROVE  /\ \/ Rests /\ (signin'[a].stage = "saving" <=> signin[a].stage = "saving")
            \/ Begins(a) /\ signin'[a].stage = "saving"
            \/ Ends(a) /\ signin'[a].stage # "saving"
         /\ \A b \in Attempt \ {a} : signin'[b] = signin[b]
         /\ UNCHANGED <<request, hydration>>
<1> USE DEF SignInInv
<1>1. a \in Writer /\ signin[a] \in SignIn
  BY WritersDiffer DEF Types
<1>2. \A sg \in {"login", "asked", "stored", "reading", "saving", "done"} :
        signin' = [signin EXCEPT ![a].stage = sg] =>
          signin'[a].stage = sg /\ \A b \in Attempt \ {a} : signin'[b] = signin[b]
  BY <1>1 DEF Types, SignIn
<1>3. \A st \in {"authorized", "failed", "cancelled"} :
        signin' = [signin EXCEPT ![a].stage = "done",
                                 ![a].status = IF IsCurrent(a) THEN st ELSE @] =>
          signin'[a].stage = "done" /\ \A b \in Attempt \ {a} : signin'[b] = signin[b]
  <2> SUFFICES ASSUME NEW st \in {"authorized", "failed", "cancelled"},
                      signin' = [signin EXCEPT ![a].stage = "done",
                                   ![a].status = IF IsCurrent(a) THEN st ELSE @]
               PROVE  signin'[a].stage = "done" /\ \A b \in Attempt \ {a} : signin'[b] = signin[b]
    OBVIOUS
  <2> DEFINE s == [signin[a] EXCEPT !.stage = "done",
                                    !.status = IF IsCurrent(a) THEN st ELSE @]
  <2>1. s.stage = "done"
    BY <1>1 DEF SignIn
  <2>2. signin' = [signin EXCEPT ![a] = s]
    BY DEF Types
  <2> HIDE DEF s
  <2>3. QED
    BY <2>1, <2>2 DEF Types
<1>5. CASE Ask(a) \/ SubmitPrompt(a) \/ Commit(a) \/ Probed(a) \/ LoginReturns(a) \/ LoginFails(a)
  <2>1. Rests /\ signin[a].stage # "saving" /\ UNCHANGED <<request, hydration>>
    BY <1>5 DEF Ask, SubmitPrompt, Commit, Probed, LoginFails, LoginReturns, Stays, Rests,
       hostVars, confVars, IsCurrent
  <2>2. \/ \E sg \in {"login", "asked", "stored", "reading", "done"} :
             signin' = [signin EXCEPT ![a].stage = sg]
        \/ signin' = [signin EXCEPT ![a].stage = "done",
                                    ![a].status = IF IsCurrent(a) THEN "failed" ELSE @]
    BY <1>5 DEF Ask, SubmitPrompt, Commit, Probed, LoginFails, LoginReturns, Fail
  <2>3. QED
    BY <1>2, <1>3, <2>1, <2>2
<1>6. CASE Timeout(a)
  <2>1. Rests /\ signin' = Cancelled(a) /\ UNCHANGED <<request, hydration>>
    BY <1>6 DEF Timeout, Stays, Rests, hostVars, confVars
  <2>2. QED
    BY <2>1, CancelledOnly
<1>7. CASE ReadBack(a)
  <2>1. UNCHANGED <<request, hydration>> /\ signin[a].stage = "reading"
    BY <1>7 DEF ReadBack, hostVars
  <2>2. CASE IsCurrent(a) /\ signin[a].family \in granted
    <3> DEFINE f == signin[a].family
    <3>1. /\ signin' = [signin EXCEPT ![a].stage = "saving"]
          /\ Change(a, WithProvider(live, f)) /\ f \in Family
      BY <1>7, <2>2 DEF ReadBack, Types
    <3>2. WithProvider(live, f) \in Listing
      BY <3>1, WithProviderTypes DEF Types
    <3>3. Begins(a)
      BY <3>1, <3>2 DEF Begins
    <3>4. QED
      BY <1>2, <2>1, <3>1, <3>3
  <2>3. CASE ~(IsCurrent(a) /\ signin[a].family \in granted)
    <3>1. signin' = Fail(a) /\ UNCHANGED write
      BY <1>7, <2>3 DEF ReadBack
    <3>2. QED
      BY <1>3, <2>1, <3>1 DEF Fail, Rests
  <2>4. QED
    BY <2>2, <2>3
<1>8. CASE Saved(a)
  <2>1. UNCHANGED <<request, hydration>> /\ Ends(a)
    BY <1>8 DEF Saved, Ends
  <2>2. \/ signin' = [signin EXCEPT ![a].stage = "done"]
        \/ signin' = [signin EXCEPT ![a].stage = "done",
                                    ![a].status = IF IsCurrent(a) THEN "authorized" ELSE @]
    BY <1>8 DEF Saved
  <2>3. QED
    BY <1>2, <1>3, <2>1, <2>2
<1>9. QED
  BY <1>5, <1>6, <1>7, <1>8 DEF SignInStep

Waits(stage) == stage \in {"writing", "second"}

LEMMA SubmitWrites ==
  ASSUME Types, Writers, NEW r \in Request, Submit(r)
  PROVE  /\ \/ Rests /\ ~Waits(request'[r].stage)
            \/ Begins(r) /\ Waits(request'[r].stage)
         /\ \A q \in Request \ {r} : request'[q] = request[q]
         /\ UNCHANGED hydration /\ Serving /\ ~Waits(request[r].stage)
         /\ \A a \in Attempt : signin'[a].stage = "saving" <=> signin[a].stage = "saving"
<1> DEFINE new(op, f, m, sg) == [op |-> op, family |-> f, models |-> m, stage |-> sg]
<1>1. \A op, f, m, sg : request' = [request EXCEPT ![r] = new(op, f, m, sg)] =>
        request'[r].stage = sg /\ \A q \in Request \ {r} : request'[q] = request[q]
  BY DEF Types
<1>2. PICK op \in Ops, f \in Family, m \in Catalogue :
       \/ /\ request' = [request EXCEPT ![r] =
                new(op, f, m, IF op = "set" THEN "second" ELSE "writing")]
          /\ Change(r, IF op = "set" THEN WithModels(live, f, m) ELSE WithProvider(live, f))
          /\ UNCHANGED signin
       \/ /\ request' = [request EXCEPT ![r] =
                new(op, f, m, IF f \in connected THEN "fetching" ELSE "failed")]
          /\ UNCHANGED <<signin, write>>
       \/ /\ request' = [request EXCEPT ![r] = new(op, f, m, "deleting")]
          /\ signin' = IF attempt # None /\ signin[attempt].family = f
                       THEN Cancelled(attempt) ELSE signin
          /\ UNCHANGED write
  BY DEF Submit
<1> HIDE DEF new
<1>3. UNCHANGED <<hydration, attempt>> /\ Serving /\ request[r].stage = "none"
  BY DEF Submit, hostVars
<1>4. \A a \in Attempt : signin'[a].stage = "saving" <=> signin[a].stage = "saving"
  <2>1. attempt \in Attempt \cup {None} /\ (signin' = Cancelled(attempt) \/ signin' = signin)
    BY <1>2 DEF Types
  <2>2. QED
    BY <2>1, CancelledOnly
<1>5. /\ \/ Rests /\ ~Waits(request'[r].stage)
         \/ Begins(r) /\ Waits(request'[r].stage)
      /\ \A q \in Request \ {r} : request'[q] = request[q]
  <2>1. CASE \/ /\ request' = [request EXCEPT ![r] =
                     new(op, f, m, IF f \in connected THEN "fetching" ELSE "failed")]
                /\ UNCHANGED write
             \/ /\ request' = [request EXCEPT ![r] = new(op, f, m, "deleting")]
                /\ UNCHANGED write
    BY <1>1, <1>3, <2>1 DEF Rests, Waits
  <2>2. CASE /\ request' = [request EXCEPT ![r] =
                     new(op, f, m, IF op = "set" THEN "second" ELSE "writing")]
             /\ Change(r, IF op = "set" THEN WithModels(live, f, m) ELSE WithProvider(live, f))
    <3> DEFINE conf == IF op = "set" THEN WithModels(live, f, m) ELSE WithProvider(live, f)
    <3>1. conf \in Listing
      BY WithModelsTypes, WithProviderTypes DEF Types
    <3>2. Change(r, conf)
      BY <2>2
    <3> HIDE DEF conf
    <3>3. Begins(r)
      BY <3>1, <3>2 DEF Begins
    <3>4. PICK sg \in {"writing", "second"} : request' = [request EXCEPT ![r] = new(op, f, m, sg)]
      BY <2>2
    <3>5. request'[r].stage = sg /\ \A q \in Request \ {r} : request'[q] = request[q]
      BY <1>1, <3>4
    <3>6. QED
      BY <3>3, <3>5 DEF Waits
  <2>3. QED
    BY <1>2, <2>1, <2>2
<1>6. QED
  BY <1>3, <1>4, <1>5 DEF Waits

LEMMA RequestWrites ==
  ASSUME Types, Asking, Writers, NEW r \in Request, RequestStep(r), ~Submit(r)
  PROVE  /\ \/ Rests /\ (Waits(request'[r].stage) <=> Waits(request[r].stage))
            \/ Begins(r) /\ Waits(request'[r].stage)
            \/ Ends(r) /\ ~Waits(request'[r].stage)
         /\ \A q \in Request \ {r} : request'[q] = request[q]
         /\ UNCHANGED <<hydration, signin>> /\ request[r].stage # "none"
<1>1. UNCHANGED <<hydration, signin>> /\ request[r].stage # "none"
  BY DEF RequestStep, Fetched, Deleted, GoOn, Settled, NotWritten, hostVars
<1>2. request[r].family \in Family /\ request[r].models \in Catalogue
  BY <1>1 DEF Types, Asked, Asking
<1>3. \A sg \in {"deleting", "fetching", "writing", "between", "second", "done", "failed"} :
        request' = Move(r, sg) =>
          request'[r].stage = sg /\ \A q \in Request \ {r} : request'[q] = request[q]
  BY <1>1, MoveTypes
<1>4. \A f \in Family, m \in Catalogue :
        /\ WithModels(live, f, m) \in Listing /\ WithoutProvider(live, f) \in Listing
  BY WithModelsTypes, WithoutProviderTypes DEF Types
<1>5. CASE Fetched(r)
  <2>1. CASE up
    <3>1. Begins(r)
      BY <1>2, <1>4, <1>5, <2>1 DEF Fetched, Begins
    <3>2. QED
      BY <1>1, <1>3, <1>5, <2>1, <3>1 DEF Fetched, Waits
  <2>2. CASE ~up
    BY <1>1, <1>3, <1>5, <2>2 DEF Fetched, Waits, Rests
  <2>3. QED
    BY <2>1, <2>2
<1>6. CASE Deleted(r)
  <2>1. \E sg \in {"between", "done", "failed"} : request' = Move(r, sg)
    BY <1>6 DEF Deleted, Answered
  <2>2. Rests /\ request[r].stage = "deleting"
    BY <1>1, <1>6 DEF Deleted, Rests
  <2>3. QED
    BY <1>1, <1>3, <2>1, <2>2 DEF Waits
<1>7. CASE GoOn(r)
  <2>1. CASE up
    <3>1. Begins(r)
      BY <1>2, <1>4, <1>7, <2>1 DEF GoOn, Begins
    <3>2. QED
      BY <1>1, <1>3, <1>7, <2>1, <3>1 DEF GoOn, Waits
  <2>2. CASE ~up
    BY <1>1, <1>3, <1>7, <2>2 DEF GoOn, Waits, Rests
  <2>3. QED
    BY <2>1, <2>2
<1>8. CASE Settled(r)
  <2>1. \E sg \in {"between", "done", "failed"} : request' = Move(r, sg)
    BY <1>8 DEF Settled, Answered
  <2>2. Ends(r)
    BY <1>1, <1>8 DEF Settled, Ends
  <2>3. QED
    BY <1>1, <1>3, <2>1, <2>2 DEF Waits
<1>9. CASE NotWritten(r)
  <2>1. Ends(r)
    BY <1>1, <1>9 DEF NotWritten, Ends
  <2>2. QED
    BY <1>1, <1>3, <1>9, <2>1 DEF NotWritten, Waits
<1>10. QED
  BY <1>5, <1>6, <1>7, <1>8, <1>9 DEF RequestStep

\* The rest of the host and the panels leave the replacements and the requests alone.
LEMMA OthersWrite ==
  ASSUME Types, SignInInv,
         \/ \E m \in net : StartLogin(m) \/ CancelLogin(m) \/ HearStarted(m)
         \/ \E p \in prunes : Prune(p) \/ PruneFails(p)
         \/ \E p \in Page : PanelStep(p)
         \/ Dispose
  PROVE  /\ Rests /\ UNCHANGED <<hydration, request>>
         /\ \A a \in Attempt : signin'[a].stage = "saving" <=> signin[a].stage = "saving"
<1>1. CASE \E m \in net : StartLogin(m)
  <2>1. PICK m \in net : StartLogin(m)
    BY <1>1
  <2>2. Rests /\ UNCHANGED <<hydration, request>>
    BY <2>1 DEF StartLogin, Rests, confVars
  <2>3. CASE UNCHANGED signin
    BY <2>2, <2>3
  <2>4. CASE ~UNCHANGED signin
    <3> DEFINE new(a) == [family |-> m.family, page |-> m.page, click |-> m.click,
                          status |-> "running",
                          stage |-> IF m.family \in Ported THEN "probe" ELSE "login"]
    <3>1. PICK a \in Attempt :
            signin[a].stage = "none" /\ signin' = [signin EXCEPT ![a] = new(a)]
      BY <2>1, <2>4 DEF StartLogin
    <3>2. signin'[a] = new(a) /\ \A b \in Attempt \ {a} : signin'[b] = signin[b]
      BY <3>1 DEF Types
    <3>3. QED
      BY <2>2, <3>1, <3>2
  <2>5. QED
    BY <2>3, <2>4
<1>2. CASE (\E m \in net : CancelLogin(m)) \/ Dispose
  <2>1. Rests /\ UNCHANGED <<hydration, request>>
    BY <1>2 DEF CancelLogin, Dispose, Rests, hostVars, confVars
  <2>2. \E b \in Attempt \cup {None} : signin' = Cancelled(b) \/ signin' = signin
    BY <1>2, MessageFields DEF CancelLogin, Dispose, Types
  <2>3. \A a \in Attempt : signin'[a].stage = "saving" <=> signin[a].stage = "saving"
    BY <2>2, CancelledOnly
  <2>4. QED
    BY <2>1, <2>3
<1>3. CASE \E m \in net : HearStarted(m)
  BY <1>3 DEF HearStarted, HostStays, hostVars, confVars, Rests
<1>4. CASE \E p \in prunes : Prune(p) \/ PruneFails(p)
  BY <1>4 DEF Prune, PruneFails, confVars, Rests
<1>5. CASE \E p \in Page : PanelStep(p)
  BY <1>5 DEF PanelStep, Click, Poll, CancelClick, Close, Vanish, HostStays, hostVars,
     confVars, Rests
<1>6. QED
  BY <1>1, <1>2, <1>3, <1>4, <1>5

\* The configuration itself: who waits goes on waiting.
LEMMA ProfileWrites ==
  ASSUME Types, Profile
  PROVE  /\ \A w \in Writer : write'[w] # None <=> write[w] # None
         /\ UNCHANGED <<hydration, request, signin>>
<1>1. CASE Publish
  BY <1>1 DEF Publish, hostVars
<1>2. ASSUME NEW w \in Writer, Edit(w)
      PROVE  /\ \A v \in Writer : write'[v] # None <=> write[v] # None
             /\ UNCHANGED <<hydration, request, signin>>
  BY <1>2, EditWrites DEF Edit, hostVars
<1>3. ASSUME NEW f \in Family, OutsideDelete(f)
      PROVE  UNCHANGED <<write, hydration, request, signin>>
  BY <1>3 DEF OutsideDelete, hostVars
<1>4. QED
  BY <1>1, <1>2, <1>3 DEF Profile

\* The reading of the grants at the start.
LEMMA HydrateWrites ==
  ASSUME Types, Writers, Hydrate \/ HydrationSaved
  PROVE  /\ Rests \/ Begins("hydrate") \/ Ends("hydrate")
         /\ UNCHANGED <<request, signin>>
         /\ write'["hydrate"] # None => hydration'.at = Families + 1
         /\ hydration'.over => hydration'.at = Families + 1
         /\ hydration.over => hydration'.over \/ hydration.at # Families + 1
<1>1. hydration \in Hydration
  BY DEF Types
<1>2. CASE Hydrate
  <2> DEFINE f == hydration.at
             next == hydration.next \cup IF f \in granted THEN {f} ELSE {}
             over == f = Families /\ ~hydration.legacy
  <2>1. /\ f \in Family
        /\ hydration' = [hydration EXCEPT !.at = f + 1, !.next = next, !.over = over]
        /\ UNCHANGED <<request, signin>>
    BY <1>2 DEF Hydrate
  <2>2. hydration'.at = f + 1 /\ hydration'.over = over
    <3> HIDE DEF next, over
    <3>1. QED
      BY <1>1, <2>1 DEF Hydration
  <2>3. f # Families + 1 /\ write["hydrate"] = None
    BY <2>1, SubscriptionsAssumption DEF Writers, Family
  <2>4. CASE f = Families /\ hydration.legacy
    <3>1. Change("hydrate", live)
      BY <1>2, <2>4 DEF Hydrate
    <3>2. Begins("hydrate")
      BY <3>1 DEF Begins, Types
    <3>3. QED
      BY <1>2, <2>1, <2>2, <2>3, <2>4, <3>2
  <2>5. CASE ~(f = Families /\ hydration.legacy)
    <3>1. UNCHANGED write
      BY <1>2, <2>5 DEF Hydrate
    <3>2. QED
      BY <2>1, <2>2, <2>3, <2>5, <3>1 DEF Rests
  <2>6. QED
    BY <2>4, <2>5
<1>3. CASE HydrationSaved
  <2>1. write["hydrate"] # None /\ hydration.at = Families + 1
    BY <1>3 DEF HydrationSaved, Writers
  <2>2. hydration'.at = hydration.at /\ hydration'.over = TRUE
    BY <1>1, <1>3 DEF HydrationSaved, Hydration
  <2>3. Ends("hydrate") /\ UNCHANGED <<request, signin>>
    BY <1>3 DEF HydrationSaved, Ends
  <2>4. QED
    BY <2>1, <2>2, <2>3
<1>4. QED
  BY <1>2, <1>3

\* The steps of the rest of the host and of the panels.
OtherStep ==
  \/ \E m \in net : StartLogin(m) \/ CancelLogin(m) \/ HearStarted(m)
  \/ \E p \in prunes : Prune(p) \/ PruneFails(p)
  \/ \E p \in Page : PanelStep(p)
  \/ Dispose

LEMMA Steps ==
  ASSUME [Next]_vars
  PROVE  \/ \E a \in Attempt : SignInStep(a)
         \/ \E r \in Request : Submit(r)
         \/ \E r \in Request : RequestStep(r) /\ ~Submit(r)
         \/ OtherStep
         \/ Profile
         \/ Hydrate \/ HydrationSaved
         \/ UNCHANGED vars
  BY DEF Next, Host, Panels, Profile, Library, SignInStep, RequestStep, PanelStep, OtherStep

LEMMA InitWriters ==
  Init => Writers
<1> SUFFICES ASSUME Init PROVE Writers
  OBVIOUS
<1>1. \A w \in Writer : write[w] = None
  BY DEF Init
<1>2. hydration.at = 1
  BY DEF Init
<1>3. QED
  BY <1>1, <1>2, WritersDiffer, SubscriptionsAssumption DEF Init, Writers

LEMMA WritersStay ==
  ASSUME Base, Writers, [Next]_vars
  PROVE  Writers'
<1> USE WritersDiffer DEF Base
<1>1. ASSUME NEW a \in Attempt, SignInStep(a) PROVE Writers'
  <2>1. /\ \/ Rests /\ (signin'[a].stage = "saving" <=> signin[a].stage = "saving")
           \/ Begins(a) /\ signin'[a].stage = "saving"
           \/ Ends(a) /\ signin'[a].stage # "saving"
        /\ \A b \in Attempt \ {a} : signin'[b] = signin[b]
        /\ UNCHANGED <<request, hydration>>
    BY <1>1, SignInWrites
  <2>2. \A v \in Writer \ {a} : write'[v] = write[v]
    BY <2>1, BeginsEnds DEF Rests
  <2>3. write'[a] # None <=> signin'[a].stage = "saving"
    BY <2>1, BeginsEnds DEF Rests, Writers
  <2>4. QED
    BY <2>1, <2>2, <2>3 DEF Writers
<1>2. ASSUME NEW r \in Request, Submit(r) \/ RequestStep(r) PROVE Writers'
  <2>1. /\ \/ Rests /\ (Waits(request'[r].stage) <=> Waits(request[r].stage))
           \/ Begins(r) /\ Waits(request'[r].stage)
           \/ Ends(r) /\ ~Waits(request'[r].stage)
        /\ \A q \in Request \ {r} : request'[q] = request[q]
        /\ UNCHANGED hydration
        /\ \A a \in Attempt : signin'[a].stage = "saving" <=> signin[a].stage = "saving"
    <3>1. CASE Submit(r)
      BY <3>1, SubmitWrites
    <3>2. CASE ~Submit(r)
      BY <1>2, <3>2, RequestWrites
    <3>3. QED
      BY <3>1, <3>2
  <2>2. \A v \in Writer \ {r} : write'[v] = write[v]
    BY <2>1, BeginsEnds DEF Rests
  <2>3. write'[r] # None <=> Waits(request'[r].stage)
    BY <2>1, BeginsEnds DEF Rests, Writers, Waits
  <2>4. QED
    BY <2>1, <2>2, <2>3 DEF Writers, Waits
<1>3. CASE OtherStep
  <2>1. /\ Rests /\ UNCHANGED <<hydration, request>>
        /\ \A a \in Attempt : signin'[a].stage = "saving" <=> signin[a].stage = "saving"
    BY <1>3, OthersWrite DEF OtherStep
  <2>2. QED
    BY <2>1 DEF Rests, Writers
<1>4. CASE Profile
  BY <1>4, ProfileWrites DEF Writers
<1>5. CASE Hydrate \/ HydrationSaved
  <2>1. /\ Rests \/ Begins("hydrate") \/ Ends("hydrate")
        /\ UNCHANGED <<request, signin>>
        /\ write'["hydrate"] # None => hydration'.at = Families + 1
    BY <1>5, HydrateWrites
  <2>2. \A v \in Writer \ {"hydrate"} : write'[v] = write[v]
    BY <2>1, BeginsEnds DEF Rests
  <2>3. hydration'.at \in 1..Families + 1
    BY <1>5, HydrateTypes, SubscriptionsAssumption DEF Types, Hydration, Family
  <2>4. QED
    BY <2>1, <2>2, <2>3 DEF Writers
<1>6. CASE UNCHANGED vars
  BY <1>6 DEF Writers, vars, hostVars
<1>7. QED
  BY <1>1, <1>2, <1>3, <1>4, <1>5, <1>6, Steps

-----------------------------------------------------------------------------
(* Signed out *)

LEMMA AfterHydrationStays ==
  ASSUME Base, Writers, AfterHydration, ~Early, [Next]_vars
  PROVE  AfterHydration'
<1> USE WritersDiffer DEF Base
<1>1. ASSUME NEW a \in Attempt, SignInStep(a) PROVE AfterHydration'
  <2>1. UNCHANGED <<request, hydration, signedOut>> /\ (Rests \/ Begins(a) \/ Ends(a))
    BY <1>1, SignInWrites DEF SignInStep, Ask, SubmitPrompt, Commit, LoginFails, Probed,
       LoginReturns, ReadBack, Saved, Timeout, Stays, hostVars
  <2>2. write'["hydrate"] = write["hydrate"]
    BY <2>1, BeginsEnds DEF Rests
  <2>3. QED
    BY <2>1, <2>2 DEF AfterHydration
<1>2. ASSUME NEW r \in Request, Submit(r) \/ RequestStep(r) PROVE AfterHydration'
  <2>1. /\ UNCHANGED hydration /\ hydration.over
        /\ Rests \/ Begins(r) \/ Ends(r)
    <3>1. CASE Submit(r)
      BY <3>1, SubmitWrites DEF Serving
    <3>2. CASE ~Submit(r)
      BY <1>2, <3>2, RequestWrites DEF AfterHydration
    <3>3. QED
      BY <3>1, <3>2
  <2>2. write'["hydrate"] = write["hydrate"]
    BY <2>1, BeginsEnds DEF Rests
  <2>3. QED
    BY <2>1, <2>2 DEF AfterHydration
<1>3. CASE OtherStep
  <2>1. Rests /\ UNCHANGED <<hydration, request>>
    BY <1>3, OthersWrite DEF OtherStep
  <2>2. signedOut' \subseteq signedOut
    BY <1>3 DEF OtherStep, StartLogin, CancelLogin, HearStarted, HostStays, Prune, PruneFails,
       Dispose, PanelStep, Click, Poll, CancelClick, Close, Vanish, hostVars
  <2>3. QED
    BY <2>1, <2>2 DEF AfterHydration, Rests
<1>4. CASE Profile
  <2>1. UNCHANGED signedOut
    BY <1>4 DEF Profile, Publish, Edit, OutsideDelete, hostVars
  <2>2. QED
    BY <1>4, <2>1, ProfileWrites DEF AfterHydration
<1>5. CASE Hydrate \/ HydrationSaved
  <2>1. /\ UNCHANGED request
        /\ write'["hydrate"] # None => hydration'.at = Families + 1
        /\ hydration'.over => hydration'.at = Families + 1
        /\ hydration.over => hydration'.over \/ hydration.at # Families + 1
    BY <1>5, HydrateWrites
  <2>2. UNCHANGED signedOut
    BY <1>5 DEF Hydrate, HydrationSaved
  <2>3. QED
    BY <2>1, <2>2 DEF AfterHydration
<1>6. CASE UNCHANGED vars
  BY <1>6 DEF AfterHydration, vars, hostVars
<1>7. QED
  BY <1>1, <1>2, <1>3, <1>4, <1>5, <1>6, Steps

LEMMA NoneComesBackStays ==
  ASSUME Base, Writers, AfterHydration, NoneComesBack, [Next]_vars
  PROVE  NoneComesBack'
<1> USE DEF Base
<1>1. ASSUME NEW a \in Attempt, SignInStep(a) PROVE NoneComesBack'
  <2>1. /\ \A b \in Attempt : signin'[b].family = signin[b].family /\ (Running(b)' => Running(b))
        /\ UNCHANGED signedOut
    BY <1>1, SignInStepRuns DEF SignInStep, Ask, SubmitPrompt, Commit, LoginFails, Probed,
       LoginReturns, ReadBack, Saved, Timeout, Stays, hostVars
  <2>2. CASE Commit(a)
    <3>1. Running(a)
      BY <2>2 DEF Commit, SignInInv, LastRuns, Running
    <3>2. granted' = granted \cup {signin[a].family} /\ UNCHANGED connected
      BY <2>2 DEF Commit
    <3>3. QED
      BY <2>1, <3>1, <3>2 DEF NoneComesBack, SignedOutStaysOut
  <2>3. CASE Saved(a)
    <3>1. UNCHANGED granted /\ (UNCHANGED connected \/
            (Running(a) /\ connected' = connected \cup {signin[a].family}))
      BY <2>3 DEF Saved, IsCurrent, Connect
    <3>2. QED
      BY <2>1, <3>1 DEF NoneComesBack, SignedOutStaysOut
  <2>4. CASE ~Commit(a) /\ ~Saved(a)
    <3>1. UNCHANGED <<granted, connected>>
      BY <1>1, <2>4 DEF SignInStep, Ask, SubmitPrompt, LoginFails, Probed,
         LoginReturns, ReadBack, Timeout, Stays, hostVars
    <3>2. QED
      BY <2>1, <3>1 DEF NoneComesBack, SignedOutStaysOut
  <2>5. QED
    BY <2>2, <2>3, <2>4
<1>2. ASSUME NEW r \in Request, Submit(r) PROVE NoneComesBack'
  <2>1. UNCHANGED <<granted, connected, signedOut>>
    BY <1>2 DEF Submit, hostVars
  <2>2. attempt \in Attempt \cup {None} /\ (signin' = Cancelled(attempt) \/ signin' = signin)
    BY <1>2 DEF Submit, Types
  <2>3. \A b \in Attempt : signin'[b].family = signin[b].family /\ (Running(b)' => Running(b))
    BY <2>2, CancelledOnly DEF Running
  <2>4. QED
    BY <2>1, <2>3 DEF NoneComesBack, SignedOutStaysOut
<1>3. ASSUME NEW r \in Request, RequestStep(r), ~Submit(r) PROVE NoneComesBack'
  <2>1. UNCHANGED signin
    BY <1>3, RequestWrites
  <2>2. CASE Deleted(r)
    <3> DEFINE f == request[r].family
    <3>1. granted' \subseteq granted /\ connected' \subseteq connected
      BY <2>2 DEF Deleted, Connect
    <3>2. \/ UNCHANGED signedOut
          \/ /\ signedOut' \subseteq signedOut \cup {f} /\ f \notin granted' \cup connected'
             /\ \A a \in Attempt : f \in signedOut' => ~(Running(a) /\ signin[a].family = f)
                                                    \/ f \in signedOut
      BY <2>2 DEF Deleted, Connect
    <3>3. QED
      BY <2>1, <3>1, <3>2 DEF NoneComesBack, SignedOutStaysOut, Running
  <2>3. CASE ~Deleted(r)
    <3>1. UNCHANGED <<granted, connected, signedOut>>
      BY <1>3, <2>3 DEF RequestStep, Fetched, GoOn, Settled, NotWritten, hostVars
    <3>2. QED
      BY <2>1, <3>1 DEF NoneComesBack, SignedOutStaysOut, Running
  <2>4. QED
    BY <2>2, <2>3
<1>4. ASSUME NEW m \in net, StartLogin(m) PROVE NoneComesBack'
  <2>1. UNCHANGED <<granted, connected>>
    BY <1>4 DEF StartLogin
  <2>2. CASE ~up \/ (attempt # None /\ Running(attempt))
    BY <1>4, <2>1, <2>2 DEF StartLogin, NoneComesBack, SignedOutStaysOut, Running
  <2>3. CASE ~(~up \/ (attempt # None /\ Running(attempt)))
    <3> DEFINE new(a) == [family |-> m.family, page |-> m.page, click |-> m.click,
                          status |-> "running",
                          stage |-> IF m.family \in Ported THEN "probe" ELSE "login"]
    <3>1. PICK a \in Attempt :
            signin' = [signin EXCEPT ![a] = new(a)] /\ signedOut' = signedOut \ {m.family}
      BY <1>4, <2>3 DEF StartLogin
    <3>2. signin'[a] = new(a) /\ \A b \in Attempt \ {a} : signin'[b] = signin[b]
      BY <3>1 DEF Types
    <3>3. signin'[a].family = m.family
      BY <3>2
    <3> HIDE DEF new
    <3>4. QED
      BY <2>1, <3>1, <3>2, <3>3 DEF NoneComesBack, SignedOutStaysOut, Running
  <2>4. QED
    BY <2>2, <2>3
<1>5. CASE (\E m \in net : CancelLogin(m)) \/ Dispose
  <2>1. /\ granted' \subseteq granted /\ connected' \subseteq connected /\ UNCHANGED signedOut
        /\ \E b \in Attempt \cup {None} : signin' = Cancelled(b) \/ signin' = signin
    BY <1>5, MessageFields DEF CancelLogin, Dispose, Types, hostVars
  <2>2. \A b \in Attempt : signin'[b].family = signin[b].family /\ (Running(b)' => Running(b))
    BY <2>1, CancelledOnly DEF Running
  <2>3. QED
    BY <2>1, <2>2 DEF NoneComesBack, SignedOutStaysOut
<1>6. CASE \/ \E m \in net : HearStarted(m)
           \/ \E p \in prunes : Prune(p) \/ PruneFails(p)
           \/ \E p \in Page : PanelStep(p)
           \/ Profile
  <2>1. /\ granted' \subseteq granted /\ connected' \subseteq connected
        /\ UNCHANGED <<signedOut, signin>>
    BY <1>6 DEF HearStarted, HostStays, Prune, PruneFails, PanelStep, Click, Poll,
       CancelClick, Close, Vanish, Profile, Publish, Edit, OutsideDelete, hostVars
  <2>2. QED
    BY <2>1 DEF NoneComesBack, SignedOutStaysOut, Running
<1>7. CASE HydrationSaved \/ UNCHANGED vars
  <2>1. UNCHANGED <<granted, connected, signedOut, signin>>
    BY <1>7 DEF HydrationSaved, vars, hostVars
  <2>2. QED
    BY <2>1 DEF NoneComesBack, SignedOutStaysOut, Running
<1>8. CASE Hydrate
  <2>1. UNCHANGED <<signedOut, signin>> /\ hydration.at \in Family
    BY <1>8 DEF Hydrate
  <2>2. ~hydration.over
    BY <2>1, SubscriptionsAssumption DEF AfterHydration, Family
  <2>3. signedOut = {}
    BY <2>2 DEF AfterHydration
  <2>4. QED
    BY <2>1, <2>3 DEF NoneComesBack, SignedOutStaysOut
<1>9. QED
  BY <1>1, <1>2, <1>3, <1>4, <1>5, <1>6, <1>7, <1>8, Steps DEF OtherStep

LEMMA InitOut ==
  Init => OutInv
<1> SUFFICES ASSUME Init PROVE OutInv
  OBVIOUS
<1>1. hydration.over = FALSE /\ signedOut = {} /\ write["hydrate"] = None
  BY WritersDiffer DEF Init
<1>2. \A r \in Request : request[r].stage = "none"
  BY DEF Init
<1>3. QED
  BY <1>1, <1>2 DEF OutInv, AfterHydration, NoneComesBack, SignedOutStaysOut

LEMMA OutStays ==
  ~Early => (Base /\ Writers /\ OutInv /\ [Next]_vars => OutInv')
  BY AfterHydrationStays, NoneComesBackStays DEF OutInv

-----------------------------------------------------------------------------
\* TypeOK holds for any families, sign-ins, requests and panels.
THEOREM TypeCorrect == Spec => []TypeOK
<1>1. Spec => []Base
  BY InitBase, NextBase, PTL DEF Spec
<1>2. Base => TypeOK
  BY TypesAreTypeOK DEF Base
<1>3. QED
  BY <1>1, <1>2, PTL

\* SignInIsOwned: cancelLogin(), startLogin() and the panels lose no sign-in that runs,
\* in whatever order clicks, answers, cancellations and departures pass one another.
THEOREM SignInsAreOwned == Spec => []SignInIsOwned
<1>1. Spec => []Base
  BY InitBase, NextBase, PTL DEF Spec
<1>2. Base => SignInIsOwned
  BY DEF Base, SignInInv
<1>3. QED
  BY <1>1, <1>2, PTL

\* SignedOutStaysOut, where pages ask the service nothing before the grants have been read:
\* disconnect() and removeProvider() are final until the next sign-in begins, since a
\* sign-in that was cancelled commits nothing any more and one that runs is not of the family.
THEOREM SignedOutIsFinal == ~Early => (Spec => []SignedOutStaysOut)
<1> SUFFICES ASSUME ~Early PROVE Spec => []SignedOutStaysOut
  OBVIOUS
<1>1. Init => Base /\ Writers /\ OutInv
  BY InitBase, InitWriters, InitOut
<1>2. Base /\ Writers /\ OutInv /\ [Next]_vars => (Base /\ Writers /\ OutInv)'
  BY NextBase, WritersStay, OutStays
<1>3. Base /\ Writers /\ OutInv => SignedOutStaysOut
  BY DEF OutInv, NoneComesBack
<1>4. QED
  BY <1>1, <1>2, <1>3, PTL DEF Spec

=============================================================================
