---------------------------- MODULE SkillCatalog ----------------------------
(***************************************************************************)
(* The catalogue and the installed copy of dsh-next-skills: the class      *)
(* SkillsService of host/skills-service.ts over the cache of               *)
(* host/provider-store.ts, with the configuration and the boot sequence of *)
(* index.ts.                                                               *)
(*                                                                         *)
(* Providers are repositories, each offering one skill; all these skills   *)
(* have the same name, so they are installed in the same directory.  The   *)
(* cache holds the files of each provider and one catalogue file with a    *)
(* row for each of them; the configuration lists the providers and records *)
(* which one the installed copy is from.  The boot sequence and the panel  *)
(* of each window run beside each other, and nothing orders them.          *)
(***************************************************************************)
EXTENDS Naturals

CONSTANTS
  Provider,
  Files,         \* how many files a skill has, in the order of the archive
  SkillMd,       \* the one that makes a directory a skill
  Default,       \* the providers of a fresh installation
  Configs,       \* the configurations the host may start with
  Boot,          \* the boot sequence
  Panel,         \* panels; each waits for an answer before it asks again
  None,
  MaxVersion,    \* bound: versions of a skill
  MaxEvents      \* bound: requests, failures, crashes and changes upstream

Operations == {"boot", "add", "remove", "refresh", "install", "detach", "delete"}

File == 1..Files
Process == Panel \cup {Boot}
Version == 0..MaxVersion
Rows == [Provider -> Version \cup {None}]
Copy == [File -> (Provider \X Version) \cup {None}]
Config == [providers : SUBSET Provider, record : Provider \cup {None}]

ASSUME SkillCatalogAssumption ==
  /\ Files \in Nat /\ SkillMd \in File /\ Default \subseteq Provider
  /\ Boot \notin Panel
  /\ None \notin Provider \cup Nat \cup Copy \cup Config \cup (Provider \X Version)
  /\ Configs \subseteq Config
  /\ MaxVersion \in Nat \ {0} /\ MaxEvents \in Nat

VARIABLES
  upstream,     \* the version each repository offers; 0: no skill
  cache,        \* the version of each file of the cache; 0: no such file
  catalog,      \* the rows of catalog.json: the version, 0: no skill
  config,       \* the providers and the record of the installed copy, as they are read
  pending,      \* what was written of them and is not live yet
  copy,         \* the files of the installed copy: provider and version
  task,         \* what the boot sequence and each panel is doing
  crossed,      \* tasks whose reading of the store another one outdated
  dirty,        \* providers whose files may differ from their row
  doubt,        \* the copying was broken off or met by another one
  calm,         \* nothing happened since the boot sequence began
  events

diskVars == <<cache, dirty, catalog>>
confVars == <<config, pending>>
vars == <<upstream, diskVars, confVars, copy, task, crossed, doubt, calm, events>>

NoRows == [p \in Provider |-> None]

Places == {"idle", "next", "read", "files", "truncate", "write", "mark",
           "drop", "look", "copy", "listed", "save", "done"}

Task == [at : Places, op : Operations, marks : BOOLEAN, provider : Provider \cup {None},
         rows : Rows, left : SUBSET Provider, todo : SUBSET File, target : Version,
         plan : Config]

TypeOK ==
  /\ upstream \in [Provider -> Version]
  /\ cache \in [Provider -> [File -> Version]]
  /\ catalog \in Rows
  /\ config \in Config /\ pending \in Config \cup {None}
  /\ copy \in Copy \cup {None}
  /\ task \in [Process -> Task]
  /\ crossed \subseteq Process /\ dirty \subseteq Provider
  /\ doubt \in BOOLEAN /\ calm \in BOOLEAN
  /\ events \in 0..MaxEvents

At(q, place) == task[q].at = place
Working == {q \in Process : task[q].at \notin {"idle", "done"}}
First(q) == CHOOSE f \in task[q].todo : \A g \in task[q].todo : f <= g
GoTo(q, place) == task' = [task EXCEPT ![q].at = place]

NoConfig == [providers |-> {}, record |-> None]
Resting == [at |-> "idle", op |-> "boot", marks |-> FALSE, provider |-> None,
            rows |-> NoRows, left |-> {}, todo |-> {}, target |-> 0,
            plan |-> NoConfig]

\* The end of an operation, and what a broken-off one comes to: the boot
\* sequence goes on with its next part.
Over(q) == [Resting EXCEPT !.at = IF q = Boot THEN "done" ELSE "idle"]
BrokenOff(q) == IF q = Boot THEN [Resting EXCEPT !.at = "next", !.left = task[q].left]
                            ELSE Resting
Becomes(q, state) == task' = [task EXCEPT ![q] = state]

Event == events < MaxEvents /\ events' = events + 1
Failure == Event /\ calm' = FALSE

\* A step of task q that writes in the store outdates what others read.
Outdates(q) == crossed' = crossed \cup (Working \ {q})

(***************************************************************************)
(* A synchronisation reads the rows, then fetches the snapshot; the files  *)
(* of the skill are written unless its version is the known one.           *)
(***************************************************************************)
\* Fault: a skill that is known is not written again.
KnownSkipped(row, version) == IF row \notin {None, 0} \/ version = 0 THEN {} ELSE File
FilesToWrite(row, version) == IF row = version \/ version = 0 THEN {} ELSE File

Syncing(q, op, p) ==
  [Resting EXCEPT !.at = "files", !.op = op, !.provider = p, !.left = task[q].left,
                  !.rows = catalog, !.target = upstream[p],
                  !.todo = FilesToWrite(catalog[p], upstream[p])]

Reads(q) ==
  /\ crossed' = IF \E r \in Process \ {q} : At(r, "write") THEN crossed \cup {q}
                                                           ELSE crossed \ {q}
  /\ UNCHANGED <<upstream, cache, catalog, confVars, copy, doubt>>

(***************************************************************************)
(* What is asked.  The configuration is read as a whole, and written as a  *)
(* whole later; what was written may be read as it was for a while.        *)
(***************************************************************************)
Asks(w) == At(w, "idle") /\ Failure
NoAsk == <<upstream, diskVars, confVars>>
Installed == copy # None /\ copy[SkillMd] # None
Offered(p) == catalog[p] \notin {None, 0}

AddProvider(w, p) ==
  /\ Asks(w)
  /\ Becomes(w, IF p \in config.providers
                THEN Syncing(w, "add", p)
                ELSE [Resting EXCEPT !.at = "save", !.op = "add", !.provider = p,
                                     !.plan = [config EXCEPT !.providers = @ \cup {p}]])
  /\ Reads(w)
  /\ UNCHANGED dirty

RemoveProvider(w, p) ==
  /\ Asks(w) /\ p \in config.providers
  /\ Becomes(w, [Resting EXCEPT !.at = "save", !.op = "remove", !.provider = p,
                                !.plan = [config EXCEPT !.providers = @ \ {p}]])
  /\ UNCHANGED <<NoAsk, copy, doubt, crossed>>

RefreshProvider(w, p) ==
  /\ Asks(w) /\ p \in config.providers
  /\ Becomes(w, Syncing(w, "refresh", p))
  /\ Reads(w)
  /\ UNCHANGED dirty

\* The catalogue is read and the directory looked at; the files of the cache are
\* copied and the copy is recorded.
Copies(w, p) ==
  /\ Becomes(w, [Resting EXCEPT !.at = "copy", !.op = "install", !.provider = p, !.todo = File])
  /\ crossed' = crossed \ {w}
  /\ UNCHANGED <<NoAsk, copy, doubt>>

InstallSkill(w, p) ==
  /\ Asks(w) /\ Offered(p) /\ copy = None
  /\ Copies(w, p)

\* The directory must be a skill.  What the new version lacks is deleted first;
\* all versions have the same files here.
UpdateSkill(w, p) ==
  /\ Asks(w) /\ Offered(p) /\ Installed
  /\ Copies(w, p)

DetachSkill(w) ==
  /\ Asks(w) /\ Installed /\ config.record # None
  /\ Becomes(w, [Resting EXCEPT !.at = "save", !.op = "detach",
                                !.plan = [config EXCEPT !.record = None]])
  /\ UNCHANGED <<NoAsk, copy, doubt, crossed>>

\* The directory is moved to the trash.
DeleteSkill(w) ==
  /\ Asks(w) /\ Installed
  /\ copy' = None
  /\ doubt' = \E q \in Process : At(q, "copy")
  /\ Becomes(w, [Resting EXCEPT !.at = "listed", !.op = "delete"])
  /\ UNCHANGED <<NoAsk, crossed>>

\* The timer of the boot sequence: the defaults, if nothing is configured.
BootBegins ==
  /\ At(Boot, "idle")
  /\ task' = [task EXCEPT ![Boot] =
       [@ EXCEPT !.at = IF config.providers = {} THEN "save" ELSE "next", !.op = "boot",
                 !.plan = IF config.providers = {} THEN [config EXCEPT !.providers = Default]
                                                   ELSE NoConfig,
                 !.left = config.providers]]
  /\ calm' = (Working = {} /\ pending = None)
  /\ UNCHANGED <<upstream, diskVars, confVars, copy, crossed, doubt, events>>

\* The editor has written; it does not say that what it wrote is live.
Save(q) ==
  /\ At(q, "save")
  /\ \/ config' = task[q].plan /\ pending' = None
     \/ pending' = task[q].plan /\ UNCHANGED config
  /\ Becomes(q, CASE q = Boot -> [BrokenOff(q) EXCEPT !.left = config'.providers]
                  [] task[q].op = "add" -> [task[q] EXCEPT !.at = "read", !.plan = NoConfig]
                  [] task[q].op = "remove" -> [task[q] EXCEPT !.at = "drop", !.plan = NoConfig]
                  [] OTHER -> Resting)
  /\ UNCHANGED <<upstream, diskVars, copy, crossed, doubt, calm, events>>

\* What was written becomes live.
Live ==
  /\ pending # None
  /\ config' = pending /\ pending' = None
  /\ calm' = FALSE
  /\ UNCHANGED <<upstream, diskVars, copy, task, crossed, doubt, events>>

SaveFails(q) ==
  /\ At(q, "save")
  /\ Failure
  /\ Becomes(q, IF q = Boot THEN [BrokenOff(q) EXCEPT !.left = config.providers]
                            ELSE Resting)
  /\ UNCHANGED <<upstream, diskVars, confVars, copy, crossed, doubt>>

(***************************************************************************)
(* The store: one provider is synchronised, marked or removed; the         *)
(* catalogue file is read first and written as a whole last, and is empty  *)
(* to a reader between the two halves of its writing.                      *)
(***************************************************************************)
SyncReads(q) ==
  /\ At(q, "read")
  /\ Becomes(q, Syncing(q, task[q].op, task[q].provider))
  /\ Reads(q)
  /\ UNCHANGED <<dirty, calm, events>>

WriteFile(q) ==
  LET p == task[q].provider
      f == First(q)
  IN  /\ At(q, "files") /\ task[q].todo # {}
      /\ cache' = [cache EXCEPT ![p][f] = task[q].target]
      /\ dirty' = dirty \cup {p}
      /\ Outdates(q)
      /\ task' = [task EXCEPT ![q].todo = @ \ {f}]
      /\ UNCHANGED <<upstream, catalog, confVars, copy, doubt, calm, events>>

Emptied(p) == [cache EXCEPT ![p] = [f \in File |-> 0]]

\* The files of a skill that disappeared are dropped.
Gone(q) == task[q].target = 0 /\ task[q].rows[task[q].provider] \notin {None, 0}

DropStale(q) ==
  LET p == task[q].provider
  IN  /\ At(q, "files") /\ Gone(q)
      /\ cache' = Emptied(p)
      /\ dirty' = dirty \cup {p}
      /\ Outdates(q)
      /\ GoTo(q, "truncate")
      /\ UNCHANGED <<upstream, catalog, confVars, copy, doubt, calm, events>>

SyncFails(q) ==
  /\ At(q, "files")
  /\ Failure
  /\ Becomes(q, [task[q] EXCEPT !.at = "mark", !.rows = NoRows, !.todo = {}, !.target = 0])
  /\ UNCHANGED <<upstream, diskVars, confVars, copy, crossed, doubt>>

\* A failure is noted in the row, which is made if there was none.
MarkReads(q) ==
  /\ At(q, "mark")
  /\ task' = [task EXCEPT ![q] =
       [@ EXCEPT !.at = "truncate", !.marks = TRUE, !.rows = catalog,
                 !.target = IF catalog[task[q].provider] = None THEN 0 ELSE catalog[task[q].provider]]]
  /\ Reads(q)
  /\ UNCHANGED <<dirty, calm, events>>

\* A provider that left the configuration leaves the store.
DropReads(q) ==
  LET p == task[q].provider
      there == catalog[p] # None
  IN  /\ At(q, "drop")
      /\ cache' = IF there THEN Emptied(p) ELSE cache
      /\ dirty' = IF there THEN dirty \cup {p} ELSE dirty
      /\ crossed' = (crossed \cup (IF there THEN Working ELSE {})) \ {q}
      /\ Becomes(q, IF there THEN [task[q] EXCEPT !.at = "truncate", !.rows = catalog]
                             ELSE Over(q))
      /\ UNCHANGED <<upstream, catalog, confVars, copy, doubt, calm, events>>

Truncate(q) ==
  /\ At(q, "truncate") \/ (At(q, "files") /\ task[q].todo = {} /\ ~Gone(q))
  /\ catalog' = NoRows
  /\ Outdates(q)
  /\ GoTo(q, "write")
  /\ UNCHANGED <<upstream, cache, dirty, confVars, copy, doubt, calm, events>>

NewRow(q) == IF task[q].op = "remove" THEN None ELSE task[q].target
\* Fault: the rows of the other providers are not written back.
OwnRowOnly(q) == [NoRows EXCEPT ![task[q].provider] = NewRow(q)]
NewRows(q) == [task[q].rows EXCEPT ![task[q].provider] = NewRow(q)]

\* Where a task goes on after the store has been written.
AfterWrite(q) ==
  IF task[q].op = "refresh" /\ ~task[q].marks
  THEN [Resting EXCEPT !.at = "look"]
  ELSE BrokenOff(q)

WriteRows(q) ==
  LET p == task[q].provider
      full == ~task[q].marks /\ task[q].rows[p] # task[q].target
  IN  /\ At(q, "write")
      /\ catalog' = NewRows(q)
      /\ dirty' = IF q \in crossed THEN Provider
                  ELSE IF full THEN dirty \ {p} ELSE dirty
      /\ Outdates(q)
      /\ Becomes(q, AfterWrite(q))
      /\ UNCHANGED <<upstream, cache, confVars, copy, doubt, calm, events>>

\* The catalogue stays empty; the failure of a synchronisation is noted in it.
WriteFails(q) ==
  /\ At(q, "write")
  /\ Failure
  /\ Becomes(q, IF task[q].marks \/ task[q].op = "remove"
                THEN BrokenOff(q)
                ELSE [task[q] EXCEPT !.at = "mark", !.rows = NoRows, !.target = 0])
  /\ UNCHANGED <<upstream, diskVars, confVars, copy, crossed, doubt>>

\* The boot sequence synchronises the providers that were configured when it
\* began, one after the other, and then heals the copy.
BootNext(p) ==
  /\ At(Boot, "next") /\ p \in task[Boot].left
  /\ Becomes(Boot, [Syncing(Boot, "boot", p) EXCEPT !.left = @ \ {p}])
  /\ Reads(Boot)
  /\ UNCHANGED <<dirty, calm, events>>

BootReconciles ==
  /\ At(Boot, "next") /\ task[Boot].left = {}
  /\ GoTo(Boot, "look")
  /\ UNCHANGED <<upstream, diskVars, confVars, copy, crossed, doubt, calm, events>>

(***************************************************************************)
(* The installed copy: files are copied from the cache as it is then, into *)
(* a directory that exists from the first of them on.                      *)
(***************************************************************************)
\* A recorded copy that is missing is copied again if its provider offers it.
Look(q) ==
  LET p == config.record
      missing == p # None /\ copy = None
      offered == p # None /\ catalog[p] \notin {None, 0}
  IN  /\ At(q, "look")
      /\ Becomes(q, IF missing /\ offered
                    THEN [task[q] EXCEPT !.at = "copy", !.provider = p, !.todo = File]
                    ELSE Over(q))
      /\ Reads(q)
      /\ UNCHANGED <<dirty, calm, events>>

Copying(q) == At(q, "copy")
Elsewhere(q) == \E r \in Process \ {q} : Copying(r)

\* Whether others may remove or leave behind what this task has copied.
Disturbed(q) == Elsewhere(q) \/ (task[q].todo # File /\ doubt)

CopyFile(q) ==
  LET p == task[q].provider
      f == First(q)
      base == IF copy = None THEN [g \in File |-> None] ELSE copy
  IN  /\ Copying(q) /\ task[q].todo # {}
      /\ cache[p][f] # 0
      /\ copy' = [base EXCEPT ![f] = <<p, cache[p][f]>>]
      /\ doubt' = Disturbed(q)
      /\ task' = [task EXCEPT ![q].todo = @ \ {f}]
      /\ UNCHANGED <<upstream, diskVars, confVars, crossed, calm, events>>

\* A file is not in the cache, or cannot be written: the directory is removed.
\* Fault: what has been copied stays.
LeftBehind == copy
RolledBack == None

\* What a removal that fails leaves of the directory.
Remains(kept) == [f \in File |-> IF copy # None /\ f \in kept THEN copy[f] ELSE None]

CopyFails(q) ==
  /\ Copying(q) /\ task[q].todo # {}
  /\ \/ cache[task[q].provider][First(q)] = 0 /\ UNCHANGED <<calm, events>>
        /\ copy' = RolledBack /\ doubt' = Elsewhere(q)
     \/ Failure /\ copy' = RolledBack /\ doubt' = Elsewhere(q)
     \/ Failure /\ (\E kept \in SUBSET File : copy' = Remains(kept)) /\ doubt' = TRUE
  /\ Becomes(q, Over(q))
  /\ UNCHANGED <<upstream, diskVars, confVars, crossed>>

\* The skill is copied; an installation or update is recorded.
CopyEnds(q) ==
  /\ Copying(q) /\ task[q].todo = {}
  /\ Becomes(q, IF task[q].op = "install"
                THEN [task[q] EXCEPT !.at = "save", !.provider = None,
                                     !.plan = [config EXCEPT !.record = task[q].provider]]
                ELSE Over(q))
  /\ UNCHANGED <<upstream, diskVars, confVars, copy, crossed, doubt, calm, events>>

\* The copy was moved to the trash; its record goes unless there is one again.
Listed(w) ==
  /\ At(w, "listed")
  /\ Becomes(w, IF Installed
                THEN Resting
                ELSE [task[w] EXCEPT !.at = "save", !.plan = [config EXCEPT !.record = None]])
  /\ UNCHANGED <<upstream, diskVars, confVars, copy, crossed, doubt, calm, events>>

(***************************************************************************)
(* What others do.                                                         *)
(***************************************************************************)
Upstream(p) ==
  /\ Event
  /\ \E v \in Version \ {upstream[p]} : upstream' = [upstream EXCEPT ![p] = v]
  /\ calm' = FALSE
  /\ UNCHANGED <<diskVars, confVars, copy, task, crossed, doubt>>

\* The host stops and starts again: every operation ends where it was, and the
\* configuration is read anew.
Crash ==
  /\ ~At(Boot, "idle")
  /\ Failure
  /\ task' = [q \in Process |-> Resting]
  /\ crossed' = {}
  /\ doubt' = (doubt \/ \E q \in Process : Copying(q))
  /\ config' = IF pending = None THEN config ELSE pending
  /\ pending' = None
  /\ UNCHANGED <<upstream, diskVars, copy>>

\* Nothing is cached or installed; the configuration may be the one of another
\* machine.
Init ==
  /\ upstream = [p \in Provider |-> 1]
  /\ cache = [p \in Provider |-> [f \in File |-> 0]]
  /\ catalog = NoRows
  /\ config \in Configs /\ pending = None
  /\ copy = None
  /\ task = [q \in Process |-> Resting]
  /\ crossed = {} /\ dirty = {} /\ doubt = FALSE /\ calm = FALSE /\ events = 0

StoreSteps(q) ==
  \/ SyncReads(q) \/ WriteFile(q) \/ DropStale(q) \/ SyncFails(q)
  \/ MarkReads(q) \/ DropReads(q) \/ Truncate(q) \/ WriteRows(q) \/ WriteFails(q)

CopySteps(q) ==
  \/ Look(q) \/ CopyFile(q) \/ CopyFails(q) \/ CopyEnds(q)

Next ==
  \/ BootBegins \/ BootReconciles \/ \E p \in Provider : BootNext(p)
  \/ \E w \in Panel, p \in Provider :
       AddProvider(w, p) \/ RemoveProvider(w, p) \/ RefreshProvider(w, p)
         \/ InstallSkill(w, p) \/ UpdateSkill(w, p)
  \/ \E w \in Panel : DetachSkill(w) \/ DeleteSkill(w) \/ Listed(w)
  \/ \E q \in Process : Save(q) \/ SaveFails(q) \/ StoreSteps(q) \/ CopySteps(q)
  \/ \E p \in Provider : Upstream(p)
  \/ Live \/ Crash

Spec == Init /\ [][Next]_vars

(***************************************************************************)
(* Properties.                                                             *)
(***************************************************************************)
\* "so no half a skill is left behind" (skills-service.ts): a copy that nobody is
\* writing has all its files, of one provider, though the cache may lose or
\* change them while they are copied, and copying may fail or be repeated over an
\* older copy; unless the host stopped in the middle of a copying, a removal
\* failed, or two tasks copied or deleted at the same time (copySkillFiles).
WholeCopy ==
  copy # None /\ ~doubt /\ (\A q \in Process : ~Copying(q)) =>
    \E p \in Provider : \A f \in File : copy[f] # None /\ copy[f][1] = p

\* What the catalogue offers is what the cache holds: a row names the version
\* of all files of its provider, unless a synchronisation of it broke off or
\* is under way, or one wrote rows that were outdated when it wrote them
\* (syncProvider).
OfferedIsCached ==
  \A p \in Provider : catalog[p] \notin {None, 0} /\ p \notin dirty =>
    \A f \in File : cache[p][f] = catalog[p]

\* A boot sequence in whose course nothing else happens, and whose own writing
\* of the configuration is live at once, repairs what crashes, failures and
\* crossing operations left: the catalogue has the row of every
\* configured provider, of the version it offers, and the recorded copy is
\* there if its provider offers it (refreshProviders, reconcileInstalled).
BootHeals ==
  At(Boot, "done") /\ calm =>
    /\ \A p \in config.providers : catalog[p] = upstream[p]
    /\ config.record \in config.providers \ dirty /\ upstream[config.record] # 0
         => copy # None

=============================================================================
