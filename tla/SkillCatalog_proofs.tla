------------------------- MODULE SkillCatalog_proofs -------------------------
(***************************************************************************)
(* Proofs about SkillCatalog for any providers, panels, files and bounds:  *)
(* what the catalogue offers is what the cache holds, no half a copy is    *)
(* left behind, and an undisturbed boot sequence repairs the rest.         *)
(***************************************************************************)
EXTENDS SkillCatalog, FiniteSetTheorems, TLAPS

\* What a task keeps while it is at a place.
Busy == {"read", "files", "truncate", "write", "mark", "drop", "copy"}
Placed(t) ==
  /\ t \in Task
  /\ t.at \in Busy => t.provider \in Provider
  /\ t.at = "save" /\ t.op \in {"add", "remove"} => t.provider \in Provider
  /\ t.at = "listed" => t.op = "delete"
  /\ t.at = "drop" => t.op = "remove"
  /\ t.marks => t.at \in {"truncate", "write"}
  /\ t.at = "files" /\ t.target = 0 => t.todo = {}
  /\ t.at \in {"truncate", "write"} =>
       \/ t.marks /\ t.target \in {0, t.rows[t.provider]}
       \/ ~t.marks /\ (t.op = "remove" \/ t.todo = {})

Stored ==
  /\ upstream \in [Provider -> Version]
  /\ cache \in [Provider -> [File -> Version]]
  /\ catalog \in Rows
  /\ config \in Config /\ pending \in Config \cup {None}
  /\ copy \in Copy \cup {None}
  /\ crossed \subseteq Process /\ dirty \subseteq Provider
  /\ doubt \in BOOLEAN /\ calm \in BOOLEAN
  /\ events \in 0..MaxEvents
Tasks ==
  /\ task \in [Process -> Task]
  /\ \A q \in Process : Placed(task[q])
  /\ task[Boot].op = "boot"
Types == Stored /\ Tasks

\* The rows a task has read, and what it has written of a skill.
HasRow(files, row) == row \notin {None, 0} => \A f \in File : files[f] = row
Holds(q) == task[q].at \in {"files", "truncate", "write"}
RowsKnown(q) ==
  Holds(q) /\ q \notin crossed =>
    /\ \A p \in Provider \ dirty : HasRow(cache[p], task[q].rows[p])
    /\ task[q].marks \/ task[q].op = "remove" \/ task[q].target = 0
         \/ task[q].target = task[q].rows[task[q].provider]
         \/ \A f \in File \ task[q].todo : cache[task[q].provider][f] = task[q].target

\* What a task has copied is there, and from its provider.
From(files, p) == \A f \in files : copy[f] # None /\ copy[f][1] = p
Copier(q) ==
  Copying(q) /\ ~doubt /\ task[q].todo # File =>
    copy # None /\ From(File \ task[q].todo, task[q].provider)

Agreement ==
  /\ OfferedIsCached /\ WholeCopy
  /\ \A q \in Process : RowsKnown(q) /\ Copier(q)

\* How far an undisturbed boot sequence has got.
Repaired(providers) == \A p \in config.providers \cap providers : catalog[p] = upstream[p]
CopyThere ==
  config.record \in config.providers \ dirty /\ upstream[config.record] # 0 => copy # None
BootGoes ==
  /\ task[Boot].at \in {"idle", "save", "next", "files", "truncate", "write",
                        "look", "copy", "done"}
  /\ At(Boot, "next") => Repaired(Provider \ task[Boot].left)
  /\ Holds(Boot) =>
       /\ ~task[Boot].marks /\ task[Boot].target = upstream[task[Boot].provider]
       /\ \A p \in config.providers \ (task[Boot].left \cup {task[Boot].provider}) :
            task[Boot].rows[p] = upstream[p]
  /\ task[Boot].at \in {"look", "copy", "done"} => Repaired(Provider)
  /\ At(Boot, "copy") =>
       task[Boot].provider = config.record /\ (task[Boot].todo # File => copy # None)
  /\ At(Boot, "done") => CopyThere
Repairing == calm => BootGoes /\ \A w \in Panel : w \notin Working

-----------------------------------------------------------------------------
(* Types *)

LEMMA Sets ==
  /\ None \notin Provider /\ None \notin Copy /\ None \notin Nat
  /\ 0 \in Version /\ Version \subseteq Nat
  /\ Boot \in Process /\ Panel \subseteq Process /\ Boot \notin Panel
  /\ Process = Panel \cup {Boot}
  /\ 0 \notin 1..MaxVersion /\ Version = {0} \cup 1..MaxVersion
  /\ File # {}
BY SkillCatalogAssumption DEF Version, Process, File

LEMMA RestingPlaced ==
  /\ Resting \in Task /\ NoRows \in Rows /\ NoConfig \in Config
  /\ Resting.at = "idle" /\ ~Resting.marks /\ Resting.op = "boot" /\ Resting.todo = {} /\ Resting.left = {}
  /\ Placed(Resting)
<1>1. NoRows \in Rows /\ NoConfig \in Config /\ 0 \in Version
  BY Sets DEF NoRows, Rows, NoConfig, Config
<1>2. Resting \in Task
  BY <1>1 DEF Resting, Task, Places, Operations
<1>3. QED
  BY <1>1, <1>2 DEF Resting, Placed, Busy

LEMMA Moved ==
  ASSUME task \in [Process -> Task], NEW q \in Process, NEW state \in Task, Becomes(q, state)
  PROVE  /\ task' \in [Process -> Task] /\ task'[q] = state
         /\ \A r \in Process : r # q => task'[r] = task[r]
BY DEF Becomes

LEMMA TasksMoved ==
  ASSUME Tasks, NEW q \in Process, NEW state, Placed(state), Becomes(q, state),
         q = Boot => state.op = "boot"
  PROVE  Tasks'
<1>1. state \in Task
  BY DEF Placed
<1>2. /\ task' \in [Process -> Task] /\ task'[q] = state
      /\ \A r \in Process : r # q => task'[r] = task[r]
  BY <1>1, Moved DEF Tasks
<1>3. \A r \in Process : Placed(task'[r])
  BY <1>2 DEF Tasks
<1>4. task'[Boot].op = "boot"
  BY <1>2, Sets DEF Tasks
<1>5. QED
  BY <1>2, <1>3, <1>4 DEF Tasks

\* A task that has begun to synchronise.
LEMMA SyncingPlaced ==
  ASSUME Types, NEW q \in Process, NEW op \in Operations, NEW p \in Provider
  PROVE  LET t == Syncing(q, op, p)
         IN  /\ Placed(t) /\ t.at = "files" /\ t.op = op /\ t.provider = p /\ ~t.marks
             /\ t.rows = catalog /\ t.target = upstream[p] /\ t.left = task[q].left
             /\ t.todo = FilesToWrite(catalog[p], upstream[p])
<1> DEFINE t == Syncing(q, op, p)
<1>1. FilesToWrite(catalog[p], upstream[p]) \in SUBSET File
      /\ (upstream[p] = 0 => FilesToWrite(catalog[p], upstream[p]) = {})
  BY DEF FilesToWrite
<1>2. catalog \in Rows /\ upstream[p] \in Version
  BY DEF Types, Stored
<1>3. Resting \in Task /\ task[q].left \in SUBSET Provider
  BY RestingPlaced DEF Types, Tasks, Task
<1>4. Resting.marks = FALSE
  BY DEF Resting
<1>5. /\ t \in Task /\ t.at = "files" /\ t.op = op /\ t.provider = p /\ t.marks = FALSE
      /\ t.rows = catalog /\ t.target = upstream[p] /\ t.left = task[q].left
      /\ t.todo = FilesToWrite(catalog[p], upstream[p])
  BY <1>1, <1>2, <1>3, <1>4 DEF Syncing, Task, Places
<1> HIDE DEF t
<1>6. Placed(t)
  BY <1>1, <1>5 DEF Placed
<1>7. QED
  BY <1>5, <1>6 DEF t

\* A task that waits, or one that is to save a configuration.
LEMMA RestsPlaced ==
  ASSUME NEW at \in {"idle", "done", "next", "look"}, NEW left \in SUBSET Provider
  PROVE  LET t == [Resting EXCEPT !.at = at, !.left = left]
         IN  Placed(t) /\ t.at = at /\ t.op = "boot" /\ t.left = left
BY RestingPlaced DEF Placed, Task, Places, Busy

LEMMA SavesPlaced ==
  ASSUME NEW op \in Operations, NEW p \in Provider \cup {None}, NEW plan \in Config,
         op \in {"add", "remove"} => p \in Provider
  PROVE  LET t == [Resting EXCEPT !.at = "save", !.op = op, !.provider = p, !.plan = plan]
         IN  Placed(t) /\ t.at = "save" /\ t.op = op /\ t.plan = plan /\ t.provider = p
BY RestingPlaced DEF Placed, Task, Places, Busy

LEMMA OverPlaced ==
  ASSUME Tasks, NEW q \in Process
  PROVE  /\ Placed(Over(q)) /\ Over(q).op = "boot"
         /\ Over(q).at = IF q = Boot THEN "done" ELSE "idle"
         /\ Placed(BrokenOff(q)) /\ BrokenOff(q).op = "boot"
         /\ BrokenOff(q).at = IF q = Boot THEN "next" ELSE "idle"
         /\ q = Boot => BrokenOff(q).left = task[q].left
<1>1. task[q].left \in SUBSET Provider
  BY DEF Tasks, Task
<1>2. QED
  BY <1>1, RestingPlaced DEF Over, BrokenOff, Placed, Task, Places, Busy

\* What is asked of the service.
PanelSteps(w) ==
  \/ DetachSkill(w) \/ DeleteSkill(w) \/ Listed(w)
  \/ \E p \in Provider : \/ AddProvider(w, p) \/ RemoveProvider(w, p) \/ RefreshProvider(w, p)
                         \/ InstallSkill(w, p) \/ UpdateSkill(w, p)

BootSteps == BootBegins \/ BootReconciles \/ \E p \in Provider : BootNext(p)

LEMMA TasksOfPanel ==
  ASSUME Types, NEW w \in Panel, PanelSteps(w)
  PROVE  Tasks'
<1>1. w \in Process /\ w # Boot /\ Tasks /\ config \in Config
  BY Sets DEF Types, Stored
<1>2. ASSUME NEW p \in Provider, NEW op \in {"add", "refresh"}, Becomes(w, Syncing(w, op, p)) PROVE Tasks'
  <2>1. op \in Operations
    BY DEF Operations
  <2>2. Placed(Syncing(w, op, p))
    BY <1>1, <2>1, SyncingPlaced
  <2>3. QED
    BY <1>1, <1>2, <2>2, TasksMoved
<1>3. ASSUME NEW p \in Provider, AddProvider(w, p) PROVE Tasks'
  <2>1. [config EXCEPT !.providers = @ \cup {p}] \in Config
    BY <1>1 DEF Config
  <2>2. Placed([Resting EXCEPT !.at = "save", !.op = "add", !.provider = p,
                               !.plan = [config EXCEPT !.providers = @ \cup {p}]])
    <3>1. "add" \in Operations /\ p \in Provider \cup {None}
      BY DEF Operations
    <3>2. QED
      BY <2>1, <3>1, SavesPlaced
  <2>3. QED
    BY <1>1, <1>2, <1>3, <2>2, TasksMoved DEF AddProvider
<1>4. ASSUME NEW p \in Provider, RemoveProvider(w, p) PROVE Tasks'
  <2>1. [config EXCEPT !.providers = @ \ {p}] \in Config
    BY <1>1 DEF Config
  <2>2. Placed([Resting EXCEPT !.at = "save", !.op = "remove", !.provider = p,
                               !.plan = [config EXCEPT !.providers = @ \ {p}]])
    <3>1. "remove" \in Operations /\ p \in Provider \cup {None}
      BY DEF Operations
    <3>2. QED
      BY <2>1, <3>1, SavesPlaced
  <2>3. QED
    BY <1>1, <1>4, <2>2, TasksMoved DEF RemoveProvider
<1>5. ASSUME NEW p \in Provider, RefreshProvider(w, p) PROVE Tasks'
  BY <1>2, <1>5 DEF RefreshProvider
<1>6. ASSUME NEW p \in Provider, InstallSkill(w, p) \/ UpdateSkill(w, p) PROVE Tasks'
  <2>1. Placed([Resting EXCEPT !.at = "copy", !.op = "install", !.provider = p, !.todo = File])
    BY RestingPlaced DEF Placed, Task, Places, Operations, Busy
  <2>2. QED
    BY <1>1, <1>6, <2>1, TasksMoved DEF InstallSkill, UpdateSkill, Copies
<1>7. [config EXCEPT !.record = None] \in Config
  BY <1>1 DEF Config
<1>8. CASE DetachSkill(w)
  <2>1. Placed([Resting EXCEPT !.at = "save", !.op = "detach",
                               !.plan = [config EXCEPT !.record = None]])
    BY <1>7, RestingPlaced DEF Placed, Task, Places, Operations, Busy
  <2>2. QED
    BY <1>1, <1>8, <2>1, TasksMoved DEF DetachSkill
<1>9. CASE DeleteSkill(w)
  <2>1. Placed([Resting EXCEPT !.at = "listed", !.op = "delete"])
    BY RestingPlaced DEF Placed, Task, Places, Operations, Busy
  <2>2. QED
    BY <1>1, <1>9, <2>1, TasksMoved DEF DeleteSkill
<1>10. CASE Listed(w)
  <2>1. Placed([task[w] EXCEPT !.at = "save", !.plan = [config EXCEPT !.record = None]])
    BY <1>1, <1>7, <1>10 DEF Listed, At, Tasks, Placed, Task, Places, Busy
  <2>2. QED
    BY <1>1, <1>10, <2>1, RestingPlaced, TasksMoved DEF Listed
<1>11. QED
  BY <1>3, <1>4, <1>5, <1>6, <1>8, <1>9, <1>10 DEF PanelSteps

LEMMA TasksOfBoot ==
  ASSUME Types, BootSteps
  PROVE  Tasks'
<1>1. Boot \in Process /\ Tasks /\ config \in Config /\ task[Boot] \in Task
      /\ task[Boot].op = "boot" /\ Placed(task[Boot])
  BY Sets DEF Types, Stored, Tasks
<1>2. CASE BootBegins
  <2> DEFINE plan == IF config.providers = {} THEN [config EXCEPT !.providers = Default]
                                              ELSE NoConfig
             at == IF config.providers = {} THEN "save" ELSE "next"
             t == [task[Boot] EXCEPT !.at = at, !.op = "boot", !.plan = plan,
                                     !.left = config.providers]
  <2>1. plan \in Config /\ config.providers \in SUBSET Provider /\ at \in {"save", "next"}
    BY <1>1, RestingPlaced, SkillCatalogAssumption DEF Config
  <2>2. Becomes(Boot, t)
    BY <1>2 DEF BootBegins, Becomes
  <2> HIDE DEF plan, at
  <2>3. t \in Task /\ t.at = at /\ t.op = "boot" /\ ~t.marks
    <3>1. ~task[Boot].marks
      BY <1>1, <1>2 DEF BootBegins, At, Placed
    <3>2. QED
      BY <1>1, <2>1, <3>1 DEF Task, Places
  <2> HIDE DEF t
  <2>4. Placed(t)
    BY <2>1, <2>3 DEF Placed, Busy
  <2>5. QED
    BY <1>1, <2>2, <2>3, <2>4, TasksMoved
<1>3. CASE BootReconciles
  <2> DEFINE t == [task[Boot] EXCEPT !.at = "look"]
  <2>1. Becomes(Boot, t)
    BY <1>3 DEF BootReconciles, GoTo, Becomes
  <2>2. Placed(t) /\ t.op = "boot"
    BY <1>1, <1>3 DEF BootReconciles, At, Task, Places, Placed, Busy
  <2> HIDE DEF t
  <2>3. QED
    BY <1>1, <2>1, <2>2, TasksMoved
<1>4. ASSUME NEW p \in Provider, BootNext(p) PROVE Tasks'
  <2> DEFINE r == Syncing(Boot, "boot", p)
             t == [r EXCEPT !.left = @ \ {p}]
  <2>1. Becomes(Boot, t)
    BY <1>4 DEF BootNext
  <2>2. Placed(r) /\ r.at = "files" /\ r.op = "boot"
    <3>1. "boot" \in Operations
      BY DEF Operations
    <3>2. \A op \in Operations : /\ Placed(Syncing(Boot, op, p))
                                  /\ Syncing(Boot, op, p).at = "files"
                                  /\ Syncing(Boot, op, p).op = op
      BY <1>1, SyncingPlaced
    <3>3. QED
      BY <3>1, <3>2
  <2> HIDE DEF r
  <2>3. Placed(t) /\ t.op = "boot"
    BY <2>2 DEF Placed, Task
  <2> HIDE DEF t
  <2>4. QED
    BY <1>1, <2>1, <2>3, TasksMoved
<1>5. QED
  BY <1>2, <1>3, <1>4 DEF BootSteps

LEMMA TasksOfSave ==
  ASSUME Types, NEW q \in Process, Save(q) \/ SaveFails(q)
  PROVE  Tasks'
<1>1. Tasks /\ task[q] \in Task /\ Placed(task[q]) /\ At(q, "save")
      /\ (q = Boot => task[q].op = "boot")
  BY DEF Types, Tasks, Save, SaveFails
<1>2. task[q].plan.providers \in SUBSET Provider /\ config.providers \in SUBSET Provider
  BY <1>1 DEF Task, Config, Types, Stored
<1>3. \A left \in SUBSET Provider :
        /\ Placed([BrokenOff(Boot) EXCEPT !.left = left])
        /\ [BrokenOff(Boot) EXCEPT !.left = left].op = "boot"
  <2>1. Placed(BrokenOff(Boot)) /\ BrokenOff(Boot).op = "boot" /\ BrokenOff(Boot).at = "next"
    BY <1>1, Sets, OverPlaced
  <2>2. QED
    BY <2>1 DEF Placed, Task, Busy
<1>4. CASE SaveFails(q)
  BY <1>1, <1>2, <1>3, <1>4, RestingPlaced, TasksMoved DEF SaveFails
<1>5. CASE Save(q) /\ q = Boot
  <2>1. config'.providers \in SUBSET Provider
    BY <1>2, <1>5 DEF Save
  <2>2. Becomes(Boot, [BrokenOff(Boot) EXCEPT !.left = config'.providers])
    <3>1. Becomes(q, CASE q = Boot -> [BrokenOff(q) EXCEPT !.left = config'.providers]
                       [] task[q].op = "add" -> [task[q] EXCEPT !.at = "read", !.plan = NoConfig]
                       [] task[q].op = "remove" -> [task[q] EXCEPT !.at = "drop", !.plan = NoConfig]
                       [] OTHER -> Resting)
      BY <1>5 DEF Save
    <3>2. QED
      BY <1>1, <1>5, <3>1 DEF Becomes, Types
  <2>3. QED
    BY <1>1, <1>3, <1>5, <2>1, <2>2, TasksMoved
<1>6. CASE Save(q) /\ q # Boot /\ task[q].op = "add"
  <2> DEFINE t == [task[q] EXCEPT !.at = "read", !.plan = NoConfig]
  <2>1. Placed(t)
    BY <1>1, <1>6, RestingPlaced DEF At, Placed, Task, Places, Busy
  <2>2. Becomes(q, t)
    BY <1>6 DEF Save
  <2> HIDE DEF t
  <2>3. QED
    BY <1>1, <1>6, <2>1, <2>2, TasksMoved
<1>7. CASE Save(q) /\ q # Boot /\ task[q].op = "remove"
  <2> DEFINE t == [task[q] EXCEPT !.at = "drop", !.plan = NoConfig]
  <2>1. Placed(t)
    BY <1>1, <1>7, RestingPlaced DEF At, Placed, Task, Places, Busy
  <2>2. Becomes(q, t)
    BY <1>7 DEF Save
  <2> HIDE DEF t
  <2>3. QED
    BY <1>1, <1>7, <2>1, <2>2, TasksMoved
<1>8. CASE Save(q) /\ q # Boot /\ task[q].op \notin {"add", "remove"}
  BY <1>1, <1>8, RestingPlaced, TasksMoved DEF Save
<1>9. QED
  BY <1>4, <1>5, <1>6, <1>7, <1>8

LEMMA TasksOfStore ==
  ASSUME Types, NEW q \in Process, StoreSteps(q)
  PROVE  Tasks'
<1>1. Tasks /\ task[q] \in Task /\ Placed(task[q]) /\ (q = Boot => task[q].op = "boot")
  BY DEF Types, Tasks
<1>2. CASE SyncReads(q)
  <2> DEFINE r == Syncing(q, task[q].op, task[q].provider)
  <2>1. task[q].op \in Operations /\ task[q].provider \in Provider
    BY <1>1, <1>2 DEF SyncReads, At, Placed, Task, Busy
  <2>2. Placed(r) /\ r.op = task[q].op
    BY <2>1, SyncingPlaced
  <2>3. Becomes(q, r)
    BY <1>2 DEF SyncReads
  <2> HIDE DEF r
  <2>4. QED
    BY <1>1, <2>2, <2>3, TasksMoved
<1>3. CASE WriteFile(q)
  <2> DEFINE t == [task[q] EXCEPT !.todo = @ \ {First(q)}]
  <2>1. Becomes(q, t)
    BY <1>3 DEF WriteFile, Becomes
  <2>2. Placed(t) /\ t.op = task[q].op
    BY <1>1, <1>3 DEF WriteFile, At, Placed, Task, Busy
  <2> HIDE DEF t
  <2>3. QED
    BY <1>1, <2>1, <2>2, TasksMoved
<1>4. CASE DropStale(q)
  <2> DEFINE t == [task[q] EXCEPT !.at = "truncate"]
  <2>1. Becomes(q, t)
    BY <1>4 DEF DropStale, GoTo, Becomes
  <2>2. Placed(t) /\ t.op = task[q].op
    BY <1>1, <1>4 DEF DropStale, Gone, At, Placed, Task, Places, Busy
  <2> HIDE DEF t
  <2>3. QED
    BY <1>1, <2>1, <2>2, TasksMoved
<1>5. CASE SyncFails(q)
  <2> DEFINE t == [task[q] EXCEPT !.at = "mark", !.rows = NoRows, !.todo = {}, !.target = 0]
  <2>1. Becomes(q, t)
    BY <1>5 DEF SyncFails
  <2>2. Placed(t) /\ t.op = task[q].op
    BY <1>1, <1>5, RestingPlaced, Sets DEF SyncFails, At, Placed, Task, Places, Busy
  <2> HIDE DEF t
  <2>3. QED
    BY <1>1, <2>1, <2>2, TasksMoved
<1>6. CASE MarkReads(q)
  <2> DEFINE row == catalog[task[q].provider]
             target == IF row = None THEN 0 ELSE row
             t == [task[q] EXCEPT !.at = "truncate", !.marks = TRUE, !.rows = catalog,
                                  !.target = target]
  <2>1. Becomes(q, t)
    BY <1>6 DEF MarkReads, Becomes
  <2>2. task[q].provider \in Provider /\ catalog \in Rows
    BY <1>1, <1>6 DEF MarkReads, At, Placed, Busy, Types, Stored
  <2>3. target \in Version /\ target \in {0, catalog[task[q].provider]}
    BY <2>2, Sets DEF Rows
  <2> HIDE DEF target
  <2>4. t \in Task /\ t.at = "truncate" /\ t.marks /\ t.target = target /\ t.rows = catalog
        /\ t.provider = task[q].provider /\ t.op = task[q].op
    BY <1>1, <2>2, <2>3 DEF Task, Places
  <2> HIDE DEF t
  <2>5. Placed(t)
    BY <2>2, <2>3, <2>4 DEF Placed, Busy
  <2>6. QED
    BY <1>1, <2>1, <2>4, <2>5, TasksMoved
<1>7. CASE DropReads(q)
  <2> DEFINE t == [task[q] EXCEPT !.at = "truncate", !.rows = catalog]
  <2>1. Becomes(q, t) \/ Becomes(q, Over(q))
    BY <1>7 DEF DropReads
  <2>2. task[q].op = "remove" /\ ~task[q].marks => Placed(t) /\ t.op = task[q].op
    BY <1>1, <1>7 DEF DropReads, At, Placed, Task, Places, Busy, Types, Stored
  <2>3. task[q].op = "remove" /\ ~task[q].marks
    BY <1>1, <1>7 DEF DropReads, At, Placed
  <2> HIDE DEF t
  <2>4. QED
    BY <1>1, <2>1, <2>2, <2>3, OverPlaced, TasksMoved
<1>8. CASE Truncate(q)
  <2> DEFINE t == [task[q] EXCEPT !.at = "write"]
  <2>1. Becomes(q, t)
    BY <1>8 DEF Truncate, GoTo, Becomes
  <2>2. Placed(t) /\ t.op = task[q].op
    BY <1>1, <1>8 DEF Truncate, At, Placed, Task, Places, Busy
  <2> HIDE DEF t
  <2>3. QED
    BY <1>1, <2>1, <2>2, TasksMoved
<1>9. CASE WriteRows(q)
  <2>1. Becomes(q, AfterWrite(q))
    BY <1>9 DEF WriteRows
  <2>2. Placed([Resting EXCEPT !.at = "look"]) /\ [Resting EXCEPT !.at = "look"].op = "boot"
    BY RestingPlaced DEF Placed, Task, Places, Busy
  <2>3. Placed(AfterWrite(q)) /\ AfterWrite(q).op = "boot"
    BY <1>1, <2>2, OverPlaced DEF AfterWrite
  <2>4. QED
    BY <1>1, <2>1, <2>3, TasksMoved
<1>10. CASE WriteFails(q)
  <2> DEFINE t == [task[q] EXCEPT !.at = "mark", !.rows = NoRows, !.target = 0]
  <2>1. (~task[q].marks /\ Becomes(q, t)) \/ Becomes(q, BrokenOff(q))
    BY <1>10 DEF WriteFails
  <2>2. ~task[q].marks => Placed(t) /\ t.op = task[q].op
    BY <1>1, <1>10, RestingPlaced, Sets DEF WriteFails, At, Placed, Task, Places, Busy
  <2> HIDE DEF t
  <2>3. QED
    BY <1>1, <2>1, <2>2, OverPlaced, TasksMoved
<1>11. QED
  BY <1>2, <1>3, <1>4, <1>5, <1>6, <1>7, <1>8, <1>9, <1>10 DEF StoreSteps

LEMMA TasksOfCopy ==
  ASSUME Types, NEW q \in Process, CopySteps(q)
  PROVE  Tasks'
<1>1. Tasks /\ task[q] \in Task /\ Placed(task[q]) /\ (q = Boot => task[q].op = "boot")
  BY DEF Types, Tasks
<1>2. CASE Look(q)
  <2> DEFINE t == [task[q] EXCEPT !.at = "copy", !.provider = config.record, !.todo = File]
  <2>1. Becomes(q, Over(q)) \/ (config.record # None /\ Becomes(q, t))
    BY <1>2 DEF Look
  <2>2. config.record # None => config.record \in Provider
    BY DEF Types, Stored, Config
  <2>3. config.record # None => Placed(t) /\ t.op = task[q].op
    BY <1>1, <1>2, <2>2 DEF Look, At, Placed, Task, Places, Busy
  <2> HIDE DEF t
  <2>4. QED
    BY <1>1, <2>1, <2>3, OverPlaced, TasksMoved
<1>3. CASE CopyFile(q)
  <2> DEFINE t == [task[q] EXCEPT !.todo = @ \ {First(q)}]
  <2>1. Becomes(q, t)
    BY <1>3 DEF CopyFile, Becomes
  <2>2. Placed(t) /\ t.op = task[q].op
    BY <1>1, <1>3 DEF CopyFile, Copying, At, Placed, Task, Busy
  <2> HIDE DEF t
  <2>3. QED
    BY <1>1, <2>1, <2>2, TasksMoved
<1>4. CASE CopyFails(q)
  BY <1>1, <1>4, OverPlaced, TasksMoved DEF CopyFails
<1>5. CASE CopyEnds(q)
  <2> DEFINE t == [task[q] EXCEPT !.at = "save", !.provider = None,
                                  !.plan = [config EXCEPT !.record = task[q].provider]]
  <2>1. Becomes(q, Over(q)) \/ (task[q].op = "install" /\ Becomes(q, t))
    BY <1>5 DEF CopyEnds
  <2>2. [config EXCEPT !.record = task[q].provider] \in Config
    BY <1>1 DEF Types, Stored, Config, Task
  <2>3. task[q].op = "install" => Placed(t) /\ t.op = task[q].op
    BY <1>1, <1>5, <2>2 DEF CopyEnds, Copying, At, Placed, Task, Places, Busy
  <2> HIDE DEF t
  <2>4. QED
    BY <1>1, <2>1, <2>3, OverPlaced, TasksMoved
<1>6. QED
  BY <1>2, <1>3, <1>4, <1>5 DEF CopySteps

-----------------------------------------------------------------------------
(* What is stored *)

\* Of the files that are still to be done there is a first.
LEMMA Least ==
  ASSUME NEW S \in SUBSET Nat, S # {}
  PROVE \E f \in S : \A g \in S : f <= g
<1> DEFINE T == {0..k : k \in S}
<1>1. \A k \in S : 0..k \in SUBSET Nat /\ IsFiniteSet(0..k)
  BY FS_Interval
<1>2. T \in SUBSET FiniteSubsetsOf(Nat) /\ T # {}
  BY <1>1 DEF FiniteSubsetsOf
<1>3. IsWellFoundedOn(StrictSubsetOrdering(Nat), FiniteSubsetsOf(Nat))
  BY FS_StrictSubsetOrderingWellFounded, Zenon
<1> HIDE DEF T
<1>4. PICK t \in T : \A y \in T : ~ (<<y, t>> \in StrictSubsetOrdering(Nat))
  <2>1. \E t \in T : \A y \in T : ~ (<<y, t>> \in StrictSubsetOrdering(Nat))
    BY <1>2, <1>3, WFMin, Zenon
  <2>2. QED
    BY <2>1
<1>5. PICK f \in S : t = 0..f
  BY DEF T
<1>6. ASSUME NEW g \in S, g < f PROVE FALSE
  <2>1. 0..g \in T /\ 0..g \subseteq 0..f
    BY <1>6 DEF T
  <2>2. 0..g # 0..f
    <3>1. f \in 0..f /\ f \notin 0..g
      BY <1>6
    <3>2. QED
      BY <3>1
  <2>3. 0..g \in SUBSET Nat /\ 0..f \in SUBSET Nat
    BY <1>1
  <2> DEFINE ss == <<0..g, 0..f>>
  <2>4. ss \in (SUBSET Nat) \X (SUBSET Nat) /\ ss[1] = 0..g /\ ss[2] = 0..f
    BY <2>3
  <2>5. ss \in StrictSubsetOrdering(Nat)
    BY <2>1, <2>2, <2>4 DEF StrictSubsetOrdering
  <2>6. QED
    BY <1>4, <1>5, <2>1, <2>5
<1>7. QED
  BY <1>6

LEMMA FirstIsOne ==
  ASSUME Tasks, NEW q \in Process, task[q].todo # {}
  PROVE  First(q) \in task[q].todo /\ First(q) \in File
<1>1. task[q].todo \in SUBSET File /\ File \subseteq Nat
  BY DEF Tasks, Task, File
<1>2. \E f \in task[q].todo : \A g \in task[q].todo : f <= g
  BY <1>1, Least
<1>3. First(q) \in task[q].todo
  BY <1>2 DEF First
<1>4. QED
  BY <1>1, <1>3

\* Only what the task is at is touched.
LEMMA StoredKept ==
  ASSUME Stored, crossed' \in SUBSET Process,
         UNCHANGED <<upstream, cache, catalog, copy, dirty>>,
         config' \in Config, pending' \in Config \cup {None}, doubt' \in BOOLEAN, calm' \in BOOLEAN, events' \in 0..MaxEvents
  PROVE  Stored'
BY DEF Stored

LEMMA EventTyped ==
  ASSUME Stored
  PROVE  /\ Event => events' \in 0..MaxEvents
         /\ Failure => events' \in 0..MaxEvents /\ calm' \in BOOLEAN
<1>1. MaxEvents \in Nat
  BY SkillCatalogAssumption
<1>2. Event => events' \in 0..MaxEvents
  BY <1>1 DEF Event, Stored
<1>3. Failure => calm' \in BOOLEAN
  BY DEF Failure
<1>4. QED
  BY <1>2, <1>3 DEF Failure

LEMMA StoredOfPanel ==
  ASSUME Types, NEW w \in Panel, PanelSteps(w)
  PROVE  Stored'
<1>1. Stored /\ w \in Process
  BY Sets DEF Types
<1>2. CASE DeleteSkill(w)
  <2>1. doubt' \in BOOLEAN
    BY <1>2 DEF DeleteSkill
  <2>2. QED
    BY <1>1, <1>2, <2>1, EventTyped DEF DeleteSkill, Asks, NoAsk, diskVars, confVars, Stored
<1>3. CASE ~DeleteSkill(w)
  <2>1. UNCHANGED <<upstream, cache, catalog, copy, dirty, config, pending, doubt>>
        /\ crossed' \in SUBSET Process
    BY <1>1, <1>3
    DEF PanelSteps, AddProvider, RemoveProvider, RefreshProvider, InstallSkill, UpdateSkill, Copies,
        DetachSkill, Listed, NoAsk, diskVars, confVars, Reads, Stored
  <2>2. events' \in 0..MaxEvents /\ calm' \in BOOLEAN
    BY <1>1, <1>3, EventTyped
    DEF PanelSteps, AddProvider, RemoveProvider, RefreshProvider, InstallSkill, UpdateSkill,
        DetachSkill, Listed, Asks, Stored
  <2>3. QED
    BY <1>1, <2>1, <2>2, StoredKept DEF Stored
<1>4. QED
  BY <1>2, <1>3

LEMMA StoredOfBoot ==
  ASSUME Types, BootSteps
  PROVE  Stored'
<1>1. Stored /\ Boot \in Process
  BY Sets DEF Types
<1>2. UNCHANGED <<upstream, cache, catalog, copy, dirty, config, pending, doubt, events>>
      /\ crossed' \in SUBSET Process
  BY <1>1 DEF BootSteps, BootBegins, BootReconciles, BootNext, diskVars, confVars, Reads, Stored
<1>3. calm' \in BOOLEAN
  BY <1>1 DEF BootSteps, BootBegins, BootReconciles, BootNext, Stored
<1>4. QED
  BY <1>1, <1>2, <1>3, StoredKept DEF Stored

LEMMA StoredOfSave ==
  ASSUME Types, NEW q \in Process, Save(q) \/ SaveFails(q)
  PROVE  Stored'
<1>1. Stored /\ task[q].plan \in Config
  BY DEF Types, Tasks, Task
<1>2. UNCHANGED <<upstream, cache, catalog, copy, dirty, crossed, doubt>>
      /\ config' \in Config /\ pending' \in Config \cup {None}
  BY <1>1 DEF Save, SaveFails, diskVars, confVars, Stored
<1>3. events' \in 0..MaxEvents /\ calm' \in BOOLEAN
  BY <1>1, EventTyped DEF Save, SaveFails, Stored
<1>4. QED
  BY <1>1, <1>2, <1>3, StoredKept DEF Stored

LEMMA StoredOfStore ==
  ASSUME Types, NEW q \in Process, StoreSteps(q)
  PROVE  Stored'
<1> DEFINE p == task[q].provider
<1>1. Stored /\ task[q] \in Task /\ Placed(task[q])
  BY DEF Types, Tasks
<1>2. UNCHANGED <<upstream, config, pending, copy, doubt>>
  BY DEF StoreSteps, SyncReads, WriteFile, DropStale, SyncFails, MarkReads, DropReads,
         Truncate, WriteRows, WriteFails, Reads, diskVars, confVars
<1>3. events' \in 0..MaxEvents /\ calm' \in BOOLEAN
  BY <1>1, EventTyped
  DEF StoreSteps, SyncReads, WriteFile, DropStale, SyncFails, MarkReads, DropReads,
      Truncate, WriteRows, WriteFails, Stored
<1>4. crossed' \in SUBSET Process
  <2>1. Working \subseteq Process /\ crossed \subseteq Process
    BY <1>1 DEF Working, Stored
  <2>2. crossed' \subseteq crossed \cup Working \cup {q}
    BY DEF StoreSteps, SyncReads, WriteFile, DropStale, SyncFails, MarkReads, DropReads,
         Truncate, WriteRows, WriteFails, Reads, confVars, Outdates
  <2>3. QED
    BY <2>1, <2>2
<1>5. \A r \in Provider : Emptied(r) \in [Provider -> [File -> Version]]
  BY <1>1, Sets DEF Emptied, Stored
<1>6. At(q, "read") \/ At(q, "files") \/ At(q, "truncate") \/ At(q, "write")
        \/ At(q, "mark") \/ At(q, "drop")
  BY DEF StoreSteps, SyncReads, WriteFile, DropStale, SyncFails, MarkReads, DropReads,
         Truncate, WriteRows, WriteFails
<1>7. p \in Provider
  BY <1>1, <1>6 DEF Placed, Busy, At
<1>8. cache' \in [Provider -> [File -> Version]] /\ dirty' \subseteq Provider
  <2>1. task[q].target \in Version
    BY <1>1 DEF Task
  <2>2. [cache EXCEPT ![p][First(q)] = task[q].target] \in [Provider -> [File -> Version]]
    BY <1>1, <1>7, <2>1 DEF Stored
  <2>3. cache' \in [Provider -> [File -> Version]]
    BY <1>1, <1>5, <1>7, <2>2
    DEF StoreSteps, SyncReads, WriteFile, DropStale, SyncFails, MarkReads, DropReads,
        Truncate, WriteRows, WriteFails, Reads, diskVars, confVars, Stored
  <2>4. dirty' \subseteq Provider
    BY <1>1, <1>7
    DEF StoreSteps, SyncReads, WriteFile, DropStale, SyncFails, MarkReads, DropReads,
        Truncate, WriteRows, WriteFails, diskVars, confVars, Stored
  <2>5. QED
    BY <2>3, <2>4
<1>9. catalog' \in Rows
  <2>1. NewRow(q) \in Version \cup {None} /\ task[q].rows \in Rows
    BY <1>1 DEF NewRow, Task
  <2>2. NewRows(q) \in Rows
    BY <1>7, <2>1 DEF NewRows, Rows
  <2>3. QED
    BY <1>1, <2>2, RestingPlaced
    DEF StoreSteps, SyncReads, WriteFile, DropStale, SyncFails, MarkReads, DropReads,
        Truncate, WriteRows, WriteFails, Reads, diskVars, confVars, Stored
<1>10. QED
  BY <1>1, <1>2, <1>3, <1>4, <1>8, <1>9 DEF Stored

LEMMA StoredOfCopy ==
  ASSUME Types, NEW q \in Process, CopySteps(q)
  PROVE  Stored'
<1>1. Stored /\ task[q] \in Task /\ Placed(task[q])
  BY DEF Types, Tasks
<1>2. UNCHANGED <<upstream, cache, catalog, dirty, config, pending>>
  BY DEF CopySteps, Look, CopyFile, CopyFails, CopyEnds, Reads, diskVars, confVars
<1>3. events' \in 0..MaxEvents /\ calm' \in BOOLEAN
  BY <1>1, EventTyped DEF CopySteps, Look, CopyFile, CopyFails, CopyEnds, Stored
<1>4. crossed' \in SUBSET Process
  BY <1>1 DEF CopySteps, Look, CopyFile, CopyFails, CopyEnds, Reads, confVars, Stored
<1>5. doubt' \in BOOLEAN
  BY <1>1 DEF CopySteps, Look, CopyFile, CopyFails, CopyEnds, Reads, confVars, Stored, Disturbed,
     Elsewhere
<1>6. copy' \in Copy \cup {None}
  <2>1. CASE CopyFile(q)
    <3> DEFINE p == task[q].provider
               base == IF copy = None THEN [g \in File |-> None] ELSE copy
    <3>1. First(q) \in File /\ p \in Provider
      BY <1>1, <2>1, FirstIsOne DEF CopyFile, Copying, At, Placed, Busy, Types
    <3>2. base \in Copy
      BY <1>1 DEF Stored, Copy
    <3>3. cache[p][First(q)] \in Version
      BY <1>1, <3>1 DEF Stored
    <3>4. copy' = [base EXCEPT ![First(q)] = <<p, cache[p][First(q)]>>]
      BY <2>1 DEF CopyFile
    <3> HIDE DEF base, p
    <3>5. QED
      BY <3>1, <3>2, <3>3, <3>4 DEF Copy
  <2>2. CASE CopyFails(q)
    <3>1. \A kept \in SUBSET File : Remains(kept) \in Copy
      BY <1>1 DEF Remains, Stored, Copy
    <3>2. QED
      BY <2>2, <3>1 DEF CopyFails, RolledBack
  <2>3. CASE Look(q) \/ CopyEnds(q)
    BY <1>1, <2>3 DEF CopySteps, Look, CopyFails, CopyEnds, Reads, confVars, Stored
  <2>4. QED
    BY <2>1, <2>2, <2>3 DEF CopySteps
<1>7. QED
  BY <1>1, <1>2, <1>3, <1>4, <1>5, <1>6 DEF Stored

LEMMA TypesInit == Init => Types
<1> SUFFICES ASSUME Init PROVE Types
  OBVIOUS
<1>1. Stored
  <2>1. MaxEvents \in Nat /\ Configs \subseteq Config /\ 1 \in Version
    BY SkillCatalogAssumption DEF Version
  <2>2. upstream \in [Provider -> Version] /\ cache \in [Provider -> [File -> Version]]
    BY <2>1, Sets DEF Init
  <2>3. events \in 0..MaxEvents
    BY <2>1 DEF Init
  <2>4. QED
    BY <2>1, <2>2, <2>3, RestingPlaced DEF Init, Stored
<1>2. Tasks
  BY Sets, RestingPlaced DEF Init, Tasks
<1>3. QED
  BY <1>1, <1>2 DEF Types

LEMMA TypesNext == Types /\ [Next]_vars => Types'
<1> SUFFICES ASSUME Types, [Next]_vars PROVE Types'
  OBVIOUS
<1>1. CASE UNCHANGED vars
  BY <1>1 DEF vars, diskVars, confVars, Types, Stored, Tasks
<1>2. ASSUME NEW p \in Provider, Upstream(p) PROVE Types'
  <2>1. upstream' \in [Provider -> Version]
    BY <1>2 DEF Upstream, Types, Stored
  <2>2. events' \in 0..MaxEvents
    BY <1>2, EventTyped DEF Upstream, Types
  <2>3. QED
    BY <1>2, <2>1, <2>2 DEF Upstream, diskVars, confVars, Types, Stored, Tasks
<1>3. CASE Crash
  <2>1. Tasks'
    BY <1>3, Sets, RestingPlaced DEF Crash, Tasks
  <2>2. doubt' \in BOOLEAN /\ crossed' = {} /\ config' \in Config /\ pending' = None
    BY <1>3 DEF Crash, Types, Stored
  <2>3. Stored'
    BY <1>3, <2>2, EventTyped, StoredKept DEF Crash, diskVars, confVars, Types, Stored
  <2>4. QED
    BY <2>1, <2>3 DEF Types
<1>8. CASE Live
  BY <1>8 DEF Live, diskVars, Types, Stored, Tasks
<1>4. ASSUME NEW q \in Process, Save(q) \/ SaveFails(q) \/ StoreSteps(q) \/ CopySteps(q)
      PROVE  Types'
  BY <1>4, TasksOfSave, TasksOfStore, TasksOfCopy, StoredOfSave, StoredOfStore, StoredOfCopy
  DEF Types
<1>5. CASE BootSteps
  BY <1>5, TasksOfBoot, StoredOfBoot DEF Types
<1>6. ASSUME NEW w \in Panel, PanelSteps(w) PROVE Types'
  BY <1>6, TasksOfPanel, StoredOfPanel DEF Types
<1>7. QED
  BY <1>1, <1>2, <1>3, <1>4, <1>5, <1>6, <1>8 DEF Next, BootSteps, PanelSteps

-----------------------------------------------------------------------------
(* What tasks do beside each other *)

LEMMA Becoming ==
  ASSUME Tasks, NEW q \in Process, NEW state, Becomes(q, state)
  PROVE  task'[q] = state /\ \A r \in Process \ {q} : task'[r] = task[r]
BY DEF Tasks, Becomes

\* A step of task q outdates what it changes for the others.
Beside(q) ==
  \A r \in Process \ {q} :
    /\ task'[r] = task[r]
    /\ r \in Working /\ r \notin crossed' =>
         r \notin crossed /\ UNCHANGED <<cache, catalog>> /\ dirty \subseteq dirty'
    /\ Copying(r) /\ ~doubt' => UNCHANGED copy /\ ~doubt

LEMMA BesideKeeps ==
  ASSUME Types, Agreement, NEW q \in Process, Beside(q), NEW r \in Process \ {q}
  PROVE  RowsKnown(r)' /\ Copier(r)'
<1>1. task'[r] = task[r] /\ RowsKnown(r) /\ Copier(r)
  BY DEF Beside, Agreement
<1>2. RowsKnown(r)'
  <2>1. CASE Holds(r) /\ r \notin crossed'
    <3>1. r \in Working
      BY <2>1 DEF Holds, Working
    <3>2. r \notin crossed /\ cache' = cache /\ dirty \subseteq dirty'
      BY <2>1, <3>1 DEF Beside
    <3>3. QED
      BY <1>1, <2>1, <3>2 DEF RowsKnown, HasRow, Holds
  <2>2. CASE ~(Holds(r) /\ r \notin crossed')
    BY <1>1, <2>2 DEF RowsKnown, Holds
  <2>3. QED
    BY <2>1, <2>2
<1>3. Copier(r)'
  <2>1. CASE Copying(r) /\ ~doubt'
    <3>1. copy' = copy /\ ~doubt
      BY <2>1 DEF Beside
    <3>2. QED
      BY <1>1, <2>1, <3>1 DEF Copier, From, Copying, At
  <2>2. CASE ~(Copying(r) /\ ~doubt')
    BY <1>1, <2>2 DEF Copier, Copying, At
  <2>3. QED
    BY <2>1, <2>2
<1>4. QED
  BY <1>2, <1>3

LEMMA AgreementKept ==
  ASSUME Types, Agreement, NEW q \in Process, Beside(q),
         OfferedIsCached', WholeCopy', RowsKnown(q)', Copier(q)'
  PROVE  Agreement'
BY BesideKeeps DEF Agreement

\* Steps that leave the store and the copy alone.
Quiet(q) ==
  /\ UNCHANGED <<cache, catalog, dirty, copy, doubt>> /\ ~Copying(q)
  /\ \A r \in Process \ {q} : task'[r] = task[r] /\ (r \in crossed' <=> r \in crossed)

LEMMA QuietKeeps ==
  ASSUME Types, Agreement, NEW q \in Process, Quiet(q), RowsKnown(q)', Copier(q)'
  PROVE  Agreement'
<1>1. Beside(q)
  BY DEF Quiet, Beside
<1>2. OfferedIsCached'
  BY DEF Quiet, Agreement, OfferedIsCached
<1>3. WholeCopy'
  <2>1. (\A r \in Process : ~Copying(r)') => \A r \in Process : ~Copying(r)
    BY DEF Quiet, Copying, At
  <2>2. QED
    BY <2>1 DEF Quiet, Agreement, WholeCopy
<1>4. QED
  BY <1>1, <1>2, <1>3, AgreementKept

LEMMA RestKeeps ==
  ASSUME Types, Agreement, NEW q \in Process, Quiet(q),
         task'[q].at \notin {"files", "truncate", "write", "copy"}
  PROVE  Agreement'
BY QuietKeeps DEF RowsKnown, Holds, Copier, Copying, At

LEMMA ReadKeeps ==
  ASSUME Types, Agreement, NEW q \in Process, Quiet(q),
         task'[q].at \in {"files", "truncate"}, task'[q].rows = catalog,
         task'[q].provider \in Provider,
         \/ task'[q].marks \/ task'[q].todo = File \/ task'[q].target = 0
         \/ task'[q].target = catalog[task'[q].provider]
  PROVE  Agreement'
<1>1. \A p \in Provider \ dirty : HasRow(cache[p], catalog[p])
  BY DEF Agreement, OfferedIsCached, HasRow
<1>2. RowsKnown(q)'
  BY <1>1 DEF Quiet, RowsKnown, HasRow
<1>3. Copier(q)'
  BY DEF Copier, Copying, At
<1>4. QED
  BY <1>2, <1>3, QuietKeeps

LEMMA QuietReads ==
  ASSUME NEW q \in Process, Reads(q), \A r \in Process \ {q} : task'[r] = task[r],
         UNCHANGED dirty, ~Copying(q)
  PROVE  Quiet(q)
BY DEF Reads, confVars, Quiet

\* A synchronisation that begins.
LEMMA SyncingKeeps ==
  ASSUME Types, Agreement, NEW q \in Process, Quiet(q), NEW op \in Operations,
         NEW p \in Provider, NEW left,
         task'[q] \in {Syncing(q, op, p), [Syncing(q, op, p) EXCEPT !.left = left]}
  PROVE  Agreement'
<1> DEFINE t == Syncing(q, op, p)
<1>1. /\ t \in Task /\ t.at = "files" /\ t.provider = p /\ t.rows = catalog
      /\ t.target = upstream[p] /\ t.todo = FilesToWrite(catalog[p], upstream[p])
  BY SyncingPlaced DEF Placed
<1>2. /\ task'[q].at = t.at /\ task'[q].provider = t.provider /\ task'[q].rows = t.rows
      /\ task'[q].target = t.target /\ task'[q].todo = t.todo
  BY <1>1 DEF Task
<1> HIDE DEF t
<1>3. t.todo = File \/ t.target = 0 \/ t.target = catalog[p]
  BY <1>1 DEF FilesToWrite
<1>4. QED
  BY <1>1, <1>2, <1>3, ReadKeeps

\* A copying that begins.
LEMMA CopyingKeeps ==
  ASSUME Types, Agreement, NEW q \in Process, Quiet(q),
         task'[q].at = "copy", task'[q].todo = File
  PROVE  Agreement'
<1>1. RowsKnown(q)'
  BY DEF RowsKnown, Holds
<1>2. Copier(q)'
  BY DEF Copier
<1>3. QED
  BY <1>1, <1>2, QuietKeeps

LEMMA AgreementOfPanel ==
  ASSUME Types, Agreement, NEW w \in Panel, PanelSteps(w)
  PROVE  Agreement'
<1>1. w \in Process /\ w # Boot /\ Tasks /\ Resting \in Task /\ task[w] \in Task
  BY Sets, RestingPlaced DEF Types, Tasks
<1>2. ~Copying(w)
  BY DEF PanelSteps, AddProvider, RemoveProvider, RefreshProvider, InstallSkill, UpdateSkill,
         DetachSkill, DeleteSkill, Listed, Asks, At, Copying
<1>3. CASE DeleteSkill(w)
  <2>1. task'[w].at = "listed" /\ \A r \in Process \ {w} : task'[r] = task[r]
    <3>1. [Resting EXCEPT !.at = "listed", !.op = "delete"].at = "listed"
      BY <1>1 DEF Task
    <3>2. QED
      BY <1>1, <1>3, <3>1, Becoming DEF DeleteSkill
  <2>2. /\ copy' = None /\ UNCHANGED <<cache, catalog, dirty, crossed>>
        /\ \A r \in Process : Copying(r) => doubt'
    BY <1>3 DEF DeleteSkill, NoAsk, diskVars, confVars, Copying
  <2>3. Beside(w)
    BY <2>1, <2>2 DEF Beside
  <2>4. OfferedIsCached' /\ WholeCopy'
    BY <2>2 DEF Agreement, OfferedIsCached, WholeCopy
  <2>5. RowsKnown(w)' /\ Copier(w)'
    BY <2>1 DEF RowsKnown, Holds, Copier, Copying, At
  <2>6. QED
    BY <1>1, <2>3, <2>4, <2>5, AgreementKept
<1>4. ASSUME NEW p \in Provider, InstallSkill(w, p) \/ UpdateSkill(w, p) PROVE Agreement'
  <2> DEFINE t == [Resting EXCEPT !.at = "copy", !.op = "install", !.provider = p, !.todo = File]
  <2>1. Becomes(w, t) /\ crossed' = crossed \ {w} /\ Offered(p)
        /\ UNCHANGED <<cache, catalog, dirty, copy, doubt>>
    BY <1>4 DEF InstallSkill, UpdateSkill, Copies, NoAsk, diskVars, confVars
  <2>2. t.at = "copy" /\ t.provider = p /\ t.todo = File
    BY <1>1 DEF Task
  <2> HIDE DEF t
  <2>3. task'[w] = t /\ \A r \in Process \ {w} : task'[r] = task[r]
    BY <1>1, <2>1, Becoming
  <2>4. Quiet(w)
    BY <1>2, <2>1, <2>3 DEF Quiet
  <2>5. QED
    BY <1>1, <2>1, <2>2, <2>3, <2>4, CopyingKeeps
<1>5. ASSUME NEW p \in Provider, NEW op \in {"add", "refresh"}, Becomes(w, Syncing(w, op, p)),
             Reads(w), UNCHANGED dirty
      PROVE  Agreement'
  <2>1. op \in Operations
    BY DEF Operations
  <2>2. task'[w] = Syncing(w, op, p) /\ \A r \in Process \ {w} : task'[r] = task[r]
    BY <1>1, <1>5, Becoming
  <2>3. Quiet(w)
    BY <1>1, <1>2, <1>5, <2>2, QuietReads
  <2>4. QED
    BY <1>1, <2>1, <2>2, <2>3, SyncingKeeps
<1>6. ASSUME NEW t, Becomes(w, t), t.at \in {"save", "idle"},
             UNCHANGED <<cache, catalog, dirty, copy, doubt>>,
             crossed' \ {w} = crossed \ {w}
      PROVE  Agreement'
  <2>1. task'[w] = t /\ \A r \in Process \ {w} : task'[r] = task[r]
    BY <1>1, <1>6, Becoming
  <2>2. Quiet(w)
    BY <1>2, <1>6, <2>1 DEF Quiet
  <2>3. QED
    BY <1>1, <1>6, <2>1, <2>2, RestKeeps
<1>7. ASSUME NEW p \in Provider, AddProvider(w, p) PROVE Agreement'
  <2> DEFINE t == [Resting EXCEPT !.at = "save", !.op = "add", !.provider = p,
                                  !.plan = [config EXCEPT !.providers = @ \cup {p}]]
  <2>1. \/ Becomes(w, Syncing(w, "add", p)) /\ Reads(w) /\ UNCHANGED dirty
        \/ /\ Becomes(w, t) /\ UNCHANGED <<cache, catalog, dirty, copy, doubt>>
           /\ crossed' \ {w} = crossed \ {w}
    BY <1>7 DEF AddProvider, Reads, confVars
  <2>2. t.at = "save"
    BY <1>1 DEF Task
  <2> HIDE DEF t
  <2>3. QED
    BY <1>5, <1>6, <2>1, <2>2
<1>8. ASSUME NEW p \in Provider, RefreshProvider(w, p) PROVE Agreement'
  BY <1>5, <1>8 DEF RefreshProvider
<1>9. ASSUME NEW p \in Provider, RemoveProvider(w, p) PROVE Agreement'
  <2> DEFINE t == [Resting EXCEPT !.at = "save", !.op = "remove", !.provider = p,
                                  !.plan = [config EXCEPT !.providers = @ \ {p}]]
  <2>1. Becomes(w, t) /\ UNCHANGED <<cache, catalog, dirty, copy, doubt, crossed>>
    BY <1>9 DEF RemoveProvider, NoAsk, diskVars, confVars
  <2>2. t.at = "save"
    BY <1>1 DEF Task
  <2> HIDE DEF t
  <2>3. QED
    BY <1>6, <2>1, <2>2
<1>10. CASE DetachSkill(w)
  <2> DEFINE t == [Resting EXCEPT !.at = "save", !.op = "detach",
                                  !.plan = [config EXCEPT !.record = None]]
  <2>1. Becomes(w, t) /\ UNCHANGED <<cache, catalog, dirty, copy, doubt, crossed>>
    BY <1>10 DEF DetachSkill, NoAsk, diskVars, confVars
  <2>2. t.at = "save"
    BY <1>1 DEF Task
  <2> HIDE DEF t
  <2>3. QED
    BY <1>6, <2>1, <2>2
<1>11. CASE Listed(w)
  <2> DEFINE t == [task[w] EXCEPT !.at = "save", !.plan = [config EXCEPT !.record = None]]
  <2>1. Becomes(w, t) \/ Becomes(w, Resting)
    BY <1>11 DEF Listed
  <2>2. UNCHANGED <<cache, catalog, dirty, copy, doubt, crossed>>
    BY <1>11 DEF Listed, diskVars, confVars
  <2>3. t.at = "save" /\ Resting.at = "idle"
    BY <1>1, RestingPlaced DEF Task
  <2> HIDE DEF t
  <2>4. QED
    BY <1>6, <2>1, <2>2, <2>3
<1>12. QED
  BY <1>3, <1>4, <1>7, <1>8, <1>9, <1>10, <1>11 DEF PanelSteps

LEMMA AgreementOfBoot ==
  ASSUME Types, Agreement, BootSteps
  PROVE  Agreement'
<1>1. Boot \in Process /\ Tasks /\ task[Boot] \in Task
  BY Sets DEF Types, Tasks
<1>2. ~Copying(Boot)
  BY DEF BootSteps, BootBegins, BootReconciles, BootNext, At, Copying
<1>3. CASE BootBegins \/ BootReconciles
  <2>1. UNCHANGED <<cache, catalog, dirty, copy, doubt, crossed>>
        /\ \A r \in Process \ {Boot} : task'[r] = task[r]
    BY <1>1, <1>3 DEF BootBegins, BootReconciles, GoTo, diskVars, confVars, Tasks
  <2>2. task'[Boot].at \in {"save", "next", "look"}
    <3>1. CASE BootReconciles
      <4>1. [task[Boot] EXCEPT !.at = "look"].at = "look"
        BY <1>1 DEF Task
      <4>2. QED
        BY <1>1, <3>1, <4>1 DEF BootReconciles, GoTo, Tasks
    <3>2. CASE BootBegins
      <4> DEFINE plan == IF config.providers = {} THEN [config EXCEPT !.providers = Default]
                                                  ELSE NoConfig
                 at == IF config.providers = {} THEN "save" ELSE "next"
                 t == [task[Boot] EXCEPT !.at = at, !.op = "boot", !.plan = plan,
                                         !.left = config.providers]
      <4>1. Becomes(Boot, t) /\ at \in {"save", "next"}
        BY <3>2 DEF BootBegins, Becomes
      <4> HIDE DEF plan, at
      <4>2. t.at = at
        BY <1>1 DEF Task
      <4> HIDE DEF t
      <4>3. QED
        BY <1>1, <4>1, <4>2, Becoming
    <3>3. QED
      BY <1>3, <3>1, <3>2
  <2>3. Quiet(Boot)
    BY <1>2, <2>1 DEF Quiet
  <2>4. QED
    BY <1>1, <2>2, <2>3, RestKeeps
<1>4. ASSUME NEW p \in Provider, BootNext(p) PROVE Agreement'
  <2> DEFINE left == Syncing(Boot, "boot", p).left \ {p}
             t == [Syncing(Boot, "boot", p) EXCEPT !.left = left]
  <2>1. Becomes(Boot, t) /\ Reads(Boot) /\ UNCHANGED dirty
    BY <1>4 DEF BootNext
  <2> HIDE DEF left
  <2>2. task'[Boot] = t /\ \A r \in Process \ {Boot} : task'[r] = task[r]
    BY <1>1, <2>1, Becoming
  <2>3. Quiet(Boot)
    BY <1>1, <1>2, <2>1, <2>2, QuietReads
  <2>4. "boot" \in Operations
    BY DEF Operations
  <2>5. QED
    BY <1>1, <2>2, <2>3, <2>4, SyncingKeeps
<1>5. QED
  BY <1>3, <1>4 DEF BootSteps

LEMMA AgreementOfSave ==
  ASSUME Types, Agreement, NEW q \in Process, Save(q) \/ SaveFails(q)
  PROVE  Agreement'
<1>1. Tasks /\ task[q] \in Task /\ Boot \in Process
  BY Sets DEF Types, Tasks
<1>2. UNCHANGED <<cache, catalog, dirty, copy, doubt, crossed>> /\ ~Copying(q)
  BY DEF Save, SaveFails, diskVars, confVars, At, Copying
<1>3. BrokenOff(Boot) \in Task /\ BrokenOff(Boot).at = "next" /\ Resting.at = "idle"
  BY <1>1, OverPlaced, RestingPlaced DEF Placed
<1>4. PICK t : Becomes(q, t) /\ t.at \notin {"files", "truncate", "write", "copy"}
  <2>1. \A left : [BrokenOff(Boot) EXCEPT !.left = left].at = "next"
    BY <1>3 DEF Task
  <2>2. \A at \in {"read", "drop"} : [task[q] EXCEPT !.at = at, !.plan = NoConfig].at = at
    BY <1>1 DEF Task
  <2>3. CASE SaveFails(q)
    BY <1>3, <2>1, <2>3 DEF SaveFails
  <2>4. CASE Save(q)
    <3>1. CASE q = Boot
      <4> DEFINE s == [BrokenOff(q) EXCEPT !.left = config'.providers]
      <4>1. Becomes(q, s)
        BY <1>1, <2>4, <3>1 DEF Save, Tasks
      <4>2. s.at = "next"
        BY <2>1, <3>1
      <4> HIDE DEF s
      <4>3. QED
        BY <4>1, <4>2
    <3>2. CASE q # Boot /\ task[q].op = "add"
      BY <2>2, <2>4, <3>2 DEF Save
    <3>3. CASE q # Boot /\ task[q].op = "remove"
      BY <2>2, <2>4, <3>3 DEF Save
    <3>4. CASE q # Boot /\ task[q].op \notin {"add", "remove"}
      BY <1>3, <2>4, <3>4 DEF Save
    <3>5. QED
      BY <3>1, <3>2, <3>3, <3>4
  <2>5. QED
    BY <2>3, <2>4
<1>5. task'[q] = t /\ \A r \in Process \ {q} : task'[r] = task[r]
  BY <1>1, <1>4, Becoming
<1>6. Quiet(q)
  BY <1>2, <1>5 DEF Quiet
<1>7. QED
  BY <1>4, <1>5, <1>6, RestKeeps

\* A step that writes in the store.
LEMMA StoreKeeps ==
  ASSUME Types, Agreement, NEW q \in Process, ~Copying(q), ~Copying(q)',
         UNCHANGED <<copy, doubt>>, \A r \in Process \ {q} : task'[r] = task[r],
         Working \ {q} \subseteq crossed', OfferedIsCached', RowsKnown(q)'
  PROVE  Agreement'
<1>1. Beside(q)
  BY DEF Beside
<1>2. WholeCopy'
  <2>1. (\A r \in Process : ~Copying(r)') => \A r \in Process : ~Copying(r)
    BY DEF Copying, At
  <2>2. QED
    BY <2>1 DEF Agreement, WholeCopy
<1>3. Copier(q)'
  BY DEF Copier
<1>4. QED
  BY <1>1, <1>2, <1>3, AgreementKept

\* What is offered stays cached where only the files of one provider change.
LEMMA OneProvider ==
  ASSUME Types, Agreement, NEW p \in Provider, UNCHANGED catalog,
         \A r \in Provider \ {p} : cache'[r] = cache[r],
         dirty' = dirty \cup {p}
  PROVE  OfferedIsCached'
BY DEF Agreement, OfferedIsCached

LEMMA AgreementOfWriteFile ==
  ASSUME Types, Agreement, NEW q \in Process, WriteFile(q)
  PROVE  Agreement'
<1> DEFINE p == task[q].provider
           t == [task[q] EXCEPT !.todo = @ \ {First(q)}]
<1>1. Tasks /\ task[q] \in Task /\ At(q, "files") /\ task[q].todo # {} /\ p \in Provider
  BY DEF Types, Tasks, WriteFile, At, Placed, Busy
<1>2. First(q) \in File
  BY <1>1, FirstIsOne
<1>3. cache' = [cache EXCEPT ![p][First(q)] = task[q].target] /\ dirty' = dirty \cup {p}
      /\ crossed' = crossed \cup (Working \ {q}) /\ UNCHANGED <<catalog, copy, doubt>>
      /\ Becomes(q, t)
  BY DEF WriteFile, Outdates, Becomes
<1>4. /\ t.at = "files" /\ t.provider = p /\ t.rows = task[q].rows /\ t.target = task[q].target
      /\ t.marks = task[q].marks /\ t.op = task[q].op /\ t.todo = task[q].todo \ {First(q)}
  BY <1>1 DEF Task, At
<1> HIDE DEF t
<1>5. task'[q] = t /\ \A r \in Process \ {q} : task'[r] = task[r]
  BY <1>1, <1>3, Becoming
<1>6. /\ \A r \in Provider \ {p} : cache'[r] = cache[r]
      /\ cache'[p][First(q)] = task[q].target
      /\ \A f \in File \ {First(q)} : cache'[p][f] = cache[p][f]
  BY <1>1, <1>2, <1>3 DEF Types, Stored
<1>7. OfferedIsCached'
  BY <1>1, <1>3, <1>6, OneProvider
<1>8. RowsKnown(q)'
  <2> SUFFICES ASSUME q \notin crossed' PROVE RowsKnown(q)'
    BY DEF RowsKnown
  <2>1. q \notin crossed /\ Holds(q) /\ RowsKnown(q)
    BY <1>1, <1>3 DEF Agreement, Holds, At
  <2>2. \A r \in Provider \ dirty' : HasRow(cache'[r], t.rows[r])
    BY <1>3, <1>4, <1>6, <2>1 DEF RowsKnown, HasRow
  <2>3. \/ t.marks \/ t.op = "remove" \/ t.target = 0 \/ t.target = t.rows[p]
        \/ \A f \in File \ t.todo : cache'[p][f] = t.target
    BY <1>4, <1>6, <2>1 DEF RowsKnown
  <2>4. QED
    BY <1>4, <1>5, <2>2, <2>3 DEF RowsKnown, HasRow
<1>9. ~Copying(q) /\ ~Copying(q)'
  BY <1>1, <1>4, <1>5 DEF Copying, At
<1>10. QED
  BY <1>3, <1>5, <1>7, <1>8, <1>9, StoreKeeps

\* The files of a provider are dropped.
LEMMA AgreementOfDrop ==
  ASSUME Types, Agreement, NEW q \in Process, DropStale(q) \/ DropReads(q)
  PROVE  Agreement'
<1> DEFINE p == task[q].provider
<1>1. Tasks /\ task[q] \in Task /\ p \in Provider /\ ~Copying(q)
      /\ (DropReads(q) => task[q].op = "remove")
  BY DEF Types, Tasks, DropStale, DropReads, Copying, At, Placed, Busy
<1>2. \A r \in Provider \ {p} : Emptied(p)[r] = cache[r]
  BY <1>1 DEF Emptied, Types, Stored
<1>3. CASE DropStale(q)
  <2> DEFINE t == [task[q] EXCEPT !.at = "truncate"]
  <2>1. /\ Becomes(q, t) /\ cache' = Emptied(p) /\ dirty' = dirty \cup {p}
        /\ crossed' = crossed \cup (Working \ {q}) /\ UNCHANGED <<catalog, copy, doubt>>
        /\ At(q, "files") /\ task[q].target = 0
    BY <1>3 DEF DropStale, GoTo, Becomes, Outdates, Gone
  <2>2. t.at = "truncate" /\ t.rows = task[q].rows /\ t.target = 0
    BY <1>1, <2>1 DEF Task
  <2> HIDE DEF t
  <2>3. task'[q] = t /\ \A r \in Process \ {q} : task'[r] = task[r]
    BY <1>1, <2>1, Becoming
  <2>4. OfferedIsCached'
    BY <1>1, <1>2, <2>1, OneProvider
  <2>5. RowsKnown(q)'
    <3> SUFFICES ASSUME q \notin crossed' PROVE RowsKnown(q)'
      BY DEF RowsKnown
    <3>1. q \notin crossed /\ Holds(q) /\ RowsKnown(q)
      BY <2>1 DEF Agreement, Holds, At
    <3>2. \A r \in Provider \ dirty' : HasRow(cache'[r], t.rows[r])
      BY <1>2, <2>1, <2>2, <3>1 DEF RowsKnown, HasRow
    <3>3. QED
      BY <2>2, <2>3, <3>2 DEF RowsKnown, HasRow
  <2>6. ~Copying(q)'
    BY <2>2, <2>3 DEF Copying, At
  <2>7. QED
    BY <1>1, <2>1, <2>3, <2>4, <2>5, <2>6, StoreKeeps
<1>4. CASE DropReads(q) /\ catalog[p] # None
  <2> DEFINE t == [task[q] EXCEPT !.at = "truncate", !.rows = catalog]
  <2>1. /\ Becomes(q, t) /\ cache' = Emptied(p) /\ dirty' = dirty \cup {p}
        /\ crossed' = (crossed \cup Working) \ {q} /\ UNCHANGED <<catalog, copy, doubt>>
    BY <1>4 DEF DropReads
  <2>2. t.at = "truncate" /\ t.rows = catalog /\ t.op = "remove"
    BY <1>1, <1>4 DEF Task
  <2> HIDE DEF t
  <2>3. task'[q] = t /\ \A r \in Process \ {q} : task'[r] = task[r]
    BY <1>1, <2>1, Becoming
  <2>4. OfferedIsCached'
    BY <1>1, <1>2, <2>1, OneProvider
  <2>5. RowsKnown(q)'
    <3>1. \A r \in Provider \ dirty' : HasRow(cache'[r], catalog[r])
      BY <2>1, <2>4 DEF OfferedIsCached, HasRow
    <3>2. QED
      BY <2>2, <2>3, <3>1 DEF RowsKnown, HasRow
  <2>6. ~Copying(q)'
    BY <2>2, <2>3 DEF Copying, At
  <2>7. Working \ {q} \subseteq crossed'
    BY <2>1
  <2>8. QED
    BY <1>1, <2>1, <2>3, <2>4, <2>5, <2>6, <2>7, StoreKeeps
<1>5. CASE DropReads(q) /\ catalog[p] = None
  <2>1. /\ Becomes(q, Over(q)) /\ crossed' = crossed \ {q}
        /\ UNCHANGED <<cache, catalog, dirty, copy, doubt>>
    BY <1>5 DEF DropReads
  <2>2. task'[q] = Over(q) /\ \A r \in Process \ {q} : task'[r] = task[r]
    BY <1>1, <2>1, Becoming
  <2>3. Quiet(q)
    BY <1>1, <2>1, <2>2 DEF Quiet
  <2>4. Over(q).at \in {"done", "idle"}
    BY <1>1, OverPlaced
  <2>5. QED
    BY <2>2, <2>3, <2>4, RestKeeps
<1>6. QED
  BY <1>3, <1>4, <1>5

\* The catalogue file is written.
LEMMA AgreementOfWrite ==
  ASSUME Types, Agreement, NEW q \in Process, Truncate(q) \/ WriteRows(q)
  PROVE  Agreement'
<1> DEFINE p == task[q].provider
<1>1. Tasks /\ task[q] \in Task /\ Placed(task[q]) /\ p \in Provider /\ ~Copying(q) /\ Holds(q)
  BY DEF Types, Tasks, Truncate, WriteRows, Copying, At, Placed, Busy, Holds
<1>2. CASE Truncate(q)
  <2> DEFINE t == [task[q] EXCEPT !.at = "write"]
  <2>1. /\ Becomes(q, t) /\ UNCHANGED <<cache, dirty, copy, doubt>>
        /\ crossed' = crossed \cup (Working \ {q}) /\ catalog' = NoRows
    BY <1>2 DEF Truncate, GoTo, Becomes, Outdates
  <2>2. /\ t.at = "write" /\ t.provider = p /\ t.rows = task[q].rows /\ t.target = task[q].target
        /\ t.marks = task[q].marks /\ t.op = task[q].op /\ t.todo = task[q].todo
    BY <1>1 DEF Task
  <2> HIDE DEF t
  <2>3. task'[q] = t /\ \A r \in Process \ {q} : task'[r] = task[r]
    BY <1>1, <2>1, Becoming
  <2>4. OfferedIsCached'
    BY <2>1 DEF OfferedIsCached, NoRows
  <2>5. RowsKnown(q)'
    BY <1>1, <2>1, <2>2, <2>3 DEF Agreement, RowsKnown, HasRow
  <2>6. ~Copying(q)'
    BY <2>2, <2>3 DEF Copying, At
  <2>7. QED
    BY <1>1, <2>1, <2>3, <2>4, <2>5, <2>6, StoreKeeps
<1>3. CASE WriteRows(q)
  <2> DEFINE full == ~task[q].marks /\ task[q].rows[p] # task[q].target
  <2>1. /\ At(q, "write") /\ catalog' = NewRows(q) /\ UNCHANGED <<cache, copy, doubt>>
        /\ Becomes(q, AfterWrite(q)) /\ crossed' = crossed \cup (Working \ {q})
        /\ dirty' = IF q \in crossed THEN Provider ELSE IF full THEN dirty \ {p} ELSE dirty
    BY <1>3 DEF WriteRows, Outdates
  <2>2. AfterWrite(q).at \in {"look", "next", "idle"}
    <3>1. [Resting EXCEPT !.at = "look"].at = "look"
      BY RestingPlaced DEF Task
    <3>2. BrokenOff(q).at \in {"next", "idle"}
      BY <1>1, OverPlaced
    <3>3. QED
      BY <3>1, <3>2 DEF AfterWrite
  <2>3. task'[q] = AfterWrite(q) /\ \A r \in Process \ {q} : task'[r] = task[r]
    BY <1>1, <2>1, Becoming
  <2>4. ~Holds(q)' /\ ~Copying(q)'
    BY <2>2, <2>3 DEF Holds, Copying, At
  <2>5. RowsKnown(q)'
    BY <2>4 DEF RowsKnown
  <2>6. task[q].rows \in Rows /\ NewRows(q) = [task[q].rows EXCEPT ![p] = NewRow(q)]
    BY <1>1 DEF Task, NewRows
  <2>7. NewRows(q)[p] = NewRow(q) /\ \A r \in Provider \ {p} : NewRows(q)[r] = task[q].rows[r]
    BY <1>1, <2>6 DEF Rows
  <2>8. OfferedIsCached'
    <3> SUFFICES ASSUME NEW r \in Provider \ dirty'
                 PROVE  HasRow(cache[r], NewRows(q)[r])
      BY <2>1 DEF OfferedIsCached, HasRow
    <3>1. q \notin crossed /\ RowsKnown(q)
      BY <2>1 DEF Agreement
    <3>2. CASE r # p
      <4>1. r \notin dirty
        BY <2>1, <3>1, <3>2
      <4>2. QED
        BY <1>1, <2>7, <3>1, <3>2, <4>1 DEF RowsKnown
    <3>3. CASE r = p /\ task[q].op = "remove"
      BY <2>7, <3>3 DEF NewRow, HasRow
    <3>4. CASE r = p /\ task[q].op # "remove" /\ task[q].target = 0
      BY <2>7, <3>4 DEF NewRow, HasRow
    <3>5. CASE r = p /\ task[q].op # "remove" /\ task[q].target # 0 /\ full
      <4>1. task[q].todo = {}
        BY <1>1, <2>1, <3>5 DEF Placed, At
      <4>2. \A f \in File : cache[p][f] = task[q].target
        BY <1>1, <3>1, <3>5, <4>1 DEF RowsKnown
      <4>3. QED
        BY <2>7, <3>5, <4>2 DEF NewRow, HasRow
    <3>6. CASE r = p /\ task[q].op # "remove" /\ task[q].target # 0 /\ ~full
      <4>1. task[q].target = task[q].rows[p] /\ r \notin dirty
        BY <1>1, <2>1, <3>1, <3>6 DEF Placed, At
      <4>2. HasRow(cache[r], task[q].rows[r])
        BY <1>1, <3>1, <4>1 DEF RowsKnown
      <4>3. QED
        BY <2>7, <3>6, <4>1, <4>2 DEF NewRow
    <3>7. QED
      BY <3>2, <3>3, <3>4, <3>5, <3>6
  <2>9. QED
    BY <1>1, <2>1, <2>3, <2>4, <2>5, <2>8, StoreKeeps
<1>4. QED
  BY <1>2, <1>3

LEMMA AgreementOfStore ==
  ASSUME Types, Agreement, NEW q \in Process, StoreSteps(q)
  PROVE  Agreement'
<1>1. Tasks /\ task[q] \in Task /\ Placed(task[q])
  BY DEF Types, Tasks
<1>2. CASE SyncReads(q)
  <2>1. task[q].op \in Operations /\ task[q].provider \in Provider /\ ~Copying(q)
    BY <1>1, <1>2 DEF SyncReads, At, Copying, Placed, Task, Busy
  <2>2. task'[q] = Syncing(q, task[q].op, task[q].provider)
        /\ \A r \in Process \ {q} : task'[r] = task[r]
    BY <1>1, <1>2, Becoming DEF SyncReads
  <2>3. Quiet(q)
    BY <1>2, <2>1, <2>2, QuietReads DEF SyncReads
  <2>4. QED
    BY <2>1, <2>2, <2>3, SyncingKeeps
<1>3. CASE MarkReads(q)
  <2> DEFINE row == catalog[task[q].provider]
             target == IF row = None THEN 0 ELSE row
             t == [task[q] EXCEPT !.at = "truncate", !.marks = TRUE, !.rows = catalog,
                                  !.target = target]
  <2>1. Becomes(q, t) /\ Reads(q) /\ UNCHANGED dirty /\ ~Copying(q)
    BY <1>3 DEF MarkReads, Becomes, At, Copying
  <2> HIDE DEF target
  <2>2. t.at = "truncate" /\ t.marks /\ t.rows = catalog /\ t.provider = task[q].provider
    BY <1>1 DEF Task
  <2> HIDE DEF t
  <2>3. task'[q] = t /\ \A r \in Process \ {q} : task'[r] = task[r]
    BY <1>1, <2>1, Becoming
  <2>4. Quiet(q) /\ task[q].provider \in Provider
    BY <1>1, <1>3, <2>1, <2>3, QuietReads DEF MarkReads, At, Placed, Busy
  <2>5. QED
    BY <2>2, <2>3, <2>4, ReadKeeps
<1>4. CASE SyncFails(q) \/ WriteFails(q)
  <2> DEFINE s == [task[q] EXCEPT !.at = "mark", !.rows = NoRows, !.todo = {}, !.target = 0]
             t == [task[q] EXCEPT !.at = "mark", !.rows = NoRows, !.target = 0]
  <2>1. Becomes(q, s) \/ Becomes(q, t) \/ Becomes(q, BrokenOff(q))
    BY <1>4 DEF SyncFails, WriteFails
  <2>2. UNCHANGED <<cache, catalog, dirty, copy, doubt, crossed>> /\ ~Copying(q)
    BY <1>4 DEF SyncFails, WriteFails, diskVars, confVars, Copying, At
  <2>3. s.at = "mark" /\ t.at = "mark" /\ BrokenOff(q).at \in {"next", "idle"}
    BY <1>1, OverPlaced DEF Task
  <2> HIDE DEF s, t
  <2>4. task'[q] \in {s, t, BrokenOff(q)} /\ \A r \in Process \ {q} : task'[r] = task[r]
    BY <1>1, <2>1, Becoming
  <2>5. Quiet(q)
    BY <2>2, <2>4 DEF Quiet
  <2>6. QED
    BY <2>3, <2>4, <2>5, RestKeeps
<1>5. QED
  BY <1>2, <1>3, <1>4, AgreementOfWriteFile, AgreementOfDrop, AgreementOfWrite DEF StoreSteps

LEMMA AgreementOfLook ==
  ASSUME Types, Agreement, NEW q \in Process, Look(q)
  PROVE  Agreement'
<1> DEFINE t == [task[q] EXCEPT !.at = "copy", !.provider = config.record, !.todo = File]
<1>1. Tasks /\ task[q] \in Task /\ ~Copying(q)
  BY DEF Types, Tasks, Look, At, Copying
<1>2. /\ Becomes(q, Over(q)) \/ (catalog[config.record] \notin {None, 0} /\ Becomes(q, t))
      /\ Reads(q) /\ UNCHANGED dirty
  BY DEF Look
<1>3. t.at = "copy" /\ t.provider = config.record /\ t.todo = File
  BY <1>1 DEF Task
<1> HIDE DEF t
<1>4. /\ \A r \in Process \ {q} : task'[r] = task[r]
      /\ task'[q] = Over(q) \/ (catalog[config.record] \notin {None, 0} /\ task'[q] = t)
  BY <1>1, <1>2, Becoming
<1>5. Quiet(q)
  BY <1>1, <1>2, <1>4, QuietReads
<1>6. CASE task'[q] = Over(q)
  <2>1. Over(q).at \in {"done", "idle"}
    BY <1>1, OverPlaced
  <2>2. QED
    BY <1>5, <1>6, <2>1, RestKeeps
<1>7. CASE catalog[config.record] \notin {None, 0} /\ task'[q] = t
  BY <1>3, <1>5, <1>7, CopyingKeeps DEF Offered
<1>8. QED
  BY <1>4, <1>6, <1>7

LEMMA CopyFileThere ==
  ASSUME Types, NEW q \in Process, CopyFile(q)
  PROVE  copy' # None
<1> DEFINE base == IF copy = None THEN [g \in File |-> None] ELSE copy
           first == <<task[q].provider, cache[task[q].provider][First(q)]>>
<1>1. copy' \in Copy \cup {None}
  BY StoredOfCopy DEF CopySteps, Stored
<1>2. copy' = [base EXCEPT ![First(q)] = first] /\ base \in [File -> (Provider \X Version) \cup {None}]
  BY DEF CopyFile, Types, Stored, Copy
<1>3. First(q) \in File /\ task[q].provider \in Provider
  BY FirstIsOne DEF CopyFile, Copying, At, Types, Tasks, Placed, Busy
<1>4. first \in Provider \X Version
  BY <1>3 DEF Types, Stored
<1> HIDE DEF base, first
<1>5. copy' \in Copy
  BY <1>2, <1>3, <1>4 DEF Copy
<1>6. QED
  BY <1>5, Sets

LEMMA AgreementOfCopyFile ==
  ASSUME Types, Agreement, NEW q \in Process, CopyFile(q)
  PROVE  Agreement'
<1> DEFINE p == task[q].provider
           f == First(q)
           t == [task[q] EXCEPT !.todo = @ \ {f}]
           base == IF copy = None THEN [g \in File |-> None] ELSE copy
<1>1. Tasks /\ task[q] \in Task /\ Copying(q) /\ p \in Provider /\ task[q].todo # {}
      /\ Copier(q)
  BY DEF Types, Tasks, Agreement, CopyFile, Copying, At, Placed, Busy
<1>2. f \in File /\ f \in task[q].todo
  BY <1>1, FirstIsOne
<1>3. /\ copy' = [base EXCEPT ![f] = <<p, cache[p][f]>>] /\ doubt' = Disturbed(q)
      /\ UNCHANGED <<cache, catalog, dirty, crossed>> /\ Becomes(q, t)
  BY DEF CopyFile, diskVars, confVars, Becomes
<1>4. t.at = "copy" /\ t.provider = p /\ t.todo = task[q].todo \ {f}
  BY <1>1 DEF Task, Copying, At
<1> HIDE DEF t
<1>5. task'[q] = t /\ \A r \in Process \ {q} : task'[r] = task[r]
  BY <1>1, <1>3, Becoming
<1>6. base \in [File -> (Provider \X Version) \cup {None}]
  BY DEF Types, Stored, Copy
<1>7. /\ copy'[f] = <<p, cache[p][f]>>
      /\ \A g \in File \ {f} : copy'[g] = base[g]
  BY <1>2, <1>3, <1>6
<1>8. OfferedIsCached'
  BY <1>3 DEF Agreement, OfferedIsCached
<1>9. WholeCopy'
  BY <1>4, <1>5 DEF WholeCopy, Copying, At
<1>10. Beside(q)
  <2>1. \A r \in Process \ {q} : Copying(r) => doubt'
    BY <1>3 DEF Disturbed, Elsewhere
  <2>2. QED
    BY <1>3, <1>5, <2>1 DEF Beside
<1>11. RowsKnown(q)'
  BY <1>4, <1>5 DEF RowsKnown, Holds
<1>12. Copier(q)'
  <2>1. ASSUME ~doubt', NEW g \in File \ t.todo PROVE copy'[g] # None /\ copy'[g][1] = p
    <3>1. CASE g = f
      <4>1. <<p, cache[p][f]>> \in Provider \X Version
        BY <1>1, <1>2 DEF Types, Stored
      <4>2. <<p, cache[p][f]>> # None
        BY <4>1, SkillCatalogAssumption
      <4>3. QED
        BY <1>7, <3>1, <4>2
    <3>2. CASE g # f
      <4>1. ~doubt /\ task[q].todo # File /\ g \in File \ task[q].todo
        BY <1>3, <1>4, <2>1, <3>2 DEF Disturbed
      <4>2. copy # None /\ copy[g] # None /\ copy[g][1] = p
        BY <1>1, <4>1 DEF Copier, From
      <4>3. QED
        BY <1>7, <2>1, <3>2, <4>2
    <3>3. QED
      BY <3>1, <3>2
  <2>2. copy' # None
    BY CopyFileThere
  <2>3. QED
    BY <1>4, <1>5, <2>1, <2>2 DEF Copier, From
<1>13. QED
  BY <1>8, <1>9, <1>10, <1>11, <1>12, AgreementKept

LEMMA AgreementOfCopyEnd ==
  ASSUME Types, Agreement, NEW q \in Process, CopyFails(q) \/ CopyEnds(q)
  PROVE  Agreement'
<1> DEFINE t == [task[q] EXCEPT !.at = "save", !.provider = None,
                                !.plan = [config EXCEPT !.record = task[q].provider]]
<1>1. Tasks /\ task[q] \in Task /\ Copying(q) /\ task[q].provider \in Provider /\ Copier(q)
  BY DEF Types, Tasks, Agreement, CopyFails, CopyEnds, Copying, At, Placed, Busy
<1>2. (Becomes(q, Over(q)) \/ Becomes(q, t)) /\ UNCHANGED <<cache, catalog, dirty, crossed>>
  BY DEF CopyFails, CopyEnds, diskVars, confVars
<1>3. t.at = "save" /\ Over(q).at \in {"done", "idle"}
  BY <1>1, OverPlaced DEF Task
<1> HIDE DEF t
<1>4. /\ task'[q].at \in {"save", "done", "idle"}
      /\ \A r \in Process \ {q} : task'[r] = task[r]
  BY <1>1, <1>2, <1>3, Becoming
<1>5. OfferedIsCached'
  BY <1>2 DEF Agreement, OfferedIsCached
<1>6. RowsKnown(q)' /\ Copier(q)'
  BY <1>4 DEF RowsKnown, Holds, Copier, Copying, At
<1>7. Beside(q)
  <2>1. \A r \in Process \ {q} : Copying(r) /\ ~doubt' => UNCHANGED copy /\ ~doubt
    BY DEF CopyFails, CopyEnds, Elsewhere
  <2>2. QED
    BY <1>2, <1>4, <2>1 DEF Beside
<1>8. WholeCopy'
  <2>1. CASE CopyFails(q)
    BY <2>1 DEF CopyFails, RolledBack, WholeCopy
  <2>2. CASE CopyEnds(q)
    <3>1. UNCHANGED <<copy, doubt>> /\ task[q].todo = {} /\ File # {}
      BY <2>2, Sets DEF CopyEnds
    <3>2. ~doubt => From(File, task[q].provider)
      BY <1>1, <3>1 DEF Copier
    <3>3. QED
      BY <1>1, <3>1, <3>2 DEF WholeCopy, From
  <2>3. QED
    BY <2>1, <2>2
<1>9. QED
  BY <1>5, <1>6, <1>7, <1>8, AgreementKept

LEMMA AgreementInit == Init => Agreement
<1> SUFFICES ASSUME Init PROVE Agreement
  OBVIOUS
<1>1. \A q \in Process : task[q] = Resting
  BY DEF Init
<1>2. \A q \in Process : RowsKnown(q) /\ Copier(q)
  BY <1>1, RestingPlaced DEF RowsKnown, Holds, Copier, Copying, At
<1>3. OfferedIsCached /\ WholeCopy
  BY DEF Init, NoRows, OfferedIsCached, WholeCopy
<1>4. QED
  BY <1>2, <1>3 DEF Agreement

LEMMA AgreementNext == Types /\ Agreement /\ [Next]_vars => Agreement'
<1> SUFFICES ASSUME Types, Agreement, [Next]_vars PROVE Agreement'
  OBVIOUS
<1>1. CASE UNCHANGED vars \/ Live \/ \E p \in Provider : Upstream(p)
  <2>1. UNCHANGED <<cache, catalog, dirty, copy, task, crossed, doubt>>
    BY <1>1 DEF vars, diskVars, confVars, Upstream, Live
  <2>2. QED
    BY <2>1 DEF Agreement, OfferedIsCached, WholeCopy, RowsKnown, Holds, HasRow, Copier,
       Copying, At, From
<1>2. CASE Crash
  <2>1. \A q \in Process : task'[q].at = "idle"
    BY <1>2, RestingPlaced DEF Crash
  <2>2. \A q \in Process : RowsKnown(q)' /\ Copier(q)'
    BY <2>1 DEF RowsKnown, Holds, Copier, Copying, At
  <2>3. OfferedIsCached'
    BY <1>2 DEF Crash, diskVars, confVars, Agreement, OfferedIsCached
  <2>4. WholeCopy'
    <3>1. ~doubt' => ~doubt /\ \A q \in Process : ~Copying(q)
      BY <1>2 DEF Crash
    <3>2. UNCHANGED copy
      BY <1>2 DEF Crash
    <3>3. QED
      BY <3>1, <3>2 DEF Agreement, WholeCopy
  <2>5. QED
    BY <2>2, <2>3, <2>4 DEF Agreement
<1>3. ASSUME NEW q \in Process, Save(q) \/ SaveFails(q) \/ StoreSteps(q) \/ CopySteps(q)
      PROVE  Agreement'
  BY <1>3, AgreementOfSave, AgreementOfStore, AgreementOfLook, AgreementOfCopyFile,
     AgreementOfCopyEnd DEF CopySteps
<1>4. CASE BootSteps
  BY <1>4, AgreementOfBoot
<1>5. ASSUME NEW w \in Panel, PanelSteps(w) PROVE Agreement'
  BY <1>5, AgreementOfPanel
<1>6. QED
  BY <1>1, <1>2, <1>3, <1>4, <1>5 DEF Next, BootSteps, PanelSteps

-----------------------------------------------------------------------------
(* The boot sequence repairs *)

LEMMA BootKeeps ==
  ASSUME Types, Repairing, calm' => calm, \A r \in Process \ {Boot} : task'[r] = task[r],
         calm => BootGoes'
  PROVE  Repairing'
BY Sets DEF Repairing, Working

LEMMA RepairingOfPanel ==
  ASSUME Repairing, NEW w \in Panel,
         PanelSteps(w) \/ Save(w) \/ SaveFails(w) \/ StoreSteps(w) \/ CopySteps(w)
  PROVE  ~calm'
<1>1. CASE PanelSteps(w) /\ ~Listed(w)
  BY <1>1 DEF PanelSteps, AddProvider, RemoveProvider, RefreshProvider, InstallSkill,
     UpdateSkill, DetachSkill, DeleteSkill, Asks, Failure
<1>2. CASE Listed(w) \/ Save(w) \/ SaveFails(w) \/ StoreSteps(w) \/ CopySteps(w)
  <2>1. calm' => calm
    BY <1>2 DEF Listed, Save, SaveFails, StoreSteps, SyncReads, WriteFile, DropStale, SyncFails,
       MarkReads, DropReads, Truncate, WriteRows, WriteFails, CopySteps, Look, CopyFile,
       CopyFails, CopyEnds, Failure
  <2>2. task[w].at \notin {"idle", "done"}
    BY <1>2 DEF Listed, Save, SaveFails, StoreSteps, SyncReads, WriteFile, DropStale, SyncFails,
       MarkReads, DropReads, Truncate, WriteRows, WriteFails, CopySteps, Look, CopyFile,
       CopyFails, CopyEnds, Copying, At
  <2>3. w \in Process
    BY Sets
  <2>4. QED
    BY <2>1, <2>2, <2>3 DEF Repairing, Working
<1>3. QED
  BY <1>1, <1>2

\* The boot sequence begins, and goes on to the next provider or to the copy.
LEMMA RepairingOfBoot ==
  ASSUME Types, Repairing, BootSteps
  PROVE  Repairing'
<1>1. Boot \in Process /\ Tasks /\ task[Boot] \in Task /\ config.providers \in SUBSET Provider
  BY Sets DEF Types, Tasks, Stored, Config
<1>2. CASE BootBegins
  <2> DEFINE plan == IF config.providers = {} THEN [config EXCEPT !.providers = Default]
                                              ELSE NoConfig
             at == IF config.providers = {} THEN "save" ELSE "next"
             t == [task[Boot] EXCEPT !.at = at, !.op = "boot", !.plan = plan,
                                     !.left = config.providers]
  <2>1. /\ Becomes(Boot, t) /\ at \in {"save", "next"} /\ (calm' => Working = {})
        /\ UNCHANGED <<config, upstream, catalog>>
    BY <1>2 DEF BootBegins, Becomes, diskVars, confVars
  <2> HIDE DEF plan, at
  <2>2. t.at = at /\ t.left = config.providers
    BY <1>1 DEF Task
  <2> HIDE DEF t
  <2>3. task'[Boot] = t /\ \A r \in Process \ {Boot} : task'[r] = task[r]
    BY <1>1, <2>1, Becoming
  <2>4. BootGoes'
    BY <2>1, <2>2, <2>3 DEF BootGoes, Repaired, Holds, At
  <2>5. calm' => \A w \in Panel : w \notin Working'
    BY <2>1, <2>3, Sets DEF Working
  <2>6. QED
    BY <2>4, <2>5 DEF Repairing
<1>3. CASE BootReconciles
  <2> DEFINE t == [task[Boot] EXCEPT !.at = "look"]
  <2>1. /\ Becomes(Boot, t) /\ At(Boot, "next") /\ task[Boot].left = {}
        /\ UNCHANGED <<config, upstream, catalog, calm>>
    BY <1>3 DEF BootReconciles, GoTo, Becomes, diskVars, confVars
  <2>2. t.at = "look"
    BY <1>1 DEF Task
  <2> HIDE DEF t
  <2>3. task'[Boot] = t /\ \A r \in Process \ {Boot} : task'[r] = task[r]
    BY <1>1, <2>1, Becoming
  <2>4. calm => BootGoes'
    BY <2>1, <2>2, <2>3 DEF Repairing, BootGoes, Repaired, Holds, At
  <2>5. QED
    BY <2>1, <2>3, <2>4, BootKeeps
<1>4. ASSUME NEW p \in Provider, BootNext(p) PROVE Repairing'
  <2> DEFINE r == Syncing(Boot, "boot", p)
             t == [r EXCEPT !.left = @ \ {p}]
  <2>1. /\ Becomes(Boot, t) /\ At(Boot, "next")
        /\ UNCHANGED <<config, upstream, catalog, calm>>
    BY <1>4 DEF BootNext, Reads, confVars
  <2>2. \A op \in Operations :
          LET s == Syncing(Boot, op, p)
          IN  /\ s \in Task /\ s.at = "files" /\ s.provider = p /\ ~s.marks
              /\ s.rows = catalog /\ s.target = upstream[p] /\ s.left = task[Boot].left
    BY <1>1, SyncingPlaced DEF Placed
  <2>3. "boot" \in Operations
    BY DEF Operations
  <2>4. /\ r \in Task /\ r.at = "files" /\ r.provider = p /\ ~r.marks
        /\ r.rows = catalog /\ r.target = upstream[p] /\ r.left = task[Boot].left
    BY <2>2, <2>3
  <2> HIDE DEF r
  <2>5. /\ t.at = "files" /\ t.provider = p /\ ~t.marks
        /\ t.rows = catalog /\ t.target = upstream[p] /\ t.left = task[Boot].left \ {p}
    BY <2>4 DEF Task
  <2> HIDE DEF t
  <2>6. task'[Boot] = t /\ \A q \in Process \ {Boot} : task'[q] = task[q]
    BY <1>1, <2>1, Becoming
  <2>7. calm => BootGoes'
    <3> SUFFICES ASSUME calm PROVE BootGoes'
      OBVIOUS
    <3>1. \A q \in config.providers \ task[Boot].left : catalog[q] = upstream[q]
      BY <1>1, <2>1 DEF Repairing, BootGoes, Repaired
    <3>2. \A q \in config.providers \ (t.left \cup {p}) : t.rows[q] = upstream[q]
      BY <2>5, <3>1
    <3>3. QED
      BY <2>1, <2>5, <2>6, <3>2 DEF BootGoes, Holds, At
  <2>8. QED
    BY <2>1, <2>6, <2>7, BootKeeps
<1>5. QED
  BY <1>2, <1>3, <1>4 DEF BootSteps

LEMMA RepairingOfSave ==
  ASSUME Types, Repairing, Save(Boot) \/ SaveFails(Boot)
  PROVE  Repairing'
<1>1. Boot \in Process /\ Tasks /\ task[Boot] \in Task /\ task[Boot].op = "boot"
  BY Sets DEF Types, Tasks
<1>2. CASE SaveFails(Boot)
  BY <1>2 DEF SaveFails, Failure, Repairing
<1>3. CASE Save(Boot)
  <2> DEFINE t == [BrokenOff(Boot) EXCEPT !.left = config'.providers]
  <2>1. Becomes(Boot, t) /\ UNCHANGED <<upstream, catalog, calm>>
    BY <1>1, <1>3 DEF Save, diskVars, confVars
  <2>2. BrokenOff(Boot) \in Task /\ BrokenOff(Boot).at = "next"
    BY <1>1, OverPlaced DEF Placed
  <2>3. t.at = "next" /\ t.left = config'.providers
    BY <2>2 DEF Task
  <2> HIDE DEF t
  <2>4. task'[Boot] = t /\ \A r \in Process \ {Boot} : task'[r] = task[r]
    BY <1>1, <2>1, Becoming
  <2>5. BootGoes'
    BY <2>1, <2>3, <2>4 DEF BootGoes, Repaired, Holds, At
  <2>6. QED
    BY <2>1, <2>4, <2>5, BootKeeps
<1>4. QED
  BY <1>2, <1>3

LEMMA RepairingOfStore ==
  ASSUME Types, Repairing, calm, StoreSteps(Boot)
  PROVE  Repairing'
<1> DEFINE t == task[Boot]
           p == t.provider
<1>1. Boot \in Process /\ Tasks /\ t \in Task /\ t.op = "boot" /\ Placed(t)
  BY Sets DEF Types, Tasks
<1>2. BootGoes
  BY DEF Repairing
<1>3. CASE SyncFails(Boot) \/ WriteFails(Boot)
  BY <1>3 DEF SyncFails, WriteFails, Failure, Repairing
<1>4. CASE SyncReads(Boot) \/ MarkReads(Boot) \/ DropReads(Boot)
  BY <1>2, <1>4 DEF SyncReads, MarkReads, DropReads, At, BootGoes
<1>5. CASE WriteFile(Boot) \/ DropStale(Boot) \/ Truncate(Boot)
  <2> DEFINE todo == t.todo \ {First(Boot)}
  <2>1. PICK s : /\ Becomes(Boot, s)
                 /\ s \in {[t EXCEPT !.todo = @ \ {First(Boot)}], [t EXCEPT !.at = "truncate"],
                           [t EXCEPT !.at = "write"]}
    BY <1>5 DEF WriteFile, DropStale, Truncate, GoTo, Becomes
  <2>2. Holds(Boot) /\ UNCHANGED <<upstream, config, calm>>
    BY <1>5 DEF WriteFile, DropStale, Truncate, Holds, At, confVars
  <2>3. /\ s.at \in {"files", "truncate", "write"} /\ s.provider = p /\ (s.marks <=> t.marks)
        /\ s.rows = t.rows /\ s.target = t.target /\ s.left = t.left
    BY <1>1, <2>1, <2>2 DEF Task, Holds
  <2>4. task'[Boot] = s /\ \A r \in Process \ {Boot} : task'[r] = task[r]
    BY <1>1, <2>1, Becoming
  <2>5. BootGoes'
    BY <1>2, <2>2, <2>3, <2>4 DEF BootGoes, Holds, At
  <2>6. QED
    BY <2>2, <2>4, <2>5, BootKeeps
<1>6. CASE WriteRows(Boot)
  <2>1. /\ Becomes(Boot, BrokenOff(Boot)) /\ catalog' = NewRows(Boot) /\ Holds(Boot)
        /\ UNCHANGED <<upstream, config, calm>>
    BY <1>1, <1>6 DEF WriteRows, AfterWrite, Holds, At, confVars
  <2>2. BrokenOff(Boot).at = "next" /\ BrokenOff(Boot).left = t.left
    BY <1>1, OverPlaced
  <2>3. task'[Boot] = BrokenOff(Boot) /\ \A r \in Process \ {Boot} : task'[r] = task[r]
    BY <1>1, <2>1, Becoming
  <2>4. catalog' = [t.rows EXCEPT ![p] = t.target] /\ t.rows \in Rows
    BY <1>1, <2>1 DEF NewRows, NewRow, Task
  <2>5. \A r \in Provider : catalog'[r] = IF r = p THEN t.target ELSE t.rows[r]
    BY <2>4 DEF Rows
  <2>6. ASSUME NEW r \in config.providers \cap (Provider \ t.left)
        PROVE  catalog'[r] = upstream[r]
    BY <1>2, <2>1, <2>5 DEF BootGoes
  <2>7. BootGoes'
    BY <2>1, <2>2, <2>3, <2>6 DEF BootGoes, Repaired, Holds, At
  <2>8. QED
    BY <2>1, <2>3, <2>7, BootKeeps
<1>7. QED
  BY <1>3, <1>4, <1>5, <1>6 DEF StoreSteps

LEMMA RepairingOfCopy ==
  ASSUME Types, Agreement, Repairing, calm, CopySteps(Boot)
  PROVE  Repairing'
<1> DEFINE t == task[Boot]
           p == config.record
<1>1. Boot \in Process /\ Tasks /\ t \in Task /\ t.op = "boot" /\ Over(Boot).at = "done"
  BY Sets, OverPlaced DEF Types, Tasks
<1>2. BootGoes
  BY DEF Repairing
<1>3. /\ UNCHANGED <<cache, catalog, dirty, config, upstream>> /\ (calm' => calm)
      /\ t.at \in {"look", "copy"}
  BY DEF CopySteps, Look, CopyFile, CopyFails, CopyEnds, Reads, diskVars, confVars, Failure, Copying, At
<1>4. Repaired(Provider) /\ config.providers \in SUBSET Provider
  BY <1>2, <1>3 DEF BootGoes, Types, Stored, Config
\* What the boot sequence has to copy is offered.
<1>5. p \in config.providers /\ upstream[p] # 0 => p \in Provider /\ p # None /\ Offered(p)
  <2>1. \A r \in Provider : upstream[r] \in Nat
    BY Sets DEF Types, Stored
  <2>2. QED
    BY <1>4, <2>1, Sets DEF Repaired, Offered
<1>6. ASSUME Becomes(Boot, Over(Boot)), CopyThere' PROVE Repairing'
  <2>1. task'[Boot] = Over(Boot) /\ \A r \in Process \ {Boot} : task'[r] = task[r]
    BY <1>1, <1>6, Becoming
  <2>2. BootGoes'
    BY <1>1, <1>3, <1>4, <1>6, <2>1 DEF BootGoes, Repaired, Holds, At
  <2>3. QED
    BY <1>3, <2>1, <2>2, BootKeeps
<1>7. CASE Look(Boot)
  <2> DEFINE s == [t EXCEPT !.at = "copy", !.provider = config.record, !.todo = File]
  <2>1. copy' = copy
    BY <1>7 DEF Look, Reads, confVars
  <2>2. CASE Becomes(Boot, Over(Boot)) /\ ~(p # None /\ copy = None /\ Offered(p))
    BY <1>3, <1>5, <1>6, <2>1, <2>2 DEF CopyThere
  <2>3. CASE Becomes(Boot, s)
    <3>1. s.at = "copy" /\ s.provider = p /\ s.todo = File
      BY <1>1 DEF Task
    <3> HIDE DEF s
    <3>2. task'[Boot] = s /\ \A r \in Process \ {Boot} : task'[r] = task[r]
      BY <1>1, <2>3, Becoming
    <3>3. BootGoes'
      BY <1>3, <1>4, <3>1, <3>2 DEF BootGoes, Repaired, Holds, At
    <3>4. QED
      BY <1>3, <3>2, <3>3, BootKeeps
  <2>4. QED
    BY <1>7, <2>2, <2>3 DEF Look, Offered
<1>8. CASE CopyFile(Boot)
  <2> DEFINE s == [t EXCEPT !.todo = @ \ {First(Boot)}]
  <2>1. Becomes(Boot, s) /\ At(Boot, "copy") /\ copy' # None
    BY <1>1, <1>8, CopyFileThere DEF CopyFile, Becomes, Copying
  <2>2. s.at = "copy" /\ s.provider = t.provider
    BY <1>1, <2>1 DEF Task, At
  <2> HIDE DEF s
  <2>3. task'[Boot] = s /\ \A r \in Process \ {Boot} : task'[r] = task[r]
    BY <1>1, <2>1, Becoming
  <2>4. BootGoes'
    BY <1>2, <1>3, <1>4, <2>1, <2>2, <2>3 DEF BootGoes, Repaired, Holds, At
  <2>5. QED
    BY <1>3, <2>3, <2>4, BootKeeps
<1>9. CASE CopyFails(Boot)
  <2> SUFFICES ASSUME calm' PROVE Repairing'
    BY DEF Repairing
  <2>1. /\ Becomes(Boot, Over(Boot)) /\ At(Boot, "copy") /\ t.todo # {}
        /\ cache[t.provider][First(Boot)] = 0
    BY <1>9 DEF CopyFails, Failure, Copying
  <2>2. t.provider = p /\ First(Boot) \in File
    BY <1>1, <1>2, <2>1, FirstIsOne DEF BootGoes
  <2>3. p \in config.providers \ dirty /\ upstream[p] # 0 => FALSE
    BY <1>5, <2>1, <2>2 DEF Agreement, OfferedIsCached, Offered
  <2>4. QED
    BY <1>3, <1>6, <2>1, <2>3 DEF CopyThere
<1>10. CASE CopyEnds(Boot)
  <2>1. Becomes(Boot, Over(Boot)) /\ At(Boot, "copy") /\ t.todo = {} /\ copy' = copy
    BY <1>1, <1>10 DEF CopyEnds, Copying
  <2>2. copy # None
    BY <1>2, <2>1, Sets DEF BootGoes
  <2>3. QED
    BY <1>6, <2>1, <2>2 DEF CopyThere
<1>11. QED
  BY <1>7, <1>8, <1>9, <1>10 DEF CopySteps

LEMMA RepairingNext == Types /\ Agreement /\ Repairing /\ [Next]_vars => Repairing'
<1> SUFFICES ASSUME Types, Agreement, Repairing, [Next]_vars PROVE Repairing'
  OBVIOUS
<1>1. CASE UNCHANGED vars
  BY <1>1 DEF vars, diskVars, confVars, Repairing, BootGoes, Repaired, CopyThere, Holds, At, Working
<1>2. CASE Crash \/ Live \/ \E p \in Provider : Upstream(p)
  BY <1>2 DEF Crash, Live, Upstream, Failure, Repairing
<1>3. CASE BootSteps
  BY <1>3, RepairingOfBoot
<1>4. ASSUME NEW w \in Panel,
             PanelSteps(w) \/ Save(w) \/ SaveFails(w) \/ StoreSteps(w) \/ CopySteps(w)
      PROVE  Repairing'
  BY <1>4, RepairingOfPanel DEF Repairing
<1>5. CASE Save(Boot) \/ SaveFails(Boot) \/ StoreSteps(Boot) \/ CopySteps(Boot)
  <2>1. CASE calm
    BY <1>5, <2>1, RepairingOfSave, RepairingOfStore, RepairingOfCopy
  <2>2. CASE ~calm
    <3>1. ~calm'
      BY <1>5, <2>2 DEF Save, SaveFails, StoreSteps, SyncReads, WriteFile, DropStale,
         SyncFails, MarkReads, DropReads, Truncate, WriteRows, WriteFails, CopySteps, Look,
         CopyFile, CopyFails, CopyEnds, Failure
    <3>2. QED
      BY <3>1 DEF Repairing
  <2>3. QED
    BY <2>1, <2>2
<1>6. QED
  BY <1>1, <1>2, <1>3, <1>4, <1>5, Sets DEF Next, BootSteps, PanelSteps

-----------------------------------------------------------------------------
(* The theorems *)

LEMMA TypesHold == Spec => []Types
BY TypesInit, TypesNext, PTL DEF Spec

LEMMA AgreementHolds == Spec => []Agreement
BY AgreementInit, AgreementNext, TypesHold, PTL DEF Spec

\* The store, the configuration, the copy and what every task is doing have
\* their types, for any number of panels, providers and files (SkillsService).
THEOREM TypeCorrect == Spec => []TypeOK
<1>1. Types => TypeOK
  BY DEF Types, Stored, Tasks, TypeOK
<1>2. QED
  BY <1>1, TypesHold, PTL

\* What the catalogue offers is what the cache holds, however synchronising,
\* removing and failing are interleaved, but for the providers whose writing
\* broke off or whose rows were written over outdated ones (syncProvider).
THEOREM OfferedCached == Spec => []OfferedIsCached
<1>1. Agreement => OfferedIsCached
  BY DEF Agreement
<1>2. QED
  BY <1>1, AgreementHolds, PTL

\* A copy that nobody is writing has all its files, of one provider, whatever
\* the cache loses meanwhile and however often copying fails, unless the host
\* stopped in the middle of a copying, a removal failed, or two tasks copied or
\* deleted at the same time (copySkillFiles).
THEOREM CopyIsWhole == Spec => []WholeCopy
<1>1. Agreement => WholeCopy
  BY DEF Agreement
<1>2. QED
  BY <1>1, AgreementHolds, PTL

\* A boot sequence in whose course nothing else happens ends with the rows of
\* all providers it has and with the recorded copy, whatever crashes and
\* failures there were before it (refreshProviders, reconcileInstalled).
THEOREM BootRepairs == Spec => []BootHeals
<1>1. Init => Repairing
  BY DEF Init, Repairing
<1>2. Types /\ Repairing => BootHeals
  BY DEF Types, Stored, Config, Repairing, BootGoes, Repaired, CopyThere, BootHeals, At
<1>3. QED
  BY <1>1, <1>2, RepairingNext, TypesHold, AgreementHolds, PTL DEF Spec

=============================================================================
