---------------------------- MODULE Checkpoints ----------------------------
(***************************************************************************)
(* The checkpoints of sessions that share a working directory: the class   *)
(* CheckpointsService of dsh-next-checkpoints/src/host/service.ts with the *)
(* fold of core/store.ts, the snapshots of host/snapshot.ts and the files  *)
(* of host/persist.ts and host/blobs.ts.                                   *)
(*                                                                         *)
(* A session's work waits in a queue of its own.  A checkpoint records the *)
(* files the session touched when a turn ended; rewind restores them,      *)
(* hides the later conversation and forks a child session.  The Harness    *)
(* (turns, tools, the event log), other writers and crashes act between    *)
(* any two steps.                                                          *)
(*                                                                         *)
(* A file is reduced to its content, a conversation to the turn numbers of *)
(* its events, whose positions are the event seqs.                         *)
(***************************************************************************)
EXTENDS Naturals, FiniteSets, Sequences, SequencesExt

CONSTANTS
  Session, Roots,    \* the sessions, and those that exist at first
  Path, Data,
  Large,             \* contents above DIFF_MAX_BYTES: they are not stored
  Committed,         \* the content of each path in the commit at session start
  Missing, Unseen,   \* no such file, no entry
  Cut,               \* the content of a file whose write was cut short
  None,
  MayStop,           \* turns can be stopped without a turn/end
  Torn,              \* what a crash or a full disk can cut short: "blob", "state"
  MaxTurn, MaxWrites, MaxRewinds, MaxCrashes, MaxQueue,  \* bounds
  MaxOthers          \* bound: writes of others, and lists

VARIABLES
  disk,        \* the working directory
  blobs,       \* the blob of each content: none, whole or cut
  mem, file,   \* the fold of each session in memory, and in its state.json
  queue,       \* the work of each session
  stage,       \* how far the first of it is
  todo,        \* the paths a rewind has still to delete and to write
  goal,        \* the checkpoint a rewind was asked for
  heir,        \* the fold a forked session is about to receive
  live,        \* the sessions of the Harness
  log,         \* their events
  surface,     \* the messages the model is shown
  running,     \* a turn is running
  tool,        \* the file tool call of the turn
  count,       \* how often the bounded actions happened
  foreign,     \* paths others changed under a session, it took for moved,
               \* could not delete, or inherited and could not save
  inherited    \* the baseline a rewind handed to its child, unless the file
               \* that kept it was cut

service == <<blobs, mem, file, queue, stage, todo, goal, heir>>
harness == <<live, log, surface, running, tool>>
ghosts == <<foreign, inherited>>
vars == <<disk, service, harness, count, ghosts>>

Content == Data \cup {Missing, Cut}
Tree == [Path -> Content \cup {Unseen}]
Turn == 0..MaxTurn
Id == [turn: Turn, seq: Nat]

\* was is a ghost: the whole directory when the checkpoint was taken.
Point == [turn: Turn, seq: Nat, tree: Tree, was: [Path -> Content]]

Fold == [session: Session, baseline: Tree, points: Seq(Point), intents: SUBSET Path,
         open: Turn \cup {None}, cursor: Nat, rewound: Id \cup {None}]

Task == [kind: {"attach", "start", "end", "idle", "intent", "list", "rewind", "adopt"},
         turn: Turn \cup {None}, seq: Nat]
Call == [path: Path, data: Data, ready: BOOLEAN]
Heir == [from: Session, fold: Fold]

ASSUME CheckpointsAssumption ==
  /\ Roots \subseteq Session
  /\ Large \subseteq Data
  /\ Missing \notin Data /\ Unseen \notin Data \cup {Missing}
  /\ Cut \notin Data \cup {Missing, Unseen}
  /\ Committed \in [Path -> Data \cup {Missing}]
  /\ MayStop \in BOOLEAN /\ Torn \subseteq {"blob", "state"}
  /\ MaxTurn \in Nat /\ MaxWrites \in Nat /\ MaxOthers \in Nat
  /\ MaxRewinds \in Nat /\ MaxCrashes \in Nat /\ MaxQueue \in Nat
  /\ None \notin Turn \cup Id \cup Fold \cup Call \cup Heir \cup Tree

Counts == [writes: Nat, others: Nat, rewinds: Nat, crashes: Nat]
Stage == {"ready", "saving", "deleting", "writing", "folding", "forking", "creating",
          "waiting"}

TypeOK ==
  /\ disk \in [Path -> Content]
  /\ blobs \in [Data -> {"none", "whole", "cut"}]
  /\ mem \in [Session -> Fold \cup {None}] /\ file \in [Session -> Fold \cup {None}]
  /\ queue \in [Session -> Seq(Task)]
  /\ stage \in [Session -> Stage]
  /\ todo \in [Session -> [delete: SUBSET Path, write: SUBSET Path]]
  /\ goal \in [Session -> Id \cup {None}]
  /\ heir \in [Session -> Heir \cup {None}]
  /\ live \in SUBSET Session
  /\ log \in [Session -> Seq(Turn)] /\ surface \in [Session -> SUBSET Nat]
  /\ running \in [Session -> BOOLEAN]
  /\ tool \in [Session -> Call \cup {None}]
  /\ count \in Counts
  /\ foreign \in [Session -> SUBSET Path]
  /\ inherited \in [Session -> Tree \cup {None}]

Nowhere == [p \in Path |-> Unseen]
Nothing == [delete |-> {}, write |-> {}]
JustAttach == [kind |-> "attach", turn |-> None, seq |-> 0]

Init ==
  /\ disk \in [Path -> Data \cup {Missing}]
  /\ blobs = [d \in Data |-> "none"]
  /\ mem = [s \in Session |-> None] /\ file = [s \in Session |-> None]
  /\ queue = [s \in Session |-> IF s \in Roots THEN <<JustAttach>> ELSE <<>>]
  /\ stage = [s \in Session |-> "ready"]
  /\ todo = [s \in Session |-> Nothing]
  /\ goal = [s \in Session |-> None]
  /\ heir = [s \in Session |-> None]
  /\ live = Roots
  /\ log = [s \in Session |-> <<>>]
  /\ surface = [s \in Session |-> {}]
  /\ running = [s \in Session |-> FALSE]
  /\ tool = [s \in Session |-> None]
  /\ count = [writes |-> 0, others |-> 0, rewinds |-> 0, crashes |-> 0]
  /\ foreign = [s \in Session |-> {}]
  /\ inherited = [s \in Session |-> None]

Larger(m, n) == IF m > n THEN m ELSE n

-----------------------------------------------------------------------------
(* The fold *)

\* Fault: paths without an entry in the tree are left alone.
TreeOnly(baseline, tree) == tree

\* A tree is sparse: a path without an entry is as it was first seen.
OverlayTree(baseline, tree) ==
  [p \in Path |-> IF tree[p] # Unseen THEN tree[p] ELSE baseline[p]]

\* rememberBaseline() for the entries of a tree: the first seen wins, and the
\* session-start checkpoint is completed with it.
RememberBaseline(f, entries) ==
  LET fresh == [p \in Path |-> IF f.baseline[p] = Unseen THEN entries[p] ELSE Unseen]
  IN  [f EXCEPT !.baseline = OverlayTree(entries, @),
                !.points[1].tree = OverlayTree(fresh, @)]

EmptyFold(s) ==
  [session |-> s, baseline |-> Nowhere, points |-> <<>>, intents |-> {},
   open |-> None, cursor |-> 0, rewound |-> None]

\* load(), and the session-start checkpoint that comes first in every fold.
Hydrated(s) ==
  LET f == IF mem[s] # None THEN mem[s]
           ELSE IF file[s] # None THEN file[s] ELSE EmptyFold(s)
      origin == [turn |-> 0, seq |-> 0, tree |-> f.baseline, was |-> disk]
  IN  IF \E i \in DOMAIN f.points : f.points[i].turn = 0 THEN f
      ELSE [f EXCEPT !.points = <<origin>> \o @]

\* The paths that have a baseline.
Seen(f) == {p \in Path : f.baseline[p] # Unseen}

IdOf(point) == [turn |-> point.turn, seq |-> point.seq]

Position(f, id) == {i \in DOMAIN f.points : IdOf(f.points[i]) = id}

TruncateAfter(f, i) ==
  [f EXCEPT !.points = SubSeq(@, 1, i), !.open = None, !.rewound = IdOf(f.points[i])]

\* Fault: the fold keeps the session it came from.
RehomedBack(f, s) == f

RehomeState(f, s) == [f EXCEPT !.session = s]

-----------------------------------------------------------------------------
(* Snapshots *)

Stored(contents) ==
  [d \in Data |-> IF blobs[d] = "none" /\ d \in contents \ Large
                  THEN "whole" ELSE blobs[d]]

Tracked(f) ==
  {p \in Path : OverlayTree(f.baseline, Last(f.points).tree)[p] # Unseen} \cup f.intents

\* The contents of the last checkpoint whose file has gone.
Wanted(f) ==
  {Last(f.points).tree[p] : p \in {q \in Tracked(f) : disk[q] = Missing}} \cap (Data \ Large)

\* What the walk for moved files can come back with: for each wanted content
\* the first file that holds it, none if it lies beyond the limit.
Moved(f) ==
  {found \in SUBSET (Path \ Tracked(f)) :
     /\ \A p \in found : disk[p] \in Wanted(f)
     /\ \A p, q \in found : disk[p] = disk[q] => p = q}

\* The fold after a snapshot, and its tree.
Considered(f, found) ==
  RememberBaseline(f, [p \in Path |-> IF p \in Tracked(f) \cup found
                                      THEN Committed[p] ELSE Unseen])

Snapshot(f, turn, seq, found) ==
  [turn |-> turn, seq |-> seq, was |-> disk,
   tree |-> [p \in Path |-> IF p \in Tracked(f) \cup found THEN disk[p] ELSE Unseen]]

\* The files a snapshot reads and stores: the walk looks at them all.
Looked(f) == Tracked(f) \cup IF Wanted(f) = {} THEN {} ELSE Path

SnapshotBlobs(f, found) ==
  Stored({disk[p] : p \in Looked(f)} \cup {Committed[p] : p \in found})

HasTurn(f, turn) == \E i \in DOMAIN f.points : f.points[i].turn = turn

\* Fault: a turn that was finished before is recorded again.
FinishedAgain(f, turn, seq, found) ==
  [Considered(f, found) EXCEPT !.open = None,
     !.points = Append(@, Snapshot(f, turn, seq, found)), !.cursor = Larger(@, seq)]

\* finishTurn(): one checkpoint for each turn.
Finished(f, turn, seq, found) ==
  IF HasTurn(f, turn) THEN [f EXCEPT !.open = None]
  ELSE [Considered(f, found) EXCEPT !.open = None,
          !.points = Append(@, Snapshot(f, turn, seq, found)), !.cursor = Larger(@, seq)]

-----------------------------------------------------------------------------
(* The Harness *)

Enqueue(q, s, kind, turn, seq) ==
  [q EXCEPT ![s] = Append(@, [kind |-> kind, turn |-> turn, seq |-> seq])]

Room(s) == Len(queue[s]) < MaxQueue

LastTurn(s) == IF log[s] = <<>> THEN 0
               ELSE CHOOSE t \in Turn : /\ \E i \in DOMAIN log[s] : log[s][i] = t
                                        /\ \A i \in DOMAIN log[s] : log[s][i] <= t

queueOnly == <<disk, blobs, mem, file, stage, todo, goal, heir, ghosts>>

\* A prompt starts a turn.  A forked session is prompted once the rewind that
\* made it has returned.
StartTurn(s) ==
  /\ s \in live /\ ~running[s] /\ heir[s] = None /\ Room(s)
  /\ LastTurn(s) < MaxTurn
  /\ log' = [log EXCEPT ![s] = Append(@, LastTurn(s) + 1)]
  /\ surface' = [surface EXCEPT ![s] = @ \cup {Len(log'[s])}]
  /\ running' = [running EXCEPT ![s] = TRUE]
  /\ queue' = Enqueue(queue, s, "start", LastTurn(s) + 1, Len(log'[s]))
  /\ UNCHANGED <<queueOnly, live, tool, count>>

\* A turn ends after its tools have; the event may lack its number.
EndTurn(s) ==
  /\ running[s] /\ tool[s] = None /\ Room(s)
  /\ log' = [log EXCEPT ![s] = Append(@, LastTurn(s))]
  /\ running' = [running EXCEPT ![s] = FALSE]
  /\ \E turn \in {LastTurn(s), None} :
       queue' = Enqueue(queue, s, "end", turn, Len(log'[s]))
  /\ UNCHANGED <<queueOnly, live, surface, tool, count>>

\* The user stops the turn: the agent goes idle.
Stop(s) ==
  /\ MayStop
  /\ running[s] /\ tool[s] = None /\ Room(s)
  /\ running' = [running EXCEPT ![s] = FALSE]
  /\ queue' = Enqueue(queue, s, "idle", None, 0)
  /\ UNCHANGED <<queueOnly, live, log, surface, tool, count>>

\* The turn/end of a turn that was stopped, which comes before the next turn.
LateEnd(s) ==
  /\ MayStop
  /\ s \in live /\ ~running[s] /\ Room(s)
  /\ LastTurn(s) > 0
  /\ Cardinality({i \in DOMAIN log[s] : log[s][i] = LastTurn(s)}) = 1
  /\ log' = [log EXCEPT ![s] = Append(@, LastTurn(s))]
  /\ queue' = Enqueue(queue, s, "end", LastTurn(s), Len(log'[s]))
  /\ UNCHANGED <<queueOnly, live, surface, running, tool, count>>

\* A write or edit tool announces the file it is about to change and waits.
CallTool(s, p, d) ==
  /\ running[s] /\ tool[s] = None /\ Room(s)
  /\ count.writes < MaxWrites /\ count' = [count EXCEPT !.writes = @ + 1]
  /\ tool' = [tool EXCEPT ![s] = [path |-> p, data |-> d, ready |-> FALSE]]
  /\ queue' = Enqueue(queue, s, "intent", None, 0)
  /\ UNCHANGED <<queueOnly, live, log, surface, running>>

\* Fault: the tool does not wait for noteIntent().
Unannounced(s) == TRUE

Announced(s) == tool[s].ready

WriteByTool(s) ==
  /\ tool[s] # None /\ Announced(s)
  /\ disk' = [disk EXCEPT ![tool[s].path] = tool[s].data]
  /\ foreign' = [t \in Session |-> IF t = s THEN foreign[t]
                                   ELSE foreign[t] \cup {tool[s].path}]
  /\ tool' = [tool EXCEPT ![s] = None]
  /\ UNCHANGED <<service, live, log, surface, running, count, inherited>>

\* Somebody else writes, deletes or moves files: the user, a shell, a process.
WriteByOther(p, c) ==
  /\ disk[p] # c
  /\ count.others < MaxOthers /\ count' = [count EXCEPT !.others = @ + 1]
  /\ disk' = [disk EXCEPT ![p] = c]
  /\ foreign' = [s \in Session |-> foreign[s] \cup {p}]
  /\ UNCHANGED <<service, harness, inherited>>

\* A page lists the checkpoints, and asks for a rewind to one of them.
AskList(s) ==
  /\ s \in live /\ Room(s)
  /\ count.others < MaxOthers /\ count' = [count EXCEPT !.others = @ + 1]
  /\ queue' = Enqueue(queue, s, "list", None, 0)
  /\ UNCHANGED <<queueOnly, harness>>

AskRewind(s, i) ==
  /\ mem[s] # None /\ i \in DOMAIN mem[s].points
  /\ goal[s] = None /\ Room(s)
  /\ count.rewinds < MaxRewinds /\ count' = [count EXCEPT !.rewinds = @ + 1]
  /\ goal' = [goal EXCEPT ![s] = IdOf(mem[s].points[i])]
  /\ queue' = Enqueue(queue, s, "rewind", None, 0)
  /\ UNCHANGED <<disk, blobs, mem, file, stage, todo, heir, harness, ghosts>>

-----------------------------------------------------------------------------
(* The service: the first work of a session *)

Begins(s, kind) == /\ queue[s] # <<>> /\ Head(queue[s]).kind = kind
                   /\ stage[s] = "ready"

\* persist(): memory first, then the file.
Persist(s, f) ==
  /\ mem' = [mem EXCEPT ![f.session] = f]
  /\ stage' = [stage EXCEPT ![s] = "saving"]

\* The work is over, and the next may begin.
Done(s) ==
  /\ queue' = [queue EXCEPT ![s] = Tail(@)]
  /\ stage' = [stage EXCEPT ![s] = "ready"]

DoAttach(s) ==
  /\ Begins(s, "attach")
  /\ IF mem[s] = Hydrated(s) THEN Done(s) /\ UNCHANGED mem
     ELSE Persist(s, Hydrated(s)) /\ UNCHANGED queue
  /\ UNCHANGED <<disk, blobs, file, todo, goal, heir, harness, count, ghosts>>

DoStart(s) ==
  /\ Begins(s, "start")
  /\ Persist(s, [Hydrated(s) EXCEPT !.open = Head(queue[s]).turn])
  /\ UNCHANGED <<disk, blobs, file, queue, todo, goal, heir, harness, count, ghosts>>

Took(s, found) == foreign' = [foreign EXCEPT ![s] = @ \cup found]

\* finishTurn() for turn, at the event seq.
Finish(s, turn, seq) ==
  LET f == Hydrated(s)
  IN  IF turn = None
      THEN /\ IF mem[s] = f THEN Done(s) /\ UNCHANGED mem
              ELSE Persist(s, f) /\ UNCHANGED queue
           /\ UNCHANGED <<blobs, foreign>>
      ELSE \E found \in Moved(f) :
             /\ Persist(s, Finished(f, turn, seq, found))
             /\ IF HasTurn(f, turn) THEN UNCHANGED <<blobs, foreign>>
                ELSE blobs' = SnapshotBlobs(f, found) /\ Took(s, found)
             /\ UNCHANGED queue

DoEnd(s) ==
  /\ Begins(s, "end")
  /\ LET task == Head(queue[s])
     IN  Finish(s, IF task.turn # None THEN task.turn ELSE Hydrated(s).open, task.seq)
  /\ UNCHANGED <<disk, file, todo, goal, heir, harness, count, inherited>>

IdleTurn(s) == Hydrated(s).open

\* onAgentIdle(): the seq is that of the session by now.
DoIdle(s) ==
  /\ Begins(s, "idle")
  /\ Finish(s, IdleTurn(s), Len(log[s]))
  /\ UNCHANGED <<disk, file, todo, goal, heir, harness, count, inherited>>

\* noteIntent(): what the file holds before the tool changes it.
DoIntent(s) ==
  /\ Begins(s, "intent")
  /\ LET f == Hydrated(s)
         p == tool[s].path
     IN  /\ Persist(s, RememberBaseline([f EXCEPT !.intents = @ \cup {p}],
                                        [Nowhere EXCEPT ![p] = disk[p]]))
         /\ blobs' = IF f.baseline[p] = Unseen THEN Stored({disk[p]}) ELSE blobs
  /\ UNCHANGED <<disk, file, queue, todo, goal, heir, harness, count, ghosts>>

\* listNow(): the row of a running turn takes a snapshot, unless a recent one
\* is at hand; what it learns about the baseline is kept.
DoList(s) ==
  /\ Begins(s, "list")
  /\ LET f == Hydrated(s)
     IN  \/ /\ f = mem[s]
            /\ Done(s) /\ UNCHANGED <<mem, blobs, foreign>>
         \/ /\ f # mem[s] /\ f.open = None
            /\ Persist(s, f) /\ UNCHANGED <<queue, blobs, foreign>>
         \/ \E found \in Moved(f) :
              /\ f.open # None
              /\ blobs' = SnapshotBlobs(f, found) /\ Took(s, found)
              /\ IF Considered(f, found) = mem[s] THEN Done(s) /\ UNCHANGED mem
                 ELSE Persist(s, Considered(f, found)) /\ UNCHANGED queue
  /\ UNCHANGED <<disk, file, todo, goal, heir, harness, count, inherited>>

\* The fold that a rewind handed over, after the fork's own attach.
DoAdopt(s) ==
  /\ Begins(s, "adopt")
  /\ Persist(s, heir[s].fold)
  /\ UNCHANGED <<disk, blobs, file, queue, todo, goal, heir, harness, count, ghosts>>

Saved(s) ==
  LET kind == Head(queue[s]).kind
  IN  IF kind = "rewind"
      THEN stage' = [stage EXCEPT ![s] = "forking"] /\ UNCHANGED <<queue, heir, tool, inherited>>
      ELSE /\ Done(s)
           /\ tool' = IF kind = "intent" THEN [tool EXCEPT ![s].ready = TRUE] ELSE tool
           /\ heir' = IF kind = "adopt" THEN [heir EXCEPT ![s] = None] ELSE heir
           /\ inherited' = IF kind = "adopt"
                           THEN [inherited EXCEPT ![s] = heir[s].fold.baseline] ELSE inherited

Save(s) ==
  /\ stage[s] = "saving"
  /\ file' = [file EXCEPT ![s] = mem[s]]
  /\ Saved(s)
  /\ UNCHANGED <<disk, blobs, mem, todo, goal, live, log, surface, running, count, foreign>>

\* Fault: work that failed keeps the queue waiting.
FailedStuck(s) == UNCHANGED queue /\ stage' = [stage EXCEPT ![s] = "stuck"]

\* Work that failed is over: the queue swallows the error.
Failed(s) == Done(s)

\* Memory keeps what could not be saved; a tool is not run, a rewind fails.
SaveFails(s) ==
  /\ stage[s] = "saving"
  /\ LET kind == Head(queue[s]).kind
     IN  /\ Failed(s)
         /\ tool' = IF kind = "intent" THEN [tool EXCEPT ![s] = None] ELSE tool
         /\ heir' = IF kind = "adopt" THEN [heir EXCEPT ![s] = None] ELSE heir
         /\ goal' = IF kind = "rewind" THEN [goal EXCEPT ![s] = None] ELSE goal
         /\ foreign' = IF kind = "adopt"
                       THEN [foreign EXCEPT ![s] = @ \cup Seen(heir[s].fold)] ELSE foreign
  /\ file' \in {file} \cup IF "state" \in Torn THEN {[file EXCEPT ![s] = None]} ELSE {}
  /\ UNCHANGED <<disk, blobs, mem, todo, live, log, surface, running, count, inherited>>

-----------------------------------------------------------------------------
(* Rewind *)

Restored(f, i) == OverlayTree(f.baseline, f.points[i].tree)

\* Every path the session touched that the target does not have.
RewindDeletes(f, i) ==
  LET keep == {p \in Path : Restored(f, i)[p] \notin {Unseen, Missing}}
  IN  (f.intents \cup {p \in Path : \E j \in DOMAIN f.points : f.points[j].tree[p] # Unseen})
        \ keep

\* Fault: a turn that is running does not matter.
UnblockedAnyway(f, i) == \A p \in Path : Restored(f, i)[p] \notin Large

\* No turn is open, and every file of the target was stored.
Unblocked(f, i) ==
  /\ f.open = None
  /\ \A p \in Path : Restored(f, i)[p] \notin Large

\* The target of the rewind of s, which is in the fold.
Target(s) == CHOOSE i \in Position(mem[s], goal[s]) : TRUE

\* The rewind has been answered.
Answered(s) == goal' = [goal EXCEPT ![s] = None]

\* The target is there and nothing blocks it.
MayRewind(s) ==
  mem[s] # None /\ Position(mem[s], goal[s]) # {} /\ Unblocked(mem[s], Target(s))

BeginRewind(s) ==
  /\ Begins(s, "rewind")
  /\ \/ /\ ~MayRewind(s)
        /\ Done(s) /\ Answered(s) /\ UNCHANGED todo
     \/ /\ MayRewind(s)
        /\ stage' = [stage EXCEPT ![s] = "deleting"]
        /\ todo' = [todo EXCEPT ![s] =
             [delete |-> RewindDeletes(mem[s], Target(s)),
              write |-> {p \in Path : Restored(mem[s], Target(s))[p] # Unseen}]]
        /\ UNCHANGED <<queue, goal>>
  /\ UNCHANGED <<disk, blobs, mem, file, heir, harness, count, ghosts>>

ByRewind(s, p, c) ==
  /\ disk' = [disk EXCEPT ![p] = c]
  /\ foreign' = [t \in Session |-> IF t = s THEN foreign[t] ELSE foreign[t] \cup {p}]

\* Every error is taken for "already gone": the file may stay.
Delete(s, p) ==
  \/ ByRewind(s, p, Missing)
  \/ /\ disk[p] # Missing
     /\ foreign' = [foreign EXCEPT ![s] = @ \cup {p}] /\ UNCHANGED disk

DeleteLater(s) ==
  /\ stage[s] = "deleting"
  /\ \/ \E p \in todo[s].delete :
          /\ Delete(s, p)
          /\ todo' = [todo EXCEPT ![s].delete = @ \ {p}]
          /\ UNCHANGED stage
     \/ /\ todo[s].delete = {}
        /\ stage' = [stage EXCEPT ![s] = "writing"]
        /\ UNCHANGED <<disk, todo, foreign>>
  /\ UNCHANGED <<blobs, mem, file, queue, goal, heir, harness, count, inherited>>

\* What the blob store returns for a content.
Blob(c) == IF c \in Data /\ blobs[c] = "cut" THEN Cut ELSE c

WriteBack(s) ==
  /\ stage[s] = "writing"
  /\ \/ \E p \in todo[s].write :
          LET c == Restored(mem[s], Target(s))[p]
          IN  /\ IF c = Missing THEN Delete(s, p) ELSE ByRewind(s, p, Blob(c))
              /\ todo' = [todo EXCEPT ![s].write = @ \ {p}]
              /\ UNCHANGED stage
     \/ /\ todo[s].write = {}
        /\ stage' = [stage EXCEPT ![s] = "folding"]
        /\ UNCHANGED <<disk, todo, foreign>>
  /\ UNCHANGED <<blobs, mem, file, queue, goal, heir, harness, count, inherited>>

\* A file cannot be written: the rewind fails halfway.
WriteBackFails(s) ==
  /\ stage[s] = "writing" /\ todo[s].write # {}
  /\ Done(s) /\ Answered(s)
  /\ todo' = [todo EXCEPT ![s] = Nothing]
  /\ UNCHANGED <<disk, blobs, mem, file, heir, harness, count, ghosts>>

\* Fault: the event after the checkpoint is left.
LaterButOne(s) == {i \in surface[s] : i > goal[s].seq + 1}

\* The messages after the checkpoint.
Later(s) == {i \in surface[s] : i > goal[s].seq}

\* appendReplace(), which may fail, and truncateAfter().
FoldBack(s) ==
  LET later == Later(s)
  IN  /\ stage[s] = "folding"
      /\ \/ UNCHANGED <<log, surface>>
         \/ /\ later # {}
            /\ log' = [log EXCEPT ![s] = Append(@, goal[s].turn)]
            /\ surface' = [surface EXCEPT ![s] = (@ \ later) \cup {Len(log'[s])}]
      /\ Persist(s, TruncateAfter(mem[s], Target(s)))
      /\ UNCHANGED <<disk, blobs, file, queue, todo, goal, heir, live, running, tool, count, ghosts>>

\* Fault: the event after the checkpoint is inherited too.
ForkSeedOneMore(events, boundary, turn) ==
  SubSeq(events, 1, IF boundary < Len(events) THEN boundary + 1 ELSE Len(events))

\* The events a child inherits; from the session start it inherits none.
ForkSeed(events, boundary, turn) ==
  IF turn = 0 THEN <<>>
  ELSE SubSeq(events, 1, IF boundary < Len(events) THEN boundary ELSE Len(events))

\* The Harness makes the child, which is attached like every new session; or
\* it does not, and the rewind is answered.
Fork(s) ==
  /\ stage[s] = "forking"
  /\ \/ /\ Done(s) /\ Answered(s)
        /\ UNCHANGED <<heir, live, log, surface, foreign>>
     \/ \E t \in Session \ live :
          /\ live' = live \cup {t}
          /\ log' = [log EXCEPT ![t] = ForkSeed(log[s], goal[s].seq, goal[s].turn)]
          /\ surface' = [surface EXCEPT ![t] = surface[s] \cap DOMAIN log'[t]]
          /\ heir' = [heir EXCEPT ![t] = [from |-> s, fold |-> RehomeState(mem[s], t)]]
          /\ foreign' = [foreign EXCEPT ![t] = foreign[s]]
          /\ queue' = [queue EXCEPT ![t] = <<JustAttach>>]
          /\ stage' = [stage EXCEPT ![s] = "creating"]
          /\ UNCHANGED goal
  /\ UNCHANGED <<disk, blobs, mem, file, todo, running, tool, count, inherited>>

HandOver(s) ==
  /\ stage[s] = "creating"
  /\ \E t \in Session :
       /\ heir[t] # None /\ heir[t].from = s
       /\ queue' = Enqueue(queue, t, "adopt", None, 0)
  /\ stage' = [stage EXCEPT ![s] = "waiting"]
  /\ UNCHANGED <<disk, blobs, mem, file, todo, goal, heir, harness, count, ghosts>>

Return(s) ==
  /\ stage[s] = "waiting"
  /\ \A t \in Session : heir[t] # None => heir[t].from # s
  /\ Done(s) /\ Answered(s)
  /\ UNCHANGED <<disk, blobs, mem, file, todo, heir, harness, count, ghosts>>

-----------------------------------------------------------------------------
(* Crashes *)

\* The contents whose blobs the work of s may be storing.
BeingStored(s) ==
  LET kind  == Head(queue[s]).kind
      reads == CASE kind = "intent" -> {tool[s].path}
                 [] kind = "end" -> Looked(Hydrated(s))
                 [] kind \in {"idle", "list"} /\ Hydrated(s).open # None ->
                      Looked(Hydrated(s))
                 [] OTHER -> {}
  IN  IF queue[s] = <<>> \/ stage[s] # "ready" THEN {}
      ELSE {d \in Data \ Large : blobs[d] = "none" /\ \E p \in reads : disk[p] = d}

CutFold == {s \in Session : stage[s] = "saving"}

\* The host stops.  Memory is lost; a file that was being written may be cut.
Crash ==
  /\ count.crashes < MaxCrashes /\ count' = [count EXCEPT !.crashes = @ + 1]
  /\ \/ UNCHANGED <<blobs, file>>
     \/ /\ "blob" \in Torn
        /\ \E s \in Session : \E d \in BeingStored(s) :
             blobs' = [blobs EXCEPT ![d] = "cut"]
        /\ UNCHANGED file
     \/ /\ "state" \in Torn
        /\ \E s \in CutFold : file' = [file EXCEPT ![s] = None]
        /\ UNCHANGED blobs
  /\ mem' = [s \in Session |-> None]
  /\ queue' = [s \in Session |-> IF s \in live THEN <<JustAttach>> ELSE <<>>]
  /\ stage' = [s \in Session |-> "ready"]
  /\ todo' = [s \in Session |-> Nothing]
  /\ goal' = [s \in Session |-> None]
  /\ heir' = [s \in Session |-> None]
  /\ running' = [s \in Session |-> FALSE]
  /\ tool' = [s \in Session |-> None]
  /\ inherited' = [s \in Session |-> IF file'[s] = None THEN None ELSE inherited[s]]
  /\ UNCHANGED <<disk, live, log, surface, foreign>>

-----------------------------------------------------------------------------

Work(s) ==
  \/ DoAttach(s) \/ DoStart(s) \/ DoEnd(s) \/ DoIdle(s) \/ DoIntent(s)
  \/ DoList(s) \/ DoAdopt(s) \/ Save(s) \/ SaveFails(s)
  \/ BeginRewind(s) \/ DeleteLater(s) \/ WriteBack(s) \/ WriteBackFails(s)
  \/ FoldBack(s) \/ Fork(s) \/ HandOver(s) \/ Return(s)

Next ==
  \/ \E s \in Session :
       \/ Work(s)
       \/ StartTurn(s) \/ EndTurn(s) \/ Stop(s) \/ LateEnd(s)
       \/ \E p \in Path, d \in Data : CallTool(s, p, d)
       \/ WriteByTool(s)
       \/ AskList(s)
       \/ \E i \in 1..MaxTurn + 1 : AskRewind(s, i)
  \/ \E p \in Path, c \in Data \cup {Missing} : WriteByOther(p, c)
  \/ Crash

Spec == Init /\ [][Next]_vars

-----------------------------------------------------------------------------
(* Properties *)

\* "restore the saved files" (README.md): when the files of a rewind are
\* written, the directory is as it was at the checkpoint, but for what others
\* changed and what could not be deleted.
RestoresTree ==
  \A s \in Session : stage[s] = "folding" =>
    \A p \in Path \ foreign[s] : disk[p] = mem[s].points[Target(s)].was[p]

\* The event at the place of a checkpoint is of its own turn.  It is not when a
\* prompt came in before the task of a stopped turn read the position.
InPlace(s, id) == id.turn = 0 \/ (id.seq \in DOMAIN log[s] /\ log[s][id.seq] = id.turn)

\* "opens a child session whose conversation ends at that checkpoint", "later
\* messages are not sent to the model" (docs/checkpoints.md), which the code
\* keeps for checkpoints that are in their place: nothing of a later turn is in
\* the child, and what follows is hidden from the model in the parent, late ends
\* of stopped turns and the notices of earlier rewinds included.
ConversationEnds ==
  [][\A s \in Session : goal[s] # None /\ InPlace(s, goal[s]) =>
       /\ stage[s] = "forking" /\ stage'[s] = "creating" =>
            \A t \in live' \ live : \A i \in DOMAIN log'[t] : log'[t][i] <= goal[s].turn
       /\ stage[s] = "folding" /\ stage'[s] = "saving" /\ log'[s] # log[s] =>
            \A i \in surface'[s] : log'[s][i] <= goal[s].turn]_vars

\* "a rewind is refused while a turn is running" (docs/checkpoints.md): no
\* write of the session's own tools falls into its rewind.
NoToolWriteDuringRewind ==
  [][\A s \in Session :
       tool[s] # None /\ tool'[s] = None /\ disk' # disk
         => stage[s] \notin {"deleting", "writing", "folding"}]_vars

\* "first-seen content is the baseline" (service.ts): at any moment, and so after
\* a crash at any moment, state.json tells what the directory was at each of its
\* checkpoints, by an entry, by the baseline, or because the file has not changed.
BaselineIsSafe ==
  \A s \in Session : file[s] # None =>
    \A p \in Path \ foreign[s] : \A i \in DOMAIN file[s].points :
      LET known == Restored(file[s], i)[p]
      IN  file[s].points[i].was[p] = IF known # Unseen THEN known ELSE disk[p]

\* One checkpoint for each turn, in the order of the turns, whichever of
\* turn/end and idle comes first; and, as long as no turn is stopped, in the
\* order of the log.
TurnsInOrder ==
  \A s \in Session : mem[s] # None =>
    \A i, j \in DOMAIN mem[s].points : i < j =>
      /\ mem[s].points[i].turn < mem[s].points[j].turn
      /\ MayStop \/ mem[s].points[i].seq <= mem[s].points[j].seq

\* "an empty origin persist cannot land after this and wipe the rewound fold"
\* (service.ts): the child keeps what it inherited, over restarts too.
InheritanceKept ==
  \A s \in Session : mem[s] # None /\ inherited[s] # None =>
    \A p \in Path : inherited[s][p] # Unseen => mem[s].baseline[p] = inherited[s][p]

\* A rewind that holds its queue while it waits for the child's waits for work
\* that is there, behind work that goes on by itself or a rewind of the child;
\* and no sessions wait for one another in a circle.
HeirIsServed ==
  /\ \A s, t \in Session : stage[s] = "waiting" /\ heir[t] # None /\ heir[t].from = s =>
       /\ \E i \in DOMAIN queue[t] : queue[t][i].kind = "adopt"
       /\ stage[t] \in {"ready", "saving"} \/ Head(queue[t]).kind = "rewind"
  /\ \A circle \in (SUBSET Session) \ {{}} :
       \E s \in circle : \A t \in circle : heir[t] # None => heir[t].from # s

=============================================================================
