-------------------------- MODULE Checkpoints_proofs --------------------------
(***************************************************************************)
(* Proofs about Checkpoints for any sessions, paths, contents and bounds.  *)
(***************************************************************************)
EXTENDS Checkpoints, TLAPS

-----------------------------------------------------------------------------
(* The log, the folds and the queues *)

\* A turn is 0 or no later than one of the first n events.
Reached(events, n, turn) ==
  turn = 0 \/ \E i \in DOMAIN events : i <= n /\ turn <= events[i]

\* Every part of the log has a last turn.
HasLast(events) ==
  \A n \in DOMAIN events : \E i \in 1..n : \A j \in 1..n : events[j] <= events[i]

Highest(events, turn) ==
  \/ events = <<>> /\ turn = 0
  \/ /\ \E i \in DOMAIN events : events[i] = turn
     /\ \A i \in DOMAIN events : events[i] <= turn

\* The session start comes first, then the turns in their order.
Begun(f) == f.points # <<>> /\ f.points[1].turn = 0 /\ f.points[1].seq = 0
Ordered(f) == \A i, j \in DOMAIN f.points : i < j => f.points[i].turn < f.points[j].turn

\* What the fold knows of turns is in the log.
OnLog(f, events) ==
  /\ \A i \in DOMAIN f.points : Reached(events, f.points[i].seq, f.points[i].turn)
  /\ f.open # None =>
       /\ Reached(events, Len(events), f.open)
       /\ \A i \in DOMAIN f.points : f.points[i].turn <= f.open

\* As long as no turn is stopped, a checkpoint is where its turn ends.
AtEnds(f, events) ==
  /\ \A i, j \in DOMAIN f.points : i <= j => f.points[i].seq <= f.points[j].seq
  /\ \A i \in DOMAIN f.points :
       /\ f.points[i].seq <= Len(events)
       /\ \A n \in DOMAIN events : n <= f.points[i].seq => events[n] <= f.points[i].turn

\* Whatever a session touched has a baseline.
Baselined(f) ==
  \A p \in Path : f.baseline[p] = Unseen =>
    p \notin f.intents /\ \A i \in DOMAIN f.points : f.points[i].tree[p] = Unseen

FoldOK(f, events) ==
  /\ Begun(f) /\ Ordered(f) /\ OnLog(f, events) /\ Baselined(f)
  /\ MayStop \/ AtEnds(f, events)

\* A checkpoint tells what the directory was: from the tree, the baseline or,
\* for a path never seen, from the directory as it is.
Honest(f, directory, except) ==
  "blob" \notin Torn => \A p \in Path \ except : \A i \in DOMAIN f.points :
    f.points[i].was[p] = IF Restored(f, i)[p] # Unseen THEN Restored(f, i)[p]
                         ELSE directory[p]

Blank(f) == f.baseline = Nowhere

Timed(task) == task.kind \in {"start", "end"}
Rank(task, events) == IF task.kind = "start" THEN task.turn ELSE events[task.seq]

\* The work of a queue follows the log.
QueueOK(q, events) ==
  /\ \A i \in DOMAIN q : q[i].kind = "start" =>
       q[i].turn \in Turn /\ Reached(events, Len(events), q[i].turn)
  /\ \A i \in DOMAIN q : q[i].kind = "end" =>
       q[i].seq \in DOMAIN events /\ q[i].turn \in {None, events[q[i].seq]}
  /\ \A i, j \in DOMAIN q : i < j /\ Timed(q[i]) /\ Timed(q[j]) =>
       Rank(q[i], events) <= Rank(q[j], events)

QueueAtEnds(q, events) ==
  /\ \A i \in DOMAIN q : q[i].kind # "idle"
  /\ \A i, j \in DOMAIN q : i < j /\ q[i].kind = "end" /\ q[j].kind = "end" => q[i].seq <= q[j].seq
  /\ \A i \in DOMAIN q : q[i].kind = "end" =>
       \A n \in DOMAIN events : n <= q[i].seq => events[n] <= events[q[i].seq]

\* What a fold holds is not later than what waits.
Ahead(f, q, events) ==
  /\ \A j \in DOMAIN q : Timed(q[j]) =>
       /\ \A i \in DOMAIN f.points : f.points[i].turn <= Rank(q[j], events)
       /\ f.open # None => f.open <= Rank(q[j], events)
  /\ \/ MayStop
     \/ \A j \in DOMAIN q : q[j].kind = "end" =>
          \A i \in DOMAIN f.points : f.points[i].seq <= q[j].seq

\* An end without its number finds its turn open, or none.
OpenFits(open, q, events) ==
  \A j \in DOMAIN q : q[j].kind = "end" =>
    \/ \E i \in DOMAIN q : i < j /\ q[i].kind = "start" /\ q[i].turn = events[q[j].seq]
    \/ /\ \A i \in DOMAIN q : i < j => q[i].kind # "start"
       /\ open \in {None, events[q[j].seq]}

-----------------------------------------------------------------------------
(* The sessions *)

Current(s) == IF mem[s] # None THEN mem[s] ELSE file[s]
OpenOf(s) == IF Current(s) = None THEN None ELSE Current(s).open
First(s, kind) == queue[s] # <<>> /\ Head(queue[s]).kind = kind
Saving(s, kind) == stage[s] = "saving" /\ First(s, kind)
Restoring == {"deleting", "writing", "folding"}
Rewinding == Restoring \cup {"forking", "creating", "waiting"}

FoldsOK(s) ==
  \A f \in {mem[s], file[s]} : f # None =>
    f.session = s /\ FoldOK(f, log[s]) /\ Honest(f, disk, foreign[s])

LogOK(s) ==
  /\ HasLast(log[s])
  /\ QueueOK(queue[s], log[s])
  /\ MayStop \/ QueueAtEnds(queue[s], log[s])
  /\ MayStop \/ OpenFits(OpenOf(s), queue[s], log[s])
  /\ Current(s) # None => Ahead(Current(s), queue[s], log[s])

\* The start of a running turn waits, or its turn is open; nothing behind it
\* closes it.
Closing == {"start", "end", "idle", "adopt"}
Awaited(s, k) ==
  \E i \in DOMAIN queue[s] :
    /\ queue[s][i].kind = "start" /\ queue[s][i].turn = k
    /\ \A j \in DOMAIN queue[s] : i < j => queue[s][j].kind \notin Closing
Opened(s, k) ==
  /\ \A j \in DOMAIN queue[s] : queue[s][j].kind \notin Closing
  /\ mem[s] # None /\ mem[s].open = k
TurnOK(s) ==
  running[s] =>
    /\ log[s] # <<>> /\ heir[s] = None
    /\ \A k \in Turn : Highest(log[s], k) => Awaited(s, k) \/ Opened(s, k)

ToolOK(s) ==
  /\ tool[s] # None => running[s]
  /\ \A i \in DOMAIN queue[s] : queue[s][i].kind = "intent" =>
       /\ tool[s] # None /\ ~tool[s].ready
       /\ \A j \in DOMAIN queue[s] : i < j => queue[s][j].kind \notin {"start", "intent"}
  /\ tool[s] # None /\ tool[s].ready =>
       /\ \A i \in DOMAIN queue[s] : queue[s][i].kind \notin {"start", "intent"}
       /\ mem[s] # None /\ mem[s].baseline[tool[s].path] # Unseen
       /\ file[s] # None => file[s].baseline[tool[s].path] # Unseen
       /\ "state" \notin Torn => file[s] # None
  /\ Saving(s, "intent") => mem[s].baseline[tool[s].path] # Unseen

StageOK(s) ==
  /\ stage[s] # "ready" => queue[s] # <<>> /\ mem[s] # None
  /\ stage[s] \in Rewinding => First(s, "rewind")
  /\ stage[s] \in Rewinding \/ Saving(s, "rewind") => goal[s] # None
  /\ stage[s] \in Restoring => mem[s].open = None /\ Position(mem[s], goal[s]) # {}
  /\ stage[s] = "forking" \/ Saving(s, "rewind") =>
       mem[s].open = None /\ IdOf(mem[s].points[Len(mem[s].points)]) = goal[s]
  /\ Saving(s, "start") => mem[s].open = Head(queue[s]).turn
  /\ Saving(s, "adopt") => heir[s] # None /\ mem[s] = heir[s].fold

\* How far a rewind to its target is.
RestoreOK(s) ==
  stage[s] \in Restoring => \A i \in Position(mem[s], goal[s]) :
    /\ todo[s].delete \subseteq RewindDeletes(mem[s], i)
    /\ todo[s].write \subseteq {p \in Path : Restored(mem[s], i)[p] # Unseen}
    /\ stage[s] = "folding" => todo[s].write = {}
    /\ "blob" \notin Torn =>
         \A p \in Path \ (foreign[s] \cup todo[s].write) :
           Restored(mem[s], i)[p] # Unseen => disk[p] = Restored(mem[s], i)[p]

\* What memory knows and the file does not is not changed on disk.
UnsavedOK(s) ==
  "blob" \notin Torn /\ mem[s] # None /\ file[s] # None /\ ~Saving(s, "adopt") =>
    \A p \in Path \ foreign[s] : file[s].baseline[p] = Unseen =>
      \A i \in DOMAIN mem[s].points : mem[s].points[i].was[p] = disk[p]

Keeps(f, baseline) == \A p \in Path : baseline[p] # Unseen => f.baseline[p] = baseline[p]
InheritOK(s) ==
  inherited[s] # None =>
    /\ heir[s] = None
    /\ \A f \in {mem[s], file[s]} : f # None => Keeps(f, inherited[s])
    /\ mem[s] = None => file[s] # None

\* The fold a child is about to receive; its own is empty until then.
HeirOK(s) ==
  heir[s] # None =>
    LET f == heir[s].fold
    IN  /\ f.session = s /\ f.open = None
        /\ FoldOK(f, log[s]) /\ Honest(f, disk, foreign[s])
        /\ Ahead(f, queue[s], log[s])
        /\ mem[s] # None /\ ~Saving(s, "adopt") => Blank(mem[s])
        /\ file[s] # None => Blank(file[s])

Absent(s) ==
  s \notin live =>
    /\ mem[s] = None /\ file[s] = None /\ heir[s] = None /\ tool[s] = None
    /\ queue[s] = <<>> /\ log[s] = <<>> /\ ~running[s] /\ inherited[s] = None

SessionOK(s) ==
  /\ FoldsOK(s) /\ LogOK(s) /\ TurnOK(s) /\ ToolOK(s) /\ StageOK(s) /\ RestoreOK(s)
  /\ UnsavedOK(s) /\ InheritOK(s) /\ HeirOK(s) /\ Absent(s)

Adopts(q) == {i \in DOMAIN q : q[i].kind = "adopt"}
NoCircle ==
  \A circle \in (SUBSET Session) \ {{}} :
    \E s \in circle : \A t \in circle : heir[t] # None => heir[t].from # s
HeirsOK ==
  /\ \A t \in Session : heir[t] # None =>
       /\ heir[t].from \in live /\ heir[t].from # t
       /\ stage[heir[t].from] \in {"creating", "waiting"}
  /\ \A t \in Session : \A i, j \in Adopts(queue[t]) : i = j
  /\ \A t \in Session : Adopts(queue[t]) # {} <=>
       heir[t] # None /\ stage[heir[t].from] = "waiting"
  /\ \A t, u \in Session : heir[t] # None /\ heir[u] # None /\ heir[t].from = heir[u].from => t = u
  /\ NoCircle

NoCut == "blob" \notin Torn => \A d \in Data : blobs[d] # "cut"

IInv == TypeOK /\ (\A s \in Session : SessionOK(s)) /\ HeirsOK /\ NoCut

-----------------------------------------------------------------------------
(* Sequences *)

LEMMA AppendFacts ==
  ASSUME NEW S, NEW q \in Seq(S), NEW x \in S
  PROVE  /\ Append(q, x) \in Seq(S) /\ Append(q, x) # <<>>
         /\ Len(Append(q, x)) = Len(q) + 1 /\ Append(q, x)[Len(q) + 1] = x
         /\ DOMAIN Append(q, x) = 1..(Len(q) + 1)
         /\ DOMAIN q = 1..Len(q) /\ Len(q) \in Nat
         /\ \A i \in DOMAIN q : Append(q, x)[i] = q[i]
  OBVIOUS

LEMMA TailFacts ==
  ASSUME NEW S, NEW q \in Seq(S), q # <<>>
  PROVE  /\ Tail(q) \in Seq(S) /\ Head(q) = q[1] /\ Head(q) \in S /\ 1 \in DOMAIN q
         /\ DOMAIN q = 1..Len(q) /\ DOMAIN Tail(q) = 1..(Len(q) - 1) /\ Len(q) \in Nat \ {0}
         /\ \A i \in DOMAIN Tail(q) : i + 1 \in DOMAIN q /\ Tail(q)[i] = q[i + 1]
  OBVIOUS

LEMMA PrefixFacts ==
  ASSUME NEW S, NEW q \in Seq(S), NEW n \in 0..Len(q)
  PROVE  /\ SubSeq(q, 1, n) \in Seq(S) /\ Len(SubSeq(q, 1, n)) = n
         /\ DOMAIN SubSeq(q, 1, n) = 1..n
         /\ \A i \in 1..n : SubSeq(q, 1, n)[i] = q[i]
  OBVIOUS

LEMMA ConsFacts ==
  ASSUME NEW S, NEW x \in S
  PROVE  <<x>> \in Seq(S) /\ Len(<<x>>) = 1 /\ <<x>>[1] = x /\ DOMAIN <<x>> = 1..1 /\ <<x>> # <<>>
  OBVIOUS

-----------------------------------------------------------------------------
(* Types *)

LEMMA NoneIsNone ==
  /\ None \notin Turn /\ None \notin Id /\ None \notin Fold /\ None \notin Call
  /\ None \notin Heir /\ None \notin Tree
  BY CheckpointsAssumption

LEMMA UnseenIsNot == Unseen \notin Data /\ Unseen # Missing /\ Missing \notin Data /\ Unseen \notin Content
  BY CheckpointsAssumption DEF Content

LEMMA BlankIsTree == Nowhere \in Tree
  BY DEF Nowhere, Tree

LEMMA OverlayFacts ==
  ASSUME NEW b \in Tree, NEW t \in Tree
  PROVE  /\ OverlayTree(b, t) \in Tree
         /\ \A p \in Path : OverlayTree(b, t)[p] = IF t[p] # Unseen THEN t[p] ELSE b[p]
  BY DEF OverlayTree, Tree

LEMMA FoldFields ==
  ASSUME NEW f \in Fold
  PROVE  /\ f.session \in Session /\ f.baseline \in Tree /\ f.points \in Seq(Point)
         /\ f.intents \subseteq Path /\ f.open \in Turn \cup {None} /\ f.cursor \in Nat
         /\ DOMAIN f.points = 1..Len(f.points) /\ Len(f.points) \in Nat
         /\ \A i \in DOMAIN f.points : f.points[i] \in Point
  BY DEF Fold

LEMMA PointFields ==
  ASSUME NEW pt \in Point
  PROVE  /\ pt.turn \in Turn /\ pt.seq \in Nat /\ pt.tree \in Tree /\ pt.was \in [Path -> Content]
         /\ IdOf(pt) \in Id /\ IdOf(pt).turn = pt.turn /\ IdOf(pt).seq = pt.seq
  BY DEF Point, IdOf, Id

LEMMA RestoredFacts ==
  ASSUME NEW f \in Fold, NEW i \in DOMAIN f.points
  PROVE  /\ Restored(f, i) \in Tree
         /\ \A p \in Path : Restored(f, i)[p] = IF f.points[i].tree[p] # Unseen
                                                THEN f.points[i].tree[p] ELSE f.baseline[p]
  BY FoldFields, PointFields, OverlayFacts DEF Restored

-----------------------------------------------------------------------------
(* The log grows *)

\* One log continues another.
Extends(events, more) ==
  Len(events) <= Len(more) /\ \A i \in DOMAIN events : more[i] = events[i]

LEMMA AppendExtends ==
  ASSUME NEW events \in Seq(Turn), NEW t \in Turn
  PROVE  Extends(events, Append(events, t))
  BY AppendFacts DEF Extends

LEMMA TurnsAreNats == Turn \subseteq Nat /\ 0 \in Turn
  BY CheckpointsAssumption DEF Turn

LEMMA LogNats ==
  ASSUME NEW events \in Seq(Turn)
  PROVE  /\ DOMAIN events = 1..Len(events) /\ Len(events) \in Nat
         /\ \A i \in DOMAIN events : events[i] \in Turn /\ events[i] \in Nat
<1>1. \A i \in DOMAIN events : events[i] \in Turn
  OBVIOUS
<1>2. \A t \in Turn : t \in Nat
  BY TurnsAreNats
<1>3. QED
  BY <1>1, <1>2

LEMMA LastAppended ==
  ASSUME NEW events \in Seq(Turn), NEW t \in Turn, HasLast(events)
  PROVE  HasLast(Append(events, t))
<1> DEFINE more == Append(events, t)
<1>1. /\ DOMAIN more = 1..(Len(events) + 1) /\ more[Len(events) + 1] = t
      /\ DOMAIN events = 1..Len(events) /\ Len(events) \in Nat
      /\ \A i \in DOMAIN events : more[i] = events[i]
      /\ more \in Seq(Turn)
  BY AppendFacts
<1> HIDE DEF more
<1>0. \A i \in DOMAIN more : more[i] \in Nat
  BY <1>1, LogNats
<1>2. SUFFICES ASSUME NEW n \in DOMAIN more
               PROVE  \E i \in 1..n : \A j \in 1..n : more[j] <= more[i]
  BY DEF HasLast, more
<1>3. CASE n \in DOMAIN events
  <2>1. PICK i \in 1..n : \A j \in 1..n : events[j] <= events[i]
    BY <1>3 DEF HasLast
  <2>2. \A j \in 1..n : j \in DOMAIN events
    BY <1>1, <1>3
  <2>3. QED
    BY <1>1, <2>1, <2>2
<1>4. CASE n = Len(events) + 1 /\ Len(events) = 0
  <2>1. 1 \in 1..n /\ more[1] <= more[1]
    BY <1>0, <1>1, <1>4
  <2>2. \A j \in 1..n : j = 1
    BY <1>4
  <2>3. QED
    BY <2>1, <2>2
<1>5. CASE n = Len(events) + 1 /\ Len(events) > 0
  <2>0. Len(events) \in DOMAIN events
    BY <1>1, <1>5
  <2>1. PICK i \in 1..Len(events) : \A j \in 1..Len(events) : events[j] <= events[i]
    BY <2>0 DEF HasLast
  <2>2. \A j \in 1..n : j \in DOMAIN events \/ j = n
    BY <1>1, <1>5
  <2>3. CASE t <= events[i]
    <3>1. i \in 1..n /\ \A j \in 1..n : more[j] <= more[i]
      BY <1>1, <1>5, <2>1, <2>2, <2>3
    <3>2. QED
      BY <3>1
  <2>4. CASE events[i] <= t
    <3>0. more[n] = t /\ t \in Nat /\ n \in 1..n
      BY <1>0, <1>1, <1>5
    <3>1. ASSUME NEW j \in 1..n PROVE more[j] <= more[n]
      <4>1. CASE j = n
        BY <3>0, <4>1
      <4>2. CASE j # n
        <5>1. j \in 1..Len(events) /\ more[j] = events[j] /\ events[j] \in Nat
          BY <1>1, <1>5, <2>2, <4>2, LogNats
        <5>2. events[j] <= events[i] /\ events[i] \in Nat
          BY <1>1, <2>1, <5>1, LogNats
        <5>3. QED
          BY <2>4, <3>0, <5>1, <5>2
      <4>3. QED
        BY <4>1, <4>2
    <3>2. QED
      BY <3>0, <3>1
  <2>5. t \in Nat /\ events[i] \in Nat
    BY <1>1, TurnsAreNats, LogNats
  <2>6. QED
    BY <2>3, <2>4, <2>5
<1>6. QED
  BY <1>1, <1>3, <1>4, <1>5

LEMMA PrefixHasLast ==
  ASSUME NEW events \in Seq(Turn), NEW n \in 0..Len(events), HasLast(events)
  PROVE  HasLast(SubSeq(events, 1, n))
<1> DEFINE part == SubSeq(events, 1, n)
<1>1. /\ DOMAIN part = 1..n /\ \A i \in 1..n : part[i] = events[i]
      /\ DOMAIN events = 1..Len(events) /\ Len(events) \in Nat
  BY PrefixFacts
<1> HIDE DEF part
<1>2. SUFFICES ASSUME NEW k \in DOMAIN part
               PROVE  \E i \in 1..k : \A j \in 1..k : part[j] <= part[i]
  BY DEF HasLast, part
<1>2a. k \in DOMAIN events /\ \A j \in 1..k : part[j] = events[j]
  BY <1>1
<1>3. PICK i \in 1..k : \A j \in 1..k : events[j] <= events[i]
  BY <1>2a DEF HasLast
<1>4. QED
  BY <1>2a, <1>3

LEMMA ReachedMore ==
  ASSUME NEW events \in Seq(Turn), NEW more \in Seq(Turn), Extends(events, more),
         NEW n \in Nat, NEW m \in Nat, n <= m, NEW t \in Turn, Reached(events, n, t)
  PROVE  Reached(more, m, t)
  BY TurnsAreNats DEF Extends, Reached

\* Whatever has begun is no later than the last turn.
LEMMA ReachedIsLow ==
  ASSUME NEW events \in Seq(Turn), NEW k \in Turn, Highest(events, k),
         NEW n \in Nat, NEW t \in Turn, Reached(events, n, t)
  PROVE  t <= k
<1>1. CASE t = 0
  BY <1>1, TurnsAreNats
<1>2. CASE t # 0
  <2>1. PICK i \in DOMAIN events : t <= events[i]
    BY <1>2 DEF Reached
  <2>2. events[i] <= k /\ events[i] \in Turn
    BY <2>1 DEF Highest
  <2>3. QED
    BY <2>1, <2>2, TurnsAreNats, LogNats DEF Turn
<1>3. QED
  BY <1>1, <1>2

LEMMA LastTurnFacts ==
  ASSUME NEW s \in Session, log[s] \in Seq(Turn), HasLast(log[s])
  PROVE  LastTurn(s) \in Turn /\ Highest(log[s], LastTurn(s))
<1>1. CASE log[s] = <<>>
  BY <1>1, TurnsAreNats DEF LastTurn, Highest
<1>2. CASE log[s] # <<>>
  <2>1. /\ Len(log[s]) \in DOMAIN log[s] /\ DOMAIN log[s] = 1..Len(log[s])
        /\ \A i \in DOMAIN log[s] : log[s][i] \in Turn
    BY <1>2
  <2>2. PICK i \in 1..Len(log[s]) : \A j \in 1..Len(log[s]) : log[s][j] <= log[s][i]
    BY <2>1 DEF HasLast
  <2>3. \E t \in Turn : /\ \E n \in DOMAIN log[s] : log[s][n] = t
                        /\ \A n \in DOMAIN log[s] : log[s][n] <= t
    BY <2>1, <2>2
  <2>4. /\ LastTurn(s) \in Turn /\ \E n \in DOMAIN log[s] : log[s][n] = LastTurn(s)
        /\ \A n \in DOMAIN log[s] : log[s][n] <= LastTurn(s)
    BY <1>2, <2>3 DEF LastTurn
  <2>5. QED
    BY <2>4 DEF Highest
<1>3. QED
  BY <1>1, <1>2

LEMMA OneHighest ==
  ASSUME NEW events \in Seq(Turn), NEW k \in Turn, NEW m \in Turn,
         Highest(events, k), Highest(events, m)
  PROVE  k = m
<1>1. CASE events = <<>>
  BY <1>1 DEF Highest
<1>2. CASE events # <<>>
  <2>1. PICK i \in DOMAIN events : events[i] = k
    BY <1>2 DEF Highest
  <2>2. PICK j \in DOMAIN events : events[j] = m
    BY <1>2 DEF Highest
  <2>3. events[i] <= m /\ events[j] <= k
    BY <1>2 DEF Highest
  <2>4. QED
    BY <2>1, <2>2, <2>3, TurnsAreNats
<1>3. QED
  BY <1>1, <1>2

-----------------------------------------------------------------------------
(* The queue *)

LEMMA TaskFields ==
  ASSUME NEW q \in Seq(Task)
  PROVE  /\ DOMAIN q = 1..Len(q) /\ Len(q) \in Nat
         /\ \A i \in DOMAIN q : /\ q[i] \in Task /\ q[i].turn \in Turn \cup {None}
                                /\ q[i].seq \in Nat
<1>1. \A i \in DOMAIN q : q[i] \in Task
  OBVIOUS
<1>2. \A task \in Task : task.turn \in Turn \cup {None} /\ task.seq \in Nat
  BY DEF Task
<1>3. QED
  BY <1>1, <1>2

LEMMA RankIsNat ==
  ASSUME NEW q \in Seq(Task), NEW events \in Seq(Turn), QueueOK(q, events)
  PROVE  \A j \in DOMAIN q : Timed(q[j]) => Rank(q[j], events) \in Turn /\ Rank(q[j], events) \in Nat
  BY LogNats, TurnsAreNats DEF QueueOK, Timed, Rank

LEMMA TailQueueOK ==
  ASSUME NEW q \in Seq(Task), NEW events \in Seq(Turn), q # <<>>, QueueOK(q, events)
  PROVE  QueueOK(Tail(q), events)
<1>1. \A i \in DOMAIN Tail(q) : i + 1 \in DOMAIN q /\ Tail(q)[i] = q[i + 1]
  BY TailFacts
<1>2. \A i, j \in DOMAIN Tail(q) : i < j => i + 1 < j + 1
  BY TailFacts
<1>3. QED
  BY <1>1, <1>2 DEF QueueOK

LEMMA TailQueueAtEnds ==
  ASSUME NEW q \in Seq(Task), NEW events \in Seq(Turn), q # <<>>, QueueAtEnds(q, events)
  PROVE  QueueAtEnds(Tail(q), events)
<1>1. \A i \in DOMAIN Tail(q) : i + 1 \in DOMAIN q /\ Tail(q)[i] = q[i + 1]
  BY TailFacts
<1>2. \A i, j \in DOMAIN Tail(q) : i < j => i + 1 < j + 1
  BY TailFacts
<1>3. QED
  BY <1>1, <1>2 DEF QueueAtEnds

LEMMA TailAhead ==
  ASSUME NEW q \in Seq(Task), NEW events \in Seq(Turn), q # <<>>, NEW f, Ahead(f, q, events)
  PROVE  Ahead(f, Tail(q), events)
  BY TailFacts DEF Ahead

\* When the start that is done has opened its turn.
LEMMA TailOpenFits ==
  ASSUME NEW q \in Seq(Task), NEW events \in Seq(Turn), q # <<>>, QueueOK(q, events),
         NEW open, OpenFits(open, q, events),
         q[1].kind = "start" => open = q[1].turn
  PROVE  OpenFits(open, Tail(q), events)
<1>1. \A i \in DOMAIN Tail(q) : i + 1 \in DOMAIN q /\ Tail(q)[i] = q[i + 1]
  BY TailFacts
<1>2. /\ DOMAIN q = 1..Len(q) /\ Len(q) \in Nat \ {0} /\ 1 \in DOMAIN q
      /\ DOMAIN Tail(q) = 1..(Len(q) - 1)
  BY TailFacts
<1>3. SUFFICES ASSUME NEW j \in DOMAIN Tail(q), Tail(q)[j].kind = "end"
      PROVE  \/ \E i \in DOMAIN Tail(q) : /\ i < j /\ Tail(q)[i].kind = "start"
                                          /\ Tail(q)[i].turn = events[Tail(q)[j].seq]
             \/ /\ \A i \in DOMAIN Tail(q) : i < j => Tail(q)[i].kind # "start"
                /\ open \in {None, events[Tail(q)[j].seq]}
  BY DEF OpenFits
<1>4. j + 1 \in DOMAIN q /\ Tail(q)[j] = q[j + 1] /\ q[j + 1].kind = "end"
  BY <1>1, <1>3
<1>5. CASE \E i \in DOMAIN Tail(q) : i < j /\ Tail(q)[i].kind = "start" /\ q[1].kind = "start" /\ open = events[q[j + 1].seq]
  <2>1. PICK i \in DOMAIN Tail(q) : i < j /\ Tail(q)[i].kind = "start"
    BY <1>5
  <2>2. i + 1 \in DOMAIN q /\ Tail(q)[i] = q[i + 1] /\ 1 < i + 1 /\ i + 1 < j + 1
    BY <1>1, <1>2, <2>1
  <2>3. Timed(q[1]) /\ Timed(q[i + 1]) /\ Timed(q[j + 1])
    BY <1>4, <1>5, <2>1, <2>2 DEF Timed
  <2>4. /\ Rank(q[1], events) <= Rank(q[i + 1], events)
        /\ Rank(q[i + 1], events) <= Rank(q[j + 1], events)
    BY <1>2, <1>4, <2>2, <2>3 DEF QueueOK
  <2>5. /\ Rank(q[1], events) \in Nat /\ Rank(q[i + 1], events) \in Nat
        /\ Rank(q[j + 1], events) \in Nat
    BY <1>2, <1>4, <2>2, <2>3, RankIsNat
  <2>6. /\ Rank(q[1], events) = open /\ Rank(q[j + 1], events) = open
        /\ Rank(q[i + 1], events) = q[i + 1].turn
    BY <1>4, <1>5, <2>1, <2>2 DEF Rank
  <2>7. q[i + 1].turn = open
    BY <2>4, <2>5, <2>6
  <2>8. QED
    BY <1>4, <1>5, <2>1, <2>2, <2>7
<1>6. CASE \E i \in DOMAIN q : /\ i < j + 1 /\ q[i].kind = "start"
                              /\ q[i].turn = events[q[j + 1].seq]
  <2>1. PICK i \in DOMAIN q : i < j + 1 /\ q[i].kind = "start" /\ q[i].turn = events[q[j + 1].seq]
    BY <1>6
  <2>2. CASE i = 1
    <3>1. open = events[q[j + 1].seq]
      BY <2>1, <2>2
    <3>2. QED
      BY <1>4, <1>5, <2>1, <2>2, <3>1
  <2>3. CASE i # 1
    <3>1. i - 1 \in DOMAIN Tail(q) /\ Tail(q)[i - 1] = q[i] /\ i - 1 < j
      <4>1. i - 1 \in DOMAIN Tail(q) /\ (i - 1) + 1 = i /\ i - 1 < j
        BY <1>2, <2>1, <2>3
      <4>2. QED
        BY <1>1, <4>1
    <3>2. QED
      BY <1>4, <2>1, <3>1
  <2>4. QED
    BY <2>2, <2>3
<1>7. CASE /\ \A i \in DOMAIN q : i < j + 1 => q[i].kind # "start"
           /\ open \in {None, events[q[j + 1].seq]}
  <2>1. \A i \in DOMAIN Tail(q) : i < j => i + 1 < j + 1
    BY <1>2
  <2>2. QED
    BY <1>1, <1>4, <1>7, <2>1
<1>8. QED
  BY <1>4, <1>6, <1>7 DEF OpenFits

LEMMA OpenFitsNone ==
  ASSUME NEW q, NEW events, NEW open, OpenFits(open, q, events)
  PROVE  OpenFits(None, q, events)
  BY DEF OpenFits

\* Opening the turn of the start that comes first.
LEMMA OpenFitsStart ==
  ASSUME NEW q \in Seq(Task), NEW events, NEW open, q # <<>>, OpenFits(open, q, events),
         q[1].kind = "start"
  PROVE  OpenFits(q[1].turn, q, events)
<1>1. 1 \in DOMAIN q /\ \A j \in DOMAIN q : j = 1 \/ 1 < j
  BY TailFacts
<1>2. \A j \in DOMAIN q : q[j].kind = "end" => 1 < j
  BY <1>1
<1>3. QED
  BY <1>1, <1>2 DEF OpenFits

\* A log that has grown changes nothing for what waits.
LEMMA ExtendedQueueOK ==
  ASSUME NEW q \in Seq(Task), NEW events \in Seq(Turn), NEW more \in Seq(Turn),
         Extends(events, more), QueueOK(q, events)
  PROVE  QueueOK(q, more)
<1>1. DOMAIN events \subseteq DOMAIN more /\ \A i \in DOMAIN events : more[i] = events[i]
  BY DEF Extends
<1>2. \A i \in DOMAIN q : Timed(q[i]) => Rank(q[i], more) = Rank(q[i], events)
  BY <1>1 DEF QueueOK, Timed, Rank
<1>3. \A i \in DOMAIN q : q[i].kind = "start" => q[i].turn \in Turn /\ Reached(more, Len(more), q[i].turn)
  <2>1. Len(events) \in Nat /\ Len(more) \in Nat /\ Len(events) <= Len(more)
    BY DEF Extends
  <2>2. QED
    BY <2>1, ReachedMore DEF QueueOK
<1>4. \A i \in DOMAIN q : q[i].kind = "end" =>
       q[i].seq \in DOMAIN more /\ q[i].turn \in {None, more[q[i].seq]}
  BY <1>1 DEF QueueOK
<1>5. \A i, j \in DOMAIN q : i < j /\ Timed(q[i]) /\ Timed(q[j]) =>
       Rank(q[i], more) <= Rank(q[j], more)
  BY <1>2 DEF QueueOK
<1>6. QED
  BY <1>3, <1>4, <1>5 DEF QueueOK

LEMMA ExtendedQueueAtEnds ==
  ASSUME NEW q \in Seq(Task), NEW events \in Seq(Turn), NEW more \in Seq(Turn),
         Extends(events, more), QueueOK(q, events), QueueAtEnds(q, events)
  PROVE  QueueAtEnds(q, more)
<1>1. DOMAIN events \subseteq DOMAIN more /\ \A i \in DOMAIN events : more[i] = events[i]
  BY DEF Extends
<1>2. \A i \in DOMAIN q : q[i].kind = "end" => q[i].seq \in DOMAIN events
  BY DEF QueueOK
<1>3. \A i \in DOMAIN q : q[i].kind = "end" =>
       \A n \in DOMAIN more : n <= q[i].seq => n \in DOMAIN events
  BY <1>2, LogNats
<1>4. QED
  BY <1>1, <1>2, <1>3 DEF QueueAtEnds

LEMMA ExtendedAhead ==
  ASSUME NEW q \in Seq(Task), NEW events \in Seq(Turn), NEW more \in Seq(Turn),
         Extends(events, more), QueueOK(q, events), NEW f, Ahead(f, q, events)
  PROVE  Ahead(f, q, more)
<1>1. \A i \in DOMAIN q : Timed(q[i]) => Rank(q[i], more) = Rank(q[i], events)
  BY DEF QueueOK, Timed, Rank, Extends
<1>2. QED
  BY <1>1 DEF Ahead

LEMMA ExtendedOpenFits ==
  ASSUME NEW q \in Seq(Task), NEW events \in Seq(Turn), NEW more \in Seq(Turn),
         Extends(events, more), QueueOK(q, events), NEW open, OpenFits(open, q, events)
  PROVE  OpenFits(open, q, more)
<1>1. \A i \in DOMAIN q : q[i].kind = "end" => more[q[i].seq] = events[q[i].seq]
  BY DEF QueueOK, Extends
<1>2. QED
  BY <1>1 DEF OpenFits

LEMMA ExtendedFoldOK ==
  ASSUME NEW f \in Fold, NEW events \in Seq(Turn), NEW more \in Seq(Turn),
         Extends(events, more), FoldOK(f, events)
  PROVE  FoldOK(f, more)
<1>1. \A i \in DOMAIN f.points : f.points[i].seq \in Nat /\ f.points[i].turn \in Turn
  BY FoldFields, PointFields
<1>2. Len(events) \in Nat /\ Len(more) \in Nat /\ Len(events) <= Len(more)
  BY DEF Extends
<1>3. OnLog(f, more)
  <2>1. \A i \in DOMAIN f.points : Reached(more, f.points[i].seq, f.points[i].turn)
    BY <1>1, ReachedMore DEF FoldOK, OnLog
  <2>2. f.open # None => Reached(more, Len(more), f.open)
    BY <1>2, FoldFields, ReachedMore DEF FoldOK, OnLog
  <2>3. QED
    BY <2>1, <2>2 DEF FoldOK, OnLog
<1>4. AtEnds(f, events) => AtEnds(f, more)
  <2>1. SUFFICES ASSUME AtEnds(f, events) PROVE AtEnds(f, more)
    OBVIOUS
  <2>2. \A i \in DOMAIN f.points : f.points[i].seq <= Len(events)
    BY <2>1 DEF AtEnds
  <2>3. \A i \in DOMAIN f.points : \A n \in DOMAIN more : n <= f.points[i].seq => n \in DOMAIN events
    BY <1>1, <2>2, LogNats
  <2>4. \A i \in DOMAIN f.points : f.points[i].seq <= Len(more)
    BY <1>1, <1>2, <2>2
  <2>5. QED
    BY <2>1, <2>3, <2>4 DEF AtEnds, Extends
<1>5. QED
  BY <1>3, <1>4 DEF FoldOK

-----------------------------------------------------------------------------
(* What is remembered of the files *)

\* The checkpoints of g are those of f, but for their trees.
SameTimes(f, g) ==
  /\ DOMAIN g.points = DOMAIN f.points
  /\ \A i \in DOMAIN f.points :
       /\ g.points[i].turn = f.points[i].turn /\ g.points[i].seq = f.points[i].seq
       /\ g.points[i].was = f.points[i].was

LEMMA PointsKept ==
  ASSUME NEW points \in Seq(Point), points # <<>>, NEW tree \in Tree
  PROVE  LET now == [points EXCEPT ![1].tree = tree]
         IN  /\ now \in Seq(Point) /\ DOMAIN now = DOMAIN points
             /\ now[1].tree = tree
             /\ \A i \in DOMAIN points :
                  /\ now[i].turn = points[i].turn /\ now[i].seq = points[i].seq
                  /\ now[i].was = points[i].was
                  /\ i # 1 => now[i] = points[i]
<1> DEFINE first == [points[1] EXCEPT !.tree = tree]
<1> DEFINE now == [points EXCEPT ![1] = first]
<1>1. points[1] \in Point /\ 1 \in DOMAIN points
  OBVIOUS
<1>2. first \in Point
  BY <1>1 DEF Point
<1>3. /\ first.tree = tree /\ first.turn = points[1].turn /\ first.seq = points[1].seq
      /\ first.was = points[1].was
  BY <1>1 DEF Point
<1> HIDE DEF first
<1>4. /\ now \in Seq(Point) /\ DOMAIN now = DOMAIN points /\ now[1] = first
      /\ \A i \in DOMAIN points : i # 1 => now[i] = points[i]
  BY <1>1, <1>2
<1> HIDE DEF now
<1>5. \A i \in DOMAIN points : now[i].turn = points[i].turn /\ now[i].seq = points[i].seq
                               /\ now[i].was = points[i].was
  BY <1>3, <1>4
<1>6. [points EXCEPT ![1].tree = tree] = now
  BY DEF now, first
<1>7. QED
  BY <1>3, <1>4, <1>5, <1>6

LEMMA RememberFacts ==
  ASSUME NEW f \in Fold, f.points # <<>>, NEW entries \in Tree
  PROVE  LET g == RememberBaseline(f, entries)
         IN  /\ g \in Fold /\ g.session = f.session /\ g.intents = f.intents /\ g.open = f.open
             /\ SameTimes(f, g)
             /\ \A p \in Path : g.baseline[p] = IF f.baseline[p] # Unseen THEN f.baseline[p]
                                                ELSE entries[p]
             /\ \A i \in DOMAIN f.points : i # 1 => g.points[i].tree = f.points[i].tree
             /\ \A p \in Path : g.points[1].tree[p] =
                  IF f.points[1].tree[p] # Unseen THEN f.points[1].tree[p]
                  ELSE IF f.baseline[p] = Unseen THEN entries[p] ELSE Unseen
<1> DEFINE fresh == [p \in Path |-> IF f.baseline[p] = Unseen THEN entries[p] ELSE Unseen]
<1> DEFINE tree == OverlayTree(fresh, f.points[1].tree)
<1> DEFINE points == [f.points EXCEPT ![1].tree = tree]
<1> DEFINE baseline == OverlayTree(entries, f.baseline)
<1> DEFINE g == [f EXCEPT !.baseline = baseline, !.points = points]
<1>1. /\ f.points \in Seq(Point) /\ f.baseline \in Tree /\ f.points[1].tree \in Tree
      /\ 1 \in DOMAIN f.points
  <2>1. f.points \in Seq(Point) /\ f.baseline \in Tree /\ 1 \in DOMAIN f.points
    BY FoldFields
  <2>2. f.points[1] \in Point
    BY <2>1
  <2>3. QED
    BY <2>1, <2>2, PointFields
<1>2. fresh \in Tree
  BY <1>1 DEF Tree
<1>3. /\ tree \in Tree
      /\ \A p \in Path : tree[p] = IF f.points[1].tree[p] # Unseen THEN f.points[1].tree[p] ELSE fresh[p]
  BY <1>1, <1>2, OverlayFacts
<1>4. \A p \in Path : fresh[p] = IF f.baseline[p] = Unseen THEN entries[p] ELSE Unseen
  OBVIOUS
<1>5. /\ baseline \in Tree
      /\ \A p \in Path : baseline[p] = IF f.baseline[p] # Unseen THEN f.baseline[p] ELSE entries[p]
  BY <1>1, OverlayFacts
<1> HIDE DEF tree, fresh, baseline
<1>6. /\ points \in Seq(Point) /\ DOMAIN points = DOMAIN f.points /\ points[1].tree = tree
      /\ \A i \in DOMAIN f.points :
                  /\ points[i].turn = f.points[i].turn /\ points[i].seq = f.points[i].seq
                  /\ points[i].was = f.points[i].was
                  /\ i # 1 => points[i] = f.points[i]
  BY <1>1, <1>3, PointsKept
<1>7. RememberBaseline(f, entries) = g
  BY <1>1 DEF RememberBaseline, Fold, g, points, tree, fresh, baseline
<1> HIDE DEF points
<1>8. g \in Fold
  BY <1>5, <1>6 DEF Fold
<1>9. /\ g.session = f.session /\ g.intents = f.intents /\ g.open = f.open
      /\ g.points = points /\ g.baseline = baseline
  BY DEF Fold
<1> HIDE DEF g
<1>10. SameTimes(f, g)
  BY <1>6, <1>9 DEF SameTimes
<1>11. QED
  BY <1>3, <1>4, <1>5, <1>6, <1>7, <1>8, <1>9, <1>10

\* A checkpoint restores what it did, and what is new to the baseline.
LEMMA RememberRestored ==
  ASSUME NEW f \in Fold, f.points # <<>>, NEW entries \in Tree, NEW i \in DOMAIN f.points,
         NEW p \in Path
  PROVE  Restored(RememberBaseline(f, entries), i)[p] =
           IF Restored(f, i)[p] # Unseen THEN Restored(f, i)[p] ELSE entries[p]
<1> DEFINE g == RememberBaseline(f, entries)
<1>1. /\ g \in Fold /\ DOMAIN g.points = DOMAIN f.points
      /\ g.baseline[p] = IF f.baseline[p] # Unseen THEN f.baseline[p] ELSE entries[p]
      /\ i # 1 => g.points[i].tree = f.points[i].tree
      /\ g.points[1].tree[p] =
                  IF f.points[1].tree[p] # Unseen THEN f.points[1].tree[p]
                  ELSE IF f.baseline[p] = Unseen THEN entries[p] ELSE Unseen
  BY RememberFacts DEF SameTimes
<1> HIDE DEF g
<1>2. Restored(g, i)[p] = IF g.points[i].tree[p] # Unseen THEN g.points[i].tree[p] ELSE g.baseline[p]
  BY <1>1, RestoredFacts
<1>3. Restored(f, i)[p] = IF f.points[i].tree[p] # Unseen THEN f.points[i].tree[p] ELSE f.baseline[p]
  BY RestoredFacts
<1>4. Restored(g, i)[p] = IF Restored(f, i)[p] # Unseen THEN Restored(f, i)[p] ELSE entries[p]
  <2>1. CASE i = 1
    BY <1>1, <1>2, <1>3, <2>1
  <2>2. CASE i # 1
    BY <1>1, <1>2, <1>3, <2>2
  <2>3. QED
    BY <2>1, <2>2
<1>5. QED
  BY <1>4 DEF g

\* Only what a fold knows of turns matters for the log and the queue.
LEMMA SameTimesOK ==
  ASSUME NEW f \in Fold, NEW g \in Fold, NEW events \in Seq(Turn), FoldOK(f, events),
         SameTimes(f, g), g.open \in {f.open, None}, Baselined(g)
  PROVE  FoldOK(g, events) /\ \A q \in Seq(Task) : Ahead(f, q, events) => Ahead(g, q, events)
<1>1. Begun(g)
  <2>1. 1 \in DOMAIN f.points
    BY FoldFields DEF FoldOK, Begun
  <2>2. g.points # <<>> /\ g.points[1].turn = 0 /\ g.points[1].seq = 0
    BY <2>1 DEF FoldOK, Begun, SameTimes
  <2>3. QED
    BY <2>2 DEF Begun
<1>2. Ordered(g)
  BY DEF FoldOK, Ordered, SameTimes
<1>3. OnLog(g, events)
  BY DEF FoldOK, OnLog, SameTimes
<1>4. AtEnds(f, events) => AtEnds(g, events)
  BY DEF AtEnds, SameTimes
<1>5. \A q \in Seq(Task) : Ahead(f, q, events) => Ahead(g, q, events)
  BY DEF Ahead, SameTimes
<1>6. QED
  BY <1>1, <1>2, <1>3, <1>4, <1>5 DEF FoldOK

\* What is remembered is in the baseline or is what the file holds.
LEMMA RememberOK ==
  ASSUME NEW f \in Fold, NEW events \in Seq(Turn), FoldOK(f, events),
         NEW entries \in Tree, NEW directory, NEW except, Honest(f, directory, except),
         \A p \in Path \ except : f.baseline[p] = Unseen => entries[p] \in {Unseen, directory[p]}
  PROVE  LET g == RememberBaseline(f, entries)
         IN  /\ g \in Fold /\ g.session = f.session /\ g.open = f.open /\ SameTimes(f, g)
             /\ FoldOK(g, events) /\ Honest(g, directory, except) /\ Keeps(g, f.baseline)
             /\ \A q \in Seq(Task) : Ahead(f, q, events) => Ahead(g, q, events)
<1> DEFINE g == RememberBaseline(f, entries)
<1>0. f.points # <<>>
  BY DEF FoldOK, Begun
<1>1. /\ g \in Fold /\ g.session = f.session /\ g.intents = f.intents /\ g.open = f.open
      /\ SameTimes(f, g)
      /\ \A p \in Path : g.baseline[p] = IF f.baseline[p] # Unseen THEN f.baseline[p]
                                         ELSE entries[p]
      /\ \A i \in DOMAIN f.points : i # 1 => g.points[i].tree = f.points[i].tree
      /\ \A p \in Path : g.points[1].tree[p] =
           IF f.points[1].tree[p] # Unseen THEN f.points[1].tree[p]
           ELSE IF f.baseline[p] = Unseen THEN entries[p] ELSE Unseen
  BY <1>0, RememberFacts
<1>2. \A i \in DOMAIN f.points : \A p \in Path :
        Restored(g, i)[p] = IF Restored(f, i)[p] # Unseen THEN Restored(f, i)[p] ELSE entries[p]
  BY <1>0, RememberRestored
<1> HIDE DEF g
<1>3. Baselined(g)
  <2>1. SUFFICES ASSUME NEW p \in Path, g.baseline[p] = Unseen
                 PROVE  p \notin g.intents /\ \A i \in DOMAIN g.points : g.points[i].tree[p] = Unseen
    BY DEF Baselined
  <2>2. f.baseline[p] = Unseen /\ entries[p] = Unseen
    BY <1>1, <2>1
  <2>3. p \notin f.intents /\ \A i \in DOMAIN f.points : f.points[i].tree[p] = Unseen
    BY <2>2 DEF FoldOK, Baselined
  <2>4. \A i \in DOMAIN g.points : i \in DOMAIN f.points
    BY <1>1 DEF SameTimes
  <2>5. ASSUME NEW i \in DOMAIN g.points PROVE g.points[i].tree[p] = Unseen
    <3>1. CASE i = 1
      BY <1>1, <2>2, <2>3, <2>4, <2>5, <3>1
    <3>2. CASE i # 1
      BY <1>1, <2>3, <2>4, <2>5, <3>2
    <3>3. QED
      BY <3>1, <3>2
  <2>6. QED
    BY <1>1, <2>3, <2>5
<1>4. FoldOK(g, events) /\ \A q \in Seq(Task) : Ahead(f, q, events) => Ahead(g, q, events)
  BY <1>1, <1>3, SameTimesOK
<1>5. Honest(g, directory, except)
  <2>1. SUFFICES ASSUME "blob" \notin Torn, NEW p \in Path \ except, NEW i \in DOMAIN g.points
                 PROVE  g.points[i].was[p] = IF Restored(g, i)[p] # Unseen THEN Restored(g, i)[p]
                                             ELSE directory[p]
    BY DEF Honest
  <2>2. i \in DOMAIN f.points /\ g.points[i].was = f.points[i].was
    BY <1>1, <2>1 DEF SameTimes
  <2>3. f.points[i].was[p] = IF Restored(f, i)[p] # Unseen THEN Restored(f, i)[p] ELSE directory[p]
    BY <2>1, <2>2 DEF Honest
  <2>4. Restored(g, i)[p] = IF Restored(f, i)[p] # Unseen THEN Restored(f, i)[p] ELSE entries[p]
    BY <1>2, <2>1, <2>2
  <2>5. Restored(f, i)[p] = Unseen => f.baseline[p] = Unseen
    BY <2>1, <2>2, RestoredFacts
  <2>6. f.baseline[p] = Unseen => entries[p] \in {Unseen, directory[p]}
    BY <2>1
  <2>7. QED
    BY <2>2, <2>3, <2>4, <2>5, <2>6
<1>6. Keeps(g, f.baseline)
  BY <1>1 DEF Keeps
<1>7. QED
  BY <1>1, <1>4, <1>5, <1>6 DEF g

LEMMA HonestMore ==
  ASSUME NEW f, NEW directory, NEW except, NEW more, except \subseteq more,
         Honest(f, directory, except)
  PROVE  Honest(f, directory, more)
  BY DEF Honest

\* Others change only what is excepted.
LEMMA HonestElsewhere ==
  ASSUME NEW f, NEW directory, NEW other, NEW except, NEW more, except \subseteq more,
         Honest(f, directory, except), \A p \in Path \ more : other[p] = directory[p]
  PROVE  Honest(f, other, more)
  BY DEF Honest

\* What a snapshot knows of a path without a baseline is what moved to it.
LEMMA TrackedFacts ==
  ASSUME NEW f \in Fold, NEW events, FoldOK(f, events)
  PROVE  /\ Tracked(f) \subseteq Path
         /\ \A p \in Path : p \in Tracked(f) <=> f.baseline[p] # Unseen
<1>1. f.points # <<>> /\ f.points \in Seq(Point) /\ f.baseline \in Tree /\ f.intents \subseteq Path
  BY FoldFields DEF FoldOK, Begun
<1>2. Last(f.points) = f.points[Len(f.points)] /\ Len(f.points) \in DOMAIN f.points
  BY <1>1 DEF Last
<1>3. Last(f.points).tree \in Tree
  BY <1>2, FoldFields, PointFields
<1>4. \A p \in Path : OverlayTree(f.baseline, Last(f.points).tree)[p]
        = IF Last(f.points).tree[p] # Unseen THEN Last(f.points).tree[p] ELSE f.baseline[p]
  BY <1>1, <1>3, OverlayFacts
<1>5. \A p \in Path : f.baseline[p] = Unseen => p \notin f.intents /\ Last(f.points).tree[p] = Unseen
  BY <1>2 DEF FoldOK, Baselined
<1>6. QED
  BY <1>1, <1>4, <1>5 DEF Tracked

LEMMA ConsideredBaseline ==
  ASSUME NEW f \in Fold, NEW events, FoldOK(f, events), NEW found \in SUBSET Path, NEW p \in Path
  PROVE  Considered(f, found).baseline[p] =
           IF f.baseline[p] # Unseen THEN f.baseline[p]
           ELSE IF p \in found THEN Committed[p] ELSE Unseen
<1> DEFINE entries == [q \in Path |-> IF q \in Tracked(f) \cup found THEN Committed[q] ELSE Unseen]
<1>1. entries \in Tree
  BY CheckpointsAssumption DEF Tree, Content
<1>2. entries[p] = IF p \in Tracked(f) \cup found THEN Committed[p] ELSE Unseen
  OBVIOUS
<1>3. Considered(f, found) = RememberBaseline(f, entries)
  BY DEF Considered
<1> HIDE DEF entries
<1>4. RememberBaseline(f, entries).baseline[p] =
         IF f.baseline[p] # Unseen THEN f.baseline[p] ELSE entries[p]
  BY <1>1, RememberFacts DEF FoldOK, Begun
<1>5. QED
  BY <1>2, <1>3, <1>4, TrackedFacts

LEMMA ConsideredOK ==
  ASSUME NEW f \in Fold, NEW events \in Seq(Turn), FoldOK(f, events),
         NEW found \in SUBSET Path,
         NEW directory, NEW except, Honest(f, directory, except)
  PROVE  LET g == Considered(f, found)
         IN  /\ g \in Fold /\ g.session = f.session /\ g.open = f.open /\ SameTimes(f, g)
             /\ FoldOK(g, events) /\ Honest(g, directory, except \cup found)
             /\ Keeps(g, f.baseline)
             /\ \A q \in Seq(Task) : Ahead(f, q, events) => Ahead(g, q, events)
<1> DEFINE entries == [p \in Path |-> IF p \in Tracked(f) \cup found THEN Committed[p] ELSE Unseen]
<1>1. entries \in Tree
  BY CheckpointsAssumption DEF Tree, Content
<1>2. \A p \in Path : entries[p] = IF p \in Tracked(f) \cup found THEN Committed[p] ELSE Unseen
  OBVIOUS
<1>3. Considered(f, found) = RememberBaseline(f, entries)
  BY DEF Considered
<1> HIDE DEF entries
<1>4. Honest(f, directory, except \cup found)
  BY HonestMore
<1>5. \A p \in Path \ (except \cup found) : f.baseline[p] = Unseen => entries[p] \in {Unseen, directory[p]}
  BY <1>2, TrackedFacts
<1> DEFINE g == RememberBaseline(f, entries)
<1>8. /\ g \in Fold /\ g.session = f.session /\ g.open = f.open /\ SameTimes(f, g)
      /\ FoldOK(g, events) /\ Honest(g, directory, except \cup found)
      /\ Keeps(g, f.baseline)
      /\ \A q \in Seq(Task) : Ahead(f, q, events) => Ahead(g, q, events)
  BY <1>1, <1>4, <1>5, RememberOK
<1>9. QED
  BY <1>3, <1>8

\* Another turn is on.
LEMMA OpenOK ==
  ASSUME NEW f \in Fold, NEW events \in Seq(Turn), FoldOK(f, events),
         NEW turn \in Turn \cup {None},
         turn # None => /\ Reached(events, Len(events), turn)
                        /\ \A i \in DOMAIN f.points : f.points[i].turn <= turn
  PROVE  LET g == [f EXCEPT !.open = turn]
         IN  /\ g \in Fold /\ g.session = f.session /\ g.open = turn /\ SameTimes(f, g)
             /\ g.baseline = f.baseline /\ g.points = f.points /\ g.intents = f.intents
             /\ FoldOK(g, events)
             /\ \A directory, except : Honest(f, directory, except) => Honest(g, directory, except)
<1> DEFINE g == [f EXCEPT !.open = turn]
<1>1. /\ g \in Fold /\ g.session = f.session /\ g.open = turn
      /\ g.baseline = f.baseline /\ g.points = f.points /\ g.intents = f.intents
  BY DEF Fold
<1> HIDE DEF g
<1>2. FoldOK(g, events)
  <2>1. Begun(g) /\ Ordered(g) /\ Baselined(g) /\ (AtEnds(f, events) => AtEnds(g, events))
    BY <1>1 DEF FoldOK, Begun, Ordered, Baselined, AtEnds
  <2>2. OnLog(g, events)
    BY <1>1 DEF FoldOK, OnLog
  <2>3. QED
    BY <2>1, <2>2 DEF FoldOK
<1>3. SameTimes(f, g)
  BY <1>1 DEF SameTimes
<1>4. \A i : Restored(g, i) = Restored(f, i)
  BY <1>1 DEF Restored
<1>5. \A directory, except : Honest(f, directory, except) => Honest(g, directory, except)
  BY <1>1, <1>4 DEF Honest
<1>6. QED
  BY <1>1, <1>2, <1>3, <1>5 DEF g

\* No turn is on.
LEMMA ClosedOK ==
  ASSUME NEW f \in Fold, NEW events \in Seq(Turn), FoldOK(f, events)
  PROVE  LET g == [f EXCEPT !.open = None]
         IN  /\ g \in Fold /\ g.session = f.session /\ g.open = None /\ SameTimes(f, g)
             /\ g.baseline = f.baseline /\ g.points = f.points /\ FoldOK(g, events)
             /\ \A directory, except : Honest(f, directory, except) => Honest(g, directory, except)
<1>1. \E none \in Turn \cup {None} : none = None
  OBVIOUS
<1>2. PICK none \in Turn \cup {None} : none = None
  BY <1>1
<1> DEFINE g == [f EXCEPT !.open = none]
<1>3. /\ g \in Fold /\ g.session = f.session /\ g.open = none /\ SameTimes(f, g)
      /\ g.baseline = f.baseline /\ g.points = f.points /\ FoldOK(g, events)
      /\ \A directory, except : Honest(f, directory, except) => Honest(g, directory, except)
  BY <1>2, OpenOK
<1>4. QED
  BY <1>2, <1>3, Zenon

\* The checkpoint of a turn that has none yet.
LEMMA FinishedOK ==
  ASSUME NEW f \in Fold, NEW events \in Seq(Turn), FoldOK(f, events),
         disk \in [Path -> Content], NEW found \in SUBSET Path,
         NEW except, Honest(f, disk, except),
         NEW turn \in Turn, NEW seq \in Nat, ~HasTurn(f, turn),
         Reached(events, seq, turn),
         \A i \in DOMAIN f.points : f.points[i].turn <= turn,
         \/ MayStop
         \/ /\ \A i \in DOMAIN f.points : f.points[i].seq <= seq
            /\ seq <= Len(events) /\ \A n \in DOMAIN events : n <= seq => events[n] <= turn
  PROVE  LET g == Finished(f, turn, seq, found)
         IN  /\ g \in Fold /\ g.session = f.session /\ g.open = None
             /\ FoldOK(g, events) /\ Honest(g, disk, except \cup found) /\ Keeps(g, f.baseline)
             /\ \A i \in DOMAIN g.points :
                  \/ i \in DOMAIN f.points /\ g.points[i].was = f.points[i].was
                  \/ g.points[i].was = disk
             /\ \A q \in Seq(Task) :
                  /\ Ahead(f, q, events)
                  /\ \A j \in DOMAIN q : Timed(q[j]) => turn <= Rank(q[j], events)
                  /\ MayStop \/ \A j \in DOMAIN q : q[j].kind = "end" => seq <= q[j].seq
                  => Ahead(g, q, events)
<1> DEFINE c == Considered(f, found)
<1> DEFINE pt == Snapshot(f, turn, seq, found)
<1> DEFINE g == [c EXCEPT !.open = None, !.points = Append(c.points, pt), !.cursor = Larger(c.cursor, seq)]
<1>a. Honest(c, disk, except \cup found)
  BY ConsideredOK
<1>b. /\ c \in Fold /\ c.session = f.session /\ c.open = f.open /\ SameTimes(f, c)
      /\ FoldOK(c, events) /\ Keeps(c, f.baseline)
  BY ConsideredOK
<1>c. \A q \in Seq(Task) : Ahead(f, q, events) => Ahead(c, q, events)
  BY ConsideredOK
<1>d. \A p \in Path : c.baseline[p] = IF f.baseline[p] # Unseen THEN f.baseline[p]
                      ELSE IF p \in found THEN Committed[p] ELSE Unseen
  BY ConsideredBaseline
<1>1. /\ c \in Fold /\ c.session = f.session /\ c.open = f.open /\ SameTimes(f, c)
      /\ FoldOK(c, events) /\ Honest(c, disk, except \cup found) /\ Keeps(c, f.baseline)
      /\ \A q \in Seq(Task) : Ahead(f, q, events) => Ahead(c, q, events)
      /\ \A p \in Path : c.baseline[p] = IF f.baseline[p] # Unseen THEN f.baseline[p]
                                ELSE IF p \in found THEN Committed[p] ELSE Unseen
  BY <1>a, <1>b, <1>c, <1>d
<1>2. /\ pt \in Point /\ pt.turn = turn /\ pt.seq = seq /\ pt.was = disk
      /\ \A p \in Path : pt.tree[p] = IF p \in Tracked(f) \cup found THEN disk[p] ELSE Unseen
  BY DEF Snapshot, Point, Tree
<1>3. Finished(f, turn, seq, found) = g
  BY DEF Finished
<1> HIDE DEF c, pt
<1>4. /\ c.points \in Seq(Point) /\ Len(c.points) \in Nat /\ DOMAIN c.points = 1..Len(c.points)
      /\ c.cursor \in Nat /\ Larger(c.cursor, seq) \in Nat
      /\ \A i \in DOMAIN c.points : c.points[i] \in Point
  BY <1>1, FoldFields DEF Larger
<1> DEFINE points == Append(c.points, pt)
<1>5. /\ points \in Seq(Point) /\ DOMAIN points = 1..(Len(c.points) + 1)
      /\ points[Len(c.points) + 1] = pt
      /\ \A i \in DOMAIN c.points : points[i] = c.points[i]
  BY <1>2, <1>4, AppendFacts
<1> HIDE DEF points
<1>6. g \in Fold
  BY <1>1, <1>4, <1>5 DEF Fold, points
<1>7. /\ g.session = c.session /\ g.open = None /\ g.points = points /\ g.baseline = c.baseline
      /\ g.intents = c.intents
  BY <1>1 DEF Fold, points
<1> HIDE DEF g
<1>8. \A i \in DOMAIN g.points : \/ i = Len(c.points) + 1 /\ g.points[i] = pt
                                 \/ i \in DOMAIN c.points /\ i # Len(c.points) + 1 /\ g.points[i] = c.points[i]
  BY <1>4, <1>5, <1>7
<1>9. DOMAIN c.points = DOMAIN f.points /\ \A i \in DOMAIN c.points : c.points[i].was = f.points[i].was
                   /\ c.points[i].turn = f.points[i].turn /\ c.points[i].seq = f.points[i].seq
  BY <1>1 DEF SameTimes
<1>10. \A i \in DOMAIN c.points : /\ c.points[i].turn \in Nat /\ c.points[i].turn < turn
                                  /\ c.points[i].seq \in Nat
  <2>1. SUFFICES ASSUME NEW i \in DOMAIN c.points
                 PROVE  /\ c.points[i].turn \in Nat /\ c.points[i].turn < turn
                        /\ c.points[i].seq \in Nat
    OBVIOUS
  <2>2. c.points[i].turn \in Turn /\ c.points[i].seq \in Nat
    BY <1>4, PointFields
  <2>3. c.points[i].turn <= turn /\ c.points[i].turn # turn
    BY <1>9 DEF HasTurn
  <2>4. QED
    BY <2>2, <2>3, TurnsAreNats
<1>11. FoldOK(g, events)
  <2>1. Begun(g)
    <3>1. 1 \in DOMAIN c.points /\ g.points # <<>> /\ 1 \in DOMAIN g.points /\ g.points[1] = c.points[1]
      BY <1>1, <1>4, <1>5, <1>7 DEF FoldOK, Begun
    <3>2. QED
      BY <1>1, <3>1 DEF FoldOK, Begun
  <2>2. Ordered(g)
    <3>1. SUFFICES ASSUME NEW i \in DOMAIN g.points, NEW j \in DOMAIN g.points, i < j
                   PROVE  g.points[i].turn < g.points[j].turn
      BY DEF Ordered
    <3>2. i \in DOMAIN c.points /\ g.points[i] = c.points[i]
      BY <1>4, <1>5, <1>7, <1>8, <3>1
    <3>3. CASE j = Len(c.points) + 1
      BY <1>2, <1>8, <1>10, <3>2, <3>3
    <3>4. CASE j \in DOMAIN c.points /\ g.points[j] = c.points[j]
      BY <1>1, <3>1, <3>2, <3>4 DEF FoldOK, Ordered
    <3>5. QED
      BY <1>8, <3>3, <3>4
  <2>3. OnLog(g, events)
    <3>1. \A i \in DOMAIN g.points : Reached(events, g.points[i].seq, g.points[i].turn)
      BY <1>1, <1>2, <1>8 DEF FoldOK, OnLog
    <3>2. QED
      BY <1>7, <3>1 DEF OnLog
  <2>4. Baselined(g)
    <3>1. SUFFICES ASSUME NEW p \in Path, g.baseline[p] = Unseen
                   PROVE  p \notin g.intents /\ \A i \in DOMAIN g.points : g.points[i].tree[p] = Unseen
      BY DEF Baselined
    <3>2. c.baseline[p] = Unseen
      BY <1>7, <3>1
    <3>3. p \notin c.intents /\ \A i \in DOMAIN c.points : c.points[i].tree[p] = Unseen
      BY <1>1, <3>2 DEF FoldOK, Baselined
    <3>4. Committed[p] # Unseen
      BY CheckpointsAssumption
    <3>5. f.baseline[p] = Unseen /\ p \notin found
      BY <1>1, <3>2, <3>4
    <3>6. p \notin Tracked(f)
      BY <3>5, TrackedFacts
    <3>7. pt.tree[p] = Unseen
      BY <1>2, <3>5, <3>6
    <3>8. QED
      BY <1>7, <1>8, <3>3, <3>7
  <2>5. MayStop \/ AtEnds(g, events)
    <3>1. SUFFICES ASSUME ~MayStop PROVE AtEnds(g, events)
      OBVIOUS
    <3>2. AtEnds(c, events)
      BY <1>1, <3>1 DEF FoldOK
    <3>3. ASSUME NEW i \in DOMAIN g.points, NEW j \in DOMAIN g.points, i <= j
          PROVE  g.points[i].seq <= g.points[j].seq
      <4>1. CASE j = Len(c.points) + 1
        <5>1. CASE i = j
          BY <1>2, <1>8, <4>1, <5>1
        <5>2. CASE i \in DOMAIN c.points /\ g.points[i] = c.points[i]
          BY <1>2, <1>8, <1>9, <3>1, <4>1, <5>2
        <5>3. QED
          BY <1>8, <4>1, <5>1, <5>2
      <4>2. CASE j \in DOMAIN c.points /\ g.points[j] = c.points[j]
        <5>1. i \in DOMAIN c.points /\ g.points[i] = c.points[i]
          BY <1>4, <1>5, <1>7, <1>8, <3>3, <4>2
        <5>2. QED
          BY <3>2, <3>3, <4>2, <5>1 DEF AtEnds
      <4>3. QED
        BY <1>8, <4>1, <4>2
    <3>4. ASSUME NEW i \in DOMAIN g.points
          PROVE  /\ g.points[i].seq <= Len(events)
                 /\ \A n \in DOMAIN events : n <= g.points[i].seq => events[n] <= g.points[i].turn
      <4>1. CASE g.points[i] = pt
        BY <1>2, <3>1, <4>1
      <4>2. CASE i \in DOMAIN c.points /\ g.points[i] = c.points[i]
        BY <3>2, <4>2 DEF AtEnds
      <4>3. QED
        BY <1>8, <4>1, <4>2
    <3>5. QED
      BY <3>3, <3>4 DEF AtEnds
  <2>6. QED
    BY <2>1, <2>2, <2>3, <2>4, <2>5 DEF FoldOK
<1>12. Honest(g, disk, except \cup found)
  <2>1. SUFFICES ASSUME "blob" \notin Torn, NEW p \in Path \ (except \cup found), NEW i \in DOMAIN g.points
                 PROVE  g.points[i].was[p] = IF Restored(g, i)[p] # Unseen THEN Restored(g, i)[p]
                                             ELSE disk[p]
    BY DEF Honest
  <2>2. Restored(g, i)[p] = IF g.points[i].tree[p] # Unseen THEN g.points[i].tree[p] ELSE g.baseline[p]
    BY <1>6, <2>1, RestoredFacts
  <2>3. CASE g.points[i] = pt
    <3>1. CASE p \in Tracked(f)
      BY <1>2, <2>1, <2>2, <2>3, <3>1, UnseenIsNot
    <3>2. CASE p \notin Tracked(f)
      <4>1. f.baseline[p] = Unseen /\ c.baseline[p] = Unseen
        BY <1>1, <2>1, <3>2, TrackedFacts
      <4>2. QED
        BY <1>2, <1>7, <2>1, <2>2, <2>3, <3>2, <4>1
    <3>3. QED
      BY <3>1, <3>2
  <2>4. CASE i \in DOMAIN c.points /\ g.points[i] = c.points[i]
    <3>1. Restored(c, i)[p] = IF c.points[i].tree[p] # Unseen THEN c.points[i].tree[p] ELSE c.baseline[p]
      BY <1>1, <2>1, <2>4, RestoredFacts
    <3>2. Restored(g, i)[p] = Restored(c, i)[p]
      BY <1>7, <2>2, <2>4, <3>1
    <3>3. QED
      BY <1>1, <2>1, <2>4, <3>2 DEF Honest
  <2>5. QED
    BY <1>8, <2>3, <2>4
<1>13. \A q \in Seq(Task) :
                  /\ Ahead(f, q, events)
                  /\ \A j \in DOMAIN q : Timed(q[j]) => turn <= Rank(q[j], events)
                  /\ MayStop \/ \A j \in DOMAIN q : q[j].kind = "end" => seq <= q[j].seq
                  => Ahead(g, q, events)
  <2>1. SUFFICES ASSUME NEW q \in Seq(Task), Ahead(f, q, events),
                        \A j \in DOMAIN q : Timed(q[j]) => turn <= Rank(q[j], events),
                        MayStop \/ \A j \in DOMAIN q : q[j].kind = "end" => seq <= q[j].seq
                 PROVE  Ahead(g, q, events)
    OBVIOUS
  <2>2. Ahead(c, q, events)
    BY <1>1, <2>1
  <2>3. ASSUME NEW j \in DOMAIN q, Timed(q[j]), NEW i \in DOMAIN g.points
        PROVE  g.points[i].turn <= Rank(q[j], events)
    BY <1>2, <1>8, <2>1, <2>2, <2>3 DEF Ahead
  <2>4. ASSUME ~MayStop, NEW j \in DOMAIN q, q[j].kind = "end", NEW i \in DOMAIN g.points
        PROVE  g.points[i].seq <= q[j].seq
    BY <1>2, <1>8, <2>1, <2>2, <2>4 DEF Ahead
  <2>5. QED
    BY <1>7, <2>3, <2>4 DEF Ahead
<1>14. \A i \in DOMAIN g.points :
                  \/ i \in DOMAIN f.points /\ g.points[i].was = f.points[i].was
                  \/ g.points[i].was = disk
  BY <1>2, <1>8, <1>9
<1>15. Keeps(g, f.baseline)
  BY <1>1, <1>7 DEF Keeps
<1>16. QED
  BY <1>1, <1>3, <1>6, <1>7, <1>11, <1>12, <1>13, <1>14, <1>15

\* What a tool is about to change is remembered first.
Intended(f, p) ==
  RememberBaseline([f EXCEPT !.intents = @ \cup {p}], [Nowhere EXCEPT ![p] = disk[p]])

LEMMA IntendedOK ==
  ASSUME NEW f \in Fold, NEW events \in Seq(Turn), FoldOK(f, events),
         disk \in [Path -> Content], NEW except, Honest(f, disk, except), NEW p \in Path
  PROVE  LET g == Intended(f, p)
         IN  /\ g \in Fold /\ g.session = f.session /\ g.open = f.open /\ SameTimes(f, g)
             /\ FoldOK(g, events) /\ Honest(g, disk, except) /\ Keeps(g, f.baseline)
             /\ g.baseline[p] # Unseen
             /\ \A q \in Seq(Task) : Ahead(f, q, events) => Ahead(g, q, events)
<1> DEFINE entries == [Nowhere EXCEPT ![p] = disk[p]]
<1> DEFINE c == RememberBaseline(f, entries)
<1> DEFINE g == [c EXCEPT !.intents = c.intents \cup {p}]
<1>1. /\ entries \in Tree
      /\ \A q \in Path : entries[q] = IF q = p THEN disk[p] ELSE Unseen
  BY DEF Tree, Nowhere
<1>2. f.points # <<>>
  BY DEF FoldOK, Begun
<1> HIDE DEF entries
<1>3. \A q \in Path \ except : f.baseline[q] = Unseen => entries[q] \in {Unseen, disk[q]}
  BY <1>1
<1>4. Honest(c, disk, except)
  BY <1>1, <1>3, RememberOK
<1>5. c \in Fold /\ c.session = f.session /\ c.open = f.open /\ SameTimes(f, c)
      /\ FoldOK(c, events) /\ Keeps(c, f.baseline)
  BY <1>1, <1>3, RememberOK
<1>6. c.baseline[p] = IF f.baseline[p] # Unseen THEN f.baseline[p] ELSE entries[p]
  BY <1>1, <1>2, RememberFacts
<1>7. disk[p] # Unseen
  BY UnseenIsNot
<1>8. c.baseline[p] # Unseen
  BY <1>1, <1>6, <1>7
<1>9. Intended(f, p) = g
  <2> DEFINE h == [f EXCEPT !.intents = f.intents \cup {p}]
  <2> DEFINE fresh == [q \in Path |-> IF f.baseline[q] = Unseen THEN entries[q] ELSE Unseen]
  <2> DEFINE points == [f.points EXCEPT ![1].tree = OverlayTree(fresh, @)]
  <2> DEFINE baseline == OverlayTree(entries, f.baseline)
  <2>1. h.baseline = f.baseline /\ h.points = f.points
    BY DEF Fold
  <2>2. Intended(f, p) = [h EXCEPT !.baseline = baseline, !.points = points]
    <3> HIDE DEF h
    <3>1. RememberBaseline(h, entries) = [h EXCEPT !.baseline = baseline, !.points = points]
      BY <2>1 DEF RememberBaseline
    <3>2. Intended(f, p) = RememberBaseline(h, entries)
      BY DEF Intended, h, entries
    <3>3. QED
      BY <3>1, <3>2
  <2>3. c = [f EXCEPT !.baseline = baseline, !.points = points]
    BY DEF RememberBaseline
  <2> HIDE DEF baseline, points, fresh, c
  <2>4. c.intents = f.intents
    BY <2>3 DEF Fold
  <2>5. [h EXCEPT !.baseline = baseline, !.points = points]
         = [[f EXCEPT !.baseline = baseline, !.points = points] EXCEPT !.intents = f.intents \cup {p}]
    BY DEF Fold
  <2>6. QED
    BY <2>2, <2>3, <2>4, <2>5
<1> HIDE DEF c
<1>10. /\ g \in Fold /\ g.session = c.session /\ g.open = c.open /\ g.points = c.points
       /\ g.baseline = c.baseline /\ g.intents = c.intents \cup {p}
  BY <1>5 DEF Fold
<1> HIDE DEF g
<1>11. Baselined(g)
  BY <1>5, <1>8, <1>10 DEF FoldOK, Baselined
<1>12. SameTimes(f, g)
  BY <1>5, <1>10 DEF SameTimes
<1>13. FoldOK(g, events)
  BY <1>5, <1>10, <1>11, <1>12, SameTimesOK
<1>14. \A q \in Seq(Task) : Ahead(f, q, events) => Ahead(g, q, events)
  BY <1>5, <1>10, <1>11, <1>12, SameTimesOK
<1>15. Honest(g, disk, except)
  <2>1. \A i : Restored(g, i) = Restored(c, i)
    BY <1>10 DEF Restored
  <2>2. QED
    BY <1>4, <1>10, <2>1 DEF Honest
<1>16. Keeps(g, f.baseline)
  BY <1>5, <1>10 DEF Keeps
<1>17. QED
  BY <1>5, <1>8, <1>9, <1>10, <1>12, <1>13, <1>14, <1>15, <1>16

\* The checkpoints up to one of them.
LEMMA TruncatedOK ==
  ASSUME NEW f \in Fold, NEW events \in Seq(Turn), FoldOK(f, events), NEW k \in DOMAIN f.points
  PROVE  LET g == TruncateAfter(f, k)
         IN  /\ g \in Fold /\ g.session = f.session /\ g.open = None
             /\ g.baseline = f.baseline /\ Len(g.points) = k
             /\ DOMAIN g.points = 1..k /\ \A i \in 1..k : i \in DOMAIN f.points /\ g.points[i] = f.points[i]
             /\ FoldOK(g, events)
             /\ \A directory, except : Honest(f, directory, except) => Honest(g, directory, except)
             /\ \A q \in Seq(Task) : Ahead(f, q, events) => Ahead(g, q, events)
<1> DEFINE points == SubSeq(f.points, 1, k)
<1> DEFINE g == [f EXCEPT !.points = points, !.open = None, !.rewound = IdOf(f.points[k])]
<1>1. /\ f.points \in Seq(Point) /\ DOMAIN f.points = 1..Len(f.points) /\ Len(f.points) \in Nat
      /\ f.points[k] \in Point /\ IdOf(f.points[k]) \in Id
  BY FoldFields, PointFields
<1>2. /\ points \in Seq(Point) /\ Len(points) = k /\ DOMAIN points = 1..k
      /\ \A i \in 1..k : i \in DOMAIN f.points /\ points[i] = f.points[i]
  BY <1>1, PrefixFacts
<1>3. TruncateAfter(f, k) = g
  BY DEF TruncateAfter
<1> HIDE DEF points
<1>4. g \in Fold
  BY <1>1, <1>2 DEF Fold
<1>5. /\ g.session = f.session /\ g.open = None /\ g.points = points /\ g.baseline = f.baseline
      /\ g.intents = f.intents
  BY DEF Fold
<1> HIDE DEF g
<1>6. FoldOK(g, events)
  <2>1. Begun(g)
    <3>1. 1 \in 1..k /\ g.points # <<>>
      BY <1>1, <1>2, <1>5
    <3>2. QED
      BY <1>2, <1>5, <3>1 DEF FoldOK, Begun
  <2>2. Ordered(g)
    BY <1>2, <1>5 DEF FoldOK, Ordered
  <2>3. OnLog(g, events)
    BY <1>2, <1>5 DEF FoldOK, OnLog
  <2>4. AtEnds(f, events) => AtEnds(g, events)
    BY <1>2, <1>5 DEF AtEnds
  <2>5. Baselined(g)
    BY <1>2, <1>5 DEF FoldOK, Baselined
  <2>6. QED
    BY <2>1, <2>2, <2>3, <2>4, <2>5 DEF FoldOK
<1>7. \A i \in 1..k : Restored(g, i) = Restored(f, i)
  BY <1>2, <1>5 DEF Restored
<1>8. \A directory, except : Honest(f, directory, except) => Honest(g, directory, except)
  BY <1>2, <1>5, <1>7 DEF Honest
<1>9. \A q \in Seq(Task) : Ahead(f, q, events) => Ahead(g, q, events)
  BY <1>2, <1>5 DEF Ahead
<1>10. QED
  BY <1>2, <1>3, <1>4, <1>5, <1>6, <1>8, <1>9

LEMMA RehomedOK ==
  ASSUME NEW f \in Fold, NEW t \in Session
  PROVE  LET g == RehomeState(f, t)
         IN  /\ g \in Fold /\ g.session = t /\ g.open = f.open
             /\ g.baseline = f.baseline /\ g.points = f.points /\ g.intents = f.intents
             /\ \A events : FoldOK(f, events) => FoldOK(g, events)
             /\ \A directory, except : Honest(f, directory, except) => Honest(g, directory, except)
<1> DEFINE g == RehomeState(f, t)
<1>1. /\ g \in Fold /\ g.session = t /\ g.open = f.open
      /\ g.baseline = f.baseline /\ g.points = f.points /\ g.intents = f.intents
  BY DEF RehomeState, Fold
<1> HIDE DEF g
<1>2. \A events : FoldOK(f, events) => FoldOK(g, events)
  BY <1>1 DEF FoldOK, Begun, Ordered, OnLog, AtEnds, Baselined
<1>3. \A i : Restored(g, i) = Restored(f, i)
  BY <1>1 DEF Restored
<1>4. \A directory, except : Honest(f, directory, except) => Honest(g, directory, except)
  BY <1>1, <1>3 DEF Honest
<1>5. QED
  BY <1>1, <1>2, <1>4 DEF g

\* The events a child inherits hold its checkpoints.
LEMMA SeedOK ==
  ASSUME NEW f \in Fold, NEW events \in Seq(Turn), FoldOK(f, events), HasLast(events), f.open = None,
         NEW turn \in Turn, NEW seq \in Nat, f.points[Len(f.points)].turn = turn, f.points[Len(f.points)].seq = seq
  PROVE  LET seed == ForkSeed(events, seq, turn)
         IN  /\ seed \in Seq(Turn) /\ FoldOK(f, seed) /\ HasLast(seed)
             /\ MayStop \/ \A i \in DOMAIN seed : seed[i] <= turn
<1> DEFINE k == Len(f.points)
<1> DEFINE seed == ForkSeed(events, seq, turn)
<1>1. /\ f.points # <<>> /\ f.points \in Seq(Point) /\ k \in DOMAIN f.points /\ DOMAIN f.points = 1..k
      /\ k \in Nat /\ 1 <= k /\ f.points[k] \in Point /\ 1 \in DOMAIN f.points
      /\ f.points[k].turn = turn /\ f.points[k].seq = seq
  BY FoldFields DEF FoldOK, Begun
<1> HIDE DEF k
<1>2. turn \in Turn /\ seq \in Nat /\ turn \in Nat
  BY <1>1, PointFields, TurnsAreNats
<1>3. \A i \in DOMAIN f.points : /\ f.points[i].turn \in Nat /\ f.points[i].seq \in Nat
                                 /\ f.points[i].turn \in Turn
  BY FoldFields, PointFields, TurnsAreNats
<1>4. CASE turn = 0
  <2>1. seed = <<>>
    BY <1>4 DEF ForkSeed
  <2>2. \A i \in DOMAIN f.points : i = 1
    <3>1. k = 1
      <4>1. SUFFICES ASSUME 1 < k PROVE FALSE
        BY <1>1
      <4>2. f.points[1].turn < f.points[k].turn
        BY <1>1, <4>1 DEF FoldOK, Ordered
      <4>3. QED
        BY <1>1, <1>3, <1>4, <4>2
    <3>2. QED
      BY <1>1, <3>1
  <2>3. OnLog(f, seed) /\ AtEnds(f, seed)
    BY <1>1, <2>1, <2>2 DEF FoldOK, Begun, OnLog, AtEnds, Reached
  <2>4. HasLast(seed) /\ seed \in Seq(Turn)
    BY <2>1 DEF HasLast
  <2>5. QED
    BY <2>1, <2>3, <2>4 DEF FoldOK
<1>5. CASE turn # 0
  <2>1. PICK n \in 0..Len(events) : /\ seed = SubSeq(events, 1, n) /\ n <= seq
                                    /\ n = IF seq < Len(events) THEN seq ELSE Len(events)
    <3> DEFINE m == IF seq < Len(events) THEN seq ELSE Len(events)
    <3>1. m \in 0..Len(events) /\ m <= seq
      OBVIOUS
    <3>2. seed = SubSeq(events, 1, m)
      BY <1>5 DEF ForkSeed
    <3>3. QED
      BY <3>1, <3>2
  <2> HIDE DEF seed
  <2>2. n \in Nat /\ Len(events) \in Nat /\ DOMAIN events = 1..Len(events)
    BY <2>1
  <2>3. /\ seed \in Seq(Turn) /\ Len(seed) = n /\ DOMAIN seed = 1..n
        /\ \A i \in 1..n : seed[i] = events[i]
    BY <2>1, PrefixFacts
  <2> DEFINE len == Len(events)
  <2>c. /\ n \in 0..len /\ n <= seq /\ n = IF seq < len THEN seq ELSE len
        /\ DOMAIN events = 1..len /\ len \in Nat
    BY <2>1, <2>2
  <2> HIDE DEF len
  <2>a. \A m \in DOMAIN events : m \in Nat /\ (m <= seq => m \in 1..n)
    BY <2>c
  <2>b. \A m \in 1..n : m \in DOMAIN events
    BY <2>c
  <2>4. HasLast(seed)
    BY <2>1, PrefixHasLast
  <2>5. OnLog(f, seed)
    <3>1. SUFFICES ASSUME NEW i \in DOMAIN f.points
                   PROVE  Reached(seed, f.points[i].seq, f.points[i].turn)
      BY DEF OnLog
    <3>2. PICK m \in DOMAIN events : m <= seq /\ turn <= events[m]
      BY <1>1, <1>5 DEF FoldOK, OnLog, Reached
    <3>3. m \in 1..n /\ seed[m] = events[m] /\ events[m] \in Nat /\ m \in Nat
      BY <2>a, <2>3, <3>2, LogNats
    <3>4. f.points[i].turn <= turn
      <4>1. CASE i = k
        BY <1>1, <1>2, <4>1
      <4>2. CASE i < k
        BY <1>1, <1>2, <1>3, <3>1, <4>2 DEF FoldOK, Ordered
      <4>3. QED
        BY <1>1, <4>1, <4>2
    <3>5. CASE seq <= f.points[i].seq
      <4>0. f.points[i].turn \in Nat /\ f.points[i].seq \in Nat
        BY <1>3, <3>1
      <4>1. m <= f.points[i].seq /\ f.points[i].turn <= seed[m]
        BY <1>2, <3>2, <3>3, <3>4, <3>5, <4>0
      <4>2. QED
        BY <2>3, <3>3, <4>1 DEF Reached
    <3>6. CASE f.points[i].seq < seq /\ f.points[i].turn # 0
      <4>1. PICK j \in DOMAIN events : j <= f.points[i].seq /\ f.points[i].turn <= events[j]
        BY <3>1, <3>6 DEF FoldOK, OnLog, Reached
      <4>0. f.points[i].seq \in Nat /\ j \in Nat
        BY <1>3, <2>a, <3>1, <4>1
      <4>2. j <= seq
        BY <3>6, <4>0, <4>1
      <4>2a. j \in 1..n /\ seed[j] = events[j]
        BY <2>a, <2>3, <4>1, <4>2
      <4>3. QED
        BY <2>3, <4>1, <4>2a DEF Reached
    <3>7. CASE f.points[i].turn = 0
      BY <3>7 DEF Reached
    <3>8. QED
      BY <1>2, <1>3, <3>1, <3>5, <3>6, <3>7
  <2>6. ASSUME ~MayStop PROVE AtEnds(f, seed) /\ \A i \in DOMAIN seed : seed[i] <= turn
    <3>1. AtEnds(f, events)
      BY <2>6 DEF FoldOK
    <3>2. seq <= Len(events)
      BY <1>1, <3>1 DEF AtEnds
    <3>3. n = seq
      BY <1>2, <2>1, <2>2, <3>2
    <3>4. \A i \in DOMAIN f.points : f.points[i].seq <= n
      BY <1>1, <1>2, <3>1, <3>3 DEF AtEnds
    <3>5. \A i \in DOMAIN f.points : \A m \in DOMAIN seed :
             m <= f.points[i].seq => seed[m] <= f.points[i].turn
      <4>1. \A m \in DOMAIN seed : m \in DOMAIN events /\ seed[m] = events[m]
        BY <2>b, <2>3
      <4>2. QED
        BY <3>1, <4>1 DEF AtEnds
    <3>6. \A m \in DOMAIN seed : m <= seq
      BY <2>3, <3>3
    <3>7. QED
      <4>1. \A i, j \in DOMAIN f.points : i <= j => f.points[i].seq <= f.points[j].seq
        BY <3>1 DEF AtEnds
      <4>2. AtEnds(f, seed)
        BY <2>3, <3>4, <3>5, <4>1 DEF AtEnds
      <4>3. QED
        BY <1>1, <3>5, <3>6, <4>2
  <2>7. FoldOK(f, seed)
    BY <2>5, <2>6 DEF FoldOK
  <2>8. QED
    BY <2>3, <2>4, <2>6, <2>7 DEF seed
<1>6. QED
  BY <1>4, <1>5

-----------------------------------------------------------------------------
(* Sessions: the fold they read *)

LEMMA OriginOK ==
  ASSUME NEW s \in Session, disk \in [Path -> Content], mem[s] = None, file[s] = None
  PROVE  LET f == Hydrated(s)
         IN  /\ f \in Fold /\ f.session = s /\ f.open = None /\ Blank(f) /\ f.intents = {}
             /\ DOMAIN f.points = 1..1
             /\ f.points[1].turn = 0 /\ f.points[1].seq = 0 /\ f.points[1].was = disk
             /\ f.points[1].tree = Nowhere
<1> DEFINE e == EmptyFold(s)
<1> DEFINE origin == [turn |-> 0, seq |-> 0, tree |-> Nowhere, was |-> disk]
<1> DEFINE points == <<origin>>
<1> DEFINE g == [e EXCEPT !.points = points]
<1>1. e.points = <<>> /\ e.baseline = Nowhere /\ e.session = s /\ e.open = None /\ e.intents = {}
  BY DEF EmptyFold
<1>0. e \in Fold
  <2>1. <<>> \in Seq(Point)
    OBVIOUS
  <2>2. QED
    BY <2>1, BlankIsTree DEF EmptyFold, Fold
<1>2. origin \in Point
  BY BlankIsTree, TurnsAreNats DEF Point
<1>3. /\ origin.turn = 0 /\ origin.seq = 0 /\ origin.tree = Nowhere /\ origin.was = disk
  OBVIOUS
<1> HIDE DEF origin, e
<1>4. /\ points \in Seq(Point) /\ DOMAIN points = 1..1 /\ points[1] = origin
      /\ points \o <<>> = points
  BY <1>2
<1>5. Hydrated(s) = [e EXCEPT !.points = points \o e.points]
  BY <1>1 DEF Hydrated, origin, e
<1> HIDE DEF points
<1>6. Hydrated(s) = g
  BY <1>1, <1>4, <1>5
<1>7. g \in Fold
  BY <1>0, <1>4 DEF Fold
<1>8. /\ g.session = s /\ g.open = None /\ g.baseline = Nowhere /\ g.points = points /\ g.intents = {}
  BY <1>0, <1>1 DEF Fold
<1> HIDE DEF g
<1>9. QED
  BY <1>3, <1>4, <1>6, <1>7, <1>8 DEF Blank

LEMMA OriginIsOK ==
  ASSUME NEW f \in Fold, f.open = None, Blank(f), f.intents = {}, DOMAIN f.points = 1..1,
         NEW directory, f.points[1].turn = 0, f.points[1].seq = 0, f.points[1].was = directory,
         f.points[1].tree = Nowhere
  PROVE  /\ \A events \in Seq(Turn) : FoldOK(f, events)
         /\ \A except : Honest(f, directory, except)
         /\ \A events \in Seq(Turn) : \A q \in Seq(Task) : QueueOK(q, events) => Ahead(f, q, events)
<1>1. f.points # <<>> /\ \A i \in DOMAIN f.points : i = 1
  OBVIOUS
<1>2. \A p \in Path : Nowhere[p] = Unseen
  BY DEF Nowhere
<1>3. ASSUME NEW events \in Seq(Turn) PROVE FoldOK(f, events)
  <2>1. Begun(f) /\ Ordered(f)
    BY <1>1 DEF Begun, Ordered
  <2>2. OnLog(f, events)
    BY <1>1 DEF OnLog, Reached
  <2>3. Baselined(f)
    BY <1>1, <1>2 DEF Baselined
  <2>4. AtEnds(f, events)
    <3>1. \A n \in DOMAIN events : ~ (n <= 0)
      BY LogNats
    <3>2. 0 <= Len(events)
      BY LogNats
    <3>3. QED
      BY <1>1, <3>1, <3>2 DEF AtEnds
  <2>5. QED
    BY <2>1, <2>2, <2>3, <2>4 DEF FoldOK
<1>4. ASSUME NEW p \in Path, NEW i \in DOMAIN f.points PROVE Restored(f, i)[p] = Unseen
  BY <1>1, <1>2, RestoredFacts DEF Blank
<1>5. \A except : Honest(f, directory, except)
  BY <1>1, <1>4 DEF Honest
<1>6. ASSUME NEW events \in Seq(Turn), NEW q \in Seq(Task), QueueOK(q, events)
      PROVE  Ahead(f, q, events)
  <2>1. \A j \in DOMAIN q : Timed(q[j]) => 0 <= Rank(q[j], events)
    BY <1>6, RankIsNat
  <2>2. \A j \in DOMAIN q : 0 <= q[j].seq
    BY TaskFields
  <2>3. QED
    BY <1>1, <2>1, <2>2 DEF Ahead
<1>7. QED
  BY <1>3, <1>5, <1>6

\* Memory, else the file, else nothing but the session start.
LEMMA HydratedOK ==
  ASSUME TypeOK, NEW s \in Session, SessionOK(s)
  PROVE  /\ Hydrated(s) \in Fold /\ Hydrated(s).session = s
         /\ FoldOK(Hydrated(s), log[s])
         /\ Honest(Hydrated(s), disk, foreign[s])
         /\ Ahead(Hydrated(s), queue[s], log[s])
         /\ Hydrated(s).open = OpenOf(s)
         /\ mem[s] # None => Hydrated(s) = mem[s]
         /\ mem[s] = None /\ file[s] # None => Hydrated(s) = file[s]
         /\ mem[s] = None /\ file[s] = None => Blank(Hydrated(s))
<1>1. /\ mem[s] \in Fold \cup {None} /\ file[s] \in Fold \cup {None} /\ disk \in [Path -> Content]
      /\ log[s] \in Seq(Turn) /\ queue[s] \in Seq(Task)
  BY DEF TypeOK
<1>2. /\ \A f \in {mem[s], file[s]} : f # None =>
           f.session = s /\ FoldOK(f, log[s]) /\ Honest(f, disk, foreign[s])
      /\ Current(s) # None => Ahead(Current(s), queue[s], log[s])
      /\ QueueOK(queue[s], log[s])
  BY DEF SessionOK, FoldsOK, LogOK
<1>3. \A f \in Fold : Begun(f) => \E i \in DOMAIN f.points : f.points[i].turn = 0
  BY FoldFields DEF Begun
<1>4. CASE mem[s] # None
  <2>1. Begun(mem[s])
    BY <1>2, <1>4 DEF FoldOK
  <2>2. \E i \in DOMAIN mem[s].points : mem[s].points[i].turn = 0
    BY <1>1, <1>3, <1>4, <2>1
  <2>3. Hydrated(s) = mem[s]
    BY <1>4, <2>2 DEF Hydrated
  <2>4. QED
    BY <1>1, <1>2, <1>4, <2>3 DEF Current, OpenOf
<1>5. CASE mem[s] = None /\ file[s] # None
  <2>1. Begun(file[s])
    BY <1>2, <1>5 DEF FoldOK
  <2>2. \E i \in DOMAIN file[s].points : file[s].points[i].turn = 0
    BY <1>1, <1>3, <1>5, <2>1
  <2>3. Hydrated(s) = file[s]
    BY <1>5, <2>2 DEF Hydrated
  <2>4. QED
    BY <1>1, <1>2, <1>5, <2>3 DEF Current, OpenOf
<1>6. CASE mem[s] = None /\ file[s] = None
  <2> DEFINE f == Hydrated(s)
  <2>1. /\ f \in Fold /\ f.session = s /\ f.open = None /\ Blank(f) /\ f.intents = {}
        /\ DOMAIN f.points = 1..1
        /\ f.points[1].turn = 0 /\ f.points[1].seq = 0 /\ f.points[1].was = disk
        /\ f.points[1].tree = Nowhere
    BY <1>1, <1>6, OriginOK
  <2> HIDE DEF f
  <2>2. /\ \A events \in Seq(Turn) : FoldOK(f, events)
        /\ \A except : Honest(f, disk, except)
        /\ \A events \in Seq(Turn) : \A q \in Seq(Task) : QueueOK(q, events) => Ahead(f, q, events)
    BY <2>1, OriginIsOK
  <2>3. FoldOK(f, log[s]) /\ Honest(f, disk, foreign[s]) /\ Ahead(f, queue[s], log[s])
    BY <1>1, <1>2, <2>2
  <2>4. QED
    BY <1>6, <2>1, <2>3 DEF Current, OpenOf, f
<1>7. QED
  BY <1>4, <1>5, <1>6

\* What the fold knows and the file does not is not changed on disk.
LEMMA HydratedUnsaved ==
  ASSUME TypeOK, NEW s \in Session, SessionOK(s), ~Saving(s, "adopt"), "blob" \notin Torn,
         file[s] # None, NEW p \in Path \ foreign[s], file[s].baseline[p] = Unseen,
         NEW i \in DOMAIN Hydrated(s).points
  PROVE  Hydrated(s).points[i].was[p] = disk[p]
<1>1. CASE mem[s] # None
  <2>1. Hydrated(s) = mem[s]
    BY <1>1, HydratedOK
  <2>2. UnsavedOK(s)
    BY DEF SessionOK
  <2>3. QED
    BY <1>1, <2>1, <2>2 DEF UnsavedOK
<1>2. CASE mem[s] = None
  <2>1. Hydrated(s) = file[s] /\ file[s] \in Fold
    BY <1>2, HydratedOK DEF TypeOK
  <2>2. FoldOK(file[s], log[s]) /\ Honest(file[s], disk, foreign[s])
    BY DEF SessionOK, FoldsOK
  <2>3. file[s].points[i].tree[p] = Unseen
    BY <2>1, <2>2 DEF FoldOK, Baselined
  <2>4. Restored(file[s], i)[p] = Unseen
    BY <2>1, <2>3, RestoredFacts
  <2>5. QED
    BY <2>1, <2>2, <2>4 DEF Honest
<1>3. QED
  BY <1>1, <1>2

\* The fold of a session that waits for its heirloom is empty.
LEMMA HydratedBlank ==
  ASSUME TypeOK, NEW s \in Session, SessionOK(s), ~Saving(s, "adopt"), heir[s] # None
  PROVE  Blank(Hydrated(s))
  BY HydratedOK DEF SessionOK, HeirOK

-----------------------------------------------------------------------------
(* Sessions: what leaves them as they are *)

\* What changes on disk is foreign to the session.
Elsewhere(s) ==
  foreign[s] \subseteq foreign'[s] /\ \A p \in Path \ foreign'[s] : disk'[p] = disk[p]

Untouched(s) ==
  /\ mem'[s] = mem[s] /\ file'[s] = file[s] /\ queue'[s] = queue[s] /\ stage'[s] = stage[s]
  /\ todo'[s] = todo[s] /\ goal'[s] = goal[s] /\ heir'[s] = heir[s]
  /\ (s \in live' <=> s \in live) /\ log'[s] = log[s] /\ running'[s] = running[s]
  /\ tool'[s] = tool[s] /\ inherited'[s] = inherited[s]
  /\ Elsewhere(s)

LEMMA HonestLater ==
  ASSUME NEW s \in Session, Elsewhere(s), NEW f, Honest(f, disk, foreign[s])
  PROVE  Honest(f, disk', foreign'[s])
  BY DEF Honest, Elsewhere

LEMMA KeepFolds ==
  ASSUME NEW s \in Session, FoldsOK(s), Elsewhere(s),
         mem'[s] = mem[s], file'[s] = file[s], log'[s] = log[s]
  PROVE  FoldsOK(s)'
<1>1. ASSUME NEW f, f \in {mem[s], file[s]}, f # None
      PROVE  f.session = s /\ FoldOK(f, log[s]) /\ Honest(f, disk', foreign'[s])
  <2>1. f.session = s /\ FoldOK(f, log[s]) /\ Honest(f, disk, foreign[s])
    BY <1>1 DEF FoldsOK
  <2>2. QED
    BY <2>1, HonestLater
<1>2. QED
  BY <1>1 DEF FoldsOK

LEMMA KeepLog ==
  ASSUME NEW s \in Session, LogOK(s),
         mem'[s] = mem[s], file'[s] = file[s], log'[s] = log[s], queue'[s] = queue[s]
  PROVE  LogOK(s)'
  BY DEF LogOK, OpenOf, Current

LEMMA KeepTurn ==
  ASSUME NEW s \in Session, TurnOK(s), mem'[s] = mem[s], log'[s] = log[s],
         queue'[s] = queue[s], heir'[s] = heir[s], running'[s] = running[s]
  PROVE  TurnOK(s)'
  BY DEF TurnOK, Awaited, Opened

LEMMA KeepTool ==
  ASSUME NEW s \in Session, ToolOK(s), mem'[s] = mem[s], file'[s] = file[s],
         queue'[s] = queue[s], running'[s] = running[s], tool'[s] = tool[s],
         stage'[s] = stage[s]
  PROVE  ToolOK(s)'
  BY DEF ToolOK, Saving, First

LEMMA KeepStage ==
  ASSUME NEW s \in Session, StageOK(s), mem'[s] = mem[s], queue'[s] = queue[s],
         stage'[s] = stage[s], goal'[s] = goal[s], heir'[s] = heir[s]
  PROVE  StageOK(s)'
  BY DEF StageOK, Saving, First

LEMMA KeepRestore ==
  ASSUME NEW s \in Session, RestoreOK(s), mem'[s] = mem[s], stage'[s] = stage[s],
         goal'[s] = goal[s], todo'[s] = todo[s], Elsewhere(s)
  PROVE  RestoreOK(s)'
  BY DEF RestoreOK, Elsewhere

LEMMA KeepUnsaved ==
  ASSUME NEW s \in Session, UnsavedOK(s), mem'[s] = mem[s], file'[s] = file[s],
         Saving(s, "adopt") => Saving(s, "adopt")', Elsewhere(s)
  PROVE  UnsavedOK(s)'
<1>1. SUFFICES ASSUME "blob" \notin Torn, mem[s] # None, file[s] # None, ~Saving(s, "adopt")',
                      NEW p \in Path \ foreign'[s], file[s].baseline[p] = Unseen,
                      NEW i \in DOMAIN mem[s].points
               PROVE  mem[s].points[i].was[p] = disk'[p]
  BY DEF UnsavedOK
<1>2. p \in Path \ foreign[s] /\ disk'[p] = disk[p]
  BY DEF Elsewhere
<1>3. ~Saving(s, "adopt")
  BY <1>1
<1>4. QED
  BY <1>1, <1>2, <1>3 DEF UnsavedOK

LEMMA KeepInherit ==
  ASSUME NEW s \in Session, InheritOK(s), mem'[s] = mem[s], file'[s] = file[s],
         heir'[s] = heir[s], inherited'[s] = inherited[s]
  PROVE  InheritOK(s)'
  BY DEF InheritOK

LEMMA KeepHeir ==
  ASSUME NEW s \in Session, HeirOK(s), mem'[s] = mem[s], file'[s] = file[s],
         heir'[s] = heir[s], log'[s] = log[s], queue'[s] = queue[s], stage'[s] = stage[s],
         Elsewhere(s)
  PROVE  HeirOK(s)'
<1>1. CASE heir[s] = None
  BY <1>1 DEF HeirOK
<1>2. CASE heir[s] # None
  <2>1. Honest(heir[s].fold, disk', foreign'[s])
    BY <1>2, HonestLater DEF HeirOK
  <2>2. QED
    BY <1>2, <2>1 DEF HeirOK, Saving, First
<1>3. QED
  BY <1>1, <1>2

LEMMA KeepAbsent ==
  ASSUME NEW s \in Session, s \in live'
  PROVE  Absent(s)'
  BY DEF Absent

\* A step of others.
LEMMA Frame ==
  ASSUME NEW s \in Session, SessionOK(s), Untouched(s)
  PROVE  SessionOK(s)'
<1>1. FoldsOK(s)' /\ LogOK(s)' /\ TurnOK(s)'
  BY KeepFolds, KeepLog, KeepTurn DEF SessionOK, Untouched
<1>2. ToolOK(s)' /\ StageOK(s)' /\ RestoreOK(s)'
  BY KeepTool, KeepStage, KeepRestore DEF SessionOK, Untouched
<1>3. UnsavedOK(s)'
  <2>1. Saving(s, "adopt") => Saving(s, "adopt")'
    BY DEF Untouched, Saving, First
  <2>2. QED
    BY <2>1, KeepUnsaved DEF SessionOK, Untouched
<1>4. InheritOK(s)' /\ HeirOK(s)'
  BY KeepInherit, KeepHeir DEF SessionOK, Untouched
<1>5. Absent(s)'
  BY DEF SessionOK, Untouched, Absent
<1>6. QED
  BY <1>1, <1>2, <1>3, <1>4, <1>5 DEF SessionOK

-----------------------------------------------------------------------------
(* Sessions: a new fold in memory *)

LEMMA PersistOK ==
  ASSUME TypeOK, NEW s \in Session, SessionOK(s), NEW g \in Fold,
         stage[s] = "ready", queue[s] # <<>>, Head(queue[s]).kind # "rewind",
         mem'[s] = g, stage'[s] = "saving",
         file'[s] = file[s], queue'[s] = queue[s], goal'[s] = goal[s], heir'[s] = heir[s],
         log'[s] = log[s], live' = live, running'[s] = running[s], tool'[s] = tool[s],
         inherited'[s] = inherited[s], disk' = disk, foreign[s] \subseteq foreign'[s],
         g.session = s, FoldOK(g, log[s]), Honest(g, disk, foreign'[s]),
         Ahead(g, queue[s], log[s]), MayStop \/ OpenFits(g.open, queue[s], log[s]),
         Keeps(g, Hydrated(s).baseline),
         Head(queue[s]).kind = "adopt" => heir[s] # None /\ g = heir[s].fold,
         Head(queue[s]).kind # "adopt" =>
           /\ heir[s] # None => Blank(g)
           /\ "blob" \notin Torn /\ file[s] # None =>
                \A p \in Path \ foreign'[s] : file[s].baseline[p] = Unseen =>
                  \A i \in DOMAIN g.points : g.points[i].was[p] = disk[p],
         Head(queue[s]).kind \notin Closing => g.open = Hydrated(s).open,
         Head(queue[s]).kind = "start" => g.open = Head(queue[s]).turn,
         Head(queue[s]).kind = "intent" => g.baseline[tool[s].path] # Unseen
  PROVE  SessionOK(s)'
<1>0. g # None /\ Elsewhere(s) /\ tool[s] \in Call \cup {None} /\ queue[s] \in Seq(Task)
  BY NoneIsNone DEF Elsewhere, TypeOK
<1>00. Head(queue[s]) = queue[s][1] /\ 1 \in DOMAIN queue[s]
  BY <1>0, TailFacts
<1>1. FoldsOK(s)'
  <2>1. file[s] # None => file[s].session = s /\ FoldOK(file[s], log[s]) /\ Honest(file[s], disk', foreign'[s])
    BY <1>0, HonestLater DEF SessionOK, FoldsOK
  <2>2. QED
    BY <2>1 DEF FoldsOK
<1>2. LogOK(s)'
  BY <1>0 DEF SessionOK, LogOK, OpenOf, Current
<1>3. TurnOK(s)'
  <2>1. SUFFICES ASSUME running[s]
                 PROVE  /\ log[s] # <<>> /\ heir[s] = None
                        /\ \A k \in Turn : Highest(log[s], k) => Awaited(s, k)' \/ Opened(s, k)'
    BY DEF TurnOK
  <2>2. /\ log[s] # <<>> /\ heir[s] = None
        /\ \A k \in Turn : Highest(log[s], k) => Awaited(s, k) \/ Opened(s, k)
    BY <2>1 DEF SessionOK, TurnOK
  <2>3. \A k : Awaited(s, k) => Awaited(s, k)'
    BY DEF Awaited
  <2>4. ASSUME NEW k, Opened(s, k) PROVE Opened(s, k)'
    <3>1. mem[s] # None /\ mem[s].open = k /\ Head(queue[s]).kind \notin Closing
      BY <1>00, <2>4 DEF Opened
    <3>2. g.open = k
      BY <3>1, HydratedOK
    <3>3. QED
      BY <1>0, <2>4, <3>2 DEF Opened
  <2>5. QED
    BY <2>2, <2>3, <2>4
<1>4. ToolOK(s)'
  <2>1. tool[s] # None /\ tool[s].ready => g.baseline[tool[s].path] # Unseen
    <3>1. SUFFICES ASSUME tool[s] # None, tool[s].ready PROVE g.baseline[tool[s].path] # Unseen
      OBVIOUS
    <3>2. mem[s] # None /\ mem[s].baseline[tool[s].path] # Unseen /\ tool[s].path \in Path
      BY <1>0, <3>1 DEF SessionOK, ToolOK, Call
    <3>3. Hydrated(s) = mem[s]
      BY <3>2, HydratedOK
    <3>4. QED
      BY <3>2, <3>3 DEF Keeps
  <2>2. Saving(s, "intent")' => g.baseline[tool[s].path] # Unseen
    BY DEF Saving, First
  <2>3. QED
    BY <1>0, <2>1, <2>2 DEF SessionOK, ToolOK
<1>5. StageOK(s)'
  BY <1>0 DEF StageOK, Saving, First, Rewinding, Restoring
<1>6. RestoreOK(s)'
  BY DEF RestoreOK, Restoring
<1>7. UnsavedOK(s)'
  <2>1. Head(queue[s]).kind = "adopt" => Saving(s, "adopt")'
    BY DEF Saving, First
  <2>2. QED
    BY <2>1 DEF UnsavedOK
<1>8. InheritOK(s)'
  <2>1. SUFFICES ASSUME inherited[s] # None
                 PROVE  heir[s] = None /\ Keeps(g, inherited[s]) /\ (file[s] # None => Keeps(file[s], inherited[s]))
    BY <1>0 DEF InheritOK
  <2>2. /\ heir[s] = None /\ (mem[s] = None => file[s] # None)
        /\ \A f \in {mem[s], file[s]} : f # None => Keeps(f, inherited[s])
    BY <2>1 DEF SessionOK, InheritOK
  <2>3. Keeps(Hydrated(s), inherited[s])
    BY <2>2, HydratedOK
  <2>4. Keeps(g, inherited[s])
    BY <2>3 DEF Keeps
  <2>5. QED
    BY <2>2, <2>4
<1>9. HeirOK(s)'
  <2>1. SUFFICES ASSUME heir[s] # None PROVE HeirOK(s)'
    BY DEF HeirOK
  <2>2. /\ heir[s].fold.session = s /\ heir[s].fold.open = None
        /\ FoldOK(heir[s].fold, log[s]) /\ Honest(heir[s].fold, disk, foreign[s])
        /\ Ahead(heir[s].fold, queue[s], log[s])
        /\ file[s] # None => Blank(file[s])
    BY <2>1 DEF SessionOK, HeirOK
  <2>3. Honest(heir[s].fold, disk', foreign'[s])
    BY <1>0, <2>2, HonestLater
  <2>4. Head(queue[s]).kind = "adopt" => Saving(s, "adopt")'
    BY DEF Saving, First
  <2>5. QED
    BY <2>2, <2>3, <2>4 DEF HeirOK
<1>10. Absent(s)'
  BY DEF SessionOK, Absent
<1>11. QED
  BY <1>1, <1>2, <1>3, <1>4, <1>5, <1>6, <1>7, <1>8, <1>9, <1>10 DEF SessionOK

-----------------------------------------------------------------------------
(* Sessions: the first work is over *)

LEMMA DoneLog ==
  ASSUME NEW s \in Session, queue[s] \in Seq(Task), log[s] \in Seq(Turn), LogOK(s),
         queue[s] # <<>>, queue'[s] = Tail(queue[s]), log'[s] = log[s], Current(s)' = Current(s),
         Head(queue[s]).kind = "start" => OpenOf(s) = Head(queue[s]).turn
  PROVE  LogOK(s)'
<1>1. Head(queue[s]) = queue[s][1]
  BY TailFacts
<1>2. OpenOf(s)' = OpenOf(s)
  BY DEF OpenOf
<1>3. /\ HasLast(log[s]) /\ QueueOK(queue[s], log[s])
      /\ MayStop \/ QueueAtEnds(queue[s], log[s])
      /\ MayStop \/ OpenFits(OpenOf(s), queue[s], log[s])
      /\ Current(s) # None => Ahead(Current(s), queue[s], log[s])
  BY DEF LogOK
<1>4. QueueOK(Tail(queue[s]), log[s])
  BY <1>3, TailQueueOK
<1>5. MayStop \/ QueueAtEnds(Tail(queue[s]), log[s])
  BY <1>3, TailQueueAtEnds
<1>6. MayStop \/ OpenFits(OpenOf(s), Tail(queue[s]), log[s])
  BY <1>1, <1>3, TailOpenFits
<1>7. Current(s) # None => Ahead(Current(s), Tail(queue[s]), log[s])
  BY <1>3, TailAhead
<1>8. QED
  BY <1>2, <1>3, <1>4, <1>5, <1>6, <1>7 DEF LogOK

LEMMA DoneTurn ==
  ASSUME NEW s \in Session, queue[s] \in Seq(Task), TurnOK(s),
         queue[s] # <<>>, queue'[s] = Tail(queue[s]), log'[s] = log[s], mem'[s] = mem[s],
         running'[s] = running[s], heir'[s] \in {heir[s], None},
         Head(queue[s]).kind = "start" => mem[s] # None /\ mem[s].open = Head(queue[s]).turn
  PROVE  TurnOK(s)'
<1> DEFINE q == queue[s]
<1>1. /\ Head(q) = q[1] /\ 1 \in DOMAIN q /\ DOMAIN q = 1..Len(q) /\ Len(q) \in Nat
      /\ DOMAIN Tail(q) = 1..(Len(q) - 1)
      /\ \A i \in DOMAIN Tail(q) : i + 1 \in DOMAIN q /\ Tail(q)[i] = q[i + 1]
  BY TailFacts
<1>2. SUFFICES ASSUME running[s]
               PROVE  /\ log[s] # <<>> /\ heir'[s] = None
                      /\ \A k \in Turn : Highest(log[s], k) => Awaited(s, k)' \/ Opened(s, k)'
  BY DEF TurnOK
<1>3. /\ log[s] # <<>> /\ heir[s] = None
      /\ \A k \in Turn : Highest(log[s], k) => Awaited(s, k) \/ Opened(s, k)
  BY <1>2 DEF TurnOK
<1>4. ASSUME NEW k, Awaited(s, k) PROVE Awaited(s, k)' \/ Opened(s, k)'
  <2>1. PICK i \in DOMAIN q : /\ q[i].kind = "start" /\ q[i].turn = k
                              /\ \A j \in DOMAIN q : i < j => q[j].kind \notin Closing
    BY <1>4 DEF Awaited
  <2>2. CASE i = 1
    <3>1. \A j \in DOMAIN Tail(q) : Tail(q)[j].kind \notin Closing
      <4>1. SUFFICES ASSUME NEW j \in DOMAIN Tail(q) PROVE Tail(q)[j].kind \notin Closing
        OBVIOUS
      <4>2. 1 < j + 1 /\ j + 1 \in DOMAIN q /\ Tail(q)[j] = q[j + 1]
        BY <1>1, <4>1
      <4>3. QED
        BY <2>1, <2>2, <4>2
    <3>2. mem[s] # None /\ mem[s].open = k
      BY <1>1, <2>1, <2>2
    <3>3. QED
      BY <3>1, <3>2 DEF Opened
  <2>3. CASE i # 1
    <3>1. i - 1 \in DOMAIN Tail(q) /\ (i - 1) + 1 = i
      BY <1>1, <2>1, <2>3
    <3>2. Tail(q)[i - 1] = q[i]
      BY <1>1, <3>1
    <3>3. ASSUME NEW j \in DOMAIN Tail(q), i - 1 < j PROVE Tail(q)[j].kind \notin Closing
      <4>2. i < j + 1 /\ j + 1 \in DOMAIN q /\ Tail(q)[j] = q[j + 1]
        BY <1>1, <2>1, <3>3
      <4>3. QED
        BY <2>1, <4>2
    <3>4. QED
      BY <2>1, <3>1, <3>2, <3>3 DEF Awaited
  <2>4. QED
    BY <2>2, <2>3
<1>5. ASSUME NEW k, Opened(s, k) PROVE Opened(s, k)'
  <2>1. \A j \in DOMAIN Tail(q) : Tail(q)[j].kind \notin Closing
    BY <1>1, <1>5 DEF Opened
  <2>2. QED
    BY <1>5, <2>1 DEF Opened
<1>6. QED
  BY <1>3, <1>4, <1>5

\* What is said of the work behind holds when it has moved up.
LEMMA TailIntents ==
  ASSUME NEW q \in Seq(Task), q # <<>>
  PROVE  /\ \A kinds : (\A i \in DOMAIN q : q[i].kind \notin kinds) =>
               \A i \in DOMAIN Tail(q) : Tail(q)[i].kind \notin kinds
         /\ \A kinds : (\A i \in DOMAIN q : 1 < i => q[i].kind \notin kinds) =>
               \A i \in DOMAIN Tail(q) : Tail(q)[i].kind \notin kinds
         /\ \A i \in DOMAIN Tail(q) : \A kinds :
              (\A j \in DOMAIN q : i + 1 < j => q[j].kind \notin kinds) =>
                 \A j \in DOMAIN Tail(q) : i < j => Tail(q)[j].kind \notin kinds
<1>1. /\ DOMAIN q = 1..Len(q) /\ Len(q) \in Nat /\ DOMAIN Tail(q) = 1..(Len(q) - 1)
      /\ \A i \in DOMAIN Tail(q) : i + 1 \in DOMAIN q /\ Tail(q)[i] = q[i + 1]
  BY TailFacts
<1>2. \A i \in DOMAIN Tail(q) : 1 < i + 1
  BY <1>1
<1>3. \A i, j \in DOMAIN Tail(q) : i < j => i + 1 < j + 1
  BY <1>1
<1>4. QED
  BY <1>1, <1>2, <1>3

LEMMA DoneTool ==
  ASSUME NEW s \in Session, queue[s] \in Seq(Task), ToolOK(s),
         queue[s] # <<>>, queue'[s] = Tail(queue[s]), mem'[s] = mem[s], running'[s] = running[s],
         stage'[s] = "ready", tool'[s] = tool[s], Head(queue[s]).kind # "intent",
         \/ file'[s] = file[s]
         \/ file'[s] = mem[s] /\ mem[s] # None
         \/ file'[s] = None /\ "state" \in Torn
  PROVE  ToolOK(s)'
<1> DEFINE q == queue[s]
<1>1. \A i \in DOMAIN Tail(q) : i + 1 \in DOMAIN q /\ Tail(q)[i] = q[i + 1]
  BY TailFacts
<1>2. ASSUME NEW i \in DOMAIN Tail(q), Tail(q)[i].kind = "intent"
      PROVE  /\ tool[s] # None /\ ~tool[s].ready
             /\ \A j \in DOMAIN Tail(q) : i < j => Tail(q)[j].kind \notin {"start", "intent"}
  <2>1. i + 1 \in DOMAIN q /\ q[i + 1].kind = "intent"
    BY <1>1, <1>2
  <2>2. /\ tool[s] # None /\ ~tool[s].ready
        /\ \A j \in DOMAIN q : i + 1 < j => q[j].kind \notin {"start", "intent"}
    BY <2>1 DEF ToolOK
  <2>3. QED
    BY <2>2, TailIntents
<1>3. ASSUME tool[s] # None, tool[s].ready
      PROVE  \A i \in DOMAIN Tail(q) : Tail(q)[i].kind \notin {"start", "intent"}
  BY <1>3, TailIntents DEF ToolOK
<1>4. ~Saving(s, "intent")'
  BY DEF Saving
<1>5. tool[s] # None => running[s]
  BY DEF ToolOK
<1>6. ASSUME tool[s] # None, tool[s].ready
      PROVE  /\ mem[s] # None /\ mem[s].baseline[tool[s].path] # Unseen
             /\ file'[s] # None => file'[s].baseline[tool[s].path] # Unseen
             /\ "state" \notin Torn => file'[s] # None
  BY <1>6 DEF ToolOK
<1>7. QED
  BY <1>2, <1>3, <1>4, <1>5, <1>6 DEF ToolOK

\* The other parts, when nothing but the queue and the stage has changed.
LEMMA DoneOK ==
  ASSUME TypeOK, NEW s \in Session, SessionOK(s),
         queue[s] # <<>>, queue'[s] = Tail(queue[s]), stage'[s] = "ready",
         Head(queue[s]).kind \notin {"start", "intent", "adopt"},
         mem'[s] = mem[s], file'[s] = file[s], heir'[s] = heir[s], log'[s] = log[s],
         live' = live, running'[s] = running[s], tool'[s] = tool[s],
         inherited'[s] = inherited[s], Elsewhere(s)
  PROVE  SessionOK(s)'
<1>1. queue[s] \in Seq(Task) /\ log[s] \in Seq(Turn)
  BY DEF TypeOK
<1>2. FoldsOK(s)' /\ InheritOK(s)'
  BY KeepFolds, KeepInherit DEF SessionOK
<1>3. LogOK(s)' /\ TurnOK(s)' /\ ToolOK(s)'
  BY <1>1, DoneLog, DoneTurn, DoneTool DEF SessionOK, Current
<1>4. StageOK(s)' /\ RestoreOK(s)'
  BY DEF StageOK, RestoreOK, Saving, Rewinding, Restoring
<1>5. ~Saving(s, "adopt")
  BY DEF Saving, First
<1>6. UnsavedOK(s)'
  BY <1>5, KeepUnsaved DEF SessionOK
<1>7. HeirOK(s)'
  <2>1. SUFFICES ASSUME heir[s] # None PROVE HeirOK(s)'
    BY DEF HeirOK
  <2>2. Honest(heir[s].fold, disk', foreign'[s])
    BY <2>1, HonestLater DEF SessionOK, HeirOK
  <2>3. Ahead(heir[s].fold, Tail(queue[s]), log[s])
    BY <1>1, <2>1, TailAhead DEF SessionOK, HeirOK
  <2>4. QED
    BY <1>5, <2>1, <2>2, <2>3 DEF SessionOK, HeirOK
<1>8. Absent(s)'
  BY DEF SessionOK, Absent
<1>9. QED
  BY <1>2, <1>3, <1>4, <1>6, <1>7, <1>8 DEF SessionOK

\* A path without a baseline was what it is.
LEMMA UnseenWas ==
  ASSUME NEW f \in Fold, NEW events, FoldOK(f, events), NEW directory, NEW except,
         Honest(f, directory, except), "blob" \notin Torn, NEW p \in Path \ except,
         f.baseline[p] = Unseen, NEW i \in DOMAIN f.points
  PROVE  f.points[i].was[p] = directory[p]
<1>1. f.points[i].tree[p] = Unseen
  BY DEF FoldOK, Baselined
<1>2. Restored(f, i)[p] = Unseen
  BY <1>1, RestoredFacts
<1>3. QED
  BY <1>2 DEF Honest

LEMMA SavedFolds ==
  ASSUME TypeOK, NEW s \in Session, SessionOK(s), mem[s] # None, mem'[s] = mem[s], file'[s] = mem[s],
         log'[s] = log[s], disk' = disk, foreign'[s] = foreign[s]
  PROVE  FoldsOK(s)' /\ UnsavedOK(s)'
<1>1. mem[s] \in Fold
  BY DEF TypeOK
<1>2. mem[s].session = s /\ FoldOK(mem[s], log[s]) /\ Honest(mem[s], disk, foreign[s])
  BY DEF SessionOK, FoldsOK
<1>3. FoldsOK(s)'
  BY <1>2 DEF FoldsOK
<1>4. ASSUME "blob" \notin Torn, NEW p \in Path \ foreign[s], mem[s].baseline[p] = Unseen,
             NEW i \in DOMAIN mem[s].points
      PROVE  mem[s].points[i].was[p] = disk[p]
  BY <1>1, <1>2, <1>4, UnseenWas
<1>5. UnsavedOK(s)'
  BY <1>4 DEF UnsavedOK
<1>6. QED
  BY <1>3, <1>5

\* The tool of the first intent is the only one.
LEMMA FirstIntent ==
  ASSUME NEW s \in Session, queue[s] \in Seq(Task), ToolOK(s), queue[s] # <<>>,
         Head(queue[s]).kind = "intent"
  PROVE  /\ tool[s] # None /\ ~tool[s].ready /\ running[s]
         /\ \A i \in DOMAIN Tail(queue[s]) : Tail(queue[s])[i].kind \notin {"start", "intent"}
<1>1. Head(queue[s]) = queue[s][1] /\ 1 \in DOMAIN queue[s]
  BY TailFacts
<1>2. /\ tool[s] # None /\ ~tool[s].ready
      /\ \A j \in DOMAIN queue[s] : 1 < j => queue[s][j].kind \notin {"start", "intent"}
  BY <1>1 DEF ToolOK
<1>3. QED
  BY <1>2, TailIntents DEF ToolOK

LEMMA SaveOK ==
  ASSUME TypeOK, NEW s \in Session, SessionOK(s), Save(s)
  PROVE  SessionOK(s)'
<1> DEFINE kind == Head(queue[s]).kind
<1>1. /\ stage[s] = "saving" /\ file'[s] = mem[s] /\ mem' = mem /\ disk' = disk
      /\ live' = live /\ log' = log /\ running' = running /\ foreign' = foreign
      /\ goal' = goal /\ todo' = todo
  BY DEF Save, TypeOK
<1>2. /\ queue[s] \in Seq(Task) /\ log[s] \in Seq(Turn) /\ tool[s] \in Call \cup {None}
      /\ heir[s] \in Heir \cup {None}
  BY DEF TypeOK
<1>3. queue[s] # <<>> /\ mem[s] # None
  BY <1>1 DEF SessionOK, StageOK
<1>4. FoldsOK(s)' /\ UnsavedOK(s)'
  BY <1>1, <1>3, SavedFolds
<1>5. Current(s)' = Current(s) /\ Current(s) = mem[s]
  BY <1>1, <1>3 DEF Current
<1>6. Absent(s)'
  BY <1>1, <1>3 DEF SessionOK, Absent
<1>7. CASE kind = "rewind"
  <2>1. /\ stage'[s] = "forking" /\ queue' = queue /\ heir' = heir /\ tool' = tool
        /\ inherited' = inherited
    BY <1>7 DEF Save, Saved, TypeOK
  <2>2. LogOK(s)'
    BY <1>1, <1>5, <2>1 DEF SessionOK, LogOK, OpenOf
  <2>3. TurnOK(s)'
    BY <1>1, <2>1, KeepTurn DEF SessionOK
  <2>4. ToolOK(s)'
    BY <1>1, <1>3, <2>1 DEF SessionOK, ToolOK, Saving
  <2>5. StageOK(s)'
    BY <1>1, <1>3, <1>7, <2>1 DEF SessionOK, StageOK, Saving, First, Rewinding, Restoring
  <2>6. RestoreOK(s)'
    BY <2>1 DEF RestoreOK, Restoring
  <2>7. InheritOK(s)'
    BY <1>1, <1>3, <2>1 DEF SessionOK, InheritOK
  <2>8. HeirOK(s)'
    BY <1>1, <1>3, <1>7, <2>1 DEF SessionOK, HeirOK, Saving, First
  <2>9. QED
    BY <1>4, <1>6, <2>2, <2>3, <2>4, <2>5, <2>6, <2>7, <2>8 DEF SessionOK
<1>8. CASE kind # "rewind"
  <2>1. /\ queue'[s] = Tail(queue[s]) /\ stage'[s] = "ready"
        /\ tool' = IF kind = "intent" THEN [tool EXCEPT ![s].ready = TRUE] ELSE tool
        /\ heir' = IF kind = "adopt" THEN [heir EXCEPT ![s] = None] ELSE heir
        /\ inherited' = IF kind = "adopt"
                        THEN [inherited EXCEPT ![s] = heir[s].fold.baseline] ELSE inherited
    BY <1>8 DEF Save, Saved, Done, TypeOK
  <2>2. kind = "start" => mem[s].open = Head(queue[s]).turn
    BY <1>1, <1>3 DEF SessionOK, StageOK, Saving, First
  <2>3. LogOK(s)'
    BY <1>1, <1>2, <1>3, <1>5, <2>1, <2>2, DoneLog DEF SessionOK, OpenOf
  <2>4. heir'[s] \in {heir[s], None} /\ (kind # "adopt" => heir'[s] = heir[s])
        /\ (kind = "adopt" => heir'[s] = None)
    BY <2>1 DEF TypeOK
  <2>5. TurnOK(s)'
    BY <1>1, <1>2, <1>3, <2>1, <2>2, <2>4, DoneTurn DEF SessionOK
  <2>6. ToolOK(s)'
    <3>1. CASE kind # "intent"
      BY <1>1, <1>2, <1>3, <2>1, <3>1, DoneTool DEF SessionOK
    <3>2. CASE kind = "intent"
      <4>1. /\ tool[s] # None /\ ~tool[s].ready /\ running[s]
            /\ \A i \in DOMAIN Tail(queue[s]) : Tail(queue[s])[i].kind \notin {"start", "intent"}
        BY <1>2, <1>3, <3>2, FirstIntent DEF SessionOK
      <4>2. tool'[s] = [tool[s] EXCEPT !.ready = TRUE] /\ tool[s] \in Call
        BY <1>2, <2>1, <3>2, <4>1 DEF TypeOK
      <4>3. [tool[s] EXCEPT !.ready = TRUE] \in Call /\ [tool[s] EXCEPT !.ready = TRUE].path = tool[s].path
        BY <4>2 DEF Call
      <4>4. tool'[s] # None /\ tool'[s].path = tool[s].path
        BY <4>2, <4>3, NoneIsNone
      <4>5. mem[s].baseline[tool[s].path] # Unseen
        BY <1>1, <1>3, <3>2 DEF SessionOK, ToolOK, Saving, First
      <4>6. ~Saving(s, "intent")'
        BY <2>1 DEF Saving
      <4>7. QED
        BY <1>1, <1>3, <2>1, <4>1, <4>4, <4>5, <4>6 DEF ToolOK
    <3>3. QED
      BY <3>1, <3>2
  <2>7. StageOK(s)' /\ RestoreOK(s)'
    BY <2>1 DEF StageOK, RestoreOK, Saving, Rewinding, Restoring
  <2>8. CASE kind # "adopt"
    <3>1. InheritOK(s)'
      BY <1>1, <1>3, <2>1, <2>4, <2>8 DEF SessionOK, InheritOK
    <3>2. HeirOK(s)'
      <4>1. SUFFICES ASSUME heir[s] # None PROVE HeirOK(s)'
        BY <2>4, <2>8 DEF HeirOK
      <4>2. Ahead(heir[s].fold, Tail(queue[s]), log[s])
        BY <1>2, <1>3, <4>1, TailAhead DEF SessionOK, HeirOK
      <4>3. Blank(mem[s])
        BY <1>3, <2>8, <4>1 DEF SessionOK, HeirOK, Saving, First
      <4>4. QED
        BY <1>1, <2>1, <2>4, <2>8, <4>1, <4>2, <4>3 DEF SessionOK, HeirOK
    <3>3. QED
      BY <1>4, <1>6, <2>3, <2>5, <2>6, <2>7, <3>1, <3>2 DEF SessionOK
  <2>9. CASE kind = "adopt"
    <3>1. mem[s] = heir[s].fold
      BY <1>1, <1>3, <2>9 DEF SessionOK, StageOK, Saving, First
    <3>2. inherited'[s] = mem[s].baseline
      BY <2>1, <2>9, <3>1 DEF TypeOK
    <3>3. InheritOK(s)'
      BY <1>1, <1>3, <2>4, <2>9, <3>2 DEF InheritOK, Keeps
    <3>4. HeirOK(s)'
      BY <2>4, <2>9 DEF HeirOK
    <3>5. QED
      BY <1>4, <1>6, <2>3, <2>5, <2>6, <2>7, <3>3, <3>4 DEF SessionOK
  <2>10. QED
    BY <2>8, <2>9
<1>9. QED
  BY <1>7, <1>8

LEMMA SaveFailsOK ==
  ASSUME TypeOK, NEW s \in Session, SessionOK(s), SaveFails(s)
  PROVE  SessionOK(s)'
<1> DEFINE kind == Head(queue[s]).kind
<1>1. /\ stage[s] = "saving" /\ stage'[s] = "ready" /\ queue'[s] = Tail(queue[s])
      /\ mem' = mem /\ disk' = disk /\ live' = live /\ log' = log /\ running' = running
      /\ inherited' = inherited
      /\ tool' = IF kind = "intent" THEN [tool EXCEPT ![s] = None] ELSE tool
      /\ heir' = IF kind = "adopt" THEN [heir EXCEPT ![s] = None] ELSE heir
      /\ foreign' = IF kind = "adopt"
                    THEN [foreign EXCEPT ![s] = foreign[s] \cup Seen(heir[s].fold)] ELSE foreign
      /\ file'[s] = file[s] \/ (file'[s] = None /\ "state" \in Torn)
  <2>1. /\ stage[s] = "saving" /\ stage'[s] = "ready" /\ queue'[s] = Tail(queue[s])
    BY DEF SaveFails, Failed, Done, TypeOK
  <2>2. /\ mem' = mem /\ disk' = disk /\ live' = live /\ log' = log /\ running' = running
        /\ inherited' = inherited
    BY DEF SaveFails
  <2>3. /\ tool' = IF kind = "intent" THEN [tool EXCEPT ![s] = None] ELSE tool
        /\ heir' = IF kind = "adopt" THEN [heir EXCEPT ![s] = None] ELSE heir
    BY Zenon DEF SaveFails
  <2>3a. foreign' = IF kind = "adopt"
                    THEN [foreign EXCEPT ![s] = foreign[s] \cup Seen(heir[s].fold)] ELSE foreign
    BY Zenon DEF SaveFails
  <2>4. file' = file \/ (file' = [file EXCEPT ![s] = None] /\ "state" \in Torn)
    <3>1. file' \in {file} \cup IF "state" \in Torn THEN {[file EXCEPT ![s] = None]} ELSE {}
      BY DEF SaveFails
    <3>2. CASE "state" \in Torn
      BY <3>1, <3>2
    <3>3. CASE "state" \notin Torn
      BY <3>1, <3>3
    <3>4. QED
      BY <3>2, <3>3
  <2>5. file'[s] = file[s] \/ (file'[s] = None /\ "state" \in Torn)
    BY <2>4 DEF TypeOK
  <2>6. QED
    BY <2>1, <2>2, <2>3, <2>3a, <2>5
<1>2. /\ queue[s] \in Seq(Task) /\ log[s] \in Seq(Turn) /\ mem[s] \in Fold \cup {None}
      /\ heir[s] \in Heir \cup {None}
  BY DEF TypeOK
<1>3. queue[s] # <<>> /\ mem[s] # None
  BY <1>1 DEF SessionOK, StageOK
<1>4. /\ heir'[s] \in {heir[s], None} /\ (kind # "adopt" => heir'[s] = heir[s])
      /\ (kind = "adopt" => heir'[s] = None)
      /\ (kind = "adopt" => foreign'[s] = foreign[s] \cup Seen(heir[s].fold))
      /\ (kind # "adopt" => foreign' = foreign)
      /\ (kind = "intent" => tool'[s] = None) /\ (kind # "intent" => tool' = tool)
  BY <1>1 DEF TypeOK
<1>5. Elsewhere(s)
  BY <1>1, <1>4 DEF Elsewhere
<1>6. FoldsOK(s)'
  <2>1. ASSUME NEW f, f \in {mem[s], file[s]}, f # None
        PROVE  f.session = s /\ FoldOK(f, log[s]) /\ Honest(f, disk', foreign'[s])
    BY <1>5, <2>1, HonestLater DEF SessionOK, FoldsOK
  <2>2. QED
    BY <1>1, <2>1 DEF FoldsOK
<1>7. LogOK(s)'
  <2>1. Current(s)' = Current(s) /\ Current(s) = mem[s]
    BY <1>1, <1>3 DEF Current
  <2>2. kind = "start" => mem[s].open = Head(queue[s]).turn
    BY <1>1, <1>3 DEF SessionOK, StageOK, Saving, First
  <2>3. QED
    BY <1>1, <1>2, <1>3, <2>1, <2>2, DoneLog DEF SessionOK, OpenOf
<1>8. TurnOK(s)'
  <2>1. kind = "start" => mem[s].open = Head(queue[s]).turn
    BY <1>1, <1>3 DEF SessionOK, StageOK, Saving, First
  <2>2. QED
    BY <1>1, <1>2, <1>3, <1>4, <2>1, DoneTurn DEF SessionOK
<1>9. ToolOK(s)'
  <2>1. CASE kind # "intent"
    BY <1>1, <1>2, <1>3, <1>4, <2>1, DoneTool DEF SessionOK
  <2>2. CASE kind = "intent"
    <3>1. \A i \in DOMAIN Tail(queue[s]) : Tail(queue[s])[i].kind \notin {"start", "intent"}
      BY <1>2, <1>3, <2>2, FirstIntent DEF SessionOK
    <3>2. tool'[s] = None /\ ~Saving(s, "intent")'
      BY <1>1, <1>4, <2>2 DEF Saving
    <3>3. QED
      BY <1>1, <3>1, <3>2 DEF ToolOK
  <2>3. QED
    BY <2>1, <2>2
<1>10. StageOK(s)' /\ RestoreOK(s)'
  BY <1>1 DEF StageOK, RestoreOK, Saving, Rewinding, Restoring
<1>11. UnsavedOK(s)'
  <2>1. SUFFICES ASSUME "blob" \notin Torn, file'[s] # None, NEW p \in Path \ foreign'[s],
                        file'[s].baseline[p] = Unseen, NEW i \in DOMAIN mem[s].points
                 PROVE  mem[s].points[i].was[p] = disk[p]
    BY <1>1 DEF UnsavedOK
  <2>2. file'[s] = file[s] /\ p \in Path \ foreign[s]
    BY <1>1, <1>5, <2>1 DEF Elsewhere
  <2>3. CASE kind # "adopt"
    BY <1>1, <1>3, <2>1, <2>2, <2>3 DEF SessionOK, UnsavedOK, Saving, First
  <2>4. CASE kind = "adopt"
    <3>1. mem[s] = heir[s].fold
      BY <1>1, <1>3, <2>4 DEF SessionOK, StageOK, Saving, First
    <3>2. mem[s].baseline[p] = Unseen
      BY <1>4, <2>1, <2>4, <3>1 DEF Seen
    <3>3. mem[s] \in Fold /\ FoldOK(mem[s], log[s]) /\ Honest(mem[s], disk, foreign[s])
      BY <1>2, <1>3 DEF SessionOK, FoldsOK
    <3>4. QED
      BY <2>1, <2>2, <3>2, <3>3, UnseenWas
  <2>5. QED
    BY <2>3, <2>4
<1>12. InheritOK(s)'
  <2>1. SUFFICES ASSUME inherited[s] # None
                 PROVE  /\ heir'[s] = None
                        /\ \A f \in {mem[s], file'[s]} : f # None => Keeps(f, inherited[s])
    BY <1>1, <1>3 DEF InheritOK
  <2>2. heir[s] = None /\ \A f \in {mem[s], file[s]} : f # None => Keeps(f, inherited[s])
    BY <2>1 DEF SessionOK, InheritOK
  <2>3. QED
    BY <1>1, <1>4, <2>2
<1>13. HeirOK(s)'
  <2>1. SUFFICES ASSUME heir'[s] # None PROVE HeirOK(s)'
    BY DEF HeirOK
  <2>2. kind # "adopt" /\ heir'[s] = heir[s] /\ heir[s] # None /\ foreign' = foreign
    BY <1>4, <2>1
  <2>3. Ahead(heir[s].fold, Tail(queue[s]), log[s])
    BY <1>2, <1>3, <2>2, TailAhead DEF SessionOK, HeirOK
  <2>4. Blank(mem[s])
    BY <1>3, <2>2 DEF SessionOK, HeirOK, Saving, First
  <2>5. QED
    BY <1>1, <2>2, <2>3, <2>4 DEF SessionOK, HeirOK
<1>14. Absent(s)'
  BY <1>1, <1>3 DEF SessionOK, Absent
<1>15. QED
  BY <1>6, <1>7, <1>8, <1>9, <1>10, <1>11, <1>12, <1>13, <1>14 DEF SessionOK

-----------------------------------------------------------------------------
(* Sessions: the work on the fold *)

\* A session that has work and is about to do it.
Working(s) ==
  /\ stage[s] = "ready" /\ queue[s] # <<>>
  /\ UNCHANGED <<disk, file, todo, goal, heir, harness, count, inherited>>
  /\ foreign[s] \subseteq foreign'[s]

LEMMA WorkDone ==
  ASSUME TypeOK, NEW s \in Session, SessionOK(s), Working(s), Done(s), mem' = mem,
         Head(queue[s]).kind \notin {"start", "intent", "adopt"}
  PROVE  SessionOK(s)'
<1>1. queue'[s] = Tail(queue[s]) /\ stage'[s] = "ready"
  BY DEF Done, TypeOK
<1>2. Elsewhere(s)
  BY DEF Working, Elsewhere
<1>3. QED
  BY <1>1, <1>2, DoneOK DEF Working, harness

\* A fold that grew out of the one that was read.
LEMMA WorkPersist ==
  ASSUME TypeOK, NEW s \in Session, SessionOK(s), Working(s), NEW g \in Fold,
         Persist(s, g), queue' = queue, Head(queue[s]).kind \notin {"rewind", "adopt"},
         g.session = s, FoldOK(g, log[s]), Honest(g, disk, foreign'[s]),
         Ahead(g, queue[s], log[s]), MayStop \/ OpenFits(g.open, queue[s], log[s]),
         Keeps(g, Hydrated(s).baseline), heir[s] # None => Blank(g),
         \A i \in DOMAIN g.points :
           \/ i \in DOMAIN Hydrated(s).points /\ g.points[i].was = Hydrated(s).points[i].was
           \/ g.points[i].was = disk,
         Head(queue[s]).kind \notin Closing => g.open = Hydrated(s).open,
         Head(queue[s]).kind = "start" => g.open = Head(queue[s]).turn,
         Head(queue[s]).kind = "intent" => g.baseline[tool[s].path] # Unseen
  PROVE  SessionOK(s)'
<1>1. mem'[s] = g /\ stage'[s] = "saving"
  BY DEF Persist, TypeOK
<1>2. ASSUME "blob" \notin Torn, file[s] # None, NEW p \in Path \ foreign'[s],
             file[s].baseline[p] = Unseen, NEW i \in DOMAIN g.points
      PROVE  g.points[i].was[p] = disk[p]
  <2>1. ~Saving(s, "adopt") /\ p \in Path \ foreign[s]
    BY <1>2 DEF Working, Saving
  <2>2. CASE g.points[i].was = disk
    BY <2>2
  <2>3. CASE i \in DOMAIN Hydrated(s).points /\ g.points[i].was = Hydrated(s).points[i].was
    BY <1>2, <2>1, <2>3, HydratedUnsaved
  <2>4. QED
    BY <1>2, <2>2, <2>3
<1>3. /\ stage[s] = "ready" /\ queue[s] # <<>> /\ file'[s] = file[s] /\ queue'[s] = queue[s]
      /\ goal'[s] = goal[s] /\ heir'[s] = heir[s] /\ log'[s] = log[s] /\ live' = live
      /\ running'[s] = running[s] /\ tool'[s] = tool[s]
      /\ inherited'[s] = inherited[s] /\ disk' = disk /\ foreign[s] \subseteq foreign'[s]
  BY DEF Working, harness
<1>4. QED
  BY <1>1, <1>2, <1>3, PersistOK

LEMMA HydratedFits ==
  ASSUME TypeOK, NEW s \in Session, SessionOK(s)
  PROVE  MayStop \/ OpenFits(Hydrated(s).open, queue[s], log[s])
  BY HydratedOK DEF SessionOK, LogOK

LEMMA WorkHydrated ==
  ASSUME TypeOK, NEW s \in Session, SessionOK(s), Working(s), Persist(s, Hydrated(s)), queue' = queue,
         Head(queue[s]).kind \notin {"rewind", "adopt", "start", "intent"}
  PROVE  SessionOK(s)'
<1> DEFINE g == Hydrated(s)
<1>1. /\ g \in Fold /\ g.session = s /\ FoldOK(g, log[s]) /\ Honest(g, disk, foreign[s])
      /\ Ahead(g, queue[s], log[s])
  BY HydratedOK
<1>2. MayStop \/ OpenFits(g.open, queue[s], log[s])
  BY HydratedFits
<1>3. heir[s] # None => Blank(g)
  BY HydratedBlank DEF Working, Saving
<1>4. Keeps(g, Hydrated(s).baseline)
  BY DEF Keeps
<1>5. Honest(g, disk, foreign'[s])
  BY <1>1, HonestMore DEF Working
<1> HIDE DEF g
<1>6. Persist(s, g) /\ g = Hydrated(s)
  BY DEF g
<1>7. QED
  BY <1>1, <1>2, <1>3, <1>4, <1>5, <1>6, WorkPersist

LEMMA BlankFacts ==
  ASSUME NEW f \in Fold
  PROVE  Blank(f) <=> \A p \in Path : f.baseline[p] = Unseen
<1>1. f.baseline \in [Path -> Content \cup {Unseen}]
  BY FoldFields DEF Tree
<1>2. QED
  BY <1>1 DEF Blank, Nowhere

\* Nothing is looked for when nothing was touched.
LEMMA BlankMoved ==
  ASSUME NEW f \in Fold, NEW events, FoldOK(f, events), Blank(f), NEW found \in Moved(f)
  PROVE  found = {}
<1>1. Tracked(f) = {}
  BY BlankFacts, TrackedFacts
<1>2. Wanted(f) = {}
  BY <1>1 DEF Wanted
<1>3. found \in SUBSET Path /\ \A p \in found : disk[p] \in Wanted(f)
  BY DEF Moved
<1>4. QED
  BY <1>2, <1>3

LEMMA BlankConsidered ==
  ASSUME NEW f \in Fold, NEW events \in Seq(Turn), FoldOK(f, events), Blank(f),
         Considered(f, {}) \in Fold
  PROVE  Blank(Considered(f, {}))
<1>1. \A p \in Path : Considered(f, {}).baseline[p] = Unseen
  BY ConsideredBaseline, BlankFacts
<1>2. QED
  BY <1>1, BlankFacts

LEMMA MovedIsPaths ==
  ASSUME NEW f, NEW found \in Moved(f)
  PROVE  found \in SUBSET Path
  BY DEF Moved

LEMMA BeginsFacts ==
  ASSUME TypeOK, NEW s \in Session, NEW kind, Begins(s, kind)
  PROVE  /\ stage[s] = "ready" /\ queue[s] # <<>> /\ Head(queue[s]).kind = kind
         /\ queue[s] \in Seq(Task) /\ Head(queue[s]) = queue[s][1] /\ 1 \in DOMAIN queue[s]
         /\ queue[s][1] \in Task
<1>1. stage[s] = "ready" /\ queue[s] # <<>> /\ Head(queue[s]).kind = kind /\ queue[s] \in Seq(Task)
  BY DEF Begins, TypeOK
<1>2. QED
  BY <1>1, TailFacts

LEMMA AttachSession ==
  ASSUME TypeOK, NEW s \in Session, SessionOK(s), DoAttach(s)
  PROVE  SessionOK(s)'
<1>1. Begins(s, "attach")
  BY DEF DoAttach
<1>2. Head(queue[s]).kind = "attach"
  BY <1>1, BeginsFacts
<1>3. Working(s)
  BY <1>1, BeginsFacts DEF DoAttach, Working, ghosts
<1>4. \/ Done(s) /\ mem' = mem
      \/ Persist(s, Hydrated(s)) /\ queue' = queue
  BY DEF DoAttach
<1>5. QED
  BY <1>2, <1>3, <1>4, WorkDone, WorkHydrated

LEMMA StartSession ==
  ASSUME TypeOK, NEW s \in Session, SessionOK(s), DoStart(s)
  PROVE  SessionOK(s)'
<1> DEFINE f == Hydrated(s)
<1> DEFINE k == Head(queue[s]).turn
<1> DEFINE g == [f EXCEPT !.open = k]
<1>1. Begins(s, "start")
  BY DEF DoStart
<1>2. /\ Head(queue[s]).kind = "start" /\ Head(queue[s]) = queue[s][1] /\ 1 \in DOMAIN queue[s]
      /\ queue[s] \in Seq(Task) /\ queue[s] # <<>>
  BY <1>1, BeginsFacts
<1>3. Working(s)
  BY <1>1, BeginsFacts DEF DoStart, Working, ghosts
<1>4. log[s] \in Seq(Turn) /\ QueueOK(queue[s], log[s])
      /\ (MayStop \/ OpenFits(OpenOf(s), queue[s], log[s]))
  BY DEF TypeOK, SessionOK, LogOK
<1>5. /\ f \in Fold /\ f.session = s /\ FoldOK(f, log[s]) /\ Honest(f, disk, foreign[s])
      /\ Ahead(f, queue[s], log[s])
  BY HydratedOK
<1>6. k \in Turn /\ Reached(log[s], Len(log[s]), k)
  BY <1>2, <1>4 DEF QueueOK
<1>7. Timed(queue[s][1]) /\ Rank(queue[s][1], log[s]) = k
  BY <1>2 DEF Timed, Rank
<1>8. \A i \in DOMAIN f.points : f.points[i].turn <= k
  BY <1>2, <1>5, <1>7 DEF Ahead
<1>9. heir[s] # None => Blank(f)
  BY <1>3, HydratedBlank DEF Working, Saving
<1>10. Persist(s, g) /\ queue' = queue
  BY DEF DoStart
<1> HIDE DEF k, f
<1>11. /\ g \in Fold /\ g.session = f.session /\ g.open = k /\ SameTimes(f, g)
       /\ g.baseline = f.baseline /\ g.points = f.points
       /\ FoldOK(g, log[s])
  BY <1>4, <1>5, <1>6, <1>8, OpenOK
<1>12. Honest(g, disk, foreign[s])
  BY <1>4, <1>5, <1>6, <1>8, OpenOK
<1> HIDE DEF g
<1>13. Honest(g, disk, foreign'[s])
  BY <1>3, <1>12, HonestMore DEF Working
<1>14. Ahead(g, queue[s], log[s])
  <2>1. \A j \in DOMAIN queue[s] : Timed(queue[s][j]) => k <= Rank(queue[s][j], log[s])
    <3>1. SUFFICES ASSUME NEW j \in DOMAIN queue[s], Timed(queue[s][j])
                   PROVE  k <= Rank(queue[s][j], log[s])
      OBVIOUS
    <3>2. CASE j = 1
      BY <1>6, <1>7, <3>2, TurnsAreNats
    <3>3. CASE j # 1
      <4>1. 1 < j
        BY <1>2, <3>1, <3>3, TailFacts
      <4>2. QED
        BY <1>2, <1>4, <1>7, <3>1, <4>1 DEF QueueOK
    <3>4. QED
      BY <3>2, <3>3
  <2>2. QED
    BY <1>5, <1>11, <2>1 DEF Ahead
<1>15. MayStop \/ OpenFits(g.open, queue[s], log[s])
  <2>1. g.open = queue[s][1].turn
    BY <1>2, <1>11 DEF k
  <2>2. QED
    BY <1>2, <1>4, <2>1, OpenFitsStart
<1>16. Keeps(g, Hydrated(s).baseline) /\ (heir[s] # None => Blank(g))
  BY <1>9, <1>11 DEF Keeps, Blank, f
<1>17. g.session = s /\ g.open = Head(queue[s]).turn
  BY <1>5, <1>11 DEF k
<1>18. \A i \in DOMAIN g.points : i \in DOMAIN Hydrated(s).points /\ g.points[i].was = Hydrated(s).points[i].was
  BY <1>11 DEF f
<1>19. Head(queue[s]).kind = "start" /\ "start" \in Closing
  BY <1>2 DEF Closing
<1>20. QED
  BY <1>3, <1>10, <1>11, <1>13, <1>14, <1>15, <1>16, <1>17, <1>18, <1>19, WorkPersist

LEMMA IntentSession ==
  ASSUME TypeOK, NEW s \in Session, SessionOK(s), DoIntent(s)
  PROVE  SessionOK(s)'
<1> DEFINE f == Hydrated(s)
<1> DEFINE p == tool[s].path
<1> DEFINE g == Intended(f, p)
<1>1. Begins(s, "intent")
  BY DEF DoIntent
<1>2. /\ Head(queue[s]).kind = "intent" /\ queue[s] # <<>> /\ queue[s] \in Seq(Task)
  BY <1>1, BeginsFacts
<1>3. Working(s)
  BY <1>1, BeginsFacts DEF DoIntent, Working, ghosts
<1>4. tool[s] # None /\ running[s]
  BY <1>2, FirstIntent DEF SessionOK
<1>5. p \in Path /\ heir[s] = None /\ disk \in [Path -> Content] /\ log[s] \in Seq(Turn)
  <2>1. tool[s] \in Call
    BY <1>4 DEF TypeOK
  <2>2. QED
    BY <1>4, <2>1 DEF TypeOK, Call, SessionOK, TurnOK
<1>6. /\ f \in Fold /\ f.session = s /\ FoldOK(f, log[s]) /\ Honest(f, disk, foreign[s])
      /\ Ahead(f, queue[s], log[s])
  BY HydratedOK
<1>7. Persist(s, g) /\ queue' = queue
  BY DEF DoIntent, Intended
<1>8. MayStop \/ OpenFits(f.open, queue[s], log[s])
  BY HydratedFits
<1> HIDE DEF f, p
<1>9. /\ g \in Fold /\ g.session = f.session /\ g.open = f.open /\ SameTimes(f, g)
      /\ FoldOK(g, log[s]) /\ Keeps(g, f.baseline) /\ g.baseline[p] # Unseen
  BY <1>5, <1>6, IntendedOK
<1>10. Honest(g, disk, foreign[s])
  BY <1>5, <1>6, IntendedOK
<1>11. Ahead(g, queue[s], log[s])
  BY <1>2, <1>5, <1>6, IntendedOK
<1> HIDE DEF g
<1>12. Honest(g, disk, foreign'[s])
  BY <1>3, <1>10, HonestMore DEF Working
<1>13. \A i \in DOMAIN g.points : i \in DOMAIN Hydrated(s).points /\ g.points[i].was = Hydrated(s).points[i].was
  BY <1>9 DEF f, SameTimes
<1>14. /\ g.session = s /\ Keeps(g, Hydrated(s).baseline) /\ g.open = Hydrated(s).open
       /\ g.baseline[tool[s].path] # Unseen /\ (MayStop \/ OpenFits(g.open, queue[s], log[s]))
  BY <1>6, <1>8, <1>9 DEF f, p
<1>15. QED
  BY <1>2, <1>3, <1>5, <1>7, <1>9, <1>11, <1>12, <1>13, <1>14, WorkPersist

\* The turn and the place fit the log and what waits.
Fits(s, turn, seq) ==
  /\ Reached(log[s], seq, turn)
  /\ \A i \in DOMAIN Hydrated(s).points : Hydrated(s).points[i].turn <= turn
  /\ \A j \in DOMAIN queue[s] : Timed(queue[s][j]) => turn <= Rank(queue[s][j], log[s])
  /\ \/ MayStop
     \/ /\ \A i \in DOMAIN Hydrated(s).points : Hydrated(s).points[i].seq <= seq
        /\ seq <= Len(log[s]) /\ \A n \in DOMAIN log[s] : n <= seq => log[s][n] <= turn
        /\ \A j \in DOMAIN queue[s] : queue[s][j].kind = "end" => seq <= queue[s][j].seq

LEMMA FinishedFields ==
  ASSUME NEW f, NEW turn, NEW seq, NEW found, ~HasTurn(f, turn), Considered(f, found) \in Fold
  PROVE  /\ Finished(f, turn, seq, found).session = Considered(f, found).session
         /\ Finished(f, turn, seq, found).open = None
         /\ Finished(f, turn, seq, found).baseline = Considered(f, found).baseline
<1> DEFINE c == Considered(f, found)
<1> HIDE DEF c
<1>1. Finished(f, turn, seq, found)
        = [c EXCEPT !.open = None, !.points = Append(@, Snapshot(f, turn, seq, found)),
                    !.cursor = Larger(@, seq)]
  BY DEF Finished, c
<1>2. c \in Fold
  BY DEF c
<1>3. QED
  BY <1>1, <1>2 DEF Fold, c

LEMMA FinishSession ==
  ASSUME TypeOK, NEW s \in Session, SessionOK(s), Working(s), Head(queue[s]).kind \in {"end", "idle"},
         NEW turn \in Turn \cup {None}, NEW seq \in Nat, Finish(s, turn, seq),
         turn # None => Fits(s, turn, seq)
  PROVE  SessionOK(s)'
<1> DEFINE f == Hydrated(s)
<1>1. /\ f \in Fold /\ f.session = s /\ FoldOK(f, log[s]) /\ Honest(f, disk, foreign[s])
      /\ Ahead(f, queue[s], log[s])
  BY HydratedOK
<1>2. /\ disk \in [Path -> Content] /\ log[s] \in Seq(Turn) /\ queue[s] \in Seq(Task)
      /\ foreign \in [Session -> SUBSET Path]
  BY DEF TypeOK
<1>3. heir[s] # None => Blank(f)
  BY HydratedBlank DEF Working, Saving
<1>4. MayStop \/ OpenFits(None, queue[s], log[s])
  BY HydratedFits, OpenFitsNone
<1>5. Head(queue[s]).kind \in Closing
  BY DEF Closing
<1>6. CASE turn = None
  <2>1. \/ Done(s) /\ mem' = mem
        \/ Persist(s, Hydrated(s)) /\ queue' = queue
    BY <1>6 DEF Finish
  <2>2. QED
    BY <2>1, WorkDone, WorkHydrated
<1>7. CASE turn # None
  <2>1. PICK found \in Moved(f) :
             /\ Persist(s, Finished(f, turn, seq, found))
             /\ IF HasTurn(f, turn) THEN UNCHANGED <<blobs, foreign>>
                ELSE blobs' = SnapshotBlobs(f, found) /\ Took(s, found)
             /\ UNCHANGED queue
    BY <1>7 DEF Finish
  <2> DEFINE g == Finished(f, turn, seq, found)
  <2>2. found \in SUBSET Path
    BY MovedIsPaths
  <2>3. turn \in Turn /\ Fits(s, turn, seq)
    BY <1>7
  <2>4. Persist(s, g) /\ queue' = queue
    BY <2>1
  <2>5. CASE HasTurn(f, turn)
    <3>1. g = [f EXCEPT !.open = None]
      BY <2>5 DEF Finished
    <3> HIDE DEF f
    <3> DEFINE h == [f EXCEPT !.open = None]
    <3>2. /\ h \in Fold /\ h.session = f.session /\ h.open = None /\ SameTimes(f, h)
          /\ h.baseline = f.baseline /\ h.points = f.points /\ FoldOK(h, log[s])
      BY <1>1, <1>2, ClosedOK
    <3>3. Honest([f EXCEPT !.open = None], disk, foreign[s])
      BY <1>1, <1>2, ClosedOK
    <3>4. Honest(g, disk, foreign'[s])
      BY <3>1, <3>3, HonestMore DEF Working
    <3>5. Ahead(g, queue[s], log[s])
      BY <1>1, <3>1, <3>2 DEF Ahead
    <3> HIDE DEF g
    <3>6. /\ g \in Fold /\ g.session = f.session /\ g.open = None
          /\ g.baseline = f.baseline /\ g.points = f.points /\ FoldOK(g, log[s])
      BY <3>1, <3>2
    <3>7. /\ Keeps(g, Hydrated(s).baseline) /\ (heir[s] # None => Blank(g))
          /\ \A i \in DOMAIN g.points : i \in DOMAIN Hydrated(s).points
                                        /\ g.points[i].was = Hydrated(s).points[i].was
      BY <1>3, <3>6 DEF f, Keeps, Blank
    <3>8. QED
      BY <1>1, <1>4, <1>5, <2>4, <3>4, <3>5, <3>6, <3>7, WorkPersist
  <2>6. CASE ~HasTurn(f, turn)
    <3>1. foreign'[s] = foreign[s] \cup found
      BY <1>2, <2>1, <2>6 DEF Took
    <3>2. /\ Reached(log[s], seq, turn)
          /\ \A i \in DOMAIN f.points : f.points[i].turn <= turn
          /\ \A j \in DOMAIN queue[s] : Timed(queue[s][j]) => turn <= Rank(queue[s][j], log[s])
      BY <2>3 DEF Fits
    <3>3. \/ MayStop
          \/ /\ \A i \in DOMAIN f.points : f.points[i].seq <= seq
             /\ seq <= Len(log[s]) /\ \A n \in DOMAIN log[s] : n <= seq => log[s][n] <= turn
      BY <2>3 DEF Fits
    <3>4. MayStop \/ \A j \in DOMAIN queue[s] : queue[s][j].kind = "end" => seq <= queue[s][j].seq
      BY <2>3 DEF Fits
    <3> HIDE DEF f
    <3>c. FoldOK(g, log[s])
      BY <1>1, <1>2, <2>2, <2>3, <2>6, <3>2, <3>3, FinishedOK
    <3>d. Keeps(g, f.baseline)
      BY <1>1, <1>2, <2>2, <2>3, <2>6, <3>2, <3>3, FinishedOK
    <3>e. g \in Fold
      BY <1>1, <1>2, <2>2, <2>3, <2>6, <3>2, <3>3, FinishedOK
    <3>f. Considered(f, found) \in Fold /\ Considered(f, found).session = f.session
      BY <1>1, <1>2, <2>2, ConsideredOK
    <3>a. g.session = f.session /\ g.open = None /\ g.baseline = Considered(f, found).baseline
      BY <2>6, <3>f, FinishedFields
    <3>b. \A i \in DOMAIN g.points :
            \/ i \in DOMAIN f.points /\ g.points[i].was = f.points[i].was
            \/ g.points[i].was = disk
      BY <1>1, <1>2, <2>2, <2>3, <2>6, <3>2, <3>3, FinishedOK
    <3>5. /\ g \in Fold /\ g.session = f.session /\ g.open = None
          /\ FoldOK(g, log[s]) /\ Keeps(g, f.baseline)
          /\ \A i \in DOMAIN g.points :
               \/ i \in DOMAIN f.points /\ g.points[i].was = f.points[i].was
               \/ g.points[i].was = disk
      BY <3>a, <3>b, <3>c, <3>d, <3>e
    <3>6. Honest(g, disk, foreign[s] \cup found)
      BY <1>1, <1>2, <2>2, <2>3, <2>6, <3>2, <3>3, FinishedOK
    <3>7. Ahead(g, queue[s], log[s])
      <4>1. \A q \in Seq(Task) :
                  /\ Ahead(f, q, log[s])
                  /\ \A j \in DOMAIN q : Timed(q[j]) => turn <= Rank(q[j], log[s])
                  /\ MayStop \/ \A j \in DOMAIN q : q[j].kind = "end" => seq <= q[j].seq
                  => Ahead(g, q, log[s])
        BY <1>1, <1>2, <2>2, <2>3, <2>6, <3>2, <3>3, FinishedOK
      <4>2. QED
        BY <1>1, <1>2, <3>2, <3>4, <4>1
    <3>8. heir[s] # None => Blank(g)
      <4>1. SUFFICES ASSUME heir[s] # None PROVE Blank(g)
        OBVIOUS
      <4>2. found = {}
        BY <1>1, <1>2, <1>3, <4>1, <2>1, BlankMoved DEF f
      <4>3. Considered(f, found) \in Fold /\ Blank(Considered(f, found))
        <5>1. Considered(f, found) \in Fold
          BY <1>1, <1>2, <2>2, ConsideredOK
        <5>2. QED
          BY <1>1, <1>2, <1>3, <4>1, <4>2, <5>1, BlankConsidered
      <4>4. QED
        BY <3>a, <4>3 DEF Blank
    <3> HIDE DEF g
    <3>9. /\ g.session = s /\ Keeps(g, Hydrated(s).baseline) /\ Honest(g, disk, foreign'[s])
          /\ (MayStop \/ OpenFits(g.open, queue[s], log[s]))
          /\ \A i \in DOMAIN g.points :
               \/ i \in DOMAIN Hydrated(s).points /\ g.points[i].was = Hydrated(s).points[i].was
               \/ g.points[i].was = disk
      BY <1>1, <1>4, <3>1, <3>5, <3>6 DEF f
    <3>10. QED
      BY <1>5, <2>4, <3>5, <3>7, <3>8, <3>9, WorkPersist
  <2>7. QED
    BY <2>5, <2>6
<1>8. QED
  BY <1>6, <1>7

LEMMA OpenIsFitting ==
  ASSUME TypeOK, NEW s \in Session, SessionOK(s), Hydrated(s).open # None
  PROVE  /\ Hydrated(s).open \in Turn
         /\ Reached(log[s], Len(log[s]), Hydrated(s).open)
         /\ \A i \in DOMAIN Hydrated(s).points : Hydrated(s).points[i].turn <= Hydrated(s).open
         /\ \A j \in DOMAIN queue[s] : Timed(queue[s][j]) => Hydrated(s).open <= Rank(queue[s][j], log[s])
<1>1. /\ Hydrated(s) \in Fold /\ FoldOK(Hydrated(s), log[s]) /\ Ahead(Hydrated(s), queue[s], log[s])
  BY HydratedOK
<1>2. Hydrated(s).open \in Turn
  BY <1>1, FoldFields
<1>3. QED
  BY <1>1, <1>2 DEF FoldOK, OnLog, Ahead

LEMMA EndSession ==
  ASSUME TypeOK, NEW s \in Session, SessionOK(s), DoEnd(s)
  PROVE  SessionOK(s)'
<1> DEFINE f == Hydrated(s)
<1> DEFINE task == queue[s][1]
<1>1. Begins(s, "end")
  BY DEF DoEnd
<1>2. /\ Head(queue[s]).kind = "end" /\ Head(queue[s]) = task /\ 1 \in DOMAIN queue[s]
      /\ queue[s] \in Seq(Task) /\ queue[s] # <<>>
  BY <1>1, BeginsFacts
<1>3. foreign[s] \subseteq foreign'[s]
  <2>1. \/ foreign' = foreign
        \/ \E found : foreign' = [foreign EXCEPT ![s] = foreign[s] \cup found]
    BY Zenon DEF DoEnd, Finish, Took
  <2>2. QED
    BY <2>1 DEF TypeOK
<1>4. Working(s)
  BY <1>1, <1>3, BeginsFacts DEF DoEnd, Working
<1>5. log[s] \in Seq(Turn) /\ QueueOK(queue[s], log[s])
      /\ (MayStop \/ QueueAtEnds(queue[s], log[s]))
  BY DEF TypeOK, SessionOK, LogOK
<1>6. /\ f \in Fold /\ FoldOK(f, log[s]) /\ Ahead(f, queue[s], log[s])
      /\ (MayStop \/ OpenFits(f.open, queue[s], log[s]))
  BY HydratedOK, HydratedFits
<1>7. task.seq \in Nat /\ task.turn \in Turn \cup {None} /\ f.open \in Turn \cup {None}
  BY <1>2, <1>6, TaskFields, FoldFields
<1>8. \E turn \in Turn \cup {None}, seq \in Nat :
        /\ turn = (IF task.turn # None THEN task.turn ELSE f.open) /\ seq = task.seq
        /\ Finish(s, turn, seq)
  BY <1>2, <1>7 DEF DoEnd
<1>9. PICK turn \in Turn \cup {None}, seq \in Nat :
        /\ turn = (IF task.turn # None THEN task.turn ELSE f.open) /\ seq = task.seq
        /\ Finish(s, turn, seq)
  BY <1>8
<1>10. /\ seq \in DOMAIN log[s] /\ task.turn \in {None, log[s][seq]} /\ log[s][seq] \in Nat
       /\ seq <= Len(log[s])
  BY <1>2, <1>5, <1>9, LogNats DEF QueueOK
<1>11. Timed(task) /\ Rank(task, log[s]) = log[s][seq]
  BY <1>2, <1>9 DEF Timed, Rank
<1>12. turn = log[s][seq] => Fits(s, turn, seq)
  <2>1. SUFFICES ASSUME turn = log[s][seq] PROVE Fits(s, turn, seq)
    OBVIOUS
  <2>2. Reached(log[s], seq, turn)
    BY <1>10, <2>1 DEF Reached
  <2>3. \A i \in DOMAIN f.points : f.points[i].turn <= turn
    BY <1>2, <1>6, <1>11, <2>1 DEF Ahead
  <2>4. ASSUME NEW j \in DOMAIN queue[s], Timed(queue[s][j])
        PROVE  turn <= Rank(queue[s][j], log[s])
    <3>1. CASE j = 1
      BY <1>10, <1>11, <2>1, <3>1
    <3>2. CASE j # 1
      <4>1. 1 < j
        BY <1>2, <2>4, <3>2, TailFacts
      <4>2. QED
        BY <1>2, <1>5, <1>11, <2>1, <2>4, <4>1 DEF QueueOK
    <3>3. QED
      BY <3>1, <3>2
  <2>5. ASSUME ~MayStop
        PROVE  /\ \A i \in DOMAIN f.points : f.points[i].seq <= seq
               /\ \A n \in DOMAIN log[s] : n <= seq => log[s][n] <= turn
               /\ \A j \in DOMAIN queue[s] : queue[s][j].kind = "end" => seq <= queue[s][j].seq
    <3>1. \A i \in DOMAIN f.points : f.points[i].seq <= seq
      BY <1>2, <1>6, <1>9, <2>5 DEF Ahead
    <3>2. \A n \in DOMAIN log[s] : n <= seq => log[s][n] <= turn
      BY <1>2, <1>5, <1>9, <2>1, <2>5 DEF QueueAtEnds
    <3>3. ASSUME NEW j \in DOMAIN queue[s], queue[s][j].kind = "end" PROVE seq <= queue[s][j].seq
      <4>1. CASE j = 1
        BY <1>9, <4>1
      <4>2. CASE j # 1
        <5>1. 1 < j
          BY <1>2, <3>3, <4>2, TailFacts
        <5>2. QED
          BY <1>2, <1>5, <1>9, <2>5, <3>3, <5>1 DEF QueueAtEnds
      <4>3. QED
        BY <4>1, <4>2
    <3>4. QED
      BY <3>1, <3>2, <3>3
  <2>6. QED
    BY <1>10, <2>2, <2>3, <2>4, <2>5 DEF Fits
<1>13. turn # None => Fits(s, turn, seq)
  <2>1. SUFFICES ASSUME turn # None PROVE Fits(s, turn, seq)
    OBVIOUS
  <2>2. CASE task.turn # None
    BY <1>9, <1>10, <1>12, <2>2
  <2>3. CASE task.turn = None
    <3>1. turn = f.open
      BY <1>9, <2>3
    <3>2. CASE ~MayStop
      <4>1. f.open \in {None, log[s][seq]}
        <5>1. OpenFits(f.open, queue[s], log[s])
          BY <1>6, <3>2
        <5>2. \A i \in DOMAIN queue[s] : ~ (i < 1)
          BY <1>2, TaskFields
        <5>3. QED
          BY <1>2, <1>9, <5>1, <5>2 DEF OpenFits
      <4>2. QED
        BY <1>12, <2>1, <3>1, <4>1
    <3>3. CASE MayStop
      <4>1. /\ \A i \in DOMAIN f.points : f.points[i].turn <= turn
            /\ \A j \in DOMAIN queue[s] : Timed(queue[s][j]) => turn <= Rank(queue[s][j], log[s])
        BY <2>1, <3>1, OpenIsFitting
      <4>2. turn <= log[s][seq]
        BY <1>2, <1>11, <4>1
      <4>3. Reached(log[s], seq, turn)
        BY <1>9, <1>10, <4>2 DEF Reached
      <4>4. QED
        BY <3>3, <4>1, <4>3 DEF Fits
    <3>4. QED
      BY <3>2, <3>3
  <2>4. QED
    BY <2>2, <2>3
<1>14. QED
  BY <1>2, <1>4, <1>9, <1>13, FinishSession

LEMMA IdleSession ==
  ASSUME TypeOK, NEW s \in Session, SessionOK(s), DoIdle(s)
  PROVE  SessionOK(s)'
<1> DEFINE f == Hydrated(s)
<1>1. Begins(s, "idle")
  BY DEF DoIdle
<1>2. /\ Head(queue[s]).kind = "idle" /\ Head(queue[s]) = queue[s][1] /\ 1 \in DOMAIN queue[s]
      /\ queue[s] \in Seq(Task)
  BY <1>1, BeginsFacts
<1>3. foreign[s] \subseteq foreign'[s]
  <2>1. \/ foreign' = foreign
        \/ \E found : foreign' = [foreign EXCEPT ![s] = foreign[s] \cup found]
    BY Zenon DEF DoIdle, Finish, Took
  <2>2. QED
    BY <2>1 DEF TypeOK
<1>4. Working(s)
  BY <1>1, <1>3, BeginsFacts DEF DoIdle, Working
<1>5. MayStop
  BY <1>2 DEF SessionOK, LogOK, QueueAtEnds
<1>6. f \in Fold /\ f.open \in Turn \cup {None} /\ Len(log[s]) \in Nat
  BY HydratedOK, FoldFields DEF TypeOK
<1>7. \E turn \in Turn \cup {None}, seq \in Nat : turn = f.open /\ seq = Len(log[s]) /\ Finish(s, turn, seq)
  BY <1>6 DEF DoIdle, IdleTurn
<1>8. PICK turn \in Turn \cup {None}, seq \in Nat : turn = f.open /\ seq = Len(log[s]) /\ Finish(s, turn, seq)
  BY <1>7
<1>9. turn # None => Fits(s, turn, seq)
  BY <1>5, <1>8, OpenIsFitting DEF Fits
<1>10. QED
  BY <1>2, <1>4, <1>8, <1>9, FinishSession

LEMMA ListSession ==
  ASSUME TypeOK, NEW s \in Session, SessionOK(s), DoList(s)
  PROVE  SessionOK(s)'
<1> DEFINE f == Hydrated(s)
<1>1. Begins(s, "list")
  BY DEF DoList
<1>2. Head(queue[s]).kind = "list" /\ queue[s] \in Seq(Task)
  BY <1>1, BeginsFacts
<1>3. foreign[s] \subseteq foreign'[s]
  <2>1. \/ foreign' = foreign
        \/ \E found : foreign' = [foreign EXCEPT ![s] = foreign[s] \cup found]
    BY Zenon DEF DoList, Took
  <2>2. QED
    BY <2>1 DEF TypeOK
<1>4. Working(s)
  BY <1>1, <1>3, BeginsFacts DEF DoList, Working
<1>5. CASE Done(s) /\ mem' = mem
  BY <1>2, <1>4, <1>5, WorkDone
<1>6. CASE Persist(s, f) /\ queue' = queue
  BY <1>2, <1>4, <1>6, WorkHydrated
<1>7. ASSUME NEW found \in Moved(f), Took(s, found), Persist(s, Considered(f, found)), queue' = queue
      PROVE  SessionOK(s)'
  <2> DEFINE g == Considered(f, found)
  <2>1. /\ f \in Fold /\ f.session = s /\ FoldOK(f, log[s]) /\ Honest(f, disk, foreign[s])
        /\ Ahead(f, queue[s], log[s])
    BY HydratedOK
  <2>2. /\ disk \in [Path -> Content] /\ log[s] \in Seq(Turn) /\ queue[s] \in Seq(Task)
        /\ foreign \in [Session -> SUBSET Path]
    BY DEF TypeOK
  <2>3. heir[s] # None => Blank(f)
    BY <1>4, HydratedBlank DEF Working, Saving
  <2>4. MayStop \/ OpenFits(f.open, queue[s], log[s])
    BY HydratedFits
  <2>5. found \in SUBSET Path
    BY <1>7, MovedIsPaths
  <2>6. foreign'[s] = foreign[s] \cup found
    BY <1>7, <2>2 DEF Took
  <2> HIDE DEF f
  <2>7. /\ g \in Fold /\ g.session = f.session /\ g.open = f.open /\ SameTimes(f, g)
        /\ FoldOK(g, log[s]) /\ Keeps(g, f.baseline)
    BY <2>1, <2>2, <2>5, ConsideredOK
  <2>8. Honest(g, disk, foreign[s] \cup found)
    BY <2>1, <2>2, <2>5, ConsideredOK
  <2>9. Ahead(g, queue[s], log[s])
    BY <2>1, <2>2, <2>5, ConsideredOK
  <2>10. heir[s] # None => Blank(g)
    <3>1. SUFFICES ASSUME heir[s] # None PROVE Blank(g)
      OBVIOUS
    <3>2. found = {}
      BY <1>7, <2>1, <2>2, <2>3, <3>1, BlankMoved
    <3>3. QED
      BY <2>1, <2>2, <2>3, <2>7, <3>1, <3>2, BlankConsidered
  <2>11. Persist(s, g)
    BY <1>7 DEF f
  <2> HIDE DEF g
  <2>12. /\ g.session = s /\ g.open = Hydrated(s).open /\ Keeps(g, Hydrated(s).baseline)
         /\ Honest(g, disk, foreign'[s]) /\ (MayStop \/ OpenFits(g.open, queue[s], log[s]))
         /\ \A i \in DOMAIN g.points : i \in DOMAIN Hydrated(s).points
                                       /\ g.points[i].was = Hydrated(s).points[i].was
    BY <2>1, <2>4, <2>6, <2>7, <2>8 DEF f, SameTimes
  <2>13. QED
    BY <1>2, <1>4, <1>7, <2>7, <2>9, <2>10, <2>11, <2>12, WorkPersist
<1>8. \/ Done(s) /\ mem' = mem
      \/ Persist(s, f) /\ queue' = queue
      \/ \E found \in Moved(f) : Took(s, found) /\ Persist(s, Considered(f, found)) /\ queue' = queue
  BY DEF DoList
<1>9. QED
  BY <1>5, <1>6, <1>7, <1>8

LEMMA AdoptSession ==
  ASSUME TypeOK, NEW s \in Session, SessionOK(s), DoAdopt(s), heir[s] # None
  PROVE  SessionOK(s)'
<1> DEFINE g == heir[s].fold
<1>1. Begins(s, "adopt")
  BY DEF DoAdopt
<1>2. /\ Head(queue[s]).kind = "adopt" /\ stage[s] = "ready" /\ queue[s] # <<>>
  BY <1>1, BeginsFacts
<1>3. heir[s] \in Heir /\ g \in Fold
  BY DEF TypeOK, Heir
<1>4. /\ g.session = s /\ g.open = None /\ FoldOK(g, log[s]) /\ Honest(g, disk, foreign[s])
      /\ Ahead(g, queue[s], log[s])
  BY DEF SessionOK, HeirOK
<1>5. MayStop \/ OpenFits(None, queue[s], log[s])
  BY HydratedFits, OpenFitsNone
<1>6. Blank(Hydrated(s)) /\ Hydrated(s) \in Fold
  BY <1>2, HydratedBlank, HydratedOK DEF Saving
<1>7. Keeps(g, Hydrated(s).baseline)
  BY <1>6, BlankFacts DEF Keeps
<1>8. mem'[s] = g /\ stage'[s] = "saving"
  BY <1>4 DEF DoAdopt, Persist, TypeOK
<1>9. /\ file'[s] = file[s] /\ queue'[s] = queue[s] /\ goal'[s] = goal[s] /\ heir'[s] = heir[s]
      /\ log'[s] = log[s] /\ live' = live /\ running'[s] = running[s] /\ tool'[s] = tool[s]
      /\ inherited'[s] = inherited[s] /\ disk' = disk /\ foreign' = foreign
  BY DEF DoAdopt, harness, ghosts
<1>10. "adopt" \in Closing
  BY DEF Closing
<1>11. QED
  BY <1>2, <1>3, <1>4, <1>5, <1>7, <1>8, <1>9, <1>10, PersistOK

-----------------------------------------------------------------------------
(* Sessions: a rewind *)

LEMMA OnePosition ==
  ASSUME NEW f \in Fold, Ordered(f), NEW id, NEW i \in Position(f, id), NEW j \in Position(f, id)
  PROVE  i = j
<1>0. i \in DOMAIN f.points /\ j \in DOMAIN f.points /\ IdOf(f.points[i]) = IdOf(f.points[j])
  BY DEF Position
<1>1. i \in DOMAIN f.points /\ j \in DOMAIN f.points /\ f.points[i].turn = f.points[j].turn
  BY <1>0 DEF IdOf
<1>2. i \in Nat /\ j \in Nat /\ f.points[i].turn \in Nat
  <2>1. f.points[i] \in Point /\ DOMAIN f.points \subseteq Nat
    BY <1>1, FoldFields
  <2>2. f.points[i].turn \in Turn
    BY <2>1, PointFields
  <2>3. QED
    BY <1>1, <2>1, <2>2, TurnsAreNats
<1>3. CASE i < j
  BY <1>1, <1>2, <1>3 DEF Ordered
<1>4. CASE j < i
  BY <1>1, <1>2, <1>4 DEF Ordered
<1>5. QED
  BY <1>2, <1>3, <1>4

LEMMA TargetFacts ==
  ASSUME TypeOK, NEW s \in Session, SessionOK(s), mem[s] # None, Position(mem[s], goal[s]) # {}
  PROVE  /\ mem[s] \in Fold /\ FoldOK(mem[s], log[s]) /\ Honest(mem[s], disk, foreign[s])
         /\ goal[s] # None /\ Target(s) \in DOMAIN mem[s].points
         /\ IdOf(mem[s].points[Target(s)]) = goal[s]
         /\ \A i \in Position(mem[s], goal[s]) : i = Target(s)
<1>1. mem[s] \in Fold /\ FoldOK(mem[s], log[s]) /\ Honest(mem[s], disk, foreign[s])
  BY DEF TypeOK, SessionOK, FoldsOK
<1>2. Target(s) \in Position(mem[s], goal[s])
  BY DEF Target
<1>3. Target(s) \in DOMAIN mem[s].points /\ IdOf(mem[s].points[Target(s)]) = goal[s]
  BY <1>2 DEF Position
<1>4. goal[s] # None
  BY <1>1, <1>3, FoldFields, PointFields, NoneIsNone
<1>5. QED
  BY <1>1, <1>2, <1>3, <1>4, OnePosition DEF FoldOK

\* A session goes from one stage to another; nothing is being saved.
Resting(s) ==
  /\ mem'[s] = mem[s] /\ file'[s] = file[s] /\ queue'[s] = queue[s] /\ heir'[s] = heir[s]
  /\ live \subseteq live' /\ log'[s] = log[s] /\ running'[s] = running[s] /\ tool'[s] = tool[s]
  /\ inherited'[s] = inherited[s]
  /\ stage[s] # "saving" /\ stage'[s] # "saving" /\ queue[s] # <<>>

LEMMA RestingOK ==
  ASSUME NEW s \in Session, SessionOK(s), Resting(s), StageOK(s)', RestoreOK(s)',
         FoldsOK(s)', UnsavedOK(s)', HeirOK(s)'
  PROVE  SessionOK(s)'
<1>1. LogOK(s)' /\ TurnOK(s)'
  BY KeepLog, KeepTurn DEF SessionOK, Resting
<1>2. ToolOK(s)'
  BY DEF SessionOK, ToolOK, Resting, Saving, First
<1>3. InheritOK(s)'
  BY KeepInherit DEF SessionOK, Resting
<1>4. Absent(s)'
  BY DEF SessionOK, Absent, Resting
<1>5. QED
  BY <1>1, <1>2, <1>3, <1>4 DEF SessionOK

LEMMA RestingElsewhere ==
  ASSUME NEW s \in Session, SessionOK(s), Resting(s), Elsewhere(s), StageOK(s)', RestoreOK(s)'
  PROVE  SessionOK(s)'
<1>1. FoldsOK(s)'
  BY KeepFolds DEF SessionOK, Resting
<1>2. ~Saving(s, "adopt") /\ ~Saving(s, "adopt")'
  BY DEF Resting, Saving
<1>3. UnsavedOK(s)'
  BY <1>2, KeepUnsaved DEF SessionOK, Resting
<1>4. HeirOK(s)'
  <2>1. SUFFICES ASSUME heir[s] # None
                 PROVE  LET f == heir[s].fold
                        IN  /\ f.session = s /\ f.open = None
                            /\ FoldOK(f, log[s]) /\ Honest(f, disk', foreign'[s])
                            /\ Ahead(f, queue[s], log[s])
                            /\ mem[s] # None => Blank(mem[s])
                            /\ file[s] # None => Blank(file[s])
    BY <1>2 DEF HeirOK, Resting
  <2>2. HeirOK(s)
    BY DEF SessionOK
  <2>3. Honest(heir[s].fold, disk', foreign'[s])
    BY <2>1, <2>2, HonestLater DEF HeirOK
  <2>4. QED
    BY <1>2, <2>1, <2>2, <2>3 DEF HeirOK
<1>5. QED
  BY <1>1, <1>3, <1>4, RestingOK

LEMMA BeginRewindSession ==
  ASSUME TypeOK, NEW s \in Session, SessionOK(s), BeginRewind(s)
  PROVE  SessionOK(s)'
<1>1. Begins(s, "rewind")
  BY DEF BeginRewind
<1>2. /\ stage[s] = "ready" /\ queue[s] # <<>> /\ Head(queue[s]).kind = "rewind"
  BY <1>1, BeginsFacts
<1>3. /\ mem' = mem /\ file' = file /\ heir' = heir /\ log' = log /\ live' = live
      /\ running' = running /\ tool' = tool /\ inherited' = inherited /\ Elsewhere(s)
  BY DEF BeginRewind, harness, ghosts, Elsewhere
<1>4. CASE Done(s)
  BY <1>2, <1>3, <1>4, DoneOK DEF Done, TypeOK
<1>5. CASE /\ MayRewind(s) /\ stage' = [stage EXCEPT ![s] = "deleting"]
           /\ todo' = [todo EXCEPT ![s] =
                [delete |-> RewindDeletes(mem[s], Target(s)),
                 write |-> {p \in Path : Restored(mem[s], Target(s))[p] # Unseen}]]
           /\ UNCHANGED <<queue, goal>>
  <2>1. mem[s] # None /\ Position(mem[s], goal[s]) # {} /\ mem[s].open = None
    BY <1>5 DEF MayRewind, Unblocked
  <2>2. goal[s] # None /\ \A i \in Position(mem[s], goal[s]) : i = Target(s)
    BY <2>1, TargetFacts
  <2>3. /\ stage'[s] = "deleting" /\ queue' = queue /\ goal' = goal
        /\ todo'[s].delete = RewindDeletes(mem[s], Target(s))
        /\ todo'[s].write = {p \in Path : Restored(mem[s], Target(s))[p] # Unseen}
    BY <1>5 DEF TypeOK
  <2>4. StageOK(s)'
    BY <1>2, <1>3, <2>1, <2>2, <2>3 DEF StageOK, Saving, First, Restoring
  <2>5. RestoreOK(s)'
    BY <1>3, <2>2, <2>3 DEF RestoreOK
  <2>6. Resting(s)
    BY <1>2, <1>3, <2>3 DEF Resting
  <2>7. QED
    BY <1>3, <2>4, <2>5, <2>6, RestingElsewhere
<1>6. QED
  BY <1>4, <1>5 DEF BeginRewind

\* What a rewind restores has a baseline, wherever it comes from.
LEMMA TouchedFacts ==
  ASSUME NEW f \in Fold, Baselined(f), NEW i \in DOMAIN f.points, NEW p \in Path
  PROVE  /\ Restored(f, i)[p] # Unseen <=> f.baseline[p] # Unseen
         /\ p \in RewindDeletes(f, i) => Restored(f, i)[p] = Missing
<1>1. f.baseline[p] = Unseen => \A j \in DOMAIN f.points : f.points[j].tree[p] = Unseen
  BY DEF Baselined
<1>2. Restored(f, i)[p] # Unseen <=> f.baseline[p] # Unseen
  BY <1>1, RestoredFacts
<1>3. ASSUME p \in RewindDeletes(f, i) PROVE Restored(f, i)[p] = Missing
  <2>1. Restored(f, i)[p] \in {Unseen, Missing}
    BY <1>3 DEF RewindDeletes
  <2>2. p \in f.intents \/ \E j \in DOMAIN f.points : f.points[j].tree[p] # Unseen
    BY <1>3 DEF RewindDeletes
  <2>3. f.baseline[p] # Unseen
    BY <2>2 DEF Baselined
  <2>4. QED
    BY <1>2, <2>1, <2>3
<1>4. QED
  BY <1>2, <1>3

\* A path that is restored gets what every fold of the session expects.
LEMMA RestorePath ==
  ASSUME TypeOK, NoCut, NEW s \in Session, SessionOK(s), stage[s] \in {"deleting", "writing"},
         NEW p \in Path, Restored(mem[s], Target(s))[p] # Unseen,
         disk' = [disk EXCEPT ![p] = Blob(Restored(mem[s], Target(s))[p])],
         foreign'[s] = foreign[s], Resting(s), StageOK(s)',
         stage' = stage, goal' = goal,
         todo'[s].delete \subseteq todo[s].delete, todo'[s].write \subseteq todo[s].write,
         \A q \in todo[s].write : q \in todo'[s].write \/ q = p
  PROVE  SessionOK(s)'
<1> DEFINE f == mem[s]
<1> DEFINE c == Restored(mem[s], Target(s))[p]
<1>1. f # None /\ Position(f, goal[s]) # {}
  BY DEF SessionOK, StageOK, Restoring
<1>2. /\ f \in Fold /\ FoldOK(f, log[s]) /\ Honest(f, disk, foreign[s])
      /\ Target(s) \in DOMAIN f.points /\ \A i \in Position(f, goal[s]) : i = Target(s)
  BY <1>1, TargetFacts
<1>3. \A q \in Path : q # p => disk'[q] = disk[q]
  BY DEF TypeOK
<1>4. disk'[p] = Blob(c)
  BY DEF TypeOK
<1>5. "blob" \notin Torn => disk'[p] = c
  BY <1>4 DEF NoCut, Blob
<1>6. f.baseline[p] # Unseen
  BY <1>2, TouchedFacts DEF FoldOK
<1>7. mem'[s] = f /\ file'[s] = file[s]
  BY DEF Resting
<1>8. \A i \in Position(f, goal[s]) : Restored(f, i)[p] = c
  BY <1>2
<1>9. RestoreOK(s)'
  <2>1. SUFFICES ASSUME NEW i \in Position(f, goal[s])
        PROVE  /\ todo'[s].delete \subseteq RewindDeletes(f, i)
               /\ todo'[s].write \subseteq {q \in Path : Restored(f, i)[q] # Unseen}
               /\ "blob" \notin Torn =>
                    \A q \in Path \ (foreign[s] \cup todo'[s].write) :
                      Restored(f, i)[q] # Unseen => disk'[q] = Restored(f, i)[q]
    BY <1>7 DEF RestoreOK
  <2>2. /\ todo[s].delete \subseteq RewindDeletes(f, i)
        /\ todo[s].write \subseteq {q \in Path : Restored(f, i)[q] # Unseen}
        /\ "blob" \notin Torn =>
             \A q \in Path \ (foreign[s] \cup todo[s].write) :
               Restored(f, i)[q] # Unseen => disk[q] = Restored(f, i)[q]
    BY DEF SessionOK, RestoreOK, Restoring
  <2> HIDE DEF f, c
  <2>3. ASSUME "blob" \notin Torn, NEW q \in Path \ (foreign[s] \cup todo'[s].write),
               Restored(f, i)[q] # Unseen
        PROVE  disk'[q] = Restored(f, i)[q]
    <3>1. CASE q = p
      BY <1>5, <1>8, <2>3, <3>1
    <3>2. CASE q # p
      <4>1. q \notin todo[s].write
        BY <2>3, <3>2
      <4>2. disk[q] = Restored(f, i)[q]
        BY <2>2, <2>3, <4>1
      <4>3. QED
        BY <1>3, <2>3, <3>2, <4>2
    <3>3. QED
      BY <3>1, <3>2
  <2>4. todo'[s].delete \subseteq RewindDeletes(f, i)
    BY <2>2
  <2>5. todo'[s].write \subseteq {q \in Path : Restored(f, i)[q] # Unseen}
    BY <2>2
  <2>6. QED
    BY <2>3, <2>4, <2>5
<1> HIDE DEF f, c
<1>10. CASE p \in foreign[s] \/ disk'[p] = disk[p]
  <2>1. Elsewhere(s)
    BY <1>3, <1>10 DEF Elsewhere
  <2>2. QED
    BY <1>9, <2>1, RestingElsewhere
<1>11. CASE p \notin foreign[s] /\ disk'[p] # disk[p]
  <2>1. ASSUME "blob" \notin Torn, file[s] # None PROVE file[s].baseline[p] # Unseen
    <3>1. SUFFICES ASSUME file[s].baseline[p] = Unseen PROVE FALSE
      OBVIOUS
    <3>2. ~Saving(s, "adopt")
      BY DEF Saving
    <3>3. f.points[Target(s)].was[p] = disk[p]
      BY <1>1, <1>2, <1>11, <2>1, <3>1, <3>2 DEF SessionOK, UnsavedOK, f
    <3>4. f.points[Target(s)].was[p] = c
      BY <1>2, <1>11, <2>1 DEF Honest, c, f
    <3>5. QED
      BY <1>5, <1>11, <2>1, <3>3, <3>4
  <2>2. ASSUME NEW g \in Fold, FoldOK(g, log[s]), Honest(g, disk, foreign[s]), "blob" \notin Torn, g.baseline[p] # Unseen
        PROVE  Honest(g, disk', foreign[s])
    <3>1. \A i \in DOMAIN g.points : Restored(g, i)[p] # Unseen
      BY <2>2, TouchedFacts DEF FoldOK
    <3>2. QED
      BY <1>3, <2>2, <3>1 DEF Honest
  <2>3. FoldsOK(s)'
    <3>1. SUFFICES ASSUME NEW g \in {mem[s], file[s]}, g # None
                   PROVE  g.session = s /\ FoldOK(g, log[s]) /\ Honest(g, disk', foreign[s])
      BY <1>7 DEF FoldsOK, Resting, f
    <3>2. /\ g \in Fold /\ g.session = s /\ FoldOK(g, log[s]) /\ Honest(g, disk, foreign[s])
      BY <3>1 DEF SessionOK, FoldsOK, TypeOK
    <3>3. "blob" \notin Torn => g.baseline[p] # Unseen
      BY <1>6, <2>1, <3>1 DEF f
    <3>4. Honest(g, disk', foreign[s])
      BY <2>2, <3>2, <3>3 DEF Honest
    <3>5. QED
      BY <3>2, <3>4
  <2>4. UnsavedOK(s)'
    <3>1. ~Saving(s, "adopt")
      BY DEF Saving
    <3>2. SUFFICES ASSUME "blob" \notin Torn, file[s] # None, NEW q \in Path \ foreign[s],
                          file[s].baseline[q] = Unseen, NEW i \in DOMAIN f.points
                   PROVE  f.points[i].was[q] = disk'[q]
      BY <1>7 DEF UnsavedOK, f
    <3>3. f.points[i].was[q] = disk[q]
      BY <1>1, <3>1, <3>2 DEF SessionOK, UnsavedOK, f
    <3>4. q # p
      BY <2>1, <3>2
    <3>5. QED
      BY <1>3, <3>2, <3>3, <3>4
  <2>5. HeirOK(s)'
    <3>1. heir[s] = None
      <4>1. SUFFICES ASSUME heir[s] # None PROVE FALSE
        OBVIOUS
      <4>2. Blank(f)
        BY <1>1, <4>1 DEF SessionOK, HeirOK, Saving, f
      <4>3. QED
        BY <1>2, <1>6, <4>2, BlankFacts
    <3>2. QED
      BY <3>1 DEF HeirOK, Resting
  <2>6. QED
    BY <1>9, <2>3, <2>4, <2>5, RestingOK
<1>12. QED
  BY <1>10, <1>11

\* A step of a rewind that leaves all that it knows as it is.
LEMMA RestoreOn ==
  ASSUME TypeOK, NEW s \in Session, SessionOK(s), stage[s] \in Restoring, stage'[s] \in Restoring,
         Resting(s), goal' = goal, Elsewhere(s),
         todo'[s].delete \subseteq todo[s].delete, todo'[s].write \subseteq todo[s].write,
         \A q \in todo[s].write : q \in todo'[s].write \/ q \in foreign'[s],
         stage'[s] = "folding" => todo'[s].write = {}
  PROVE  SessionOK(s)'
<1>1. StageOK(s)'
  BY DEF SessionOK, StageOK, Resting, Saving, First, Restoring, Rewinding
<1>2. RestoreOK(s)'
  <2>1. mem'[s] = mem[s] /\ goal' = goal
    BY DEF Resting
  <2>2. SUFFICES ASSUME NEW i \in Position(mem[s], goal[s])
        PROVE  /\ todo'[s].delete \subseteq RewindDeletes(mem[s], i)
               /\ todo'[s].write \subseteq {q \in Path : Restored(mem[s], i)[q] # Unseen}
               /\ "blob" \notin Torn =>
                    \A q \in Path \ (foreign'[s] \cup todo'[s].write) :
                      Restored(mem[s], i)[q] # Unseen => disk'[q] = Restored(mem[s], i)[q]
    BY <2>1 DEF RestoreOK
  <2>3. /\ todo[s].delete \subseteq RewindDeletes(mem[s], i)
        /\ todo[s].write \subseteq {q \in Path : Restored(mem[s], i)[q] # Unseen}
        /\ "blob" \notin Torn =>
             \A q \in Path \ (foreign[s] \cup todo[s].write) :
               Restored(mem[s], i)[q] # Unseen => disk[q] = Restored(mem[s], i)[q]
    BY DEF SessionOK, RestoreOK
  <2>4. QED
    BY <2>3 DEF Elsewhere
<1>3. QED
  BY <1>1, <1>2, RestingElsewhere

LEMMA DeleteSession ==
  ASSUME TypeOK, NoCut, NEW s \in Session, SessionOK(s), DeleteLater(s)
  PROVE  SessionOK(s)'
<1>1. /\ stage[s] = "deleting" /\ mem' = mem /\ file' = file /\ queue' = queue /\ goal' = goal
      /\ heir' = heir /\ live' = live /\ log' = log /\ running' = running /\ tool' = tool
      /\ inherited' = inherited
  BY DEF DeleteLater, harness
<1>2. queue[s] # <<>> /\ mem[s] # None /\ Position(mem[s], goal[s]) # {}
  BY <1>1 DEF SessionOK, StageOK, Restoring
<1>3. CASE \E p \in todo[s].delete : Delete(s, p) /\ todo' = [todo EXCEPT ![s].delete = @ \ {p}] /\ stage' = stage
  <2>1. PICK p \in todo[s].delete : Delete(s, p) /\ todo' = [todo EXCEPT ![s].delete = @ \ {p}] /\ stage' = stage
    BY <1>3
  <2>2. /\ todo'[s].delete = todo[s].delete \ {p} /\ todo'[s].write = todo[s].write
        /\ p \in Path
    BY <2>1 DEF TypeOK
  <2>3. Resting(s)
    BY <1>1, <1>2, <2>1 DEF Resting
  <2>4. /\ mem[s] \in Fold /\ FoldOK(mem[s], log[s]) /\ Target(s) \in DOMAIN mem[s].points
        /\ Target(s) \in Position(mem[s], goal[s])
    BY <1>2, TargetFacts DEF Position
  <2>5. Restored(mem[s], Target(s))[p] = Missing
    <3>1. p \in RewindDeletes(mem[s], Target(s))
      BY <1>1, <2>4 DEF SessionOK, RestoreOK, Restoring
    <3>2. QED
      BY <2>2, <2>4, <3>1, TouchedFacts DEF FoldOK
  <2>6. CASE ByRewind(s, p, Missing)
    <3>1. Blob(Missing) = Missing /\ Missing # Unseen
      BY UnseenIsNot DEF Blob
    <3>2. disk' = [disk EXCEPT ![p] = Blob(Restored(mem[s], Target(s))[p])]
      BY <2>5, <2>6, <3>1 DEF ByRewind
    <3>3. foreign'[s] = foreign[s]
      BY <2>6 DEF ByRewind
    <3>4. StageOK(s)'
      BY <1>1, <2>1, KeepStage DEF SessionOK
    <3>5. QED
      BY <1>1, <2>1, <2>2, <2>3, <2>5, <3>1, <3>2, <3>3, <3>4, RestorePath
  <2>7. CASE foreign' = [foreign EXCEPT ![s] = @ \cup {p}] /\ UNCHANGED disk
    <3>1. Elsewhere(s)
      BY <2>7 DEF Elsewhere, TypeOK
    <3>2. QED
      BY <1>1, <2>1, <2>2, <2>3, <3>1, RestoreOn DEF Restoring
  <2>8. QED
    BY <2>1, <2>6, <2>7 DEF Delete
<1>4. CASE stage' = [stage EXCEPT ![s] = "writing"] /\ UNCHANGED <<disk, todo, foreign>>
  <2>1. stage'[s] = "writing" /\ Elsewhere(s)
    BY <1>4 DEF TypeOK, Elsewhere
  <2>2. Resting(s)
    BY <1>1, <1>2, <2>1 DEF Resting
  <2>3. QED
    BY <1>1, <1>4, <2>1, <2>2, RestoreOn DEF Restoring
<1>5. QED
  BY <1>3, <1>4 DEF DeleteLater

LEMMA WriteSession ==
  ASSUME TypeOK, NoCut, NEW s \in Session, SessionOK(s), WriteBack(s)
  PROVE  SessionOK(s)'
<1>1. /\ stage[s] = "writing" /\ mem' = mem /\ file' = file /\ queue' = queue /\ goal' = goal
      /\ heir' = heir /\ live' = live /\ log' = log /\ running' = running /\ tool' = tool
      /\ inherited' = inherited
  BY DEF WriteBack, harness
<1>2. queue[s] # <<>> /\ mem[s] # None /\ Position(mem[s], goal[s]) # {}
  BY <1>1 DEF SessionOK, StageOK, Restoring
<1>3. ASSUME NEW p \in todo[s].write,
             LET c == Restored(mem[s], Target(s))[p]
             IN  IF c = Missing THEN Delete(s, p) ELSE ByRewind(s, p, Blob(c)),
             todo' = [todo EXCEPT ![s].write = @ \ {p}], stage' = stage
      PROVE  SessionOK(s)'
  <2>1. /\ todo'[s].write = todo[s].write \ {p} /\ todo'[s].delete = todo[s].delete
        /\ p \in Path
    BY <1>3 DEF TypeOK
  <2>2. Resting(s)
    BY <1>1, <1>2, <1>3 DEF Resting
  <2>3. Target(s) \in Position(mem[s], goal[s])
    BY <1>2, TargetFacts DEF Position
  <2>4. Restored(mem[s], Target(s))[p] # Unseen
    BY <1>1, <1>3, <2>3 DEF SessionOK, RestoreOK, Restoring
  <2>5. CASE ByRewind(s, p, Blob(Restored(mem[s], Target(s))[p]))
    <3>1. disk' = [disk EXCEPT ![p] = Blob(Restored(mem[s], Target(s))[p])]
      BY <2>5 DEF ByRewind
    <3>2. foreign'[s] = foreign[s]
      BY <2>5 DEF ByRewind
    <3>3. StageOK(s)'
      BY <1>1, <1>3, KeepStage DEF SessionOK
    <3>4. QED
      BY <1>1, <1>3, <2>1, <2>2, <2>4, <3>1, <3>2, <3>3, RestorePath
  <2>6. CASE foreign' = [foreign EXCEPT ![s] = @ \cup {p}] /\ UNCHANGED disk
    <3>1. Elsewhere(s) /\ p \in foreign'[s]
      BY <2>6 DEF Elsewhere, TypeOK
    <3>2. QED
      BY <1>1, <1>3, <2>1, <2>2, <3>1, RestoreOn DEF Restoring
  <2>7. Blob(Missing) = Missing
    BY UnseenIsNot DEF Blob
  <2>8. QED
    BY <1>3, <2>5, <2>6, <2>7 DEF Delete
<1>4. CASE todo[s].write = {} /\ stage' = [stage EXCEPT ![s] = "folding"] /\ UNCHANGED <<disk, todo, foreign>>
  <2>1. stage'[s] = "folding" /\ Elsewhere(s)
    BY <1>4 DEF TypeOK, Elsewhere
  <2>2. Resting(s)
    BY <1>1, <1>2, <2>1 DEF Resting
  <2>3. QED
    BY <1>1, <1>4, <2>1, <2>2, RestoreOn DEF Restoring
<1>5. QED
  BY <1>3, <1>4 DEF WriteBack

LEMMA RewindOver ==
  ASSUME TypeOK, NEW s \in Session, SessionOK(s), stage[s] \in Rewinding, Done(s),
         mem' = mem, file' = file, heir' = heir, log' = log, live' = live, running' = running,
         tool' = tool, inherited' = inherited, Elsewhere(s)
  PROVE  SessionOK(s)'
<1>1. queue[s] # <<>> /\ Head(queue[s]).kind = "rewind"
  BY DEF SessionOK, StageOK, First
<1>2. queue'[s] = Tail(queue[s]) /\ stage'[s] = "ready"
  BY DEF Done, TypeOK
<1>3. QED
  BY <1>1, <1>2, DoneOK

LEMMA WriteFailsSession ==
  ASSUME TypeOK, NEW s \in Session, SessionOK(s), WriteBackFails(s)
  PROVE  SessionOK(s)'
  BY RewindOver DEF WriteBackFails, Rewinding, Restoring, harness, ghosts, Elsewhere

LEMMA ReturnSession ==
  ASSUME TypeOK, NEW s \in Session, SessionOK(s), Return(s)
  PROVE  SessionOK(s)'
  BY RewindOver DEF Return, Rewinding, harness, ghosts, Elsewhere

\* An event of a turn that has begun does not change which turn is the last.
LEMMA SameHighest ==
  ASSUME NEW events \in Seq(Turn), HasLast(events), events # <<>>, NEW turn \in Turn,
         NEW n \in Nat, Reached(events, n, turn), NEW k \in Turn, Highest(Append(events, turn), k)
  PROVE  Highest(events, k)
<1> DEFINE more == Append(events, turn)
<1>1. /\ DOMAIN more = 1..(Len(events) + 1) /\ more[Len(events) + 1] = turn /\ more # <<>>
      /\ DOMAIN events = 1..Len(events) /\ Len(events) \in Nat
      /\ \A i \in DOMAIN events : more[i] = events[i] /\ i \in DOMAIN more
  BY AppendFacts
<1> HIDE DEF more
<1>2. PICK m \in DOMAIN more : more[m] = k
  BY <1>1 DEF Highest, more
<1>3. \A i \in DOMAIN more : more[i] <= k
  BY <1>1 DEF Highest, more
<1>4. \A i \in DOMAIN events : events[i] <= k
  BY <1>1, <1>3
<1>5. turn <= k /\ turn \in Nat /\ k \in Nat
  BY <1>1, <1>3, TurnsAreNats
<1>6. \E i \in DOMAIN events : events[i] = k
  <2>1. CASE m \in DOMAIN events
    BY <1>1, <1>2, <2>1
  <2>2. CASE m \notin DOMAIN events
    <3>1. m = Len(events) + 1
      BY <1>1, <1>2, <2>2
    <3>2. turn = k
      BY <1>1, <1>2, <3>1
    <3>3. CASE turn = 0
      <4>1. 1 \in DOMAIN events
        BY <1>1
      <4>2. events[1] \in Nat /\ events[1] <= 0
        BY <1>4, <3>2, <3>3, <4>1, LogNats
      <4>3. QED
        BY <3>2, <3>3, <4>1, <4>2
    <3>4. CASE turn # 0
      <4>1. PICK i \in DOMAIN events : turn <= events[i]
        BY <3>4 DEF Reached
      <4>2. events[i] = k
        BY <1>4, <1>5, <3>2, <4>1, LogNats
      <4>3. QED
        BY <4>2
    <3>5. QED
      BY <3>3, <3>4
  <2>3. QED
    BY <2>1, <2>2
<1>7. QED
  BY <1>4, <1>6 DEF Highest

LEMMA FoldBackSession ==
  ASSUME TypeOK, NEW s \in Session, SessionOK(s), FoldBack(s)
  PROVE  SessionOK(s)'
<1> DEFINE f == mem[s]
<1> DEFINE n == Target(s)
<1> DEFINE g == TruncateAfter(f, n)
<1>1. /\ stage[s] = "folding" /\ file' = file /\ queue' = queue /\ goal' = goal
      /\ heir' = heir /\ live' = live /\ running' = running /\ tool' = tool
      /\ inherited' = inherited /\ disk' = disk /\ foreign' = foreign
  BY DEF FoldBack, ghosts
<1>2. f # None /\ Position(f, goal[s]) # {} /\ f.open = None /\ queue[s] # <<>>
      /\ Head(queue[s]).kind = "rewind"
  BY <1>1 DEF SessionOK, StageOK, Restoring, Rewinding, First
<1>3. /\ f \in Fold /\ FoldOK(f, log[s]) /\ Honest(f, disk, foreign[s])
      /\ n \in DOMAIN f.points /\ IdOf(f.points[n]) = goal[s] /\ goal[s] # None
  BY <1>2, TargetFacts
<1>4. log[s] \in Seq(Turn) /\ queue[s] \in Seq(Task)
  BY DEF TypeOK
<1>5. /\ f.points[n].turn \in Turn /\ f.points[n].seq \in Nat /\ goal[s].turn = f.points[n].turn
      /\ Reached(log[s], f.points[n].seq, goal[s].turn)
  <2>1. f.points[n] \in Point
    BY <1>3, FoldFields
  <2>2. goal[s].turn = f.points[n].turn
    BY <1>3, <2>1, PointFields
  <2>3. QED
    BY <1>3, <2>1, <2>2, PointFields DEF FoldOK, OnLog
<1>6. log'[s] \in {log[s], Append(log[s], goal[s].turn)}
  BY DEF FoldBack, TypeOK
<1>7. Persist(s, g)
  BY DEF FoldBack
<1> HIDE DEF f, n
<1>8. /\ g \in Fold /\ g.session = f.session /\ g.open = None
      /\ g.baseline = f.baseline /\ Len(g.points) = n
      /\ DOMAIN g.points = 1..n /\ \A i \in 1..n : i \in DOMAIN f.points /\ g.points[i] = f.points[i]
      /\ FoldOK(g, log[s])
  BY <1>3, <1>4, TruncatedOK
<1>9. Honest(g, disk, foreign[s])
  BY <1>3, <1>4, TruncatedOK
<1>10. Ahead(g, queue[s], log[s])
  <2>1. Ahead(f, queue[s], log[s])
    BY <1>2 DEF SessionOK, LogOK, Current, f
  <2>2. QED
    BY <1>3, <1>4, <2>1, TruncatedOK
<1> HIDE DEF g
<1>11. g.session = s
  BY <1>2, <1>8 DEF SessionOK, FoldsOK, f
<1>12. mem'[s] = g /\ stage'[s] = "saving" /\ g # None
  BY <1>7, <1>8, <1>11, NoneIsNone DEF Persist, TypeOK
<1>13. log'[s] \in Seq(Turn) /\ Extends(log[s], log'[s]) /\ HasLast(log'[s])
  <2>1. HasLast(log[s])
    BY DEF SessionOK, LogOK
  <2>2. goal[s].turn \in Turn
    BY <1>5
  <2>3. CASE log'[s] = log[s]
    BY <1>4, <2>1, <2>3 DEF Extends
  <2>4. CASE log'[s] = Append(log[s], goal[s].turn)
    BY <1>4, <2>1, <2>2, <2>4, AppendFacts, AppendExtends, LastAppended
  <2>5. QED
    BY <1>6, <2>3, <2>4
<1>14. FoldsOK(s)'
  <2>1. FoldOK(g, log'[s])
    BY <1>4, <1>8, <1>13, ExtendedFoldOK
  <2>2. ASSUME file[s] # None
        PROVE  /\ file[s].session = s /\ FoldOK(file[s], log'[s]) /\ Honest(file[s], disk, foreign[s])
    <3>1. file[s] \in Fold /\ FoldOK(file[s], log[s])
      BY <2>2 DEF TypeOK, SessionOK, FoldsOK
    <3>2. QED
      BY <1>4, <1>13, <2>2, <3>1, ExtendedFoldOK DEF SessionOK, FoldsOK
  <2>3. QED
    BY <1>1, <1>9, <1>11, <1>12, <2>1, <2>2 DEF FoldsOK
<1>15. LogOK(s)'
  <2>1. QueueOK(queue[s], log[s]) /\ (MayStop \/ QueueAtEnds(queue[s], log[s]))
        /\ (MayStop \/ OpenFits(f.open, queue[s], log[s]))
    BY <1>2 DEF SessionOK, LogOK, OpenOf, Current, f
  <2>2. QueueOK(queue[s], log'[s])
    BY <1>4, <1>13, <2>1, ExtendedQueueOK
  <2>3. MayStop \/ QueueAtEnds(queue[s], log'[s])
    BY <1>4, <1>13, <2>1, ExtendedQueueAtEnds
  <2>4. MayStop \/ OpenFits(None, queue[s], log'[s])
    BY <1>4, <1>13, <2>1, OpenFitsNone, ExtendedOpenFits
  <2>5. Ahead(g, queue[s], log'[s])
    BY <1>4, <1>8, <1>10, <1>13, <2>1, ExtendedAhead
  <2>6. Current(s)' = g /\ OpenOf(s)' = None
    BY <1>8, <1>12 DEF Current, OpenOf
  <2>7. QED
    BY <1>1, <1>13, <2>2, <2>3, <2>4, <2>5, <2>6 DEF LogOK
<1>16. TurnOK(s)'
  <2>1. SUFFICES ASSUME running[s]
                 PROVE  /\ log'[s] # <<>> /\ heir[s] = None
                        /\ \A k \in Turn : Highest(log'[s], k) => Awaited(s, k)
    BY <1>1 DEF TurnOK, Awaited
  <2>2. /\ log[s] # <<>> /\ heir[s] = None
        /\ \A k \in Turn : Highest(log[s], k) => Awaited(s, k) \/ Opened(s, k)
    BY <2>1 DEF SessionOK, TurnOK
  <2>3. log'[s] # <<>>
    BY <1>4, <1>5, <1>6, <2>2, AppendFacts
  <2>4. ASSUME NEW k \in Turn, Highest(log'[s], k) PROVE Awaited(s, k)
    <3>1. Highest(log[s], k)
      <4>1. CASE log'[s] = log[s]
        BY <2>4, <4>1
      <4>2. CASE log'[s] = Append(log[s], goal[s].turn)
        BY <1>4, <1>5, <2>2, <2>4, <4>2, SameHighest DEF SessionOK, LogOK
      <4>3. QED
        BY <1>6, <4>1, <4>2
    <3>2. ~Opened(s, k)
      BY <1>2, NoneIsNone DEF Opened, f
    <3>3. QED
      BY <2>2, <3>1, <3>2
  <2>5. QED
    BY <2>2, <2>3, <2>4
<1>17. ToolOK(s)'
  <2>1. f.baseline = g.baseline /\ ~Saving(s, "intent")'
    BY <1>1, <1>2, <1>8 DEF Saving, First
  <2>2. QED
    BY <1>1, <1>2, <1>12, <2>1 DEF SessionOK, ToolOK, f
<1>18. StageOK(s)'
  <2>1. IdOf(g.points[Len(g.points)]) = goal[s]
    <3>1. n \in 1..n
      BY <1>3, FoldFields
    <3>2. QED
      BY <1>3, <1>8, <3>1
  <2>2. QED
    BY <1>1, <1>2, <1>3, <1>8, <1>12, <2>1 DEF StageOK, Saving, First, Rewinding, Restoring
<1>19. RestoreOK(s)'
  BY <1>12 DEF RestoreOK, Restoring
<1>20. UnsavedOK(s)'
  <2>1. ~Saving(s, "adopt")
    BY <1>1 DEF Saving
  <2>2. "blob" \notin Torn /\ file[s] # None =>
          \A p \in Path \ foreign[s] : file[s].baseline[p] = Unseen =>
            \A i \in DOMAIN f.points : f.points[i].was[p] = disk[p]
    BY <1>2, <2>1 DEF SessionOK, UnsavedOK, f
  <2>3. QED
    BY <1>1, <1>8, <1>12, <2>2 DEF UnsavedOK
<1>21. InheritOK(s)'
  BY <1>1, <1>2, <1>8, <1>12 DEF SessionOK, InheritOK, Keeps, f
<1>22. HeirOK(s)'
  <2>1. SUFFICES ASSUME heir[s] # None
                 PROVE  LET h == heir[s].fold
                        IN  /\ h.session = s /\ h.open = None
                            /\ FoldOK(h, log'[s]) /\ Honest(h, disk, foreign[s])
                            /\ Ahead(h, queue[s], log'[s])
                            /\ Blank(g)
                            /\ file[s] # None => Blank(file[s])
    BY <1>1, <1>12 DEF HeirOK
  <2> DEFINE h == heir[s].fold
  <2>2. h \in Fold
    BY <2>1 DEF TypeOK, Heir
  <2>3. /\ h.session = s /\ h.open = None
        /\ FoldOK(h, log[s]) /\ Honest(h, disk, foreign[s])
        /\ Ahead(h, queue[s], log[s])
        /\ Blank(f) /\ (file[s] # None => Blank(file[s]))
    BY <1>1, <1>2, <2>1 DEF SessionOK, HeirOK, Saving, f
  <2> HIDE DEF h
  <2>4. FoldOK(h, log'[s])
    BY <1>4, <1>13, <2>2, <2>3, ExtendedFoldOK
  <2>5. Ahead(h, queue[s], log'[s])
    BY <1>4, <1>13, <2>2, <2>3, ExtendedAhead DEF SessionOK, LogOK
  <2>6. Blank(g)
    BY <1>8, <2>3 DEF Blank
  <2>7. QED
    BY <2>3, <2>4, <2>5, <2>6 DEF h
<1>23. Absent(s)'
  BY <1>1, <1>2 DEF SessionOK, Absent
<1>24. QED
  BY <1>14, <1>15, <1>16, <1>17, <1>18, <1>19, <1>20, <1>21, <1>22, <1>23 DEF SessionOK

-----------------------------------------------------------------------------
(* The queue: new work *)

LEMMA LowReached ==
  ASSUME NEW events \in Seq(Turn), NEW r \in Turn, \A i \in DOMAIN events : events[i] <= r,
         NEW n \in Nat, NEW t \in Turn, Reached(events, n, t)
  PROVE  t <= r
<1>1. CASE t = 0
  BY <1>1, TurnsAreNats
<1>2. CASE t # 0
  <2>1. PICK i \in DOMAIN events : t <= events[i]
    BY <1>2 DEF Reached
  <2>2. QED
    BY <2>1, TurnsAreNats, LogNats
<1>3. QED
  BY <1>1, <1>2

LEMMA LowRanks ==
  ASSUME NEW q \in Seq(Task), NEW events \in Seq(Turn), QueueOK(q, events),
         NEW r \in Turn, \A i \in DOMAIN events : events[i] <= r,
         NEW j \in DOMAIN q, Timed(q[j])
  PROVE  Rank(q[j], events) <= r
<1>1. CASE q[j].kind = "start"
  BY <1>1, LogNats, LowReached DEF QueueOK, Rank
<1>2. CASE q[j].kind = "end"
  BY <1>2 DEF QueueOK, Rank
<1>3. QED
  BY <1>1, <1>2 DEF Timed

\* Work that is not of a turn.
LEMMA AppendNeutral ==
  ASSUME NEW q \in Seq(Task), NEW events \in Seq(Turn), QueueOK(q, events), NEW task \in Task,
         task.kind \notin {"start", "end"}
  PROVE  /\ QueueOK(Append(q, task), events)
         /\ task.kind # "idle" /\ QueueAtEnds(q, events) => QueueAtEnds(Append(q, task), events)
         /\ \A open : OpenFits(open, q, events) => OpenFits(open, Append(q, task), events)
         /\ \A f : Ahead(f, q, events) => Ahead(f, Append(q, task), events)
<1> DEFINE more == Append(q, task)
<1>1. /\ DOMAIN more = 1..(Len(q) + 1) /\ more[Len(q) + 1] = task
      /\ DOMAIN q = 1..Len(q) /\ Len(q) \in Nat
      /\ \A i \in DOMAIN q : more[i] = q[i] /\ i \in DOMAIN more
  BY AppendFacts
<1> HIDE DEF more
<1>2. \A i \in DOMAIN more : more[i].kind \in {"start", "end"} => i \in DOMAIN q /\ more[i] = q[i]
  BY <1>1
<1>3. QueueOK(more, events)
  BY <1>2 DEF QueueOK, Timed
<1>4. task.kind # "idle" /\ QueueAtEnds(q, events) => QueueAtEnds(more, events)
  BY <1>1, <1>2 DEF QueueAtEnds
<1>5. ASSUME NEW open, OpenFits(open, q, events) PROVE OpenFits(open, more, events)
  <2>1. SUFFICES ASSUME NEW j \in DOMAIN more, more[j].kind = "end"
        PROVE  \/ \E i \in DOMAIN more : i < j /\ more[i].kind = "start" /\ more[i].turn = events[more[j].seq]
               \/ /\ \A i \in DOMAIN more : i < j => more[i].kind # "start"
                  /\ open \in {None, events[more[j].seq]}
    BY DEF OpenFits
  <2>2. j \in DOMAIN q /\ more[j] = q[j]
    BY <1>2, <2>1
  <2>3. \/ \E i \in DOMAIN q : i < j /\ q[i].kind = "start" /\ q[i].turn = events[q[j].seq]
        \/ /\ \A i \in DOMAIN q : i < j => q[i].kind # "start"
           /\ open \in {None, events[q[j].seq]}
    BY <1>5, <2>1, <2>2 DEF OpenFits
  <2>4. QED
    BY <1>1, <1>2, <2>2, <2>3
<1>6. ASSUME NEW f, Ahead(f, q, events) PROVE Ahead(f, more, events)
  BY <1>2, <1>6 DEF Ahead, Timed
<1>7. QED
  BY <1>3, <1>4, <1>5, <1>6 DEF more

\* What begins or ends a turn is of the last one.
Latest(task, more, r) ==
  \/ task.kind = "start" /\ task.turn = r
  \/ task.kind = "end" /\ task.seq = Len(more) /\ task.turn \in {None, r}

LEMMA AppendTimed ==
  ASSUME NEW q \in Seq(Task), NEW events \in Seq(Turn), QueueOK(q, events),
         NEW r \in Turn, \A i \in DOMAIN events : events[i] <= r,
         NEW task \in Task, Latest(task, Append(events, r), r)
  PROVE  /\ QueueOK(Append(q, task), Append(events, r))
         /\ QueueAtEnds(q, events) => QueueAtEnds(Append(q, task), Append(events, r))
<1> DEFINE more == Append(q, task)
<1> DEFINE ev == Append(events, r)
<1>1. /\ DOMAIN more = 1..(Len(q) + 1) /\ more[Len(q) + 1] = task
      /\ DOMAIN q = 1..Len(q) /\ Len(q) \in Nat
      /\ \A i \in DOMAIN q : more[i] = q[i] /\ i \in DOMAIN more
  BY AppendFacts
<1>2. /\ DOMAIN ev = 1..(Len(events) + 1) /\ ev[Len(events) + 1] = r /\ Len(ev) = Len(events) + 1
      /\ DOMAIN events = 1..Len(events) /\ Len(events) \in Nat
      /\ \A i \in DOMAIN events : ev[i] = events[i] /\ i \in DOMAIN ev
      /\ ev \in Seq(Turn) /\ r \in Nat
  BY AppendFacts, TurnsAreNats
<1>3. QueueOK(q, ev) /\ (QueueAtEnds(q, events) => QueueAtEnds(q, ev))
  BY AppendExtends, <1>2, ExtendedQueueOK, ExtendedQueueAtEnds
<1>4. Latest(task, ev, r)
  OBVIOUS
<1> HIDE DEF more, ev
<1>5. \A i \in DOMAIN more : (i \in DOMAIN q /\ more[i] = q[i]) \/ (i = Len(q) + 1 /\ more[i] = task)
  BY <1>1
<1>6. \A i \in DOMAIN ev : ev[i] <= r
  BY <1>2
<1>7. Len(ev) \in DOMAIN ev /\ ev[Len(ev)] = r
  BY <1>2
<1>8. Timed(task) => Rank(task, ev) = r
  BY <1>4, <1>7 DEF Latest, Timed, Rank
<1>9. QueueOK(more, ev)
  <2>1. ASSUME NEW i \in DOMAIN more, more[i].kind = "start"
        PROVE  more[i].turn \in Turn /\ Reached(ev, Len(ev), more[i].turn)
    <3>1. CASE i \in DOMAIN q /\ more[i] = q[i]
      BY <1>3, <2>1, <3>1 DEF QueueOK
    <3>2. CASE more[i] = task
      <4>1. task.turn = r
        BY <1>4, <2>1, <3>2 DEF Latest
      <4>2. Reached(ev, Len(ev), r)
        BY <1>2, <1>7 DEF Reached
      <4>3. QED
        BY <3>2, <4>1, <4>2
    <3>3. QED
      BY <1>5, <3>1, <3>2
  <2>2. ASSUME NEW i \in DOMAIN more, more[i].kind = "end"
        PROVE  more[i].seq \in DOMAIN ev /\ more[i].turn \in {None, ev[more[i].seq]}
    <3>1. CASE i \in DOMAIN q /\ more[i] = q[i]
      BY <1>3, <2>2, <3>1 DEF QueueOK
    <3>2. CASE more[i] = task
      BY <1>4, <1>7, <2>2, <3>2 DEF Latest
    <3>3. QED
      BY <1>5, <3>1, <3>2
  <2>3. ASSUME NEW i \in DOMAIN more, NEW j \in DOMAIN more, i < j, Timed(more[i]), Timed(more[j])
        PROVE  Rank(more[i], ev) <= Rank(more[j], ev)
    <3>1. i \in DOMAIN q /\ more[i] = q[i]
      BY <1>1, <1>5, <2>3
    <3>2. CASE j \in DOMAIN q /\ more[j] = q[j]
      BY <1>3, <2>3, <3>1, <3>2 DEF QueueOK
    <3>3. CASE more[j] = task
      <4>1. Rank(q[i], ev) <= r
        BY <1>2, <1>3, <1>6, <2>3, <3>1, LowRanks
      <4>2. QED
        BY <1>8, <2>3, <3>1, <3>3, <4>1
    <3>4. QED
      BY <1>5, <3>2, <3>3
  <2>4. QED
    BY <2>1, <2>2, <2>3 DEF QueueOK
<1>10. ASSUME QueueAtEnds(q, events) PROVE QueueAtEnds(more, ev)
  <2>1. QueueAtEnds(q, ev)
    BY <1>3, <1>10
  <2>2. \A i \in DOMAIN more : more[i].kind # "idle"
    BY <1>4, <1>5, <2>1 DEF QueueAtEnds, Latest
  <2>3. ASSUME NEW i \in DOMAIN more, NEW j \in DOMAIN more, i < j, more[i].kind = "end", more[j].kind = "end"
        PROVE  more[i].seq <= more[j].seq
    <3>1. i \in DOMAIN q /\ more[i] = q[i]
      BY <1>1, <1>5, <2>3
    <3>2. CASE j \in DOMAIN q /\ more[j] = q[j]
      BY <2>1, <2>3, <3>1, <3>2 DEF QueueAtEnds
    <3>3. CASE more[j] = task
      <4>1. q[i].seq \in DOMAIN ev
        BY <1>3, <2>3, <3>1 DEF QueueOK
      <4>2. task.seq = Len(ev)
        BY <1>4, <2>3, <3>3 DEF Latest
      <4>3. QED
        BY <1>2, <3>1, <3>3, <4>1, <4>2
    <3>4. QED
      BY <1>5, <3>2, <3>3
  <2>4. ASSUME NEW i \in DOMAIN more, more[i].kind = "end"
        PROVE  \A n \in DOMAIN ev : n <= more[i].seq => ev[n] <= ev[more[i].seq]
    <3>1. CASE i \in DOMAIN q /\ more[i] = q[i]
      BY <2>1, <2>4, <3>1 DEF QueueAtEnds
    <3>2. CASE more[i] = task
      <4>1. task.seq = Len(ev)
        BY <1>4, <2>4, <3>2 DEF Latest
      <4>2. QED
        BY <1>6, <1>7, <3>2, <4>1
    <3>3. QED
      BY <1>5, <3>1, <3>2
  <2>5. QED
    BY <2>2, <2>3, <2>4 DEF QueueAtEnds
<1>11. QED
  BY <1>9, <1>10 DEF more, ev

LEMMA AppendAhead ==
  ASSUME NEW q \in Seq(Task), NEW events \in Seq(Turn), QueueOK(q, events),
         NEW r \in Turn, \A i \in DOMAIN events : events[i] <= r,
         NEW task \in Task, Latest(task, Append(events, r), r),
         NEW f \in Fold, FoldOK(f, events), Ahead(f, q, events)
  PROVE  Ahead(f, Append(q, task), Append(events, r))
<1> DEFINE more == Append(q, task)
<1> DEFINE ev == Append(events, r)
<1>1. /\ DOMAIN more = 1..(Len(q) + 1) /\ more[Len(q) + 1] = task
      /\ DOMAIN q = 1..Len(q) /\ Len(q) \in Nat
      /\ \A i \in DOMAIN q : more[i] = q[i] /\ i \in DOMAIN more
  BY AppendFacts
<1>2. /\ ev[Len(events) + 1] = r /\ Len(ev) = Len(events) + 1 /\ Len(events) \in Nat
      /\ ev \in Seq(Turn)
  BY AppendFacts
<1>3. Ahead(f, q, ev)
  BY AppendExtends, <1>2, ExtendedAhead
<1>4. Latest(task, ev, r)
  OBVIOUS
<1> HIDE DEF more, ev
<1>5. \A i \in DOMAIN more : (i \in DOMAIN q /\ more[i] = q[i]) \/ more[i] = task
  BY <1>1
<1>6. Timed(task) => Rank(task, ev) = r
  BY <1>2, <1>4 DEF Latest, Timed, Rank
<1>7. \A i \in DOMAIN f.points : f.points[i].turn <= r
  <2>1. \A i \in DOMAIN f.points : f.points[i].seq \in Nat /\ f.points[i].turn \in Turn
    BY FoldFields, PointFields
  <2>2. QED
    BY <2>1, LowReached DEF FoldOK, OnLog
<1>8. f.open # None => f.open <= r
  BY <1>2, FoldFields, LowReached DEF FoldOK, OnLog
<1>9. MayStop \/ \A i \in DOMAIN f.points : f.points[i].seq <= Len(ev)
  <2>1. \A i \in DOMAIN f.points : f.points[i].seq \in Nat
    BY FoldFields, PointFields
  <2>2. MayStop \/ \A i \in DOMAIN f.points : f.points[i].seq <= Len(events)
    BY DEF FoldOK, AtEnds
  <2>3. QED
    BY <1>2, <2>1, <2>2
<1>10. ASSUME NEW j \in DOMAIN more, Timed(more[j])
       PROVE  /\ \A i \in DOMAIN f.points : f.points[i].turn <= Rank(more[j], ev)
              /\ f.open # None => f.open <= Rank(more[j], ev)
  BY <1>3, <1>5, <1>6, <1>7, <1>8, <1>10 DEF Ahead
<1>11. ASSUME ~MayStop, NEW j \in DOMAIN more, more[j].kind = "end"
       PROVE  \A i \in DOMAIN f.points : f.points[i].seq <= more[j].seq
  <2>1. CASE j \in DOMAIN q /\ more[j] = q[j]
    BY <1>3, <1>11, <2>1 DEF Ahead
  <2>2. CASE more[j] = task
    BY <1>4, <1>9, <1>11, <2>2 DEF Latest
  <2>3. QED
    BY <1>5, <2>1, <2>2
<1>12. QED
  BY <1>10, <1>11 DEF Ahead, more, ev

LEMMA AppendOpenFits ==
  ASSUME NEW q \in Seq(Task), NEW events \in Seq(Turn), QueueOK(q, events),
         NEW r \in Turn, NEW task \in Task, NEW open, OpenFits(open, q, events),
         \/ task.kind = "start"
         \/ /\ task.kind = "end" /\ task.seq = Len(events) + 1
            /\ \/ \E i \in DOMAIN q : q[i].kind = "start" /\ q[i].turn = r
               \/ open = r /\ \A i \in DOMAIN q : q[i].kind # "start"
  PROVE  OpenFits(open, Append(q, task), Append(events, r))
<1> DEFINE more == Append(q, task)
<1> DEFINE ev == Append(events, r)
<1>1. /\ DOMAIN more = 1..(Len(q) + 1) /\ more[Len(q) + 1] = task
      /\ DOMAIN q = 1..Len(q) /\ Len(q) \in Nat
      /\ \A i \in DOMAIN q : more[i] = q[i] /\ i \in DOMAIN more
  BY AppendFacts
<1>2. ev[Len(events) + 1] = r /\ ev \in Seq(Turn)
  BY AppendFacts
<1>3. OpenFits(open, q, ev)
  BY AppendExtends, <1>2, ExtendedOpenFits
<1> HIDE DEF more, ev
<1>4. SUFFICES ASSUME NEW j \in DOMAIN more, more[j].kind = "end"
      PROVE  \/ \E i \in DOMAIN more : i < j /\ more[i].kind = "start" /\ more[i].turn = ev[more[j].seq]
             \/ /\ \A i \in DOMAIN more : i < j => more[i].kind # "start"
                /\ open \in {None, ev[more[j].seq]}
  BY DEF OpenFits, more, ev
<1>5. CASE j \in DOMAIN q
  <2>1. more[j] = q[j] /\ \A i \in DOMAIN more : i < j => i \in DOMAIN q /\ more[i] = q[i]
    BY <1>1, <1>5
  <2>2. \/ \E i \in DOMAIN q : i < j /\ q[i].kind = "start" /\ q[i].turn = ev[q[j].seq]
        \/ /\ \A i \in DOMAIN q : i < j => q[i].kind # "start"
           /\ open \in {None, ev[q[j].seq]}
    BY <1>3, <1>4, <1>5, <2>1 DEF OpenFits
  <2>3. QED
    BY <1>1, <2>1, <2>2
<1>6. CASE j \notin DOMAIN q
  <2>1. j = Len(q) + 1 /\ more[j] = task
    BY <1>1, <1>6
  <2>2. \A i \in DOMAIN more : i < j => i \in DOMAIN q /\ more[i] = q[i]
    BY <1>1, <2>1
  <2>3. ev[more[j].seq] = r
    BY <1>2, <1>4, <2>1
  <2>4. CASE \E i \in DOMAIN q : q[i].kind = "start" /\ q[i].turn = r
    <3>1. PICK i \in DOMAIN q : q[i].kind = "start" /\ q[i].turn = r
      BY <2>4
    <3>2. i < j /\ i \in DOMAIN more /\ more[i] = q[i]
      BY <1>1, <2>1
    <3>3. QED
      BY <2>3, <3>1, <3>2
  <2>5. CASE open = r /\ \A i \in DOMAIN q : q[i].kind # "start"
    BY <2>2, <2>3, <2>5
  <2>6. QED
    BY <1>4, <2>1, <2>4, <2>5
<1>7. QED
  BY <1>5, <1>6

-----------------------------------------------------------------------------
(* Sessions: new work *)

LEMMA HeadStays ==
  ASSUME NEW S, NEW q \in Seq(S), NEW x \in S, q # <<>>
  PROVE  Head(Append(q, x)) = Head(q)
  OBVIOUS

\* Work that waits changes nothing but the queue and, perhaps, the log.
Asked(s, task) ==
  /\ s \in live /\ queue'[s] = Append(queue[s], task)
  /\ mem'[s] = mem[s] /\ file'[s] = file[s] /\ stage'[s] = stage[s] /\ todo'[s] = todo[s]
  /\ heir'[s] = heir[s] /\ inherited'[s] = inherited[s] /\ live' = live
  /\ disk' = disk /\ foreign' = foreign
  /\ goal[s] # None => goal'[s] = goal[s]

LEMMA AskedOK ==
  ASSUME TypeOK, NEW s \in Session, SessionOK(s), NEW task \in Task, Asked(s, task),
         log'[s] \in Seq(Turn), Extends(log[s], log'[s]), HasLast(log'[s]),
         QueueOK(queue'[s], log'[s]), MayStop \/ QueueAtEnds(queue'[s], log'[s]),
         MayStop \/ OpenFits(OpenOf(s), queue'[s], log'[s]),
         \A f \in Fold : FoldOK(f, log[s]) /\ Ahead(f, queue[s], log[s])
           => Ahead(f, queue'[s], log'[s]),
         TurnOK(s)', ToolOK(s)'
  PROVE  SessionOK(s)'
<1>1. log[s] \in Seq(Turn) /\ queue[s] \in Seq(Task)
  BY DEF TypeOK
<1>2. \A f \in Fold : FoldOK(f, log[s]) => FoldOK(f, log'[s])
  BY <1>1, ExtendedFoldOK
<1>3. queue[s] # <<>> => Head(queue'[s]) = Head(queue[s])
  BY <1>1, HeadStays DEF Asked
<1>4. queue'[s] # <<>>
  <2>1. queue'[s] = Append(queue[s], task)
    BY DEF Asked
  <2>2. Append(queue[s], task) # <<>>
    BY <1>1, AppendFacts
  <2>3. QED
    BY <2>1, <2>2
<1>5. \A kind : Saving(s, kind) => Saving(s, kind)'
  BY <1>3, <1>4 DEF Saving, First, Asked
<1>6. stage[s] # "ready" => queue[s] # <<>>
  BY DEF SessionOK, StageOK
<1>7. \A kind : Saving(s, kind)' => Saving(s, kind)
  BY <1>3, <1>6 DEF Saving, First, Asked
<1>8. FoldsOK(s)'
  <2>1. SUFFICES ASSUME NEW f \in {mem[s], file[s]}, f # None
                 PROVE  f.session = s /\ FoldOK(f, log'[s]) /\ Honest(f, disk, foreign[s])
    BY DEF FoldsOK, Asked
  <2>2. f \in Fold /\ f.session = s /\ FoldOK(f, log[s]) /\ Honest(f, disk, foreign[s])
    BY <2>1 DEF SessionOK, FoldsOK, TypeOK
  <2>3. QED
    BY <1>2, <2>2
<1>9. LogOK(s)'
  <2>1. OpenOf(s)' = OpenOf(s) /\ Current(s)' = Current(s)
    BY DEF OpenOf, Current, Asked
  <2>2. Current(s) # None => Ahead(Current(s), queue'[s], log'[s])
    <3>1. SUFFICES ASSUME Current(s) # None PROVE Ahead(Current(s), queue'[s], log'[s])
      OBVIOUS
    <3>2. Current(s) \in Fold /\ FoldOK(Current(s), log[s])
      BY <3>1 DEF Current, TypeOK, SessionOK, FoldsOK
    <3>3. Ahead(Current(s), queue[s], log[s])
      BY <3>1 DEF SessionOK, LogOK
    <3>4. QED
      BY <3>2, <3>3
  <2>3. QED
    BY <2>1, <2>2 DEF LogOK
<1>10. StageOK(s)'
  <2>1. stage[s] \in Restoring => stage[s] \in Rewinding
    BY DEF Rewinding
  <2>2. First(s, "rewind") => First(s, "rewind")'
    BY <1>3, <1>4 DEF First
  <2>3. StageOK(s)
    BY DEF SessionOK
  <2>4. stage[s] \in Rewinding \/ Saving(s, "rewind") => goal'[s] = goal[s]
    BY <2>3 DEF StageOK, Asked
  <2>5. stage[s] = "forking" => stage[s] \in Rewinding
    BY DEF Rewinding
  <2>6. /\ mem'[s] = mem[s] /\ stage'[s] = stage[s] /\ heir'[s] = heir[s]
    BY DEF Asked
  <2>7. /\ stage'[s] # "ready" => queue'[s] # <<>> /\ mem'[s] # None
        /\ stage'[s] \in Rewinding => First(s, "rewind")'
    BY <1>4, <2>2, <2>3, <2>6 DEF StageOK
  <2>8. stage'[s] \in Rewinding \/ Saving(s, "rewind")' => goal'[s] # None
    BY <1>7, <2>3, <2>4, <2>6 DEF StageOK
  <2>9. stage'[s] \in Restoring => mem'[s].open = None /\ Position(mem'[s], goal'[s]) # {}
    BY <2>1, <2>3, <2>4, <2>6 DEF StageOK
  <2>10. stage'[s] = "forking" \/ Saving(s, "rewind")' =>
           mem'[s].open = None /\ IdOf(mem'[s].points[Len(mem'[s].points)]) = goal'[s]
    BY <1>7, <2>3, <2>4, <2>5, <2>6 DEF StageOK
  <2>11. Saving(s, "start")' => mem'[s].open = Head(queue'[s]).turn
    BY <1>3, <1>6, <1>7, <2>3, <2>6 DEF StageOK, Saving
  <2>12. Saving(s, "adopt")' => heir'[s] # None /\ mem'[s] = heir'[s].fold
    BY <1>7, <2>3, <2>6 DEF StageOK
  <2>13. QED
    BY <2>7, <2>8, <2>9, <2>10, <2>11, <2>12 DEF StageOK
<1>11. RestoreOK(s)'
  <2>1. SUFFICES ASSUME stage[s] \in Restoring PROVE RestoreOK(s)'
    BY DEF RestoreOK, Asked
  <2>2. goal'[s] = goal[s]
    BY <2>1 DEF SessionOK, StageOK, Rewinding, Asked
  <2>3. Elsewhere(s)
    BY DEF Elsewhere, Asked
  <2>4. QED
    BY <2>2, <2>3, KeepRestore DEF SessionOK, Asked
<1>12. UnsavedOK(s)'
  <2>1. Elsewhere(s)
    BY DEF Elsewhere, Asked
  <2>2. QED
    BY <1>5, <2>1, KeepUnsaved DEF SessionOK, Asked
<1>13. InheritOK(s)'
  BY KeepInherit DEF SessionOK, Asked
<1>14. HeirOK(s)'
  <2>1. SUFFICES ASSUME heir[s] # None
                 PROVE  LET h == heir[s].fold
                        IN  /\ h.session = s /\ h.open = None
                            /\ FoldOK(h, log'[s]) /\ Honest(h, disk, foreign[s])
                            /\ Ahead(h, queue'[s], log'[s])
                            /\ mem[s] # None /\ ~Saving(s, "adopt") => Blank(mem[s])
                            /\ file[s] # None => Blank(file[s])
    BY <1>5 DEF HeirOK, Asked
  <2> DEFINE h == heir[s].fold
  <2>2. h \in Fold
    BY <2>1 DEF TypeOK, Heir
  <2>3. /\ h.session = s /\ h.open = None
        /\ FoldOK(h, log[s]) /\ Honest(h, disk, foreign[s])
        /\ Ahead(h, queue[s], log[s])
        /\ mem[s] # None /\ ~Saving(s, "adopt") => Blank(mem[s])
        /\ file[s] # None => Blank(file[s])
    BY <2>1 DEF SessionOK, HeirOK
  <2> HIDE DEF h
  <2>4. FoldOK(h, log'[s]) /\ Ahead(h, queue'[s], log'[s])
    BY <1>2, <2>2, <2>3
  <2>5. QED
    BY <2>3, <2>4 DEF h
<1>15. Absent(s)'
  BY KeepAbsent DEF Asked
<1>16. QED
  BY <1>8, <1>9, <1>10, <1>11, <1>12, <1>13, <1>14, <1>15 DEF SessionOK

\* Work that is not of a turn, while the log stays.
LEMMA NeutralOK ==
  ASSUME TypeOK, NEW s \in Session, SessionOK(s), NEW task \in Task, Asked(s, task),
         log'[s] = log[s], task.kind \notin {"start", "end"}, MayStop \/ task.kind # "idle",
         TurnOK(s)', ToolOK(s)'
  PROVE  SessionOK(s)'
<1>1. /\ log[s] \in Seq(Turn) /\ queue[s] \in Seq(Task) /\ queue'[s] = Append(queue[s], task)
  BY DEF TypeOK, Asked
<1>2. /\ HasLast(log[s]) /\ QueueOK(queue[s], log[s]) /\ (MayStop \/ QueueAtEnds(queue[s], log[s]))
      /\ (MayStop \/ OpenFits(OpenOf(s), queue[s], log[s]))
  BY DEF SessionOK, LogOK
<1>3. QueueOK(queue'[s], log[s])
  BY <1>1, <1>2, AppendNeutral
<1>4. MayStop \/ QueueAtEnds(queue'[s], log[s])
  BY <1>1, <1>2, AppendNeutral
<1>5. MayStop \/ OpenFits(OpenOf(s), queue'[s], log[s])
  BY <1>1, <1>2, AppendNeutral
<1>6. \A f : Ahead(f, queue[s], log[s]) => Ahead(f, queue'[s], log[s])
  BY <1>1, <1>2, AppendNeutral
<1>7. Extends(log[s], log'[s])
  BY <1>1 DEF Extends
<1>8. QED
  BY <1>1, <1>2, <1>3, <1>4, <1>5, <1>6, <1>7, AskedOK

\* What begins or ends the last turn.
LEMMA TimedOK ==
  ASSUME TypeOK, NEW s \in Session, SessionOK(s), NEW task \in Task, Asked(s, task), NEW r \in Turn,
         \A i \in DOMAIN log[s] : log[s][i] <= r, log'[s] = Append(log[s], r),
         Latest(task, Append(log[s], r), r),
         MayStop \/ OpenFits(OpenOf(s), queue'[s], log'[s]),
         TurnOK(s)', ToolOK(s)'
  PROVE  SessionOK(s)'
<1>1. /\ log[s] \in Seq(Turn) /\ queue[s] \in Seq(Task) /\ queue'[s] = Append(queue[s], task)
  BY DEF TypeOK, Asked
<1>2. /\ HasLast(log[s]) /\ QueueOK(queue[s], log[s]) /\ (MayStop \/ QueueAtEnds(queue[s], log[s]))
  BY DEF SessionOK, LogOK
<1>3. QueueOK(queue'[s], log'[s]) /\ (MayStop \/ QueueAtEnds(queue'[s], log'[s]))
  BY <1>1, <1>2, AppendTimed
<1>4. \A f \in Fold : FoldOK(f, log[s]) /\ Ahead(f, queue[s], log[s]) => Ahead(f, queue'[s], log'[s])
  BY <1>1, <1>2, AppendAhead
<1>5. log'[s] \in Seq(Turn) /\ Extends(log[s], log'[s]) /\ HasLast(log'[s])
  BY <1>1, <1>2, AppendFacts, AppendExtends, LastAppended
<1>6. QED
  BY <1>3, <1>4, <1>5, AskedOK

\* Work that closes no turn leaves the turn where it is.
LEMMA NeutralTurn ==
  ASSUME NEW s \in Session, queue[s] \in Seq(Task), TurnOK(s), NEW task \in Task,
         queue'[s] = Append(queue[s], task), task.kind \notin Closing,
         mem'[s] = mem[s], log'[s] = log[s], heir'[s] = heir[s], running'[s] = running[s]
  PROVE  TurnOK(s)'
<1>1. /\ DOMAIN queue'[s] = 1..(Len(queue[s]) + 1) /\ queue'[s][Len(queue[s]) + 1] = task
      /\ DOMAIN queue[s] = 1..Len(queue[s]) /\ Len(queue[s]) \in Nat
      /\ \A i \in DOMAIN queue[s] : queue'[s][i] = queue[s][i] /\ i \in DOMAIN queue'[s]
  BY AppendFacts
<1>2. \A i \in DOMAIN queue'[s] : queue'[s][i].kind \in Closing =>
        i \in DOMAIN queue[s] /\ queue'[s][i] = queue[s][i]
  BY <1>1
<1>3. \A k : Awaited(s, k) => Awaited(s, k)'
  <2>1. SUFFICES ASSUME NEW k, NEW i \in DOMAIN queue[s],
                        queue[s][i].kind = "start" /\ queue[s][i].turn = k,
                        \A j \in DOMAIN queue[s] : i < j => queue[s][j].kind \notin Closing
                 PROVE  Awaited(s, k)'
    BY DEF Awaited
  <2>2. i \in DOMAIN queue'[s] /\ queue'[s][i].kind = "start" /\ queue'[s][i].turn = k
    BY <1>1, <2>1
  <2>3. \A j \in DOMAIN queue'[s] : i < j => queue'[s][j].kind \notin Closing
    BY <1>2, <2>1
  <2>4. QED
    BY <2>2, <2>3 DEF Awaited
<1>4. \A k : Opened(s, k) => Opened(s, k)'
  BY <1>2 DEF Opened
<1>5. QED
  BY <1>3, <1>4 DEF TurnOK

LEMMA NeutralTool ==
  ASSUME NEW s \in Session, queue[s] \in Seq(Task), ToolOK(s), StageOK(s), NEW task \in Task,
         queue'[s] = Append(queue[s], task),
         mem'[s] = mem[s], file'[s] = file[s], stage'[s] = stage[s], tool'[s] = tool[s],
         \/ tool[s] = None
         \/ running'[s] = running[s] /\ task.kind \notin {"start"},
         task.kind # "intent"
  PROVE  ToolOK(s)'
<1>1. /\ DOMAIN queue'[s] = 1..(Len(queue[s]) + 1) /\ queue'[s][Len(queue[s]) + 1] = task
      /\ DOMAIN queue[s] = 1..Len(queue[s]) /\ Len(queue[s]) \in Nat
      /\ \A i \in DOMAIN queue[s] : queue'[s][i] = queue[s][i] /\ i \in DOMAIN queue'[s]
  BY AppendFacts
<1>2. \A i \in DOMAIN queue'[s] : (i \in DOMAIN queue[s] /\ queue'[s][i] = queue[s][i]) \/ queue'[s][i] = task
  BY <1>1
<1>3. Saving(s, "intent")' => Saving(s, "intent")
  BY HeadStays DEF Saving, First, StageOK
<1>4. CASE tool[s] = None
  <2>1. \A i \in DOMAIN queue'[s] : queue'[s][i].kind # "intent"
    BY <1>2, <1>4 DEF ToolOK
  <2>2. QED
    BY <1>3, <1>4, <2>1 DEF ToolOK
<1>5. CASE running'[s] = running[s] /\ task.kind \notin {"start"}
  <2>1. \A i \in DOMAIN queue'[s] : queue'[s][i].kind \in {"start", "intent"} =>
          i \in DOMAIN queue[s] /\ queue'[s][i] = queue[s][i]
    BY <1>2, <1>5
  <2>2. QED
    BY <1>3, <1>5, <2>1 DEF ToolOK
<1>6. QED
  BY <1>4, <1>5

LEMMA EnqueueFacts ==
  ASSUME TypeOK, NEW s \in Session,
         NEW kind \in {"attach", "start", "end", "idle", "intent", "list", "rewind", "adopt"},
         NEW turn \in Turn \cup {None}, NEW seq \in Nat,
         queue' = Enqueue(queue, s, kind, turn, seq)
  PROVE  /\ [kind |-> kind, turn |-> turn, seq |-> seq] \in Task
         /\ queue'[s] = Append(queue[s], [kind |-> kind, turn |-> turn, seq |-> seq])
         /\ \A u \in Session : u # s => queue'[u] = queue[u]
         /\ queue[s] \in Seq(Task)
<1>1. [kind |-> kind, turn |-> turn, seq |-> seq] \in Task
  BY DEF Task
<1>2. QED
  BY <1>1 DEF Enqueue, TypeOK

LEMMA LastIsTurn ==
  ASSUME TypeOK, NEW s \in Session, SessionOK(s)
  PROVE  /\ LastTurn(s) \in Turn /\ Highest(log[s], LastTurn(s)) /\ LastTurn(s) \in Nat
         /\ \A i \in DOMAIN log[s] : log[s][i] <= LastTurn(s)
         /\ log[s] \in Seq(Turn)
<1>1. log[s] \in Seq(Turn) /\ HasLast(log[s])
  BY DEF TypeOK, SessionOK, LogOK
<1>2. LastTurn(s) \in Turn /\ Highest(log[s], LastTurn(s))
  BY <1>1, LastTurnFacts
<1>3. \A i \in DOMAIN log[s] : log[s][i] <= LastTurn(s)
  BY <1>2 DEF Highest
<1>4. QED
  BY <1>1, <1>2, <1>3, TurnsAreNats

LEMMA StartTurnSession ==
  ASSUME TypeOK, NEW s \in Session, SessionOK(s), StartTurn(s)
  PROVE  SessionOK(s)'
<1> DEFINE r == LastTurn(s) + 1
<1> DEFINE ev == Append(log[s], r)
<1> DEFINE task == [kind |-> "start", turn |-> r, seq |-> Len(log'[s])]
<1>1. /\ s \in live /\ ~running[s] /\ heir[s] = None /\ LastTurn(s) < MaxTurn
      /\ log' = [log EXCEPT ![s] = ev] /\ running' = [running EXCEPT ![s] = TRUE]
      /\ queue' = Enqueue(queue, s, "start", r, Len(log'[s]))
      /\ UNCHANGED <<queueOnly, live, tool, count>>
  BY DEF StartTurn
<1>2. /\ LastTurn(s) \in Nat /\ \A i \in DOMAIN log[s] : log[s][i] <= LastTurn(s)
      /\ log[s] \in Seq(Turn)
  BY LastIsTurn
<1>3. r \in Turn /\ r \in Nat
  BY <1>1, <1>2, CheckpointsAssumption DEF Turn
<1>4. log'[s] = ev /\ running'[s] = TRUE
  BY <1>1 DEF TypeOK
<1>5. /\ ev \in Seq(Turn) /\ ev # <<>> /\ Len(ev) = Len(log[s]) + 1 /\ ev[Len(log[s]) + 1] = r
      /\ DOMAIN ev = 1..(Len(log[s]) + 1) /\ DOMAIN log[s] = 1..Len(log[s]) /\ Len(log[s]) \in Nat
      /\ \A i \in DOMAIN log[s] : ev[i] = log[s][i]
  BY <1>2, <1>3, AppendFacts
<1>6. task \in Task /\ queue'[s] = Append(queue[s], task) /\ queue[s] \in Seq(Task)
  BY <1>1, <1>3, <1>4, <1>5, EnqueueFacts
<1>7. Asked(s, task)
  BY <1>1, <1>6 DEF Asked, queueOnly, ghosts
<1>8. task.kind = "start" /\ task.turn = r
  OBVIOUS
<1> HIDE DEF r, ev, task
<1>9. Latest(task, ev, r)
  BY <1>8 DEF Latest
<1>10. \A i \in DOMAIN log[s] : log[s][i] <= r
  BY <1>2, LogNats DEF r
<1>11. MayStop \/ OpenFits(OpenOf(s), queue'[s], log'[s])
  <2>1. QueueOK(queue[s], log[s]) /\ (MayStop \/ OpenFits(OpenOf(s), queue[s], log[s]))
    BY DEF SessionOK, LogOK
  <2>2. QED
    BY <1>2, <1>3, <1>4, <1>6, <1>8, <2>1, AppendOpenFits DEF ev
<1>12. TurnOK(s)'
  <2>1. Highest(ev, r)
    BY <1>3, <1>5, <1>10 DEF Highest
  <2>2. ASSUME NEW k \in Turn, Highest(ev, k) PROVE Awaited(s, k)'
    <3>1. k = r
      BY <1>3, <1>5, <2>1, <2>2, OneHighest
    <3>2. /\ Len(queue[s]) + 1 \in DOMAIN queue'[s] /\ queue'[s][Len(queue[s]) + 1] = task
          /\ \A j \in DOMAIN queue'[s] : ~(Len(queue[s]) + 1 < j)
      BY <1>6, AppendFacts
    <3>3. QED
      BY <1>8, <3>1, <3>2 DEF Awaited
  <2>3. QED
    BY <1>1, <1>4, <1>5, <2>2, <1>7 DEF TurnOK, Asked
<1>13. ToolOK(s)'
  <2>1. tool[s] = None
    BY <1>1 DEF SessionOK, ToolOK
  <2>2. QED
    BY <1>1, <1>6, <1>7, <1>8, <2>1, NeutralTool DEF SessionOK, Asked
<1>14. QED
  BY <1>3, <1>4, <1>6, <1>7, <1>9, <1>10, <1>11, <1>12, <1>13, TimedOK DEF ev

\* The end of the last turn, whether it was running or had been stopped.
LEMMA EndedSession ==
  ASSUME TypeOK, NEW s \in Session, SessionOK(s), s \in live, tool[s] = None,
         MayStop \/ running[s],
         log' = [log EXCEPT ![s] = Append(@, LastTurn(s))], running'[s] = FALSE,
         NEW turn \in {LastTurn(s), None},
         queue' = Enqueue(queue, s, "end", turn, Len(log'[s])),
         UNCHANGED <<queueOnly, live, tool>>
  PROVE  SessionOK(s)'
<1> DEFINE r == LastTurn(s)
<1> DEFINE ev == Append(log[s], r)
<1> DEFINE task == [kind |-> "end", turn |-> turn, seq |-> Len(log'[s])]
<1>1. /\ r \in Turn /\ r \in Nat /\ \A i \in DOMAIN log[s] : log[s][i] <= r
      /\ log[s] \in Seq(Turn) /\ Highest(log[s], r)
  BY LastIsTurn
<1>2. log'[s] = ev
  BY DEF TypeOK
<1>3. ev \in Seq(Turn) /\ Len(ev) = Len(log[s]) + 1 /\ Len(log[s]) \in Nat
  BY <1>1, AppendFacts
<1>3a. turn \in Turn \cup {None} /\ Len(log'[s]) \in Nat
  BY <1>1, <1>2, <1>3
<1>4. task \in Task /\ queue'[s] = Append(queue[s], task) /\ queue[s] \in Seq(Task)
  BY <1>3a, EnqueueFacts
<1>5. Asked(s, task)
  BY <1>4 DEF Asked, queueOnly, ghosts
<1>6. task.kind = "end" /\ task.turn \in {None, r} /\ task.seq = Len(ev)
  BY <1>2
<1> HIDE DEF r, ev, task
<1>7. Latest(task, ev, r)
  BY <1>6 DEF Latest
<1>8. MayStop \/ OpenFits(OpenOf(s), queue'[s], log'[s])
  <2>1. SUFFICES ASSUME ~MayStop PROVE OpenFits(OpenOf(s), queue'[s], log'[s])
    OBVIOUS
  <2>2. QueueOK(queue[s], log[s]) /\ OpenFits(OpenOf(s), queue[s], log[s])
    BY <2>1 DEF SessionOK, LogOK
  <2>3. Awaited(s, r) \/ Opened(s, r)
    BY <1>1, <2>1 DEF SessionOK, TurnOK
  <2>4. \/ \E i \in DOMAIN queue[s] : queue[s][i].kind = "start" /\ queue[s][i].turn = r
        \/ OpenOf(s) = r /\ \A i \in DOMAIN queue[s] : queue[s][i].kind # "start"
    BY <2>3 DEF Awaited, Opened, OpenOf, Current, Closing
  <2>5. task.seq = Len(log[s]) + 1
    BY <1>3, <1>6
  <2>6. OpenFits(OpenOf(s), Append(queue[s], task), Append(log[s], r))
    <3>1. CASE \E i \in DOMAIN queue[s] : queue[s][i].kind = "start" /\ queue[s][i].turn = r
      BY <1>1, <1>4, <1>6, <2>2, <2>5, <3>1, AppendOpenFits
    <3>2. CASE OpenOf(s) = r /\ \A i \in DOMAIN queue[s] : queue[s][i].kind # "start"
      BY <1>1, <1>4, <1>6, <2>2, <2>5, <3>2, AppendOpenFits
    <3>3. QED
      BY <2>4, <3>1, <3>2
  <2>7. QED
    BY <1>2, <1>4, <2>6 DEF ev
<1>9. TurnOK(s)'
  BY DEF TurnOK
<1>10. ToolOK(s)'
  BY <1>4, <1>5, <1>6, NeutralTool DEF SessionOK, Asked
<1>11. QED
  BY <1>1, <1>2, <1>4, <1>5, <1>7, <1>8, <1>9, <1>10, TimedOK DEF ev

LEMMA RunningIsLive ==
  ASSUME NEW s \in Session, SessionOK(s), running[s] \/ mem[s] # None \/ heir[s] # None \/ queue[s] # <<>>
  PROVE  s \in live
  BY DEF SessionOK, Absent

LEMMA EndTurnSession ==
  ASSUME TypeOK, NEW s \in Session, SessionOK(s), EndTurn(s)
  PROVE  SessionOK(s)'
<1>1. PICK turn \in {LastTurn(s), None} : queue' = Enqueue(queue, s, "end", turn, Len(log'[s]))
  BY DEF EndTurn
<1>2. /\ running[s] /\ tool[s] = None /\ log' = [log EXCEPT ![s] = Append(@, LastTurn(s))]
      /\ running'[s] = FALSE /\ UNCHANGED <<queueOnly, live, tool>>
  BY DEF EndTurn, TypeOK
<1>3. s \in live
  BY <1>2, RunningIsLive
<1>4. QED
  BY <1>1, <1>2, <1>3, EndedSession

LEMMA LateEndSession ==
  ASSUME TypeOK, NEW s \in Session, SessionOK(s), LateEnd(s)
  PROVE  SessionOK(s)'
<1>1. /\ MayStop /\ s \in live /\ log' = [log EXCEPT ![s] = Append(@, LastTurn(s))]
      /\ ~running[s] /\ running'[s] = FALSE /\ UNCHANGED <<queueOnly, live, tool>>
      /\ queue' = Enqueue(queue, s, "end", LastTurn(s), Len(log'[s]))
  BY DEF LateEnd, TypeOK
<1>2. tool[s] = None
  BY <1>1 DEF SessionOK, ToolOK
<1>3. QED
  BY <1>1, <1>2, EndedSession

LEMMA PlainTask ==
  ASSUME TypeOK, NEW s \in Session,
         NEW kind \in {"attach", "start", "end", "idle", "intent", "list", "rewind", "adopt"},
         queue' = Enqueue(queue, s, kind, None, 0)
  PROVE  LET task == [kind |-> kind, turn |-> None, seq |-> 0]
         IN  /\ task \in Task /\ queue'[s] = Append(queue[s], task) /\ queue[s] \in Seq(Task)
             /\ \A u \in Session : u # s => queue'[u] = queue[u]
<1>1. None \in Turn \cup {None} /\ 0 \in Nat
  OBVIOUS
<1>2. QED
  BY <1>1, EnqueueFacts

LEMMA StopSession ==
  ASSUME TypeOK, NEW s \in Session, SessionOK(s), Stop(s)
  PROVE  SessionOK(s)'
<1> DEFINE task == [kind |-> "idle", turn |-> None, seq |-> 0]
<1>1. /\ MayStop /\ running[s] /\ tool[s] = None /\ running'[s] = FALSE
      /\ queue' = Enqueue(queue, s, "idle", None, 0) /\ UNCHANGED <<queueOnly, live, log, tool>>
  BY DEF Stop, TypeOK
<1>2. task \in Task /\ queue'[s] = Append(queue[s], task) /\ queue[s] \in Seq(Task)
  BY <1>1, PlainTask
<1>3. s \in live
  BY <1>1, RunningIsLive
<1>4. Asked(s, task)
  BY <1>1, <1>2, <1>3 DEF Asked, queueOnly, ghosts
<1>5. task.kind = "idle"
  OBVIOUS
<1> HIDE DEF task
<1>6. TurnOK(s)'
  BY <1>1 DEF TurnOK
<1>7. ToolOK(s)'
  BY <1>1, <1>2, <1>4, <1>5, NeutralTool DEF SessionOK, Asked
<1>8. QED
  BY <1>1, <1>2, <1>4, <1>5, <1>6, <1>7, NeutralOK

LEMMA CallToolSession ==
  ASSUME TypeOK, NEW s \in Session, SessionOK(s), NEW p \in Path, NEW d \in Data, CallTool(s, p, d)
  PROVE  SessionOK(s)'
<1> DEFINE task == [kind |-> "intent", turn |-> None, seq |-> 0]
<1>1. /\ running[s] /\ tool[s] = None /\ tool' = [tool EXCEPT ![s] = [path |-> p, data |-> d, ready |-> FALSE]]
      /\ queue' = Enqueue(queue, s, "intent", None, 0) /\ UNCHANGED <<queueOnly, live, log, running>>
  BY DEF CallTool
<1>2. task \in Task /\ queue'[s] = Append(queue[s], task) /\ queue[s] \in Seq(Task)
  BY <1>1, PlainTask
<1>3. s \in live
  BY <1>1, RunningIsLive
<1>4. Asked(s, task)
  BY <1>1, <1>2, <1>3 DEF Asked, queueOnly, ghosts
<1>5. task.kind = "intent"
  OBVIOUS
<1>6. /\ DOMAIN queue'[s] = 1..(Len(queue[s]) + 1) /\ queue'[s][Len(queue[s]) + 1] = task
      /\ DOMAIN queue[s] = 1..Len(queue[s]) /\ Len(queue[s]) \in Nat
      /\ \A i \in DOMAIN queue[s] : queue'[s][i] = queue[s][i]
  BY <1>2, AppendFacts
<1> HIDE DEF task
<1>7. TurnOK(s)'
  <2>1. task.kind \notin Closing
    BY <1>5 DEF Closing
  <2>2. QED
    BY <1>1, <1>2, <1>4, <2>1, NeutralTurn DEF SessionOK, Asked
<1>8. ToolOK(s)'
  <2>1. tool'[s] # None /\ ~tool'[s].ready
    <3>1. tool'[s] = [path |-> p, data |-> d, ready |-> FALSE]
      BY <1>1 DEF TypeOK
    <3>2. [path |-> p, data |-> d, ready |-> FALSE] \in Call
      BY DEF Call
    <3>3. ~tool'[s].ready
      BY <3>1
    <3>4. tool'[s] # None
      BY <3>1, <3>2, NoneIsNone
    <3>5. QED
      BY <3>3, <3>4
  <2>2. \A i \in DOMAIN queue[s] : queue[s][i].kind # "intent"
    BY <1>1 DEF SessionOK, ToolOK
  <2>3. \A i \in DOMAIN queue'[s] : queue'[s][i].kind = "intent" =>
          \A j \in DOMAIN queue'[s] : ~(i < j)
    BY <1>6, <2>2
  <2>4. ~Saving(s, "intent")'
    <3>1. stage[s] = "saving" => queue[s] # <<>> /\ Head(queue'[s]) = Head(queue[s])
      BY <1>2, HeadStays DEF SessionOK, StageOK
    <3>2. queue[s] # <<>> => Head(queue[s]).kind # "intent"
      BY <1>2, <2>2, TailFacts
    <3>3. QED
      BY <1>4, <3>1, <3>2 DEF Saving, First, Asked
  <2>5. QED
    BY <1>1, <2>1, <2>3, <2>4 DEF ToolOK
<1>9. log'[s] = log[s]
  BY <1>1
<1>10. QED
  BY <1>2, <1>4, <1>5, <1>7, <1>8, <1>9, NeutralOK

\* Lists and rewinds, which close no turn and change no tool.
LEMMA AskedSession ==
  ASSUME TypeOK, NEW s \in Session, SessionOK(s), NEW kind \in {"list", "rewind"},
         queue' = Enqueue(queue, s, kind, None, 0), s \in live,
         UNCHANGED <<disk, blobs, mem, file, stage, todo, heir, harness, ghosts>>,
         goal[s] # None => goal'[s] = goal[s]
  PROVE  SessionOK(s)'
<1> DEFINE task == [kind |-> kind, turn |-> None, seq |-> 0]
<1>1. task \in Task /\ queue'[s] = Append(queue[s], task) /\ queue[s] \in Seq(Task)
  BY PlainTask
<1>2. Asked(s, task) /\ log' = log /\ running' = running /\ tool' = tool
  BY <1>1 DEF Asked, harness, ghosts
<1>3. task.kind = kind
  OBVIOUS
<1> HIDE DEF task
<1>4. task.kind \notin Closing
  BY <1>3 DEF Closing
<1>5. TurnOK(s)'
  BY <1>1, <1>2, <1>4, NeutralTurn DEF SessionOK, Asked
<1>6. ToolOK(s)'
  BY <1>1, <1>2, <1>3, NeutralTool DEF SessionOK, Asked
<1>7. QED
  BY <1>1, <1>2, <1>3, <1>5, <1>6, NeutralOK

LEMMA AskListSession ==
  ASSUME TypeOK, NEW s \in Session, SessionOK(s), AskList(s)
  PROVE  SessionOK(s)'
  BY AskedSession DEF AskList, queueOnly

LEMMA AskRewindSession ==
  ASSUME TypeOK, NEW s \in Session, SessionOK(s), NEW i, AskRewind(s, i)
  PROVE  SessionOK(s)'
<1>1. s \in live
  BY RunningIsLive DEF AskRewind
<1>2. QED
  BY <1>1, AskedSession DEF AskRewind

\* The child that is given its fold.
LEMMA HeirSession ==
  ASSUME TypeOK, NEW t \in Session, SessionOK(t), heir[t] # None,
         queue' = Enqueue(queue, t, "adopt", None, 0), stage'[t] = stage[t],
         UNCHANGED <<disk, blobs, mem, file, todo, goal, heir, harness, ghosts>>
  PROVE  SessionOK(t)'
<1> DEFINE task == [kind |-> "adopt", turn |-> None, seq |-> 0]
<1>1. task \in Task /\ queue'[t] = Append(queue[t], task) /\ queue[t] \in Seq(Task)
  BY PlainTask
<1>2. t \in live
  BY RunningIsLive
<1>3. Asked(t, task) /\ log' = log /\ running' = running /\ tool' = tool
  BY <1>1, <1>2 DEF Asked, harness, ghosts
<1>4. task.kind = "adopt"
  OBVIOUS
<1> HIDE DEF task
<1>5. ~running[t]
  BY DEF SessionOK, TurnOK
<1>6. TurnOK(t)'
  BY <1>3, <1>5 DEF TurnOK
<1>7. ToolOK(t)'
  BY <1>1, <1>3, <1>4, NeutralTool DEF SessionOK, Asked
<1>8. QED
  BY <1>1, <1>3, <1>4, <1>6, <1>7, NeutralOK

\* The rewind that gave it.
LEMMA HandOverSession ==
  ASSUME TypeOK, NEW s \in Session, SessionOK(s), HandOver(s), queue'[s] = queue[s]
  PROVE  SessionOK(s)'
<1>1. /\ stage[s] = "creating" /\ stage'[s] = "waiting"
      /\ UNCHANGED <<disk, blobs, mem, file, todo, goal, heir, harness, count, ghosts>>
  BY DEF HandOver, TypeOK
<1>2. queue[s] # <<>> /\ Resting(s) /\ Elsewhere(s)
  BY <1>1 DEF SessionOK, StageOK, Resting, Elsewhere, harness, ghosts
<1>3. StageOK(s)'
  BY <1>1, <1>2 DEF SessionOK, StageOK, Saving, First, Rewinding, Restoring
<1>4. RestoreOK(s)'
  BY <1>1 DEF RestoreOK, Restoring
<1>5. QED
  BY <1>2, <1>3, <1>4, RestingElsewhere

-----------------------------------------------------------------------------
(* Sessions: the tools and the others *)

\* A path with a baseline does not matter to what a fold tells.
LEMMA HonestAt ==
  ASSUME NEW f \in Fold, Baselined(f), NEW p \in Path, f.baseline[p] # Unseen,
         NEW directory, NEW other, NEW except, Honest(f, directory, except),
         \A q \in Path : q # p => other[q] = directory[q]
  PROVE  Honest(f, other, except)
<1>1. \A i \in DOMAIN f.points : Restored(f, i)[p] # Unseen
  BY TouchedFacts
<1>2. QED
  BY <1>1 DEF Honest

\* A tool that writes has been announced, and its turn is open.
LEMMA WriterFacts ==
  ASSUME TypeOK, NEW s \in Session, SessionOK(s), tool[s] # None, tool[s].ready
  PROVE  /\ running[s] /\ heir[s] = None /\ mem[s] # None /\ mem[s].open # None
         /\ stage[s] \notin Restoring /\ tool[s].path \in Path
         /\ mem[s].baseline[tool[s].path] # Unseen
         /\ file[s] # None => file[s].baseline[tool[s].path] # Unseen
         /\ "state" \notin Torn => file[s] # None
         /\ \A i \in DOMAIN queue[s] : queue[s][i].kind \notin {"start", "intent"}
<1>1. /\ running[s] /\ heir[s] = None /\ mem[s] # None
      /\ mem[s].baseline[tool[s].path] # Unseen
      /\ file[s] # None => file[s].baseline[tool[s].path] # Unseen
      /\ "state" \notin Torn => file[s] # None
      /\ \A i \in DOMAIN queue[s] : queue[s][i].kind \notin {"start", "intent"}
  BY DEF SessionOK, ToolOK, TurnOK
<1>2. tool[s].path \in Path
  <2>1. tool[s] \in Call
    BY DEF TypeOK
  <2>2. QED
    BY <2>1 DEF Call
<1>3. LastTurn(s) \in Turn /\ Highest(log[s], LastTurn(s))
  BY LastIsTurn
<1>4. ~Awaited(s, LastTurn(s))
  BY <1>1 DEF Awaited
<1>5. Opened(s, LastTurn(s))
  BY <1>1, <1>3, <1>4 DEF SessionOK, TurnOK
<1>6. mem[s].open # None
  BY <1>3, <1>5, NoneIsNone DEF Opened
<1>7. stage[s] \notin Restoring
  BY <1>6 DEF SessionOK, StageOK
<1>8. QED
  BY <1>1, <1>2, <1>6, <1>7

LEMMA WriteByToolSession ==
  ASSUME TypeOK, NEW s \in Session, SessionOK(s), WriteByTool(s)
  PROVE  SessionOK(s)'
<1> DEFINE p == tool[s].path
<1>1. tool[s] # None /\ tool[s].ready
  BY DEF WriteByTool, Announced
<1>2. /\ running[s] /\ heir[s] = None /\ mem[s] # None /\ stage[s] \notin Restoring /\ p \in Path
      /\ mem[s].baseline[p] # Unseen /\ (file[s] # None => file[s].baseline[p] # Unseen)
      /\ \A i \in DOMAIN queue[s] : queue[s][i].kind \notin {"start", "intent"}
  BY <1>1, WriterFacts
<1> HIDE DEF p
<1>3. /\ \A q \in Path : q # p => disk'[q] = disk[q]
      /\ foreign'[s] = foreign[s] /\ tool'[s] = None
      /\ UNCHANGED <<service, live, log, surface, running, count, inherited>>
  BY DEF WriteByTool, TypeOK, p
<1>4. /\ mem' = mem /\ file' = file /\ queue' = queue /\ stage' = stage /\ todo' = todo
      /\ goal' = goal /\ heir' = heir /\ log' = log /\ running' = running /\ inherited' = inherited
      /\ live' = live
  BY <1>3 DEF service
<1>5. FoldsOK(s)'
  <2>1. SUFFICES ASSUME NEW f \in {mem[s], file[s]}, f # None
                 PROVE  f.session = s /\ FoldOK(f, log[s]) /\ Honest(f, disk', foreign[s])
    BY <1>3, <1>4 DEF FoldsOK
  <2>2. f \in Fold /\ f.session = s /\ FoldOK(f, log[s]) /\ Honest(f, disk, foreign[s])
    BY <2>1 DEF SessionOK, FoldsOK, TypeOK
  <2>3. f.baseline[p] # Unseen
    BY <1>2, <2>1
  <2>4. Honest(f, disk', foreign[s])
    BY <1>2, <1>3, <2>2, <2>3, HonestAt DEF FoldOK
  <2>5. QED
    BY <2>2, <2>4
<1>6. LogOK(s)' /\ TurnOK(s)'
  BY <1>4, KeepLog, KeepTurn DEF SessionOK
<1>7. ToolOK(s)'
  <2>1. ~Saving(s, "intent")
    <3>1. queue[s] # <<>> => Head(queue[s]).kind # "intent"
      BY <1>2, TailFacts DEF TypeOK
    <3>2. QED
      BY <3>1 DEF Saving, First
  <2>2. ~Saving(s, "intent")'
    BY <1>4, <2>1 DEF Saving, First
  <2>3. QED
    BY <1>2, <1>3, <1>4, <2>2 DEF ToolOK
<1>8. StageOK(s)' /\ InheritOK(s)'
  BY <1>4, KeepStage, KeepInherit DEF SessionOK
<1>9. RestoreOK(s)'
  BY <1>2, <1>4 DEF RestoreOK
<1>10. UnsavedOK(s)'
  <2>1. ~Saving(s, "adopt")
    BY <1>2 DEF SessionOK, StageOK
  <2>2. SUFFICES ASSUME "blob" \notin Torn, file[s] # None, NEW q \in Path \ foreign[s],
                        file[s].baseline[q] = Unseen, NEW i \in DOMAIN mem[s].points
                 PROVE  mem[s].points[i].was[q] = disk'[q]
    BY <1>3, <1>4 DEF UnsavedOK
  <2>3. mem[s].points[i].was[q] = disk[q]
    BY <1>2, <2>1, <2>2 DEF SessionOK, UnsavedOK
  <2>4. q # p
    BY <1>2, <2>2
  <2>5. QED
    BY <1>3, <2>2, <2>3, <2>4
<1>11. HeirOK(s)'
  BY <1>2, <1>4 DEF HeirOK
<1>12. s \in live
  BY <1>2, RunningIsLive
<1>13. Absent(s)'
  BY <1>4, <1>12 DEF Absent
<1>14. QED
  BY <1>5, <1>6, <1>7, <1>8, <1>9, <1>10, <1>11, <1>13 DEF SessionOK

-----------------------------------------------------------------------------
(* Sessions: forks and crashes *)

\* A queue without turns fits every log.
LEMMA QuietQueue ==
  ASSUME NEW q, NEW events, \A i \in DOMAIN q : q[i].kind \notin {"start", "end", "idle"}
  PROVE  /\ QueueOK(q, events) /\ QueueAtEnds(q, events)
         /\ \A open : OpenFits(open, q, events)
         /\ \A f : Ahead(f, q, events)
  BY DEF QueueOK, QueueAtEnds, OpenFits, Ahead, Timed

LEMMA AttachQueue ==
  /\ <<JustAttach>> \in Seq(Task) /\ <<>> \in Seq(Task)
  /\ DOMAIN <<JustAttach>> = 1..1 /\ <<JustAttach>>[1].kind = "attach"
  /\ \A q \in {<<JustAttach>>, <<>>} : \A i \in DOMAIN q : q[i].kind = "attach"
<1>1. JustAttach \in Task /\ JustAttach.kind = "attach"
  BY DEF JustAttach, Task
<1> HIDE DEF JustAttach
<1>2. QED
  BY <1>1

LEMMA CrashSession ==
  ASSUME TypeOK, NEW s \in Session, SessionOK(s), Crash
  PROVE  SessionOK(s)'
<1>1. file'[s] \in {file[s], None}
  BY DEF Crash, TypeOK
<1>2. /\ mem'[s] = None /\ queue'[s] = (IF s \in live THEN <<JustAttach>> ELSE <<>>)
      /\ stage'[s] = "ready" /\ heir'[s] = None /\ running'[s] = FALSE /\ tool'[s] = None
      /\ inherited'[s] = (IF file'[s] = None THEN None ELSE inherited[s])
      /\ disk' = disk /\ live' = live /\ log' = log /\ foreign' = foreign
  BY DEF Crash
<1>3. \A i \in DOMAIN queue'[s] : queue'[s][i].kind = "attach"
  BY <1>2, AttachQueue
<1>4. FoldsOK(s)'
  BY <1>1, <1>2 DEF SessionOK, FoldsOK
<1>5. LogOK(s)'
  <2>1. /\ QueueOK(queue'[s], log[s]) /\ QueueAtEnds(queue'[s], log[s])
        /\ \A open : OpenFits(open, queue'[s], log[s])
        /\ \A f : Ahead(f, queue'[s], log[s])
    BY <1>3, QuietQueue
  <2>2. QED
    BY <1>2, <2>1 DEF SessionOK, LogOK
<1>6. TurnOK(s)' /\ StageOK(s)' /\ RestoreOK(s)' /\ UnsavedOK(s)' /\ HeirOK(s)'
  BY <1>2 DEF TurnOK, StageOK, Saving, Rewinding, Restoring, RestoreOK, UnsavedOK, HeirOK
<1>7. ToolOK(s)'
  BY <1>2, <1>3 DEF ToolOK, Saving
<1>8. InheritOK(s)'
  BY <1>1, <1>2 DEF SessionOK, InheritOK
<1>9. Absent(s)'
  BY <1>1, <1>2 DEF SessionOK, Absent
<1>10. QED
  BY <1>4, <1>5, <1>6, <1>7, <1>8, <1>9 DEF SessionOK

\* The session that is made.
LEMMA ForkedSession ==
  ASSUME TypeOK, NEW s \in Session, SessionOK(s), stage[s] = "forking",
         NEW t \in Session \ live, SessionOK(t),
         live' = live \cup {t},
         log' = [log EXCEPT ![t] = ForkSeed(log[s], goal[s].seq, goal[s].turn)],
         heir' = [heir EXCEPT ![t] = [from |-> s, fold |-> RehomeState(mem[s], t)]],
         foreign' = [foreign EXCEPT ![t] = foreign[s]],
         queue' = [queue EXCEPT ![t] = <<JustAttach>>],
         stage'[t] = stage[t],
         UNCHANGED <<disk, blobs, mem, file, todo, running, tool, count, inherited>>
  PROVE  SessionOK(t)'
<1> DEFINE f == mem[s]
<1> DEFINE g == RehomeState(f, t)
<1> DEFINE ev == ForkSeed(log[s], goal[s].seq, goal[s].turn)
<1>1. /\ f # None /\ f.open = None /\ IdOf(f.points[Len(f.points)]) = goal[s] /\ goal[s] # None
  BY DEF SessionOK, StageOK, Rewinding
<1>2. /\ f \in Fold /\ FoldOK(f, log[s]) /\ Honest(f, disk, foreign[s]) /\ log[s] \in Seq(Turn)
      /\ HasLast(log[s])
  BY <1>1 DEF TypeOK, SessionOK, FoldsOK, LogOK
<1>3. Len(f.points) \in DOMAIN f.points /\ f.points[Len(f.points)] \in Point
  <2>1. f.points # <<>> /\ f.points \in Seq(Point)
    BY <1>2, FoldFields DEF FoldOK, Begun
  <2>2. Len(f.points) \in DOMAIN f.points
    BY <2>1
  <2>3. QED
    BY <1>2, <2>2, FoldFields
<1>4. /\ goal[s].turn = f.points[Len(f.points)].turn /\ goal[s].seq = f.points[Len(f.points)].seq
      /\ goal[s].turn \in Turn /\ goal[s].seq \in Nat
  BY <1>1, <1>3, PointFields
<1>5. ev \in Seq(Turn) /\ FoldOK(f, ev) /\ HasLast(ev)
  BY <1>1, <1>2, <1>4, SeedOK
<1>6. /\ mem[t] = None /\ file[t] = None /\ heir[t] = None /\ tool[t] = None
      /\ queue[t] = <<>> /\ log[t] = <<>> /\ ~running[t] /\ inherited[t] = None
  BY DEF SessionOK, Absent
<1>7. stage[t] = "ready"
  BY <1>6 DEF SessionOK, StageOK
<1>8. /\ log'[t] = ev /\ heir'[t] = [from |-> s, fold |-> g] /\ foreign'[t] = foreign[s]
      /\ queue'[t] = <<JustAttach>> /\ mem'[t] = None /\ file'[t] = None /\ tool'[t] = None
      /\ ~running'[t] /\ inherited'[t] = None /\ stage'[t] = "ready" /\ t \in live' /\ disk' = disk
  BY <1>6, <1>7 DEF TypeOK
<1> HIDE DEF f, ev
<1>9. g \in Fold /\ g.session = t /\ g.open = None
  BY <1>1, <1>2, RehomedOK
<1>10. FoldOK(g, ev)
  BY <1>2, <1>5, RehomedOK
<1>11. Honest(g, disk, foreign[s])
  BY <1>2, RehomedOK
<1> HIDE DEF g
<1>12. \A i \in DOMAIN queue'[t] : queue'[t][i].kind = "attach"
  BY <1>8, AttachQueue
<1>13. /\ QueueOK(queue'[t], ev) /\ QueueAtEnds(queue'[t], ev)
       /\ \A open : OpenFits(open, queue'[t], ev)
       /\ \A h : Ahead(h, queue'[t], ev)
  BY <1>12, QuietQueue
<1>14. FoldsOK(t)' /\ TurnOK(t)' /\ UnsavedOK(t)' /\ InheritOK(t)' /\ Absent(t)'
  BY <1>8 DEF FoldsOK, TurnOK, UnsavedOK, InheritOK, Absent
<1>15. LogOK(t)'
  <2>1. Current(t)' = None
    BY <1>8 DEF Current
  <2>2. QED
    BY <1>5, <1>8, <1>13, <2>1 DEF LogOK
<1>16. ToolOK(t)' /\ StageOK(t)' /\ RestoreOK(t)'
  BY <1>8, <1>12 DEF ToolOK, StageOK, RestoreOK, Saving, Rewinding, Restoring
<1>17. HeirOK(t)'
  <2>1. heir'[t].fold = g
    BY <1>8
  <2>2. QED
    BY <1>8, <1>9, <1>10, <1>11, <1>13, <2>1 DEF HeirOK
<1>18. QED
  BY <1>14, <1>15, <1>16, <1>17 DEF SessionOK

\* The session whose rewind makes it.
LEMMA ForkingSession ==
  ASSUME TypeOK, NEW s \in Session, SessionOK(s), stage[s] = "forking", stage'[s] = "creating",
         mem'[s] = mem[s], file'[s] = file[s], queue'[s] = queue[s], goal' = goal,
         heir'[s] = heir[s], live \subseteq live', log'[s] = log[s], running' = running,
         tool' = tool, inherited' = inherited, disk' = disk, foreign'[s] = foreign[s]
  PROVE  SessionOK(s)'
<1>1. queue[s] # <<>> /\ Resting(s) /\ Elsewhere(s)
  BY DEF SessionOK, StageOK, Resting, Elsewhere
<1>2. StageOK(s)'
  BY <1>1 DEF SessionOK, StageOK, Saving, First, Rewinding, Restoring
<1>3. RestoreOK(s)'
  BY DEF RestoreOK, Restoring
<1>4. QED
  BY <1>1, <1>2, <1>3, RestingElsewhere

-----------------------------------------------------------------------------
(* The other sessions *)

\* What a session's own work leaves alone.
Apart(u) ==
  /\ mem'[u] = mem[u] /\ stage'[u] = stage[u] /\ queue'[u] = queue[u] /\ foreign'[u] = foreign[u]

LEMMA DoneApart ==
  ASSUME TypeOK, NEW s \in Session, NEW u \in Session \ {s}, Done(s), mem' = mem,
         foreign'[u] = foreign[u]
  PROVE  Apart(u)
  BY DEF Done, Apart, TypeOK

LEMMA PersistApart ==
  ASSUME TypeOK, NEW s \in Session, NEW u \in Session \ {s}, NEW f, f.session = s, Persist(s, f),
         queue' = queue, foreign'[u] = foreign[u]
  PROVE  Apart(u)
  BY DEF Persist, Apart, TypeOK

LEMMA ApartUntouched ==
  ASSUME NEW u \in Session, Apart(u), file'[u] = file[u], todo'[u] = todo[u], goal'[u] = goal[u],
         heir'[u] = heir[u], live' = live, log'[u] = log[u], running'[u] = running[u],
         tool'[u] = tool[u], inherited'[u] = inherited[u], disk' = disk
  PROVE  Untouched(u)
  BY DEF Apart, Untouched, Elsewhere

LEMMA ConsideredSession ==
  ASSUME TypeOK, NEW s \in Session, SessionOK(s), NEW found \in Moved(Hydrated(s))
  PROVE  Considered(Hydrated(s), found) \in Fold /\ Considered(Hydrated(s), found).session = s
<1> DEFINE f == Hydrated(s)
<1>1. f \in Fold /\ f.session = s /\ FoldOK(f, log[s]) /\ Honest(f, disk, foreign[s])
  BY HydratedOK
<1>2. found \in SUBSET Path /\ log[s] \in Seq(Turn)
  BY MovedIsPaths DEF TypeOK
<1> HIDE DEF f
<1>3. Considered(f, found) \in Fold /\ Considered(f, found).session = f.session
  BY <1>1, <1>2, ConsideredOK
<1>4. QED
  BY <1>1, <1>3 DEF f

LEMMA FinishApart ==
  ASSUME TypeOK, NEW s \in Session, SessionOK(s), NEW u \in Session \ {s}, NEW turn, NEW seq,
         Finish(s, turn, seq)
  PROVE  Apart(u)
<1> DEFINE f == Hydrated(s)
<1>1. f \in Fold /\ f.session = s /\ FoldOK(f, log[s]) /\ log[s] \in Seq(Turn)
  BY HydratedOK DEF TypeOK
<1>2. CASE turn = None
  <2>1. /\ foreign' = foreign
        /\ \/ Done(s) /\ mem' = mem
           \/ Persist(s, f) /\ queue' = queue
    BY <1>2 DEF Finish
  <2> HIDE DEF f
  <2>2. QED
    BY <1>1, <2>1, DoneApart, PersistApart
<1>3. CASE turn # None
  <2>1. PICK found \in Moved(f) :
             /\ Persist(s, Finished(f, turn, seq, found))
             /\ IF HasTurn(f, turn) THEN UNCHANGED <<blobs, foreign>>
                ELSE blobs' = SnapshotBlobs(f, found) /\ Took(s, found)
             /\ UNCHANGED queue
    BY <1>3 DEF Finish
  <2>2. foreign'[u] = foreign[u]
    BY <2>1 DEF Took, TypeOK
  <2>3. Considered(f, found) \in Fold /\ Considered(f, found).session = s
    BY <2>1, ConsideredSession
  <2> HIDE DEF f
  <2>4. Finished(f, turn, seq, found).session = s
    <3>1. CASE HasTurn(f, turn)
      <4>1. Finished(f, turn, seq, found) = [f EXCEPT !.open = None]
        BY <3>1 DEF Finished
      <4>2. [f EXCEPT !.open = None].session = f.session
        BY <1>1, ClosedOK
      <4>3. QED
        BY <1>1, <4>1, <4>2
    <3>2. CASE ~HasTurn(f, turn)
      BY <2>3, <3>2, FinishedFields
    <3>3. QED
      BY <3>1, <3>2
  <2>5. QED
    BY <2>1, <2>2, <2>4, PersistApart
<1>4. QED
  BY <1>2, <1>3

\* What the first work of a session does to the others, up to its fold.
LEMMA BeginsApart ==
  ASSUME TypeOK, NEW s \in Session, SessionOK(s), NEW u \in Session \ {s},
         \/ DoAttach(s) \/ DoStart(s) \/ DoEnd(s) \/ DoIdle(s) \/ DoIntent(s) \/ DoList(s)
  PROVE  Untouched(u)
<1> DEFINE f == Hydrated(s)
<1>1. f \in Fold /\ f.session = s /\ FoldOK(f, log[s]) /\ log[s] \in Seq(Turn)
      /\ Honest(f, disk, foreign[s]) /\ disk \in [Path -> Content]
  BY HydratedOK DEF TypeOK
<1>2. ASSUME UNCHANGED <<disk, file, todo, goal, heir, harness, count, inherited>>, Apart(u)
      PROVE  Untouched(u)
  BY <1>2, ApartUntouched DEF harness
<1>3. CASE DoAttach(s)
  <2>1. /\ foreign' = foreign /\ UNCHANGED <<disk, file, todo, goal, heir, harness, count, inherited>>
        /\ \/ Done(s) /\ mem' = mem
           \/ Persist(s, f) /\ queue' = queue
    BY <1>3 DEF DoAttach, ghosts
  <2> HIDE DEF f
  <2>2. Apart(u)
    BY <1>1, <2>1, DoneApart, PersistApart
  <2>3. QED
    BY <1>2, <2>1, <2>2
<1>4. CASE DoStart(s)
  <2> DEFINE k == Head(queue[s]).turn
  <2>1. /\ foreign' = foreign /\ UNCHANGED <<disk, file, todo, goal, heir, harness, count, inherited>>
        /\ Persist(s, [f EXCEPT !.open = k]) /\ queue' = queue
    BY <1>4 DEF DoStart, ghosts
  <2> HIDE DEF f, k
  <2>2. [f EXCEPT !.open = k].session = s
    BY <1>1 DEF Fold
  <2>3. Apart(u)
    BY <2>1, <2>2, PersistApart
  <2>4. QED
    BY <1>2, <2>1, <2>3
<1>5. CASE DoEnd(s)
  <2>1. Apart(u)
    BY <1>5, FinishApart DEF DoEnd
  <2>2. QED
    BY <1>2, <1>5, <2>1 DEF DoEnd
<1>6. CASE DoIdle(s)
  <2>1. Apart(u)
    BY <1>6, FinishApart DEF DoIdle
  <2>2. QED
    BY <1>2, <1>6, <2>1 DEF DoIdle
<1>7. CASE DoIntent(s)
  <2> DEFINE p == tool[s].path
  <2>1. /\ foreign' = foreign /\ UNCHANGED <<disk, file, todo, goal, heir, harness, count, inherited>>
        /\ Persist(s, Intended(f, p)) /\ queue' = queue
    BY <1>7 DEF DoIntent, Intended, ghosts
  <2>2. p \in Path
    <3>1. Begins(s, "intent")
      BY <1>7 DEF DoIntent
    <3>2. tool[s] # None
      BY <3>1, BeginsFacts, FirstIntent DEF SessionOK
    <3>3. tool[s] \in Call
      BY <3>2 DEF TypeOK
    <3>4. QED
      BY <3>3 DEF Call
  <2> HIDE DEF f, p
  <2>3. Intended(f, p).session = f.session
    BY <1>1, <2>2, IntendedOK
  <2>4. Apart(u)
    BY <1>1, <2>1, <2>3, PersistApart
  <2>5. QED
    BY <1>2, <2>1, <2>4
<1>8. CASE DoList(s)
  <2>1. UNCHANGED <<disk, file, todo, goal, heir, harness, count, inherited>>
    BY <1>8 DEF DoList
  <2>2. \/ Done(s) /\ mem' = mem /\ foreign' = foreign
        \/ Persist(s, f) /\ queue' = queue /\ foreign' = foreign
        \/ \E found \in Moved(f) :
             /\ Took(s, found)
             /\ \/ Done(s) /\ mem' = mem
                \/ Persist(s, Considered(f, found)) /\ queue' = queue
    BY <1>8 DEF DoList
  <2>3. ASSUME NEW found \in Moved(f), Took(s, found),
               \/ Done(s) /\ mem' = mem
               \/ Persist(s, Considered(f, found)) /\ queue' = queue
        PROVE  Apart(u)
    <3>1. foreign'[u] = foreign[u]
      BY <2>3 DEF Took, TypeOK
    <3>2. Considered(f, found).session = s
      BY <2>3, ConsideredSession
    <3>3. QED
      BY <2>3, <3>1, <3>2, DoneApart, PersistApart
  <2> HIDE DEF f
  <2>4. Apart(u)
    BY <1>1, <2>2, <2>3, DoneApart, PersistApart
  <2>5. QED
    BY <1>2, <2>1, <2>4
<1>9. QED
  BY <1>3, <1>4, <1>5, <1>6, <1>7, <1>8

LEMMA SavesApart ==
  ASSUME TypeOK, NEW s \in Session, SessionOK(s), NEW u \in Session \ {s},
         Save(s) \/ SaveFails(s)
  PROVE  Untouched(u)
<1>1. CASE Save(s)
  <2>1. /\ mem'[u] = mem[u] /\ file'[u] = file[u] /\ todo'[u] = todo[u] /\ goal'[u] = goal[u]
        /\ live' = live /\ log' = log /\ running' = running /\ disk' = disk /\ foreign' = foreign
    BY <1>1 DEF Save, TypeOK
  <2>2. /\ stage'[u] = stage[u] /\ queue'[u] = queue[u] /\ heir'[u] = heir[u] /\ tool'[u] = tool[u]
        /\ inherited'[u] = inherited[u]
    BY <1>1 DEF Save, Saved, Done, TypeOK
  <2>3. QED
    BY <2>1, <2>2 DEF Untouched, Elsewhere
<1>2. CASE SaveFails(s)
  <2>1. /\ mem' = mem /\ todo' = todo /\ live' = live /\ log' = log /\ running' = running /\ disk' = disk
        /\ inherited' = inherited
        /\ stage'[u] = stage[u] /\ queue'[u] = queue[u]
    BY <1>2 DEF SaveFails, Failed, Done, TypeOK
  <2>2. file'[u] = file[u]
    BY <1>2 DEF SaveFails, TypeOK
  <2>3. tool'[u] = tool[u] /\ heir'[u] = heir[u] /\ goal'[u] = goal[u] /\ foreign'[u] = foreign[u]
    BY <1>2 DEF SaveFails, TypeOK
  <2>4. QED
    BY <2>1, <2>2, <2>3 DEF Untouched, Elsewhere
<1>3. QED
  BY <1>1, <1>2

LEMMA AdoptApart ==
  ASSUME TypeOK, NEW s \in Session, SessionOK(s), heir[s] # None, NEW u \in Session \ {s}, DoAdopt(s)
  PROVE  Untouched(u)
<1>1. heir[s].fold.session = s
  BY DEF SessionOK, HeirOK
<1>2. Persist(s, heir[s].fold) /\ queue' = queue /\ foreign' = foreign
      /\ UNCHANGED <<disk, file, todo, goal, heir, harness, inherited>>
  BY DEF DoAdopt, ghosts
<1>3. Apart(u)
  BY <1>1, <1>2, PersistApart
<1>4. QED
  BY <1>2, <1>3, ApartUntouched DEF harness

LEMMA DeleteApart ==
  ASSUME TypeOK, NEW s \in Session, NEW u \in Session \ {s}, NEW p \in Path, Delete(s, p)
  PROVE  Elsewhere(u)
<1>1. CASE ByRewind(s, p, Missing)
  BY <1>1 DEF ByRewind, Elsewhere, TypeOK
<1>2. CASE foreign' = [foreign EXCEPT ![s] = @ \cup {p}] /\ UNCHANGED disk
  BY <1>2 DEF Elsewhere, TypeOK
<1>3. QED
  BY <1>1, <1>2 DEF Delete

LEMMA RewindsApart ==
  ASSUME TypeOK, NEW s \in Session, SessionOK(s), NEW u \in Session \ {s},
         \/ BeginRewind(s) \/ DeleteLater(s) \/ WriteBack(s) \/ WriteBackFails(s) \/ FoldBack(s)
         \/ Return(s)
  PROVE  Untouched(u)
<1>1. CASE BeginRewind(s)
  <2>1. UNCHANGED <<disk, blobs, mem, file, heir, harness, count, ghosts>>
    BY <1>1 DEF BeginRewind
  <2>2. queue'[u] = queue[u] /\ stage'[u] = stage[u] /\ goal'[u] = goal[u] /\ todo'[u] = todo[u]
    BY <1>1 DEF BeginRewind, Done, Answered, TypeOK
  <2>3. QED
    BY <2>1, <2>2 DEF Untouched, Elsewhere, harness, ghosts
<1>2. CASE DeleteLater(s)
  <2>1. UNCHANGED <<blobs, mem, file, queue, goal, heir, harness, count, inherited>>
    BY <1>2 DEF DeleteLater
  <2>2. stage'[u] = stage[u] /\ todo'[u] = todo[u]
    BY <1>2 DEF DeleteLater, TypeOK
  <2>3. Elsewhere(u)
    <3>1. CASE UNCHANGED <<disk, foreign>>
      BY <3>1 DEF Elsewhere
    <3>2. CASE \E p \in todo[s].delete : Delete(s, p)
      BY <3>2, DeleteApart DEF TypeOK
    <3>3. QED
      BY <1>2, <3>1, <3>2 DEF DeleteLater
  <2>4. QED
    BY <2>1, <2>2, <2>3 DEF Untouched, harness
<1>3. CASE WriteBack(s)
  <2>1. UNCHANGED <<blobs, mem, file, queue, goal, heir, harness, count, inherited>>
    BY <1>3 DEF WriteBack
  <2>2. stage'[u] = stage[u] /\ todo'[u] = todo[u]
    BY <1>3 DEF WriteBack, TypeOK
  <2>3. Elsewhere(u)
    <3>1. CASE UNCHANGED <<disk, foreign>>
      BY <3>1 DEF Elsewhere
    <3>2. CASE \E p \in todo[s].write : \/ Delete(s, p)
                                        \/ \E c : ByRewind(s, p, c)
      <4>1. PICK p \in todo[s].write : \/ Delete(s, p)
                                       \/ \E c : ByRewind(s, p, c)
        BY <3>2
      <4>2. p \in Path
        BY <4>1 DEF TypeOK
      <4>3. CASE Delete(s, p)
        BY <4>2, <4>3, DeleteApart
      <4>4. CASE \E c : ByRewind(s, p, c)
        BY <4>2, <4>4 DEF ByRewind, Elsewhere, TypeOK
      <4>5. QED
        BY <4>1, <4>3, <4>4
    <3>3. QED
      BY <1>3, <3>1, <3>2 DEF WriteBack
  <2>4. QED
    BY <2>1, <2>2, <2>3 DEF Untouched, harness
<1>4. CASE WriteBackFails(s)
  <2>1. UNCHANGED <<disk, blobs, mem, file, heir, harness, count, ghosts>>
    BY <1>4 DEF WriteBackFails
  <2>2. queue'[u] = queue[u] /\ stage'[u] = stage[u] /\ goal'[u] = goal[u] /\ todo'[u] = todo[u]
    BY <1>4 DEF WriteBackFails, Done, Answered, TypeOK
  <2>3. QED
    BY <2>1, <2>2 DEF Untouched, Elsewhere, harness, ghosts
<1>5. CASE FoldBack(s)
  <2>1. UNCHANGED <<disk, blobs, file, queue, todo, goal, heir, live, running, tool, count, ghosts>>
        /\ Persist(s, TruncateAfter(mem[s], Target(s))) /\ log'[u] = log[u]
    BY <1>5 DEF FoldBack, TypeOK
  <2>2. mem[s] # None /\ Position(mem[s], goal[s]) # {}
    BY <1>5 DEF FoldBack, SessionOK, StageOK, Restoring
  <2>3. mem[s] \in Fold /\ FoldOK(mem[s], log[s]) /\ Target(s) \in DOMAIN mem[s].points
        /\ log[s] \in Seq(Turn) /\ mem[s].session = s
    BY <2>2, TargetFacts DEF TypeOK, SessionOK, FoldsOK
  <2>4. TruncateAfter(mem[s], Target(s)).session = s
    BY <2>3, TruncatedOK
  <2>5. Apart(u)
    BY <2>1, <2>4, PersistApart DEF ghosts
  <2>6. QED
    BY <2>1, <2>5, ApartUntouched DEF ghosts
<1>6. CASE Return(s)
  <2>1. UNCHANGED <<disk, blobs, mem, file, todo, heir, harness, count, ghosts>>
    BY <1>6 DEF Return
  <2>2. queue'[u] = queue[u] /\ stage'[u] = stage[u] /\ goal'[u] = goal[u]
    BY <1>6 DEF Return, Done, Answered, TypeOK
  <2>3. QED
    BY <2>1, <2>2 DEF Untouched, Elsewhere, harness, ghosts
<1>7. QED
  BY <1>1, <1>2, <1>3, <1>4, <1>5, <1>6

LEMMA HarnessApart ==
  ASSUME TypeOK, NEW s \in Session, NEW u \in Session \ {s},
         \/ StartTurn(s) \/ EndTurn(s) \/ Stop(s) \/ LateEnd(s)
         \/ \E p \in Path, d \in Data : CallTool(s, p, d)
         \/ AskList(s) \/ (\E i \in 1..MaxTurn + 1 : AskRewind(s, i)) \/ WriteByTool(s)
  PROVE  Untouched(u)
<1>1. CASE StartTurn(s)
  BY <1>1 DEF StartTurn, Enqueue, queueOnly, ghosts, Untouched, Elsewhere, TypeOK
<1>2. CASE EndTurn(s)
  BY <1>2 DEF EndTurn, Enqueue, queueOnly, ghosts, Untouched, Elsewhere, TypeOK
<1>3. CASE Stop(s)
  BY <1>3 DEF Stop, Enqueue, queueOnly, ghosts, Untouched, Elsewhere, TypeOK
<1>4. CASE LateEnd(s)
  BY <1>4 DEF LateEnd, Enqueue, queueOnly, ghosts, Untouched, Elsewhere, TypeOK
<1>5. CASE \E p \in Path, d \in Data : CallTool(s, p, d)
  BY <1>5 DEF CallTool, Enqueue, queueOnly, ghosts, Untouched, Elsewhere, TypeOK
<1>6. CASE AskList(s)
  BY <1>6 DEF AskList, Enqueue, queueOnly, harness, ghosts, Untouched, Elsewhere, TypeOK
<1>7. CASE \E i \in 1..MaxTurn + 1 : AskRewind(s, i)
  BY <1>7 DEF AskRewind, Enqueue, harness, ghosts, Untouched, Elsewhere, TypeOK
<1>8. CASE WriteByTool(s)
  BY <1>8 DEF WriteByTool, service, Untouched, Elsewhere, TypeOK
<1>9. QED
  BY <1>1, <1>2, <1>3, <1>4, <1>5, <1>6, <1>7, <1>8

-----------------------------------------------------------------------------
(* The heirs *)

LEMMA KeptAdopts ==
  ASSUME NEW q \in Seq(Task), NEW more, \A i, j \in Adopts(q) : i = j,
         \/ more = q
         \/ q # <<>> /\ more = Tail(q) /\ Head(q).kind # "adopt"
         \/ \E task \in Task : more = Append(q, task) /\ task.kind # "adopt"
  PROVE  /\ \A i, j \in Adopts(more) : i = j
         /\ Adopts(more) # {} <=> Adopts(q) # {}
<1>1. CASE more = q
  BY <1>1
<1>2. CASE q # <<>> /\ more = Tail(q) /\ Head(q).kind # "adopt"
  <2> DEFINE n == Len(q)
  <2>1. /\ DOMAIN q = 1..n /\ n \in Nat \ {0} /\ DOMAIN more = 1..(n - 1)
        /\ \A i \in DOMAIN more : i + 1 \in DOMAIN q /\ more[i] = q[i + 1]
        /\ q[1].kind # "adopt"
    BY <1>2, TailFacts
  <2> HIDE DEF n
  <2>2. \A i \in Adopts(more) : i + 1 \in Adopts(q) /\ i \in Nat
    <3>1. SUFFICES ASSUME NEW i \in Adopts(more) PROVE i + 1 \in Adopts(q) /\ i \in Nat
      OBVIOUS
    <3>2. i \in DOMAIN more /\ more[i].kind = "adopt"
      BY DEF Adopts
    <3>3. i \in Nat /\ i + 1 \in DOMAIN q /\ q[i + 1].kind = "adopt"
      BY <2>1, <3>2
    <3>4. QED
      BY <3>3 DEF Adopts
  <2>3. \A i \in Adopts(q) : i - 1 \in Adopts(more)
    <3>1. SUFFICES ASSUME NEW i \in Adopts(q) PROVE i - 1 \in Adopts(more)
      OBVIOUS
    <3>2. i \in DOMAIN q /\ q[i].kind = "adopt" /\ i # 1
      BY <2>1 DEF Adopts
    <3>3. i - 1 \in DOMAIN more /\ (i - 1) + 1 = i
      BY <2>1, <3>2
    <3>4. QED
      BY <2>1, <3>2, <3>3 DEF Adopts
  <2>4. ASSUME NEW i \in Adopts(more), NEW j \in Adopts(more) PROVE i = j
    BY <2>2, <2>4
  <2>5. QED
    BY <2>2, <2>3, <2>4
<1>3. CASE \E task \in Task : more = Append(q, task) /\ task.kind # "adopt"
  <2>1. PICK task \in Task : more = Append(q, task) /\ task.kind # "adopt"
    BY <1>3
  <2> DEFINE n == Len(q)
  <2>2. /\ DOMAIN more = 1..(n + 1) /\ more[n + 1] = task
        /\ DOMAIN q = 1..n /\ n \in Nat
        /\ \A i \in DOMAIN q : more[i] = q[i] /\ i \in DOMAIN more
    BY <2>1, AppendFacts
  <2> HIDE DEF n
  <2>2a. \A i \in DOMAIN more : i \in DOMAIN q \/ more[i] = task
    <3>1. SUFFICES ASSUME NEW i \in 1..(n + 1), i \notin 1..n PROVE i = n + 1
      BY <2>2
    <3>2. QED
      BY <2>2, <3>1
  <2>2b. \A i \in Adopts(more) : i \in Adopts(q)
    BY <2>1, <2>2, <2>2a DEF Adopts
  <2>2c. \A i \in Adopts(q) : i \in Adopts(more)
    BY <2>2 DEF Adopts
  <2>3. Adopts(more) = Adopts(q)
    BY <2>2b, <2>2c
  <2>4. QED
    BY <2>3
<1>4. QED
  BY <1>1, <1>2, <1>3

\* A step of one session that gives and takes no fold.
LEMMA HeirsStep ==
  ASSUME TypeOK, HeirsOK, NEW s \in Session, heir' = heir, live \subseteq live',
         \A t \in Session : heir[t] # None /\ heir[t].from = s => stage'[s] = stage[s],
         \A u \in Session : u # s => stage'[u] = stage[u] /\ queue'[u] = queue[u],
         \/ queue'[s] = queue[s]
         \/ queue[s] # <<>> /\ queue'[s] = Tail(queue[s]) /\ Head(queue[s]).kind # "adopt"
         \/ \E task \in Task : queue'[s] = Append(queue[s], task) /\ task.kind # "adopt"
  PROVE  HeirsOK'
<1>1. \A t \in Session : \A i, j \in Adopts(queue[t]) : i = j
  BY DEF HeirsOK
<1>2. /\ \A i, j \in Adopts(queue'[s]) : i = j
      /\ Adopts(queue'[s]) # {} <=> Adopts(queue[s]) # {}
  <2>1. queue[s] \in Seq(Task)
    BY DEF TypeOK
  <2>2. QED
    BY <1>1, <2>1, KeptAdopts
<1>3. \A t \in Session : /\ \A i, j \in Adopts(queue'[t]) : i = j
                         /\ Adopts(queue'[t]) # {} <=> Adopts(queue[t]) # {}
  BY <1>1, <1>2
<1>4. \A t \in Session : heir[t] # None => heir[t].from \in Session
  BY DEF TypeOK, Heir
<1>5. \A t \in Session : heir[t] # None => stage'[heir[t].from] = stage[heir[t].from]
  BY <1>4
<1>6. /\ \A t \in Session : heir[t] # None =>
           /\ heir[t].from \in live' /\ heir[t].from # t
           /\ stage'[heir[t].from] \in {"creating", "waiting"}
      /\ \A t \in Session : Adopts(queue'[t]) # {} <=>
           heir[t] # None /\ stage'[heir[t].from] = "waiting"
  BY <1>3, <1>5 DEF HeirsOK
<1>7. \A t, u \in Session : heir[t] # None /\ heir[u] # None /\ heir[t].from = heir[u].from => t = u
  BY DEF HeirsOK
<1>7a. NoCircle'
  BY DEF HeirsOK, NoCircle
<1>8. QED
  BY <1>3, <1>6, <1>7, <1>7a DEF HeirsOK

\* The child has its fold, or will never have it.
LEMMA HeirsAdopted ==
  ASSUME TypeOK, HeirsOK, NEW s \in Session, heir' = [heir EXCEPT ![s] = None], live' = live,
         queue[s] # <<>>, Head(queue[s]).kind = "adopt", stage[s] = "saving", Done(s)
  PROVE  HeirsOK'
<1>1. queue[s] \in Seq(Task) /\ queue'[s] = Tail(queue[s]) /\ heir'[s] = None
  BY DEF TypeOK, Done
<1>2. \A u \in Session : u # s => stage'[u] = stage[u] /\ queue'[u] = queue[u] /\ heir'[u] = heir[u]
  BY DEF TypeOK, Done
<1>3. Adopts(queue'[s]) = {}
  <2>1. /\ DOMAIN queue[s] = 1..Len(queue[s]) /\ Len(queue[s]) \in Nat \ {0}
        /\ \A i \in DOMAIN queue'[s] : i + 1 \in DOMAIN queue[s] /\ queue'[s][i] = queue[s][i + 1]
        /\ queue[s][1].kind = "adopt" /\ 1 \in DOMAIN queue[s]
        /\ DOMAIN queue'[s] = 1..(Len(queue[s]) - 1)
    BY <1>1, TailFacts
  <2>2. \A i \in Adopts(queue'[s]) : i + 1 \in Adopts(queue[s]) /\ i + 1 # 1
    BY <2>1 DEF Adopts
  <2>3. 1 \in Adopts(queue[s])
    BY <2>1 DEF Adopts
  <2>4. \A i, j \in Adopts(queue[s]) : i = j
    BY DEF HeirsOK
  <2>5. QED
    BY <2>2, <2>3, <2>4
<1>4. \A t \in Session : heir'[t] # None => heir[t] # None /\ heir'[t] = heir[t] /\ t # s
  BY <1>1, <1>2
<1>5. \A t \in Session : heir[t] # None => heir[t].from \in Session /\ heir[t].from # s
  BY DEF TypeOK, Heir, HeirsOK
<1>6. \A t \in Session : heir[t] # None => stage'[heir[t].from] = stage[heir[t].from]
  BY <1>2, <1>5
<1>7. \A t \in Session : heir'[t] # None =>
        /\ heir'[t].from \in live' /\ heir'[t].from # t
        /\ stage'[heir'[t].from] \in {"creating", "waiting"}
  BY <1>4, <1>6 DEF HeirsOK
<1>8. \A t \in Session : \A i, j \in Adopts(queue'[t]) : i = j
  BY <1>2, <1>3 DEF HeirsOK
<1>9. \A t \in Session : Adopts(queue'[t]) # {} <=> heir'[t] # None /\ stage'[heir'[t].from] = "waiting"
  <2>1. SUFFICES ASSUME NEW t \in Session
        PROVE  Adopts(queue'[t]) # {} <=> heir'[t] # None /\ stage'[heir'[t].from] = "waiting"
    OBVIOUS
  <2>2. CASE t = s
    BY <1>1, <1>3, <2>2
  <2>3. CASE t # s
    <3>1. queue'[t] = queue[t] /\ heir'[t] = heir[t]
      BY <1>2, <2>3
    <3>2. Adopts(queue[t]) # {} <=> heir[t] # None /\ stage[heir[t].from] = "waiting"
      BY DEF HeirsOK
    <3>3. QED
      BY <1>6, <3>1, <3>2
  <2>4. QED
    BY <2>2, <2>3
<1>10. \A t, u \in Session : heir'[t] # None /\ heir'[u] # None /\ heir'[t].from = heir'[u].from => t = u
  BY <1>4 DEF HeirsOK
<1>11. ASSUME NEW circle \in (SUBSET Session) \ {{}}
       PROVE  \E v \in circle : \A t \in circle : heir'[t] # None => heir'[t].from # v
  <2>1. PICK v \in circle : \A t \in circle : heir[t] # None => heir[t].from # v
    BY <1>11 DEF HeirsOK, NoCircle
  <2>2. QED
    BY <1>4, <2>1
<1>12. NoCircle'
  BY <1>11 DEF NoCircle
<1>13. QED
  BY <1>7, <1>8, <1>9, <1>10, <1>12 DEF HeirsOK

LEMMA HeirsForked ==
  ASSUME TypeOK, HeirsOK, NEW s \in Session, s \in live, stage[s] = "forking",
         NEW t \in Session \ live, heir[t] = None, NEW g,
         live' = live \cup {t},
         heir' = [heir EXCEPT ![t] = [from |-> s, fold |-> g]],
         queue' = [queue EXCEPT ![t] = <<JustAttach>>],
         stage' = [stage EXCEPT ![s] = "creating"]
  PROVE  HeirsOK'
<1>1. /\ heir'[t] = [from |-> s, fold |-> g] /\ heir'[t].from = s /\ queue'[t] = <<JustAttach>>
      /\ stage'[s] = "creating" /\ s # t
      /\ \A u \in Session : u # t => heir'[u] = heir[u] /\ queue'[u] = queue[u]
      /\ \A u \in Session : u # s => stage'[u] = stage[u]
  BY DEF TypeOK
<1>2. Adopts(queue'[t]) = {}
  BY <1>1, AttachQueue DEF Adopts
<1>3. \A u \in Session : heir[u] # None =>
        /\ heir[u].from \in Session /\ heir[u].from # s /\ heir[u].from # t /\ heir[u].from \in live
        /\ stage'[heir[u].from] = stage[heir[u].from]
  BY <1>1 DEF TypeOK, Heir, HeirsOK
<1>4. \A u \in Session : heir'[u] # None =>
        /\ heir'[u].from \in live' /\ heir'[u].from # u
        /\ stage'[heir'[u].from] \in {"creating", "waiting"}
  BY <1>1, <1>3 DEF HeirsOK
<1>5. \A u \in Session : \A i, j \in Adopts(queue'[u]) : i = j
  BY <1>1, <1>2 DEF HeirsOK
<1>6. \A u \in Session : Adopts(queue'[u]) # {} <=> heir'[u] # None /\ stage'[heir'[u].from] = "waiting"
  <2>1. SUFFICES ASSUME NEW u \in Session
        PROVE  Adopts(queue'[u]) # {} <=> heir'[u] # None /\ stage'[heir'[u].from] = "waiting"
    OBVIOUS
  <2>2. CASE u = t
    BY <1>1, <1>2, <2>2
  <2>3. CASE u # t
    <3>1. Adopts(queue[u]) # {} <=> heir[u] # None /\ stage[heir[u].from] = "waiting"
      BY DEF HeirsOK
    <3>2. QED
      BY <1>1, <1>3, <2>3, <3>1
  <2>4. QED
    BY <2>2, <2>3
<1>7. \A u, v \in Session : heir'[u] # None /\ heir'[v] # None /\ heir'[u].from = heir'[v].from => u = v
  BY <1>1, <1>3 DEF HeirsOK
<1>8. ASSUME NEW circle \in (SUBSET Session) \ {{}}
      PROVE  \E v \in circle : \A u \in circle : heir'[u] # None => heir'[u].from # v
  <2>1. CASE t \in circle
    <3>1. \A u \in circle : heir'[u] # None => heir'[u].from # t
      BY <1>1, <1>3
    <3>2. QED
      BY <2>1, <3>1
  <2>2. CASE t \notin circle
    <3>1. PICK v \in circle : \A u \in circle : heir[u] # None => heir[u].from # v
      BY <1>8 DEF HeirsOK, NoCircle
    <3>2. QED
      BY <1>1, <2>2, <3>1
  <2>3. QED
    BY <2>1, <2>2
<1>9. NoCircle'
  BY <1>8 DEF NoCircle
<1>10. QED
  BY <1>4, <1>5, <1>6, <1>7, <1>9 DEF HeirsOK

LEMMA HeirsHandedOver ==
  ASSUME TypeOK, HeirsOK, NEW s \in Session, stage[s] = "creating",
         NEW t \in Session, heir[t] # None, heir[t].from = s,
         queue' = Enqueue(queue, t, "adopt", None, 0), stage' = [stage EXCEPT ![s] = "waiting"],
         heir' = heir, live' = live
  PROVE  HeirsOK'
<1> DEFINE task == [kind |-> "adopt", turn |-> None, seq |-> 0]
<1>1. /\ task \in Task /\ queue'[t] = Append(queue[t], task) /\ queue[t] \in Seq(Task)
      /\ \A u \in Session : u # t => queue'[u] = queue[u]
  BY PlainTask
<1>2. task.kind = "adopt"
  OBVIOUS
<1> HIDE DEF task
<1>3. stage'[s] = "waiting" /\ \A u \in Session : u # s => stage'[u] = stage[u]
  BY DEF TypeOK
<1>4. \A u \in Session : heir[u] # None => heir[u].from \in Session /\ (heir[u].from = s => u = t)
  BY DEF TypeOK, Heir, HeirsOK
<1>5. Adopts(queue[t]) = {}
  BY DEF HeirsOK
<1>6. Adopts(queue'[t]) = {Len(queue[t]) + 1}
  <2>1. /\ DOMAIN queue'[t] = 1..(Len(queue[t]) + 1) /\ queue'[t][Len(queue[t]) + 1] = task
        /\ DOMAIN queue[t] = 1..Len(queue[t]) /\ Len(queue[t]) \in Nat
        /\ \A i \in DOMAIN queue[t] : queue'[t][i] = queue[t][i]
    BY <1>1, AppendFacts
  <2>2. QED
    BY <1>2, <1>5, <2>1 DEF Adopts
<1>7. \A u \in Session : heir[u] # None =>
        /\ heir[u].from \in live /\ heir[u].from # u
        /\ stage'[heir[u].from] \in {"creating", "waiting"}
  BY <1>3, <1>4 DEF HeirsOK
<1>8. \A u \in Session : \A i, j \in Adopts(queue'[u]) : i = j
  <2>1. SUFFICES ASSUME NEW u \in Session PROVE \A i, j \in Adopts(queue'[u]) : i = j
    OBVIOUS
  <2>2. CASE u = t
    <3>1. Adopts(queue'[u]) = {Len(queue[t]) + 1}
      BY <1>6, <2>2
    <3>2. QED
      BY <3>1
  <2>3. CASE u # t
    <3>1. \A i, j \in Adopts(queue[u]) : i = j
      BY DEF HeirsOK
    <3>2. QED
      BY <1>1, <2>3, <3>1
  <2>4. QED
    BY <2>2, <2>3
<1>9. \A u \in Session : Adopts(queue'[u]) # {} <=> heir[u] # None /\ stage'[heir[u].from] = "waiting"
  <2>1. SUFFICES ASSUME NEW u \in Session
        PROVE  Adopts(queue'[u]) # {} <=> heir[u] # None /\ stage'[heir[u].from] = "waiting"
    OBVIOUS
  <2>2. CASE u = t
    BY <1>3, <1>6, <2>2
  <2>3. CASE u # t
    <3>1. Adopts(queue[u]) # {} <=> heir[u] # None /\ stage[heir[u].from] = "waiting"
      BY DEF HeirsOK
    <3>2. QED
      BY <1>1, <1>3, <1>4, <2>3, <3>1
  <2>4. QED
    BY <2>2, <2>3
<1>10. \A u, v \in Session : heir[u] # None /\ heir[v] # None /\ heir[u].from = heir[v].from => u = v
  BY DEF HeirsOK
<1>11. NoCircle'
  BY DEF HeirsOK, NoCircle
<1>12. QED
  BY <1>7, <1>8, <1>9, <1>10, <1>11 DEF HeirsOK

LEMMA HeirsCrashed ==
  ASSUME TypeOK, Crash
  PROVE  HeirsOK'
<1>1. \A t \in Session : heir'[t] = None /\ queue'[t] \in {<<JustAttach>>, <<>>}
  BY DEF Crash
<1>2. \A t \in Session : Adopts(queue'[t]) = {}
  BY <1>1, AttachQueue DEF Adopts
<1>3. ASSUME NEW circle \in (SUBSET Session) \ {{}}
      PROVE  \E v \in circle : \A t \in circle : heir'[t] # None => heir'[t].from # v
  <2>0. circle \in SUBSET Session /\ circle \notin {{}}
    BY <1>3, Zenon
  <2>1. circle \in SUBSET Session /\ circle # {}
    BY <2>0, Zenon
  <2>2. \A t \in circle : heir'[t] = None
    BY <1>1, <2>1
  <2>3. QED
    BY <2>1, <2>2
<1>4. NoCircle'
  BY <1>3 DEF NoCircle
<1>5. QED
  BY <1>1, <1>2, <1>4 DEF HeirsOK

-----------------------------------------------------------------------------
(* A step of the system keeps every session *)

LEMMA AdoptsHeir ==
  ASSUME TypeOK, HeirsOK, NEW s \in Session, First(s, "adopt")
  PROVE  heir[s] # None
<1>1. queue[s] \in Seq(Task) /\ queue[s] # <<>> /\ Head(queue[s]).kind = "adopt"
  BY DEF TypeOK, First
<1>2. 1 \in Adopts(queue[s])
  BY <1>1, TailFacts DEF Adopts
<1>3. QED
  BY <1>2 DEF HeirsOK

LEMMA SessionsKept ==
  ASSUME \A u \in Session : SessionOK(u), NEW s \in Session, SessionOK(s)',
         \A u \in Session \ {s} : Untouched(u)
  PROVE  \A u \in Session : SessionOK(u)'
<1>1. \A u \in Session \ {s} : SessionOK(u)'
  BY Frame
<1>2. QED
  BY <1>1

LEMMA WorkSessions ==
  ASSUME IInv, NEW s \in Session,
         \/ DoAttach(s) \/ DoStart(s) \/ DoEnd(s) \/ DoIdle(s) \/ DoIntent(s) \/ DoList(s)
         \/ DoAdopt(s) \/ Save(s) \/ SaveFails(s)
  PROVE  \A u \in Session : SessionOK(u)'
<1>1. TypeOK /\ (\A u \in Session : SessionOK(u)) /\ HeirsOK /\ SessionOK(s)
  BY DEF IInv
<1>2. CASE \/ DoAttach(s) \/ DoStart(s) \/ DoEnd(s) \/ DoIdle(s) \/ DoIntent(s) \/ DoList(s)
  <2>1. SessionOK(s)'
    BY <1>1, <1>2, AttachSession, StartSession, EndSession, IdleSession, IntentSession, ListSession
  <2>2. \A u \in Session \ {s} : Untouched(u)
    BY <1>1, <1>2, BeginsApart
  <2>3. QED
    BY <1>1, <2>1, <2>2, SessionsKept
<1>3. CASE DoAdopt(s)
  <2>1. heir[s] # None
    BY <1>1, <1>3, AdoptsHeir DEF DoAdopt, Begins, First
  <2>2. SessionOK(s)' /\ \A u \in Session \ {s} : Untouched(u)
    BY <1>1, <1>3, <2>1, AdoptSession, AdoptApart
  <2>3. QED
    BY <1>1, <2>2, SessionsKept
<1>4. CASE Save(s) \/ SaveFails(s)
  <2>1. SessionOK(s)' /\ \A u \in Session \ {s} : Untouched(u)
    BY <1>1, <1>4, SaveOK, SaveFailsOK, SavesApart
  <2>2. QED
    BY <1>1, <2>1, SessionsKept
<1>5. QED
  BY <1>2, <1>3, <1>4

LEMMA RewindSessions ==
  ASSUME IInv, NEW s \in Session,
         \/ BeginRewind(s) \/ DeleteLater(s) \/ WriteBack(s) \/ WriteBackFails(s) \/ FoldBack(s)
         \/ Return(s)
  PROVE  \A u \in Session : SessionOK(u)'
<1>1. TypeOK /\ (\A u \in Session : SessionOK(u)) /\ NoCut /\ SessionOK(s)
  BY DEF IInv
<1>2. SessionOK(s)'
  BY <1>1, BeginRewindSession, DeleteSession, WriteSession, WriteFailsSession, FoldBackSession, ReturnSession
<1>3. \A u \in Session \ {s} : Untouched(u)
  BY <1>1, RewindsApart
<1>4. QED
  BY <1>1, <1>2, <1>3, SessionsKept

LEMMA HarnessSessions ==
  ASSUME IInv, NEW s \in Session,
         \/ StartTurn(s) \/ EndTurn(s) \/ Stop(s) \/ LateEnd(s)
         \/ \E p \in Path, d \in Data : CallTool(s, p, d)
         \/ AskList(s) \/ (\E i \in 1..MaxTurn + 1 : AskRewind(s, i)) \/ WriteByTool(s)
  PROVE  \A u \in Session : SessionOK(u)'
<1>1. TypeOK /\ (\A u \in Session : SessionOK(u)) /\ SessionOK(s)
  BY DEF IInv
<1>2. CASE \/ StartTurn(s) \/ EndTurn(s) \/ Stop(s) \/ LateEnd(s) \/ AskList(s) \/ WriteByTool(s)
  BY <1>1, <1>2, StartTurnSession, EndTurnSession, StopSession, LateEndSession, AskListSession,
     WriteByToolSession, HarnessApart, SessionsKept
<1>3. CASE \E p \in Path, d \in Data : CallTool(s, p, d)
  <2>1. SessionOK(s)'
    BY <1>1, <1>3, CallToolSession
  <2>2. \A u \in Session \ {s} : Untouched(u)
    BY <1>1, <1>3, HarnessApart
  <2>3. QED
    BY <1>1, <2>1, <2>2, SessionsKept
<1>4. CASE \E i \in 1..MaxTurn + 1 : AskRewind(s, i)
  <2>1. SessionOK(s)'
    BY <1>1, <1>4, AskRewindSession
  <2>2. \A u \in Session \ {s} : Untouched(u)
    BY <1>1, <1>4, HarnessApart
  <2>3. QED
    BY <1>1, <2>1, <2>2, SessionsKept
<1>5. QED
  BY <1>2, <1>3, <1>4

LEMMA ForkSessions ==
  ASSUME IInv, NEW s \in Session, Fork(s)
  PROVE  (\A u \in Session : SessionOK(u)') /\ HeirsOK'
<1>1. TypeOK /\ (\A u \in Session : SessionOK(u)) /\ SessionOK(s) /\ HeirsOK
  BY DEF IInv
<1>2. /\ stage[s] = "forking"
      /\ UNCHANGED <<disk, blobs, mem, file, todo, running, tool, count, inherited>>
  BY DEF Fork
<1>3. /\ queue[s] # <<>> /\ mem[s] # None /\ First(s, "rewind") /\ s \in live
  BY <1>1, <1>2, RunningIsLive DEF SessionOK, StageOK, Rewinding
<1>4. CASE /\ Done(s) /\ Answered(s)
           /\ UNCHANGED <<heir, live, log, surface, foreign>>
  <2>1. SessionOK(s)'
    BY <1>1, <1>2, <1>4, RewindOver DEF Rewinding, Elsewhere
  <2>2. \A u \in Session \ {s} : Untouched(u)
    BY <1>1, <1>2, <1>4 DEF Done, Answered, Untouched, Elsewhere, TypeOK
  <2>3. HeirsOK'
    <3>1. \A t \in Session : heir[t] # None => heir[t].from # s
      BY <1>1, <1>2 DEF HeirsOK
    <3>2. /\ \A u \in Session : u # s => stage'[u] = stage[u] /\ queue'[u] = queue[u]
          /\ queue[s] # <<>> /\ queue'[s] = Tail(queue[s]) /\ Head(queue[s]).kind # "adopt"
      BY <1>1, <1>3, <1>4 DEF Done, First, TypeOK
    <3>3. QED
      BY <1>1, <1>4, <3>1, <3>2, HeirsStep
  <2>4. QED
    BY <1>1, <2>1, <2>2, <2>3, SessionsKept
<1>5. ASSUME NEW t \in Session \ live,
             /\ live' = live \cup {t}
             /\ log' = [log EXCEPT ![t] = ForkSeed(log[s], goal[s].seq, goal[s].turn)]
             /\ surface' = [surface EXCEPT ![t] = surface[s] \cap DOMAIN log'[t]]
             /\ heir' = [heir EXCEPT ![t] = [from |-> s, fold |-> RehomeState(mem[s], t)]]
             /\ foreign' = [foreign EXCEPT ![t] = foreign[s]]
             /\ queue' = [queue EXCEPT ![t] = <<JustAttach>>]
             /\ stage' = [stage EXCEPT ![s] = "creating"]
             /\ UNCHANGED goal
      PROVE  (\A u \in Session : SessionOK(u)') /\ HeirsOK'
  <2>1. t # s /\ heir[t] = None /\ SessionOK(t) /\ t \in Session
    BY <1>1, <1>3 DEF SessionOK, Absent
  <2>2. stage'[t] = stage[t] /\ stage'[s] = "creating"
    BY <1>1, <1>5, <2>1 DEF TypeOK
  <2>3. SessionOK(t)'
    BY <1>1, <1>2, <1>5, <2>1, <2>2, ForkedSession
  <2>4. /\ queue'[s] = queue[s] /\ heir'[s] = heir[s] /\ log'[s] = log[s] /\ foreign'[s] = foreign[s]
        /\ live \subseteq live'
    BY <1>1, <1>5, <2>1 DEF TypeOK
  <2>5. SessionOK(s)'
    BY <1>1, <1>2, <1>5, <2>2, <2>4, ForkingSession
  <2>6. ASSUME NEW u \in Session \ {s, t} PROVE SessionOK(u)'
    <3>1. Untouched(u)
      BY <1>1, <1>2, <1>5 DEF Untouched, Elsewhere, TypeOK
    <3>2. QED
      BY <1>1, <3>1, Frame
  <2>7. HeirsOK'
    BY <1>1, <1>2, <1>3, <1>5, <2>1, HeirsForked
  <2>8. QED
    BY <2>3, <2>5, <2>6, <2>7
<1>6. QED
  BY <1>4, <1>5 DEF Fork

LEMMA HandOverSessions ==
  ASSUME IInv, NEW s \in Session, HandOver(s)
  PROVE  (\A u \in Session : SessionOK(u)') /\ HeirsOK'
<1>1. TypeOK /\ (\A u \in Session : SessionOK(u)) /\ SessionOK(s) /\ HeirsOK
  BY DEF IInv
<1>2. PICK t \in Session : heir[t] # None /\ heir[t].from = s /\ queue' = Enqueue(queue, t, "adopt", None, 0)
  BY DEF HandOver
<1>3. /\ stage[s] = "creating" /\ stage' = [stage EXCEPT ![s] = "waiting"]
      /\ UNCHANGED <<disk, blobs, mem, file, todo, goal, heir, harness, count, ghosts>>
  BY DEF HandOver
<1>4. t # s /\ SessionOK(t)
  BY <1>1, <1>2 DEF HeirsOK
<1>5. queue'[s] = queue[s] /\ stage'[t] = stage[t]
  BY <1>1, <1>2, <1>3, <1>4, PlainTask DEF TypeOK
<1>6. SessionOK(t)'
  BY <1>1, <1>2, <1>3, <1>4, <1>5, HeirSession
<1>7. SessionOK(s)'
  BY <1>1, <1>5, HandOverSession
<1>8. ASSUME NEW u \in Session \ {s, t} PROVE SessionOK(u)'
  <2>1. queue'[u] = queue[u]
    BY <1>1, <1>2, PlainTask
  <2>2. Untouched(u)
    BY <1>1, <1>3, <2>1 DEF Untouched, Elsewhere, harness, ghosts, TypeOK
  <2>3. QED
    BY <1>1, <2>2, Frame
<1>9. HeirsOK'
  BY <1>1, <1>2, <1>3, HeirsHandedOver DEF harness
<1>10. QED
  BY <1>6, <1>7, <1>8, <1>9

LEMMA OtherSessions ==
  ASSUME IInv, NEW p \in Path, NEW c \in Data \cup {Missing}, WriteByOther(p, c)
  PROVE  (\A u \in Session : SessionOK(u)') /\ HeirsOK'
<1>1. TypeOK /\ (\A u \in Session : SessionOK(u)) /\ HeirsOK
  BY DEF IInv
<1>2. \A u \in Session : Untouched(u)
  BY <1>1 DEF WriteByOther, service, harness, Untouched, Elsewhere, TypeOK
<1>3. \A u \in Session : SessionOK(u)'
  BY <1>1, <1>2, Frame
<1>4. heir' = heir /\ live' = live /\ stage' = stage /\ queue' = queue
  BY DEF WriteByOther, service, harness
<1>5. HeirsOK'
  BY <1>1, <1>4 DEF HeirsOK, NoCircle
<1>6. QED
  BY <1>3, <1>5

LEMMA CrashSessions ==
  ASSUME IInv, Crash
  PROVE  (\A u \in Session : SessionOK(u)') /\ HeirsOK'
  BY CrashSession, HeirsCrashed DEF IInv

-----------------------------------------------------------------------------
(* A step of one session keeps the heirs *)

LEMMA BegunHeirs ==
  ASSUME IInv, NEW s \in Session, stage[s] \notin {"creating", "waiting"}, heir' = heir,
         live \subseteq live', \A u \in Session : u # s => stage'[u] = stage[u],
         \/ queue' = queue
         \/ queue[s] # <<>> /\ Head(queue[s]).kind # "adopt" /\ queue' = [queue EXCEPT ![s] = Tail(@)]
  PROVE  HeirsOK'
<1>1. TypeOK /\ HeirsOK
  BY DEF IInv
<1>2. \A t \in Session : ~(heir[t] # None /\ heir[t].from = s)
  BY <1>1 DEF HeirsOK
<1>3. /\ \A u \in Session : u # s => stage'[u] = stage[u] /\ queue'[u] = queue[u]
      /\ \/ queue'[s] = queue[s]
         \/ queue[s] # <<>> /\ queue'[s] = Tail(queue[s]) /\ Head(queue[s]).kind # "adopt"
  BY <1>1 DEF TypeOK
<1>4. QED
  BY <1>1, <1>2, <1>3, HeirsStep

LEMMA FinishHeirs ==
  ASSUME TypeOK, NEW s \in Session, NEW turn, NEW seq, Finish(s, turn, seq), SessionOK(s)
  PROVE  /\ \A u \in Session : u # s => stage'[u] = stage[u]
         /\ queue' = queue \/ queue' = [queue EXCEPT ![s] = Tail(@)]
<1>1. stage' = [stage EXCEPT ![s] = "ready"] \/ stage' = [stage EXCEPT ![s] = "saving"]
  BY DEF Finish, Done, Persist
<1>2. QED
  BY <1>1 DEF Finish, Done, Persist, TypeOK

LEMMA WorkHeirs ==
  ASSUME IInv, NEW s \in Session,
         \/ DoAttach(s) \/ DoStart(s) \/ DoEnd(s) \/ DoIdle(s) \/ DoIntent(s) \/ DoList(s)
         \/ DoAdopt(s)
  PROVE  HeirsOK'
<1>1. TypeOK /\ SessionOK(s)
  BY DEF IInv
<1>2. CASE DoAttach(s)
  <2>1. /\ \A u \in Session : u # s => stage'[u] = stage[u]
        /\ queue' = queue \/ queue' = [queue EXCEPT ![s] = Tail(@)]
    BY <1>1, <1>2 DEF DoAttach, Done, Persist, TypeOK
  <2>2. /\ stage[s] = "ready" /\ heir' = heir /\ live' = live
        /\ queue[s] # <<>> /\ Head(queue[s]).kind # "adopt"
    BY <1>2 DEF DoAttach, Begins, harness
  <2>3. QED
    BY <2>1, <2>2, BegunHeirs
<1>3. CASE DoStart(s) \/ DoIntent(s)
  <2>1. (\A u \in Session : u # s => stage'[u] = stage[u]) /\ queue' = queue
    BY <1>1, <1>3 DEF DoStart, DoIntent, Persist, TypeOK
  <2>2. stage[s] = "ready" /\ heir' = heir /\ live' = live
    BY <1>3 DEF DoStart, DoIntent, Begins, harness
  <2>3. QED
    BY <2>1, <2>2, BegunHeirs
<1>4. CASE DoEnd(s) \/ DoIdle(s)
  <2>1. /\ \A u \in Session : u # s => stage'[u] = stage[u]
        /\ queue' = queue \/ queue' = [queue EXCEPT ![s] = Tail(@)]
    BY <1>1, <1>4, FinishHeirs DEF DoEnd, DoIdle
  <2>2. /\ stage[s] = "ready" /\ heir' = heir /\ live' = live
        /\ queue[s] # <<>> /\ Head(queue[s]).kind # "adopt"
    BY <1>4 DEF DoEnd, DoIdle, Begins, harness
  <2>3. QED
    BY <2>1, <2>2, BegunHeirs
<1>5. CASE DoList(s)
  <2>1. stage' = [stage EXCEPT ![s] = "ready"] \/ stage' = [stage EXCEPT ![s] = "saving"]
    BY <1>5 DEF DoList, Done, Persist
  <2>2. queue' = queue \/ queue' = [queue EXCEPT ![s] = Tail(@)]
    BY <1>5 DEF DoList, Done, Persist
  <2>3. /\ stage[s] = "ready" /\ heir' = heir /\ live' = live
        /\ queue[s] # <<>> /\ Head(queue[s]).kind # "adopt"
    BY <1>5 DEF DoList, Begins, harness
  <2>4. \A u \in Session : u # s => stage'[u] = stage[u]
    BY <1>1, <2>1 DEF TypeOK
  <2>5. QED
    BY <2>2, <2>3, <2>4, BegunHeirs
<1>6. CASE DoAdopt(s)
  <2>1. (\A u \in Session : u # s => stage'[u] = stage[u]) /\ queue' = queue
    BY <1>1, <1>6 DEF DoAdopt, Persist, TypeOK
  <2>2. stage[s] = "ready" /\ heir' = heir /\ live' = live
    BY <1>6 DEF DoAdopt, Begins, harness
  <2>3. QED
    BY <2>1, <2>2, BegunHeirs
<1>7. QED
  BY <1>2, <1>3, <1>4, <1>5, <1>6

LEMMA SaveHeirs ==
  ASSUME IInv, NEW s \in Session, Save(s) \/ SaveFails(s)
  PROVE  HeirsOK'
<1> DEFINE kind == Head(queue[s]).kind
<1>1. TypeOK /\ SessionOK(s) /\ HeirsOK
  BY DEF IInv
<1>2. stage[s] = "saving" /\ live' = live /\ queue[s] # <<>>
  BY <1>1 DEF Save, SaveFails, SessionOK, StageOK
<1>3. CASE kind = "adopt"
  <2>1. heir' = [heir EXCEPT ![s] = None] /\ Done(s)
    BY <1>3 DEF Save, Saved, SaveFails, Failed
  <2>2. QED
    BY <1>1, <1>2, <1>3, <2>1, HeirsAdopted
<1>4. CASE kind # "adopt"
  <2>1. heir' = heir
    BY <1>4 DEF Save, Saved, SaveFails, Failed
  <2>2. queue' = queue \/ queue' = [queue EXCEPT ![s] = Tail(@)]
    BY DEF Save, Saved, SaveFails, Failed, Done
  <2>3. stage' = [stage EXCEPT ![s] = "ready"] \/ stage' = [stage EXCEPT ![s] = "forking"]
    BY DEF Save, Saved, SaveFails, Failed, Done
  <2>4. \A u \in Session : u # s => stage'[u] = stage[u]
    BY <1>1, <2>3 DEF TypeOK
  <2>5. QED
    BY <1>2, <1>4, <2>1, <2>2, <2>4, BegunHeirs
<1>5. QED
  BY <1>3, <1>4

LEMMA RewindHeirs ==
  ASSUME IInv, NEW s \in Session,
         \/ BeginRewind(s) \/ DeleteLater(s) \/ WriteBack(s) \/ WriteBackFails(s) \/ FoldBack(s)
         \/ Return(s)
  PROVE  HeirsOK'
<1>1. TypeOK /\ SessionOK(s) /\ HeirsOK
  BY DEF IInv
<1>2. First(s, "rewind")
  <2>1. CASE BeginRewind(s)
    BY <2>1 DEF BeginRewind, Begins, First
  <2>2. CASE ~BeginRewind(s)
    <3>1. stage[s] \in Rewinding
      BY <2>2 DEF DeleteLater, WriteBack, WriteBackFails, FoldBack, Return, Rewinding, Restoring
    <3>2. QED
      BY <1>1, <3>1 DEF SessionOK, StageOK
  <2>3. QED
    BY <2>1, <2>2
<1>3. queue[s] # <<>> /\ Head(queue[s]).kind # "adopt"
  BY <1>2 DEF First
<1>4. heir' = heir /\ live' = live
  BY DEF BeginRewind, DeleteLater, WriteBack, WriteBackFails, FoldBack, Return, harness
<1>5. queue' = queue \/ queue' = [queue EXCEPT ![s] = Tail(@)]
  BY DEF BeginRewind, DeleteLater, WriteBack, WriteBackFails, FoldBack, Return, Done, Persist
<1>6. \A u \in Session : u # s => stage'[u] = stage[u]
  BY <1>1 DEF BeginRewind, DeleteLater, WriteBack, WriteBackFails, FoldBack, Return, Done, Persist, TypeOK
<1>7. CASE Return(s)
  <2>1. \A t \in Session : heir[t] # None => heir[t].from # s
    BY <1>7 DEF Return
  <2>2. /\ \A u \in Session : u # s => stage'[u] = stage[u] /\ queue'[u] = queue[u]
        /\ queue'[s] = queue[s] \/ queue'[s] = Tail(queue[s])
    BY <1>1, <1>5, <1>6 DEF TypeOK
  <2>3. QED
    BY <1>1, <1>3, <1>4, <2>1, <2>2, HeirsStep
<1>8. CASE ~Return(s)
  <2>1. stage[s] \notin {"creating", "waiting"}
    BY <1>8 DEF BeginRewind, Begins, DeleteLater, WriteBack, WriteBackFails, FoldBack
  <2>2. QED
    BY <1>3, <1>4, <1>5, <1>6, <2>1, BegunHeirs
<1>9. QED
  BY <1>7, <1>8

LEMMA AskedHeirs ==
  ASSUME IInv, NEW s \in Session,
         NEW kind \in {"start", "end", "idle", "intent", "list", "rewind"},
         NEW turn \in Turn \cup {None}, NEW seq \in Nat,
         queue' = Enqueue(queue, s, kind, turn, seq), stage' = stage, heir' = heir, live' = live
  PROVE  HeirsOK'
<1>1. TypeOK /\ HeirsOK
  BY DEF IInv
<1>2. kind \in {"attach", "start", "end", "idle", "intent", "list", "rewind", "adopt"} /\ kind # "adopt"
  OBVIOUS
<1> DEFINE task == [kind |-> kind, turn |-> turn, seq |-> seq]
<1>3. /\ task \in Task /\ queue'[s] = Append(queue[s], task)
      /\ \A u \in Session : u # s => queue'[u] = queue[u]
  BY <1>1, <1>2, EnqueueFacts
<1>4. task.kind # "adopt"
  BY <1>2
<1> HIDE DEF task
<1>5. \E more \in Task : queue'[s] = Append(queue[s], more) /\ more.kind # "adopt"
  BY <1>3, <1>4
<1>6. QED
  BY <1>1, <1>3, <1>5, HeirsStep

LEMMA HarnessHeirs ==
  ASSUME IInv, NEW s \in Session,
         \/ StartTurn(s) \/ EndTurn(s) \/ Stop(s) \/ LateEnd(s)
         \/ \E p \in Path, d \in Data : CallTool(s, p, d)
         \/ AskList(s) \/ (\E i \in 1..MaxTurn + 1 : AskRewind(s, i)) \/ WriteByTool(s)
  PROVE  HeirsOK'
<1>1. TypeOK /\ SessionOK(s) /\ HeirsOK
  BY DEF IInv
<1>2. LastTurn(s) \in Turn /\ LastTurn(s) \in Nat /\ log[s] \in Seq(Turn)
  BY <1>1, LastIsTurn
<1>3. CASE StartTurn(s)
  <2>1. LastTurn(s) + 1 \in Turn
    BY <1>2, <1>3, CheckpointsAssumption DEF StartTurn, Turn
  <2>2. log'[s] = Append(log[s], LastTurn(s) + 1)
    BY <1>1, <1>3 DEF StartTurn, TypeOK
  <2>3. Len(log'[s]) \in Nat
    BY <1>2, <2>1, <2>2, AppendFacts
  <2>4. QED
    BY <1>3, <2>1, <2>3, AskedHeirs DEF StartTurn, queueOnly
<1>4. CASE EndTurn(s) \/ LateEnd(s)
  <2>1. log'[s] = Append(log[s], LastTurn(s))
    BY <1>1, <1>4 DEF EndTurn, LateEnd, TypeOK
  <2>2. Len(log'[s]) \in Nat
    BY <1>2, <2>1, AppendFacts
  <2>3. \E turn \in {LastTurn(s), None} : queue' = Enqueue(queue, s, "end", turn, Len(log'[s]))
    BY <1>4 DEF EndTurn, LateEnd
  <2>4. PICK turn \in {LastTurn(s), None} : queue' = Enqueue(queue, s, "end", turn, Len(log'[s]))
    BY <2>3
  <2>5. turn \in Turn \cup {None}
    BY <1>2
  <2>6. stage' = stage /\ heir' = heir /\ live' = live
    BY <1>4 DEF EndTurn, LateEnd, queueOnly
  <2>7. QED
    BY <2>2, <2>4, <2>5, <2>6, AskedHeirs
<1>5. CASE Stop(s)
  BY <1>5, AskedHeirs DEF Stop, queueOnly
<1>6. CASE \E p \in Path, d \in Data : CallTool(s, p, d)
  BY <1>6, AskedHeirs DEF CallTool, queueOnly
<1>7. CASE AskList(s)
  BY <1>7, AskedHeirs DEF AskList, queueOnly, harness
<1>8. CASE \E i \in 1..MaxTurn + 1 : AskRewind(s, i)
  BY <1>8, AskedHeirs DEF AskRewind, harness
<1>9. CASE WriteByTool(s)
  <2>1. heir' = heir /\ live' = live /\ stage' = stage /\ queue' = queue
    BY <1>9 DEF WriteByTool, service
  <2>2. QED
    BY <1>1, <2>1 DEF HeirsOK, NoCircle
<1>10. QED
  BY <1>3, <1>4, <1>5, <1>6, <1>7, <1>8, <1>9

-----------------------------------------------------------------------------
(* A step keeps the types *)

LEMMA StoredType ==
  ASSUME TypeOK
  PROVE  \A contents : Stored(contents) \in [Data -> {"none", "whole", "cut"}]
  BY DEF Stored, TypeOK

LEMMA PersistType ==
  ASSUME TypeOK, NEW s \in Session, NEW f \in Fold, f.session = s, Persist(s, f)
  PROVE  mem' \in [Session -> Fold \cup {None}] /\ stage' \in [Session -> Stage]
  BY DEF Persist, TypeOK, Stage

LEMMA DoneType ==
  ASSUME TypeOK, NEW s \in Session, queue[s] # <<>>, Done(s)
  PROVE  queue' \in [Session -> Seq(Task)] /\ stage' \in [Session -> Stage]
<1>1. Tail(queue[s]) \in Seq(Task)
  BY TailFacts DEF TypeOK
<1>2. QED
  BY <1>1 DEF Done, TypeOK, Stage

LEMMA EnqueueType ==
  ASSUME TypeOK, NEW s \in Session,
         NEW kind \in {"attach", "start", "end", "idle", "intent", "list", "rewind", "adopt"},
         NEW turn \in Turn \cup {None}, NEW seq \in Nat,
         queue' = Enqueue(queue, s, kind, turn, seq)
  PROVE  queue' \in [Session -> Seq(Task)]
<1> DEFINE task == [kind |-> kind, turn |-> turn, seq |-> seq]
<1>1. task \in Task /\ queue[s] \in Seq(Task)
  BY EnqueueFacts
<1>2. queue' = [queue EXCEPT ![s] = Append(queue[s], task)]
  BY DEF Enqueue
<1> HIDE DEF task
<1>3. Append(queue[s], task) \in Seq(Task)
  BY <1>1, AppendFacts
<1>4. QED
  BY <1>2, <1>3 DEF TypeOK

LEMMA FinishedType ==
  ASSUME TypeOK, NEW s \in Session, SessionOK(s), NEW found \in SUBSET Path,
         NEW turn \in Turn, NEW seq \in Nat
  PROVE  Finished(Hydrated(s), turn, seq, found) \in Fold
         /\ Finished(Hydrated(s), turn, seq, found).session = s
<1> DEFINE f == Hydrated(s)
<1> DEFINE c == Considered(f, found)
<1> DEFINE pt == Snapshot(f, turn, seq, found)
<1> DEFINE done == [f EXCEPT !.open = None]
<1> DEFINE g == [c EXCEPT !.open = None, !.points = Append(c.points, pt), !.cursor = Larger(c.cursor, seq)]
<1>1. /\ f \in Fold /\ f.session = s /\ FoldOK(f, log[s]) /\ Honest(f, disk, foreign[s])
  BY HydratedOK
<1>2. log[s] \in Seq(Turn) /\ disk \in [Path -> Content]
  BY DEF TypeOK
<1>3. Finished(f, turn, seq, found) = (IF HasTurn(f, turn) THEN done ELSE g)
  BY DEF Finished
<1>4. pt \in Point
  BY <1>2 DEF Snapshot, Point, Tree
<1> HIDE DEF f, pt
<1>5. c \in Fold /\ c.session = s
  BY <1>1, <1>2, ConsideredOK
<1> HIDE DEF c
<1>6. done \in Fold /\ done.session = s
  BY <1>1 DEF Fold
<1> HIDE DEF done
<1>7. c.cursor \in Nat /\ Larger(c.cursor, seq) \in Nat /\ c.points \in Seq(Point)
  BY <1>5, FoldFields DEF Larger
<1>8. Append(c.points, pt) \in Seq(Point)
  BY <1>4, <1>7, AppendFacts
<1>9. g \in Fold /\ g.session = s
  BY <1>5, <1>7, <1>8 DEF Fold
<1>10. QED
  BY <1>3, <1>6, <1>9 DEF f

LEMMA FinishType ==
  ASSUME TypeOK, NEW s \in Session, SessionOK(s), queue[s] # <<>>,
         NEW turn \in Turn \cup {None}, NEW seq \in Nat, Finish(s, turn, seq)
  PROVE  /\ mem' \in [Session -> Fold \cup {None}] /\ stage' \in [Session -> Stage]
         /\ queue' \in [Session -> Seq(Task)] /\ blobs' \in [Data -> {"none", "whole", "cut"}]
         /\ foreign' \in [Session -> SUBSET Path]
<1> DEFINE f == Hydrated(s)
<1>1. /\ f \in Fold /\ f.session = s
  BY HydratedOK
<1>2. CASE turn = None
  <2>1. \/ Done(s) /\ UNCHANGED mem
        \/ Persist(s, f) /\ UNCHANGED queue
    BY <1>2 DEF Finish
  <2>2. UNCHANGED <<blobs, foreign>>
    BY <1>2 DEF Finish
  <2>3. QED
    BY <1>1, <2>1, <2>2, DoneType, PersistType DEF TypeOK
<1>3. CASE turn # None
  <2>1. PICK found \in Moved(f) :
          /\ Persist(s, Finished(f, turn, seq, found))
          /\ IF HasTurn(f, turn) THEN UNCHANGED <<blobs, foreign>>
             ELSE blobs' = SnapshotBlobs(f, found) /\ Took(s, found)
          /\ UNCHANGED queue
    BY <1>3 DEF Finish
  <2>2. found \in SUBSET Path
    BY <1>1, MovedIsPaths
  <2>3. Finished(f, turn, seq, found) \in Fold /\ Finished(f, turn, seq, found).session = s
    BY <1>3, <2>2, FinishedType
  <2>4. mem' \in [Session -> Fold \cup {None}] /\ stage' \in [Session -> Stage]
    BY <2>1, <2>3, PersistType
  <2>5. blobs' = blobs \/ \E contents : blobs' = Stored(contents)
    BY <2>1, Zenon DEF SnapshotBlobs
  <2>6. foreign' = foreign \/ foreign' = [foreign EXCEPT ![s] = @ \cup found]
    BY <2>1 DEF Took
  <2>7. blobs' \in [Data -> {"none", "whole", "cut"}]
    BY <2>5, StoredType DEF TypeOK
  <2>8. foreign' \in [Session -> SUBSET Path]
    <3>1. foreign \in [Session -> SUBSET Path] /\ foreign[s] \cup found \in SUBSET Path
      BY <2>2 DEF TypeOK
    <3>2. QED
      BY <2>6, <3>1
  <2>9. QED
    BY <2>1, <2>4, <2>7, <2>8 DEF TypeOK
<1>4. QED
  BY <1>2, <1>3

LEMMA BeginsTypes ==
  ASSUME IInv, NEW s \in Session,
         \/ DoAttach(s) \/ DoStart(s) \/ DoEnd(s) \/ DoIdle(s)
  PROVE  TypeOK'
<1> DEFINE f == Hydrated(s)
<1>1. TypeOK /\ SessionOK(s)
  BY DEF IInv
<1>2. f \in Fold /\ f.session = s /\ f.open \in Turn \cup {None}
  BY <1>1, HydratedOK, FoldFields
<1>3. queue[s] # <<>> /\ queue[s] \in Seq(Task) /\ Head(queue[s]) \in Task
  BY <1>1, BeginsFacts, TailFacts DEF DoAttach, DoStart, DoEnd, DoIdle
<1>4. Head(queue[s]).turn \in Turn \cup {None} /\ Head(queue[s]).seq \in Nat
  BY <1>3 DEF Task
<1>5. CASE DoAttach(s)
  <2>1. \/ Done(s) /\ UNCHANGED mem
        \/ Persist(s, f) /\ UNCHANGED queue
    BY <1>5 DEF DoAttach
  <2>2. UNCHANGED <<disk, blobs, file, todo, goal, heir, harness, count, ghosts>>
    BY <1>5 DEF DoAttach
  <2> HIDE DEF f
  <2>3. /\ mem' \in [Session -> Fold \cup {None}] /\ stage' \in [Session -> Stage]
        /\ queue' \in [Session -> Seq(Task)]
    BY <1>1, <1>2, <1>3, <2>1, PersistType, DoneType DEF TypeOK
  <2>4. QED
    BY <1>1, <2>2, <2>3 DEF TypeOK, harness, ghosts
<1>6. CASE DoStart(s)
  <2> DEFINE g == [f EXCEPT !.open = Head(queue[s]).turn]
  <2>1. Persist(s, g)
    BY <1>6 DEF DoStart
  <2>2. UNCHANGED <<disk, blobs, file, queue, todo, goal, heir, harness, count, ghosts>>
    BY <1>6 DEF DoStart
  <2> HIDE DEF f
  <2>3. g \in Fold /\ g.session = s
    BY <1>2, <1>4 DEF Fold
  <2> HIDE DEF g
  <2>4. mem' \in [Session -> Fold \cup {None}] /\ stage' \in [Session -> Stage]
    BY <1>1, <2>1, <2>3, PersistType
  <2>5. QED
    BY <1>1, <2>2, <2>4 DEF TypeOK, harness, ghosts
<1>7. CASE DoEnd(s) \/ DoIdle(s)
  <2>1. \E turn \in Turn \cup {None}, seq \in Nat : Finish(s, turn, seq)
    <3>1. CASE DoEnd(s)
      <4>1. (IF Head(queue[s]).turn # None THEN Head(queue[s]).turn ELSE f.open) \in Turn \cup {None}
        BY <1>2, <1>4
      <4>2. QED
        BY <1>4, <3>1, <4>1 DEF DoEnd
    <3>2. CASE DoIdle(s)
      <4>1. Len(log[s]) \in Nat
        BY <1>1 DEF TypeOK
      <4>2. QED
        BY <1>2, <3>2, <4>1 DEF DoIdle, IdleTurn
    <3>3. QED
      BY <1>7, <3>1, <3>2
  <2>2. UNCHANGED <<disk, file, todo, goal, heir, harness, count, inherited>>
    BY <1>7 DEF DoEnd, DoIdle
  <2>3. /\ mem' \in [Session -> Fold \cup {None}] /\ stage' \in [Session -> Stage]
        /\ queue' \in [Session -> Seq(Task)] /\ blobs' \in [Data -> {"none", "whole", "cut"}]
        /\ foreign' \in [Session -> SUBSET Path]
    BY <1>1, <1>3, <2>1, FinishType
  <2>4. QED
    BY <1>1, <2>2, <2>3 DEF TypeOK, harness
<1>8. QED
  BY <1>5, <1>6, <1>7

LEMMA NotedTypes ==
  ASSUME IInv, NEW s \in Session, DoIntent(s) \/ DoList(s) \/ DoAdopt(s)
  PROVE  TypeOK'
<1> DEFINE f == Hydrated(s)
<1>1. TypeOK /\ SessionOK(s) /\ HeirsOK
  BY DEF IInv
<1>2. /\ f \in Fold /\ f.session = s /\ FoldOK(f, log[s]) /\ Honest(f, disk, foreign[s])
      /\ log[s] \in Seq(Turn) /\ disk \in [Path -> Content]
  BY <1>1, HydratedOK DEF TypeOK
<1>3. queue[s] # <<>>
  BY <1>1, BeginsFacts DEF DoIntent, DoList, DoAdopt
<1>4. CASE DoIntent(s)
  <2> DEFINE p == tool[s].path
  <2>1. Begins(s, "intent") /\ Persist(s, Intended(f, p))
    BY <1>4 DEF DoIntent, Intended
  <2>2. tool[s] # None
    <3>1. 1 \in DOMAIN queue[s] /\ queue[s][1].kind = "intent"
      BY <1>1, <2>1, BeginsFacts
    <3>2. QED
      BY <1>1, <3>1 DEF SessionOK, ToolOK
  <2>3. p \in Path
    BY <1>1, <2>2 DEF TypeOK, Call
  <2>4. blobs' = blobs \/ \E contents : blobs' = Stored(contents)
    BY <1>4, Zenon DEF DoIntent
  <2>5. UNCHANGED <<disk, file, queue, todo, goal, heir, harness, count, ghosts>>
    BY <1>4 DEF DoIntent
  <2> HIDE DEF f, p
  <2>6. Intended(f, p) \in Fold /\ Intended(f, p).session = s
    BY <1>2, <2>3, IntendedOK
  <2>7. mem' \in [Session -> Fold \cup {None}] /\ stage' \in [Session -> Stage]
    BY <1>1, <2>1, <2>6, PersistType
  <2>8. blobs' \in [Data -> {"none", "whole", "cut"}]
    BY <1>1, <2>4, StoredType DEF TypeOK
  <2>9. QED
    BY <1>1, <2>5, <2>7, <2>8 DEF TypeOK, harness, ghosts
<1>5. CASE DoList(s)
  <2>1. UNCHANGED <<disk, file, todo, goal, heir, harness, count, inherited>>
    BY <1>5 DEF DoList
  <2>2. \/ (Done(s) \/ (Persist(s, f) /\ UNCHANGED queue)) /\ UNCHANGED <<blobs, foreign>>
        \/ \E found \in Moved(f) :
             /\ blobs' = SnapshotBlobs(f, found) /\ Took(s, found)
             /\ Done(s) \/ (Persist(s, Considered(f, found)) /\ UNCHANGED queue)
    BY <1>5 DEF DoList
  <2>3. Done(s) => mem' = mem
    BY <1>1, <1>5 DEF DoList, Done, Persist, TypeOK
  <2>4. CASE (Done(s) \/ (Persist(s, f) /\ UNCHANGED queue)) /\ UNCHANGED <<blobs, foreign>>
    <3> HIDE DEF f
    <3>1. /\ mem' \in [Session -> Fold \cup {None}] /\ stage' \in [Session -> Stage]
          /\ queue' \in [Session -> Seq(Task)]
      BY <1>1, <1>2, <1>3, <2>3, <2>4, PersistType, DoneType DEF TypeOK
    <3>2. QED
      BY <1>1, <2>1, <2>4, <3>1 DEF TypeOK, harness
  <2>5. ASSUME NEW found \in Moved(f), blobs' = SnapshotBlobs(f, found), Took(s, found),
               Done(s) \/ (Persist(s, Considered(f, found)) /\ UNCHANGED queue)
        PROVE  TypeOK'
    <3>1. found \in SUBSET Path
      BY MovedIsPaths
    <3> HIDE DEF f
    <3>2. Considered(f, found) \in Fold /\ Considered(f, found).session = s
      BY <1>2, <3>1, ConsideredOK
    <3>3. /\ mem' \in [Session -> Fold \cup {None}] /\ stage' \in [Session -> Stage]
          /\ queue' \in [Session -> Seq(Task)]
      BY <1>1, <1>3, <2>3, <2>5, <3>2, PersistType, DoneType DEF TypeOK
    <3>4. blobs' \in [Data -> {"none", "whole", "cut"}]
      BY <1>1, <2>5, StoredType DEF SnapshotBlobs
    <3>5. foreign \in [Session -> SUBSET Path] /\ foreign[s] \cup found \in SUBSET Path
      BY <1>1, <3>1 DEF TypeOK
    <3>6. foreign' \in [Session -> SUBSET Path]
      BY <2>5, <3>5 DEF Took
    <3>7. QED
      BY <1>1, <2>1, <3>3, <3>4, <3>6 DEF TypeOK, harness
  <2>6. QED
    BY <2>2, <2>4, <2>5
<1>6. CASE DoAdopt(s)
  <2>1. heir[s] # None
    BY <1>1, <1>6, AdoptsHeir DEF DoAdopt, Begins, First
  <2>2. heir[s].fold \in Fold /\ heir[s].fold.session = s
    BY <1>1, <2>1 DEF TypeOK, Heir, SessionOK, HeirOK
  <2>3. Persist(s, heir[s].fold)
    BY <1>6 DEF DoAdopt
  <2>4. mem' \in [Session -> Fold \cup {None}] /\ stage' \in [Session -> Stage]
    BY <1>1, <2>2, <2>3, PersistType
  <2>5. UNCHANGED <<disk, blobs, file, queue, todo, goal, heir, harness, count, ghosts>>
    BY <1>6 DEF DoAdopt
  <2>6. QED
    BY <1>1, <2>4, <2>5 DEF TypeOK, harness, ghosts
<1>7. QED
  BY <1>4, <1>5, <1>6

LEMMA SaveTypes ==
  ASSUME IInv, NEW s \in Session, Save(s) \/ SaveFails(s)
  PROVE  TypeOK'
<1> DEFINE kind == Head(queue[s]).kind
<1>1. TypeOK /\ SessionOK(s)
  BY DEF IInv
<1>2. stage[s] = "saving" /\ queue[s] # <<>> /\ mem[s] # None /\ mem[s] \in Fold
  BY <1>1 DEF Save, SaveFails, SessionOK, StageOK, TypeOK
<1>3. kind = "adopt" => heir[s] # None /\ heir[s].fold \in Fold /\ heir[s].fold.baseline \in Tree
  <2>1. kind = "adopt" => heir[s] # None
    BY <1>1, <1>2 DEF SessionOK, StageOK, Saving, First
  <2>2. kind = "adopt" => heir[s].fold \in Fold
    BY <1>1, <2>1 DEF TypeOK, Heir
  <2>3. QED
    BY <2>1, <2>2, FoldFields
<1>4. kind = "intent" => tool[s] # None /\ tool[s] \in Call
  <2>1. First(s, "intent") => tool[s] # None
    <3>1. SUFFICES ASSUME First(s, "intent") PROVE tool[s] # None
      OBVIOUS
    <3>2. /\ queue[s] \in Seq(Task) /\ ToolOK(s) /\ queue[s] # <<>>
          /\ Head(queue[s]).kind = "intent"
      BY <1>1, <3>1 DEF TypeOK, SessionOK, First
    <3>3. QED
      BY <3>2, FirstIntent
  <2>2. QED
    BY <1>1, <1>2, <2>1 DEF First, TypeOK
<1>5. /\ queue' \in [Session -> Seq(Task)] /\ stage' \in [Session -> Stage]
  <2>1. Done(s) \/ (stage' = [stage EXCEPT ![s] = "forking"] /\ UNCHANGED queue)
    BY DEF Save, Saved, SaveFails, Failed
  <2>2. QED
    BY <1>1, <1>2, <2>1, DoneType DEF TypeOK, Stage
<1>6. heir' \in [Session -> Heir \cup {None}]
  BY <1>1 DEF Save, Saved, SaveFails, TypeOK
<1>7. tool' \in [Session -> Call \cup {None}]
  <2>1. tool' = tool \/ tool' = [tool EXCEPT ![s] = None]
        \/ (kind = "intent" /\ tool' = [tool EXCEPT ![s].ready = TRUE])
    BY DEF Save, Saved, SaveFails
  <2>2. kind = "intent" => [tool[s] EXCEPT !.ready = TRUE] \in Call
    BY <1>4 DEF Call
  <2>3. QED
    BY <1>1, <2>1, <2>2 DEF TypeOK
<1>8. inherited' \in [Session -> Tree \cup {None}]
  BY <1>1, <1>3 DEF Save, Saved, SaveFails, TypeOK
<1>9. goal' \in [Session -> Id \cup {None}] /\ file' \in [Session -> Fold \cup {None}]
  BY <1>1, <1>2 DEF Save, SaveFails, TypeOK
<1>10. foreign' \in [Session -> SUBSET Path]
  <2>1. foreign' = foreign \/ foreign' = [foreign EXCEPT ![s] = @ \cup Seen(heir[s].fold)]
    BY DEF Save, SaveFails
  <2>2. foreign \in [Session -> SUBSET Path] /\ foreign[s] \cup Seen(heir[s].fold) \in SUBSET Path
    BY <1>1 DEF TypeOK, Seen
  <2>3. QED
    BY <2>1, <2>2
<1>11. UNCHANGED <<disk, blobs, mem, todo, live, log, surface, running, count>>
  BY DEF Save, SaveFails
<1>12. QED
  BY <1>1, <1>5, <1>6, <1>7, <1>8, <1>9, <1>10, <1>11 DEF TypeOK

LEMMA BlobType ==
  ASSUME TypeOK, NEW c \in Content
  PROVE  Blob(c) \in Content
  BY DEF Blob, Content

LEMMA DeleteType ==
  ASSUME TypeOK, NEW s \in Session, NEW p \in Path,
         Delete(s, p) \/ (\E c \in Content : ByRewind(s, p, c))
  PROVE  disk' \in [Path -> Content] /\ foreign' \in [Session -> SUBSET Path]
<1>1. Missing \in Content
  BY DEF Content
<1>2. \A u \in Session : foreign[u] \in SUBSET Path /\ foreign[u] \cup {p} \in SUBSET Path
  BY DEF TypeOK
<1>3. foreign' \in [Session -> SUBSET Path]
  <2>1. CASE \E c : ByRewind(s, p, c)
    BY <1>2, <2>1 DEF ByRewind
  <2>2. CASE foreign' = [foreign EXCEPT ![s] = @ \cup {p}]
    BY <1>2, <2>2 DEF TypeOK
  <2>3. QED
    BY <2>1, <2>2 DEF Delete
<1>4. QED
  BY <1>1, <1>3 DEF Delete, ByRewind, TypeOK

LEMMA TargetType ==
  ASSUME TypeOK, NEW s \in Session, SessionOK(s), stage[s] \in Restoring
  PROVE  /\ mem[s] \in Fold /\ Target(s) \in DOMAIN mem[s].points /\ goal[s] \in Id
         /\ mem[s].session = s /\ FoldOK(mem[s], log[s]) /\ goal[s] # None
         /\ IdOf(mem[s].points[Target(s)]) = goal[s]
         /\ \A p \in Path : Restored(mem[s], Target(s))[p] \in Content \cup {Unseen}
<1>1. mem[s] # None /\ Position(mem[s], goal[s]) # {} /\ mem[s].session = s
  BY DEF SessionOK, StageOK, FoldsOK, Restoring
<1>2. /\ mem[s] \in Fold /\ Target(s) \in DOMAIN mem[s].points /\ goal[s] # None /\ FoldOK(mem[s], log[s])
      /\ IdOf(mem[s].points[Target(s)]) = goal[s]
  BY <1>1, TargetFacts
<1>3. goal[s] \in Id
  BY <1>2 DEF TypeOK
<1>4. Restored(mem[s], Target(s)) \in Tree
  BY <1>2, RestoredFacts
<1>5. QED
  BY <1>1, <1>2, <1>3, <1>4 DEF Tree

LEMMA RestoreTypes ==
  ASSUME IInv, NEW s \in Session,
         \/ BeginRewind(s) \/ DeleteLater(s) \/ WriteBack(s) \/ WriteBackFails(s) \/ Return(s)
  PROVE  TypeOK'
<1>1. TypeOK /\ SessionOK(s)
  BY DEF IInv
<1>2. queue[s] # <<>>
  <2>1. CASE BeginRewind(s)
    BY <2>1 DEF BeginRewind, Begins
  <2>2. CASE ~BeginRewind(s)
    <3>1. stage[s] # "ready"
      BY <2>2 DEF DeleteLater, WriteBack, WriteBackFails, Return
    <3>2. QED
      BY <1>1, <3>1 DEF SessionOK, StageOK
  <2>3. QED
    BY <2>1, <2>2
<1>3. CASE BeginRewind(s)
  <2>1. UNCHANGED <<disk, blobs, mem, file, heir, harness, count, ghosts>>
    BY <1>3 DEF BeginRewind
  <2>2. CASE ~MayRewind(s)
    <3>1. Done(s) /\ Answered(s) /\ UNCHANGED todo
      BY <1>3, <2>2 DEF BeginRewind
    <3>2. queue' \in [Session -> Seq(Task)] /\ stage' \in [Session -> Stage]
      BY <1>1, <1>2, <3>1, DoneType
    <3>3. QED
      BY <1>1, <2>1, <3>1, <3>2 DEF TypeOK, Answered, harness, ghosts
  <2>3. CASE MayRewind(s)
    <3> DEFINE deletes == RewindDeletes(mem[s], Target(s))
    <3> DEFINE writes == {p \in Path : Restored(mem[s], Target(s))[p] # Unseen}
    <3>1. /\ stage' = [stage EXCEPT ![s] = "deleting"]
          /\ todo' = [todo EXCEPT ![s] = [delete |-> deletes, write |-> writes]]
          /\ UNCHANGED <<queue, goal>>
      BY <1>3, <2>3 DEF BeginRewind
    <3>2. mem[s] \in Fold
      BY <1>1, <2>3 DEF MayRewind, TypeOK
    <3>3. deletes \in SUBSET Path /\ writes \in SUBSET Path
      BY <3>2, FoldFields DEF RewindDeletes
    <3> HIDE DEF deletes, writes
    <3>4. todo' \in [Session -> [delete: SUBSET Path, write: SUBSET Path]] /\ stage' \in [Session -> Stage]
      BY <1>1, <3>1, <3>3 DEF TypeOK, Stage
    <3>5. QED
      BY <1>1, <2>1, <3>1, <3>4 DEF TypeOK, harness, ghosts
  <2>4. QED
    BY <2>2, <2>3
<1>4. CASE DeleteLater(s)
  <2>1. UNCHANGED <<blobs, mem, file, queue, goal, heir, harness, count, inherited>>
    BY <1>4 DEF DeleteLater
  <2>2. CASE \E p \in todo[s].delete :
               /\ Delete(s, p)
               /\ todo' = [todo EXCEPT ![s].delete = @ \ {p}]
               /\ UNCHANGED stage
    <3>1. PICK p \in todo[s].delete : /\ Delete(s, p)
                                      /\ todo' = [todo EXCEPT ![s].delete = @ \ {p}]
                                      /\ UNCHANGED stage
      BY <2>2
    <3>2. p \in Path /\ todo[s] \in [delete: SUBSET Path, write: SUBSET Path]
      BY <1>1 DEF TypeOK
    <3>3. disk' \in [Path -> Content] /\ foreign' \in [Session -> SUBSET Path]
      BY <1>1, <3>1, <3>2, DeleteType
    <3>4. [todo[s] EXCEPT !.delete = @ \ {p}] \in [delete: SUBSET Path, write: SUBSET Path]
      BY <3>2
    <3>5. todo' \in [Session -> [delete: SUBSET Path, write: SUBSET Path]]
      BY <1>1, <3>1, <3>4 DEF TypeOK
    <3>6. QED
      BY <1>1, <2>1, <3>1, <3>3, <3>5 DEF TypeOK, harness
  <2>3. CASE stage' = [stage EXCEPT ![s] = "writing"] /\ UNCHANGED <<disk, todo, foreign>>
    <3>1. stage' \in [Session -> Stage]
      BY <1>1, <2>3 DEF TypeOK, Stage
    <3>2. QED
      BY <1>1, <2>1, <2>3, <3>1 DEF TypeOK, harness
  <2>4. QED
    BY <1>4, <2>2, <2>3 DEF DeleteLater
<1>5. CASE WriteBack(s)
  <2>1. UNCHANGED <<blobs, mem, file, queue, goal, heir, harness, count, inherited>> /\ stage[s] = "writing"
    BY <1>5 DEF WriteBack
  <2>2. ASSUME NEW p \in todo[s].write,
               \/ Delete(s, p) \/ ByRewind(s, p, Blob(Restored(mem[s], Target(s))[p])),
               todo' = [todo EXCEPT ![s].write = @ \ {p}], UNCHANGED stage
        PROVE  TypeOK'
    <3>1. p \in Path /\ todo[s] \in [delete: SUBSET Path, write: SUBSET Path]
      BY <1>1 DEF TypeOK
    <3>2. Restored(mem[s], Target(s))[p] \in Content
      <4>1. stage[s] \in Restoring
        BY <2>1 DEF Restoring
      <4>2. Restored(mem[s], Target(s))[p] \in Content \cup {Unseen} /\ Target(s) \in Position(mem[s], goal[s])
        BY <1>1, <3>1, <4>1, TargetType DEF Position
      <4>3. Restored(mem[s], Target(s))[p] # Unseen
        BY <1>1, <3>1, <4>1, <4>2 DEF SessionOK, RestoreOK
      <4>4. QED
        BY <4>2, <4>3
    <3>3. Blob(Restored(mem[s], Target(s))[p]) \in Content
      BY <1>1, <3>2, BlobType
    <3>4. disk' \in [Path -> Content] /\ foreign' \in [Session -> SUBSET Path]
      BY <1>1, <2>2, <3>1, <3>3, DeleteType
    <3>5. [todo[s] EXCEPT !.write = @ \ {p}] \in [delete: SUBSET Path, write: SUBSET Path]
      BY <3>1
    <3>6. todo' \in [Session -> [delete: SUBSET Path, write: SUBSET Path]]
      BY <1>1, <2>2, <3>5 DEF TypeOK
    <3>7. QED
      BY <1>1, <2>1, <2>2, <3>4, <3>6 DEF TypeOK, harness
  <2>3. CASE stage' = [stage EXCEPT ![s] = "folding"] /\ UNCHANGED <<disk, todo, foreign>>
    <3>1. stage' \in [Session -> Stage]
      BY <1>1, <2>3 DEF TypeOK, Stage
    <3>2. QED
      BY <1>1, <2>1, <2>3, <3>1 DEF TypeOK, harness
  <2>4. QED
    BY <1>5, <2>2, <2>3 DEF WriteBack
<1>6. CASE WriteBackFails(s) \/ Return(s)
  <2>1. Done(s) /\ Answered(s) /\ (todo' = todo \/ todo' = [todo EXCEPT ![s] = Nothing])
    BY <1>6 DEF WriteBackFails, Return
  <2>2. UNCHANGED <<disk, blobs, mem, file, heir, harness, count, ghosts>>
    BY <1>6 DEF WriteBackFails, Return
  <2>3. queue' \in [Session -> Seq(Task)] /\ stage' \in [Session -> Stage]
    BY <1>1, <1>2, <2>1, DoneType
  <2>4. todo' \in [Session -> [delete: SUBSET Path, write: SUBSET Path]]
    <3>1. Nothing \in [delete: SUBSET Path, write: SUBSET Path]
      BY DEF Nothing
    <3>2. QED
      BY <1>1, <2>1, <3>1 DEF TypeOK
  <2>5. goal' \in [Session -> Id \cup {None}]
    BY <1>1, <2>1 DEF TypeOK, Answered
  <2>6. QED
    BY <1>1, <2>2, <2>3, <2>4, <2>5 DEF TypeOK, harness, ghosts
<1>7. QED
  BY <1>3, <1>4, <1>5, <1>6

LEMMA FoldBackTypes ==
  ASSUME IInv, NEW s \in Session, FoldBack(s)
  PROVE  TypeOK'
<1>1. TypeOK /\ SessionOK(s)
  BY DEF IInv
<1>2. stage[s] \in Restoring
  BY DEF FoldBack, Restoring
<1>3. /\ mem[s] \in Fold /\ Target(s) \in DOMAIN mem[s].points /\ goal[s] \in Id
      /\ mem[s].session = s /\ FoldOK(mem[s], log[s])
  BY <1>1, <1>2, TargetType
<1>4. UNCHANGED <<disk, blobs, file, queue, todo, goal, heir, live, running, tool, count, ghosts>>
  BY DEF FoldBack
<1>5. TruncateAfter(mem[s], Target(s)) \in Fold /\ TruncateAfter(mem[s], Target(s)).session = s
  BY <1>1, <1>3, TruncatedOK DEF TypeOK
<1>6. mem' \in [Session -> Fold \cup {None}] /\ stage' \in [Session -> Stage]
  BY <1>1, <1>5, PersistType DEF FoldBack
<1>7. goal[s].turn \in Turn /\ log[s] \in Seq(Turn) /\ surface[s] \in SUBSET Nat
  BY <1>1, <1>3 DEF TypeOK, Id
<1>8. Append(log[s], goal[s].turn) \in Seq(Turn)
  BY <1>7
<1>9. CASE UNCHANGED <<log, surface>>
  BY <1>1, <1>4, <1>6, <1>9 DEF TypeOK, ghosts
<1>10. CASE /\ log' = [log EXCEPT ![s] = Append(@, goal[s].turn)]
            /\ surface' = [surface EXCEPT ![s] =
                 (@ \ {i \in surface[s] : i > goal[s].seq}) \cup {Len(log'[s])}]
  <2>1. log' \in [Session -> Seq(Turn)] /\ log'[s] \in Seq(Turn)
    BY <1>1, <1>8, <1>10 DEF TypeOK
  <2>2. Len(log'[s]) \in Nat
    BY <2>1
  <2>3. (surface[s] \ {i \in surface[s] : i > goal[s].seq}) \cup {Len(log'[s])} \in SUBSET Nat
    BY <1>7, <2>2
  <2>4. surface' \in [Session -> SUBSET Nat]
    BY <1>1, <1>10, <2>3 DEF TypeOK
  <2>5. QED
    BY <1>1, <1>4, <1>6, <2>1, <2>4 DEF TypeOK, ghosts
<1>11. QED
  BY <1>9, <1>10 DEF FoldBack, Later

LEMMA ForkTypes ==
  ASSUME IInv, NEW s \in Session, Fork(s)
  PROVE  TypeOK'
<1>1. TypeOK /\ SessionOK(s)
  BY DEF IInv
<1>2. stage[s] = "forking" /\ UNCHANGED <<disk, blobs, mem, file, todo, running, tool, count, inherited>>
  BY DEF Fork
<1>3. /\ queue[s] # <<>> /\ mem[s] \in Fold /\ goal[s] \in Id /\ mem[s].open = None
      /\ IdOf(mem[s].points[Len(mem[s].points)]) = goal[s] /\ FoldOK(mem[s], log[s])
      /\ log[s] \in Seq(Turn) /\ HasLast(log[s])
  BY <1>1, <1>2 DEF SessionOK, StageOK, FoldsOK, LogOK, TypeOK, Rewinding
<1>4. CASE Done(s) /\ Answered(s) /\ UNCHANGED <<heir, live, log, surface, foreign>>
  <2>1. queue' \in [Session -> Seq(Task)] /\ stage' \in [Session -> Stage]
    BY <1>1, <1>3, <1>4, DoneType
  <2>2. goal' \in [Session -> Id \cup {None}]
    BY <1>1, <1>4 DEF TypeOK, Answered
  <2>3. QED
    BY <1>1, <1>2, <1>4, <2>1, <2>2 DEF TypeOK
<1>5. ASSUME NEW t \in Session \ live,
             /\ live' = live \cup {t}
             /\ log' = [log EXCEPT ![t] = ForkSeed(log[s], goal[s].seq, goal[s].turn)]
             /\ surface' = [surface EXCEPT ![t] = surface[s] \cap DOMAIN log'[t]]
             /\ heir' = [heir EXCEPT ![t] = [from |-> s, fold |-> RehomeState(mem[s], t)]]
             /\ foreign' = [foreign EXCEPT ![t] = foreign[s]]
             /\ queue' = [queue EXCEPT ![t] = <<JustAttach>>]
             /\ stage' = [stage EXCEPT ![s] = "creating"]
             /\ UNCHANGED goal
      PROVE  TypeOK'
  <2>1. goal[s].turn \in Turn /\ goal[s].seq \in Nat
    BY <1>3 DEF Id
  <2>2. mem[s].points[Len(mem[s].points)].turn = goal[s].turn /\ mem[s].points[Len(mem[s].points)].seq = goal[s].seq
    BY <1>3 DEF IdOf
  <2>3. ForkSeed(log[s], goal[s].seq, goal[s].turn) \in Seq(Turn)
    BY <1>3, <2>1, <2>2, SeedOK
  <2>4. log' \in [Session -> Seq(Turn)]
    BY <1>1, <1>5, <2>3 DEF TypeOK
  <2>5. surface[s] \cap DOMAIN log'[t] \in SUBSET Nat /\ surface' \in [Session -> SUBSET Nat]
    BY <1>1, <1>5 DEF TypeOK
  <2>6. RehomeState(mem[s], t) \in Fold
    BY <1>3, RehomedOK
  <2>7. [from |-> s, fold |-> RehomeState(mem[s], t)] \in Heir
    BY <2>6 DEF Heir
  <2>8. heir' \in [Session -> Heir \cup {None}]
    BY <1>1, <1>5, <2>7 DEF TypeOK
  <2>9. /\ foreign' \in [Session -> SUBSET Path] /\ stage' \in [Session -> Stage]
        /\ queue' \in [Session -> Seq(Task)] /\ live' \in SUBSET Session
    BY <1>1, <1>5, AttachQueue DEF TypeOK, Stage
  <2>10. QED
    BY <1>1, <1>2, <1>5, <2>4, <2>5, <2>8, <2>9 DEF TypeOK
<1>6. QED
  BY <1>4, <1>5 DEF Fork

LEMMA HandOverTypes ==
  ASSUME IInv, NEW s \in Session, HandOver(s)
  PROVE  TypeOK'
<1>1. TypeOK
  BY DEF IInv
<1>2. PICK t \in Session : queue' = Enqueue(queue, t, "adopt", None, 0)
  BY DEF HandOver
<1>3. queue' \in [Session -> Seq(Task)]
  BY <1>1, <1>2, EnqueueType
<1>4. /\ stage' = [stage EXCEPT ![s] = "waiting"]
      /\ UNCHANGED <<disk, blobs, mem, file, todo, goal, heir, harness, count, ghosts>>
  BY DEF HandOver
<1>5. stage' \in [Session -> Stage]
  BY <1>1, <1>4 DEF TypeOK, Stage
<1>6. QED
  BY <1>1, <1>3, <1>4, <1>5 DEF TypeOK, harness, ghosts

LEMMA CountTypes ==
  ASSUME TypeOK
  PROVE  /\ [count EXCEPT !.writes = @ + 1] \in Counts /\ [count EXCEPT !.others = @ + 1] \in Counts
         /\ [count EXCEPT !.rewinds = @ + 1] \in Counts /\ [count EXCEPT !.crashes = @ + 1] \in Counts
  BY DEF TypeOK, Counts

LEMMA TurnTypes ==
  ASSUME IInv, NEW s \in Session, StartTurn(s) \/ EndTurn(s) \/ Stop(s) \/ LateEnd(s)
  PROVE  TypeOK'
<1>1. TypeOK /\ SessionOK(s)
  BY DEF IInv
<1>2. LastTurn(s) \in Turn /\ LastTurn(s) \in Nat /\ log[s] \in Seq(Turn)
  BY <1>1, LastIsTurn
<1>3. CASE StartTurn(s)
  <2>1. LastTurn(s) + 1 \in Turn
    BY <1>2, <1>3, CheckpointsAssumption DEF StartTurn, Turn
  <2>2. log' = [log EXCEPT ![s] = Append(log[s], LastTurn(s) + 1)] /\ Append(log[s], LastTurn(s) + 1) \in Seq(Turn)
    BY <1>2, <1>3, <2>1, AppendFacts DEF StartTurn
  <2>3. log' \in [Session -> Seq(Turn)] /\ log'[s] \in Seq(Turn)
    BY <1>1, <2>2 DEF TypeOK
  <2>4. Len(log'[s]) \in Nat
    BY <2>3
  <2>5. queue' \in [Session -> Seq(Task)]
    BY <1>1, <1>3, <2>1, <2>4, EnqueueType DEF StartTurn
  <2>6. surface[s] \cup {Len(log'[s])} \in SUBSET Nat
    BY <1>1, <2>4 DEF TypeOK
  <2>7. surface' \in [Session -> SUBSET Nat] /\ running' \in [Session -> BOOLEAN]
    BY <1>1, <1>3, <2>6 DEF TypeOK, StartTurn
  <2>8. UNCHANGED <<queueOnly, live, tool, count>>
    BY <1>3 DEF StartTurn
  <2>9. QED
    BY <1>1, <2>3, <2>5, <2>7, <2>8 DEF TypeOK, queueOnly, ghosts
<1>4. CASE EndTurn(s) \/ LateEnd(s)
  <2>1. log' = [log EXCEPT ![s] = Append(log[s], LastTurn(s))] /\ Append(log[s], LastTurn(s)) \in Seq(Turn)
    BY <1>2, <1>4, AppendFacts DEF EndTurn, LateEnd
  <2>2. log' \in [Session -> Seq(Turn)] /\ log'[s] \in Seq(Turn)
    BY <1>1, <2>1 DEF TypeOK
  <2>3. Len(log'[s]) \in Nat
    BY <2>2
  <2>4. \E turn \in Turn \cup {None} : queue' = Enqueue(queue, s, "end", turn, Len(log'[s]))
    BY <1>2, <1>4 DEF EndTurn, LateEnd
  <2>5. queue' \in [Session -> Seq(Task)]
    BY <1>1, <2>3, <2>4, EnqueueType
  <2>6. running' \in [Session -> BOOLEAN]
    BY <1>1, <1>4 DEF TypeOK, EndTurn, LateEnd
  <2>7. UNCHANGED <<queueOnly, live, surface, tool, count>>
    BY <1>4 DEF EndTurn, LateEnd
  <2>8. QED
    BY <1>1, <2>2, <2>5, <2>6, <2>7 DEF TypeOK, queueOnly, ghosts
<1>5. CASE Stop(s)
  <2>1. queue' \in [Session -> Seq(Task)]
    BY <1>1, <1>5, EnqueueType DEF Stop
  <2>2. running' \in [Session -> BOOLEAN] /\ UNCHANGED <<queueOnly, live, log, surface, tool, count>>
    BY <1>1, <1>5 DEF TypeOK, Stop
  <2>3. QED
    BY <1>1, <2>1, <2>2 DEF TypeOK, queueOnly, ghosts
<1>6. QED
  BY <1>3, <1>4, <1>5

LEMMA AskedTypes ==
  ASSUME IInv, NEW s \in Session,
         \/ \E p \in Path, d \in Data : CallTool(s, p, d)
         \/ AskList(s) \/ (\E i \in 1..MaxTurn + 1 : AskRewind(s, i)) \/ WriteByTool(s)
  PROVE  TypeOK'
<1>1. TypeOK /\ SessionOK(s)
  BY DEF IInv
<1>2. CASE \E p \in Path, d \in Data : CallTool(s, p, d)
  <2>1. PICK p \in Path, d \in Data : CallTool(s, p, d)
    BY <1>2
  <2>2. queue' \in [Session -> Seq(Task)]
    BY <1>1, <2>1, EnqueueType DEF CallTool
  <2>3. [path |-> p, data |-> d, ready |-> FALSE] \in Call
    BY DEF Call
  <2>4. tool' \in [Session -> Call \cup {None}] /\ count' \in Counts
    BY <1>1, <2>1, <2>3, CountTypes DEF CallTool, TypeOK
  <2>5. UNCHANGED <<queueOnly, live, log, surface, running>>
    BY <2>1 DEF CallTool
  <2>6. QED
    BY <1>1, <2>2, <2>4, <2>5 DEF TypeOK, queueOnly, ghosts
<1>3. CASE AskList(s)
  <2>1. queue' \in [Session -> Seq(Task)] /\ count' \in Counts
    BY <1>1, <1>3, EnqueueType, CountTypes DEF AskList
  <2>2. UNCHANGED <<queueOnly, harness>>
    BY <1>3 DEF AskList
  <2>3. QED
    BY <1>1, <2>1, <2>2 DEF TypeOK, queueOnly, harness, ghosts
<1>4. CASE \E i \in 1..MaxTurn + 1 : AskRewind(s, i)
  <2>1. PICK i \in 1..MaxTurn + 1 : AskRewind(s, i)
    BY <1>4
  <2>2. queue' \in [Session -> Seq(Task)] /\ count' \in Counts
    BY <1>1, <2>1, EnqueueType, CountTypes DEF AskRewind
  <2>3. mem[s] \in Fold /\ i \in DOMAIN mem[s].points
    BY <1>1, <2>1 DEF AskRewind, TypeOK
  <2>4. IdOf(mem[s].points[i]) \in Id
    BY <2>3, FoldFields, PointFields
  <2>5. goal' \in [Session -> Id \cup {None}]
    BY <1>1, <2>1, <2>4 DEF AskRewind, TypeOK
  <2>6. UNCHANGED <<disk, blobs, mem, file, stage, todo, heir, harness, ghosts>>
    BY <2>1 DEF AskRewind
  <2>7. QED
    BY <1>1, <2>2, <2>5, <2>6 DEF TypeOK, harness, ghosts
<1>5. CASE WriteByTool(s)
  <2>1. tool[s] # None /\ tool[s].path \in Path /\ tool[s].data \in Content
    BY <1>1, <1>5 DEF WriteByTool, TypeOK, Call, Content
  <2>2. disk' \in [Path -> Content] /\ tool' \in [Session -> Call \cup {None}]
    BY <1>1, <1>5, <2>1 DEF WriteByTool, TypeOK
  <2>3. \A u \in Session : foreign[u] \in SUBSET Path /\ foreign[u] \cup {tool[s].path} \in SUBSET Path
    BY <1>1, <2>1 DEF TypeOK
  <2>4. foreign' \in [Session -> SUBSET Path]
    BY <1>5, <2>3 DEF WriteByTool
  <2>5. UNCHANGED <<service, live, log, surface, running, count, inherited>>
    BY <1>5 DEF WriteByTool
  <2>6. QED
    BY <1>1, <2>2, <2>4, <2>5 DEF TypeOK, service
<1>6. QED
  BY <1>2, <1>3, <1>4, <1>5

LEMMA OtherTypes ==
  ASSUME IInv, NEW p \in Path, NEW c \in Data \cup {Missing}, WriteByOther(p, c)
  PROVE  TypeOK'
<1>1. TypeOK
  BY DEF IInv
<1>2. disk' \in [Path -> Content] /\ count' \in Counts
  BY <1>1, CountTypes DEF WriteByOther, TypeOK, Content
<1>3. \A u \in Session : foreign[u] \cup {p} \in SUBSET Path
  BY <1>1 DEF TypeOK
<1>4. foreign' \in [Session -> SUBSET Path]
  BY <1>3 DEF WriteByOther
<1>5. UNCHANGED <<service, harness, inherited>>
  BY DEF WriteByOther
<1>6. QED
  BY <1>1, <1>2, <1>4, <1>5 DEF TypeOK, service, harness

LEMMA CrashTypes ==
  ASSUME IInv, Crash
  PROVE  TypeOK'
<1>1. TypeOK
  BY DEF IInv
<1>2. blobs' \in [Data -> {"none", "whole", "cut"}] /\ file' \in [Session -> Fold \cup {None}]
  BY <1>1 DEF Crash, TypeOK
<1>3. count' \in Counts
  BY <1>1, CountTypes DEF Crash
<1>4. /\ mem' \in [Session -> Fold \cup {None}] /\ queue' \in [Session -> Seq(Task)]
      /\ stage' \in [Session -> Stage] /\ goal' \in [Session -> Id \cup {None}]
      /\ heir' \in [Session -> Heir \cup {None}] /\ running' \in [Session -> BOOLEAN]
      /\ tool' \in [Session -> Call \cup {None}]
  BY AttachQueue DEF Crash, Stage
<1>5. todo' \in [Session -> [delete: SUBSET Path, write: SUBSET Path]]
  <2>1. Nothing \in [delete: SUBSET Path, write: SUBSET Path]
    BY DEF Nothing
  <2>2. QED
    BY <2>1 DEF Crash
<1>6. inherited' \in [Session -> Tree \cup {None}]
  BY <1>1 DEF Crash, TypeOK
<1>7. UNCHANGED <<disk, live, log, surface, foreign>>
  BY DEF Crash
<1>8. QED
  BY <1>1, <1>2, <1>3, <1>4, <1>5, <1>6, <1>7 DEF TypeOK

-----------------------------------------------------------------------------
(* The invariant *)

LEMMA StoredWhole ==
  ASSUME TypeOK, NoCut, \/ blobs' = blobs
                        \/ \E contents : blobs' = Stored(contents)
  PROVE  NoCut'
  BY DEF NoCut, Stored, TypeOK

LEMMA NoCutStep ==
  ASSUME IInv, Next
  PROVE  NoCut'
<1>1. TypeOK /\ NoCut
  BY DEF IInv
<1>2. CASE \E s \in Session : DoEnd(s) \/ DoIdle(s)
  <2>1. PICK s \in Session : DoEnd(s) \/ DoIdle(s)
    BY <1>2
  <2>2. \E turn, seq : Finish(s, turn, seq)
    BY <2>1, Zenon DEF DoEnd, DoIdle
  <2>3. blobs' = blobs \/ \E contents : blobs' = Stored(contents)
    BY <2>2, Zenon DEF Finish, SnapshotBlobs
  <2>4. QED
    BY <1>1, <2>3, StoredWhole
<1>3. CASE \E s \in Session : DoIntent(s) \/ DoList(s)
  <2>1. PICK s \in Session : DoIntent(s) \/ DoList(s)
    BY <1>3
  <2>2. blobs' = blobs \/ \E contents : blobs' = Stored(contents)
    BY <2>1, Zenon DEF DoIntent, DoList, SnapshotBlobs
  <2>3. QED
    BY <1>1, <2>2, StoredWhole
<1>4. CASE Crash
  <2>1. "blob" \notin Torn => blobs' = blobs
    BY <1>4 DEF Crash
  <2>2. QED
    BY <1>1, <2>1 DEF NoCut
<1>5. CASE \E s \in Session : \/ DoAttach(s) \/ DoStart(s) \/ DoAdopt(s) \/ Save(s) \/ SaveFails(s)
                              \/ BeginRewind(s) \/ DeleteLater(s) \/ WriteBack(s) \/ WriteBackFails(s)
                              \/ FoldBack(s) \/ Fork(s) \/ HandOver(s) \/ Return(s)
  <2>1. blobs' = blobs
    BY <1>5 DEF DoAttach, DoStart, DoAdopt, Save, SaveFails, BeginRewind, DeleteLater, WriteBack,
                WriteBackFails, FoldBack, Fork, HandOver, Return
  <2>2. QED
    BY <1>1, <2>1 DEF NoCut
<1>6. CASE \E s \in Session :
             \/ StartTurn(s) \/ EndTurn(s) \/ Stop(s) \/ LateEnd(s)
             \/ \E p \in Path, d \in Data : CallTool(s, p, d)
             \/ WriteByTool(s) \/ AskList(s) \/ (\E i \in 1..MaxTurn + 1 : AskRewind(s, i))
  <2>1. blobs' = blobs
    BY <1>6 DEF StartTurn, EndTurn, Stop, LateEnd, CallTool, WriteByTool, AskList, AskRewind,
                queueOnly, service
  <2>2. QED
    BY <1>1, <2>1 DEF NoCut
<1>7. CASE \E p \in Path, c \in Data \cup {Missing} : WriteByOther(p, c)
  <2>1. blobs' = blobs
    BY <1>7 DEF WriteByOther, service
  <2>2. QED
    BY <1>1, <2>1 DEF NoCut
<1>8. QED
  BY <1>2, <1>3, <1>4, <1>5, <1>6, <1>7 DEF Next, Work

LEMMA InitSession ==
  ASSUME Init, NEW s \in Session
  PROVE  SessionOK(s)
<1>1. /\ mem[s] = None /\ file[s] = None /\ heir[s] = None /\ log[s] = <<>> /\ ~running[s]
      /\ tool[s] = None /\ inherited[s] = None /\ stage[s] = "ready" /\ goal[s] = None
      /\ queue[s] \in {<<JustAttach>>, <<>>} /\ (s \notin live => queue[s] = <<>>)
  BY DEF Init
<1>2. \A i \in DOMAIN queue[s] : queue[s][i].kind = "attach"
  BY <1>1, AttachQueue
<1>3. FoldsOK(s) /\ UnsavedOK(s) /\ InheritOK(s) /\ HeirOK(s)
  BY <1>1 DEF FoldsOK, UnsavedOK, InheritOK, HeirOK
<1>4. LogOK(s)
  <2>1. HasLast(log[s])
    BY <1>1 DEF HasLast
  <2>2. Current(s) = None /\ OpenOf(s) = None
    BY <1>1 DEF Current, OpenOf
  <2>3. QED
    BY <1>2, <2>1, <2>2, QuietQueue DEF LogOK
<1>5. TurnOK(s) /\ Absent(s)
  BY <1>1 DEF TurnOK, Absent
<1>6. ToolOK(s)
  BY <1>1, <1>2 DEF ToolOK, Saving
<1>7. StageOK(s) /\ RestoreOK(s)
  BY <1>1 DEF StageOK, RestoreOK, Saving, Rewinding, Restoring
<1>8. QED
  BY <1>3, <1>4, <1>5, <1>6, <1>7 DEF SessionOK

LEMMA InvInit == Init => IInv
<1>1. SUFFICES ASSUME Init PROVE IInv
  OBVIOUS
<1>2. TypeOK
  <2>1. /\ disk \in [Path -> Content] /\ blobs \in [Data -> {"none", "whole", "cut"}]
        /\ mem \in [Session -> Fold \cup {None}] /\ file \in [Session -> Fold \cup {None}]
        /\ stage \in [Session -> Stage] /\ goal \in [Session -> Id \cup {None}]
        /\ heir \in [Session -> Heir \cup {None}]
        /\ running \in [Session -> BOOLEAN] /\ tool \in [Session -> Call \cup {None}]
        /\ inherited \in [Session -> Tree \cup {None}]
    BY <1>1 DEF Init, Content, Stage
  <2>2. queue \in [Session -> Seq(Task)]
    BY <1>1, AttachQueue DEF Init
  <2>3. todo \in [Session -> [delete: SUBSET Path, write: SUBSET Path]] /\ count \in Counts
    BY <1>1 DEF Init, Nothing, Counts
  <2>4. live \in SUBSET Session
    BY <1>1, CheckpointsAssumption DEF Init
  <2>5. /\ log \in [Session -> Seq(Turn)] /\ surface \in [Session -> SUBSET Nat]
        /\ foreign \in [Session -> SUBSET Path]
    BY <1>1 DEF Init
  <2>6. QED
    BY <2>1, <2>2, <2>3, <2>4, <2>5 DEF TypeOK
<1>3. \A s \in Session : SessionOK(s)
  BY <1>1, InitSession
<1>4. HeirsOK
  <2>1. \A t \in Session : heir[t] = None /\ queue[t] \in {<<JustAttach>>, <<>>}
    BY <1>1 DEF Init
  <2>2. \A t \in Session : Adopts(queue[t]) = {}
    BY <2>1, AttachQueue DEF Adopts
  <2>3. ASSUME NEW circle \in (SUBSET Session) \ {{}}
        PROVE  \E v \in circle : \A t \in circle : heir[t] # None => heir[t].from # v
    <3>0. circle \in SUBSET Session /\ circle \notin {{}}
      BY <2>3, Zenon
    <3>1. circle \in SUBSET Session /\ circle # {}
      BY <3>0, Zenon
    <3>2. \A t \in circle : heir[t] = None
      BY <2>1, <3>1
    <3>3. QED
      BY <3>1, <3>2
  <2>4. NoCircle
    BY <2>3 DEF NoCircle
  <2>5. QED
    BY <2>1, <2>2, <2>4 DEF HeirsOK
<1>5. NoCut
  BY <1>1 DEF Init, NoCut
<1>6. QED
  BY <1>2, <1>3, <1>4, <1>5 DEF IInv

LEMMA InvStep == IInv /\ [Next]_vars => IInv'
<1>1. SUFFICES ASSUME IInv, [Next]_vars PROVE IInv'
  OBVIOUS
<1>2. ASSUME NEW s \in Session,
             \/ DoAttach(s) \/ DoStart(s) \/ DoEnd(s) \/ DoIdle(s) \/ DoIntent(s) \/ DoList(s)
             \/ DoAdopt(s)
      PROVE  TypeOK' /\ (\A u \in Session : SessionOK(u)') /\ HeirsOK'
  BY <1>1, <1>2, BeginsTypes, NotedTypes, WorkSessions, WorkHeirs
<1>3. ASSUME NEW s \in Session, Save(s) \/ SaveFails(s)
      PROVE  TypeOK' /\ (\A u \in Session : SessionOK(u)') /\ HeirsOK'
  BY <1>1, <1>3, SaveTypes, WorkSessions, SaveHeirs
<1>4. ASSUME NEW s \in Session,
             \/ BeginRewind(s) \/ DeleteLater(s) \/ WriteBack(s) \/ WriteBackFails(s) \/ FoldBack(s)
             \/ Return(s)
      PROVE  TypeOK' /\ (\A u \in Session : SessionOK(u)') /\ HeirsOK'
  BY <1>1, <1>4, RestoreTypes, FoldBackTypes, RewindSessions, RewindHeirs
<1>5. ASSUME NEW s \in Session, Fork(s) \/ HandOver(s)
      PROVE  TypeOK' /\ (\A u \in Session : SessionOK(u)') /\ HeirsOK'
  BY <1>1, <1>5, ForkTypes, ForkSessions, HandOverTypes, HandOverSessions
<1>6. ASSUME NEW s \in Session,
             \/ StartTurn(s) \/ EndTurn(s) \/ Stop(s) \/ LateEnd(s)
             \/ \E p \in Path, d \in Data : CallTool(s, p, d)
             \/ AskList(s) \/ (\E i \in 1..MaxTurn + 1 : AskRewind(s, i)) \/ WriteByTool(s)
      PROVE  TypeOK' /\ (\A u \in Session : SessionOK(u)') /\ HeirsOK'
  <2>1. (\A u \in Session : SessionOK(u)') /\ HeirsOK'
    BY <1>1, <1>6, HarnessSessions, HarnessHeirs
  <2>2. TypeOK'
    BY <1>1, <1>6, TurnTypes, AskedTypes
  <2>3. QED
    BY <2>1, <2>2
<1>7. ASSUME \E p \in Path, c \in Data \cup {Missing} : WriteByOther(p, c)
      PROVE  TypeOK' /\ (\A u \in Session : SessionOK(u)') /\ HeirsOK'
  BY <1>1, <1>7, OtherTypes, OtherSessions
<1>8. ASSUME Crash
      PROVE  TypeOK' /\ (\A u \in Session : SessionOK(u)') /\ HeirsOK'
  BY <1>1, <1>8, CrashTypes, CrashSessions
<1>9. CASE Next
  <2>1. TypeOK' /\ (\A u \in Session : SessionOK(u)') /\ HeirsOK'
    BY <1>2, <1>3, <1>4, <1>5, <1>6, <1>7, <1>8, <1>9 DEF Next, Work
  <2>2. NoCut'
    BY <1>1, <1>9, NoCutStep
  <2>3. QED
    BY <2>1, <2>2 DEF IInv
<1>10. CASE UNCHANGED vars
  <2>1. TypeOK /\ (\A s \in Session : SessionOK(s)) /\ HeirsOK /\ NoCut
    BY <1>1 DEF IInv
  <2>2. UNCHANGED <<disk, blobs, mem, file, queue, stage, todo, goal, heir, live, log, surface,
                    running, tool, count, foreign, inherited>>
    BY <1>10 DEF vars, service, harness, ghosts
  <2>3. TypeOK' /\ NoCut'
    BY <2>1, <2>2 DEF TypeOK, NoCut
  <2>4. HeirsOK'
    BY <2>1, <2>2 DEF HeirsOK, NoCircle
  <2>5. \A s \in Session : Untouched(s)
    BY <2>2 DEF Untouched, Elsewhere
  <2>6. \A s \in Session : SessionOK(s)'
    BY <2>1, <2>5, Frame
  <2>7. QED
    BY <2>3, <2>4, <2>6 DEF IInv
<1>11. QED
  BY <1>1, <1>9, <1>10

-----------------------------------------------------------------------------
(* Which step it was *)

LEMMA ToolSteps ==
  ASSUME IInv, Next, NEW s \in Session, tool[s] # None, tool'[s] = None, disk' # disk
  PROVE  WriteByTool(s)
<1>1. TypeOK
  BY DEF IInv
<1>2. ASSUME NEW u \in Session,
             \/ DoAttach(u) \/ DoStart(u) \/ DoEnd(u) \/ DoIdle(u) \/ DoIntent(u) \/ DoList(u)
             \/ DoAdopt(u) \/ Save(u) \/ SaveFails(u) \/ BeginRewind(u) \/ WriteBackFails(u)
             \/ FoldBack(u) \/ Fork(u) \/ HandOver(u) \/ Return(u)
      PROVE  disk' = disk
  BY <1>2 DEF DoAttach, DoStart, DoEnd, DoIdle, DoIntent, DoList, DoAdopt, Save, SaveFails,
              BeginRewind, WriteBackFails, FoldBack, Fork, HandOver, Return
<1>3. ASSUME NEW u \in Session,
             \/ StartTurn(u) \/ EndTurn(u) \/ Stop(u) \/ LateEnd(u)
             \/ \E p \in Path, d \in Data : CallTool(u, p, d)
             \/ AskList(u) \/ (\E i \in 1..MaxTurn + 1 : AskRewind(u, i))
      PROVE  disk' = disk
  BY <1>3 DEF StartTurn, EndTurn, Stop, LateEnd, CallTool, AskList, AskRewind, queueOnly
<1>4. Crash => disk' = disk
  BY DEF Crash
<1>5. ASSUME \/ \E u \in Session : DeleteLater(u) \/ WriteBack(u)
             \/ \E p \in Path, c \in Data \cup {Missing} : WriteByOther(p, c)
      PROVE  tool' = tool
  BY <1>5 DEF DeleteLater, WriteBack, WriteByOther, harness
<1>6. ASSUME NEW u \in Session \ {s}, WriteByTool(u) PROVE tool'[s] = tool[s]
  BY <1>1, <1>6 DEF WriteByTool, TypeOK
<1>7. QED
  BY <1>2, <1>3, <1>4, <1>5, <1>6 DEF Next, Work

-----------------------------------------------------------------------------
(* What holds in every state *)

LEMMA OrderedAlways == IInv => TurnsInOrder
<1>1. SUFFICES ASSUME IInv, NEW s \in Session, mem[s] # None,
                      NEW i \in DOMAIN mem[s].points, NEW j \in DOMAIN mem[s].points, i < j
               PROVE  /\ mem[s].points[i].turn < mem[s].points[j].turn
                      /\ MayStop \/ mem[s].points[i].seq <= mem[s].points[j].seq
  BY DEF TurnsInOrder
<1>2. FoldOK(mem[s], log[s]) /\ mem[s] \in Fold
  BY <1>1 DEF IInv, SessionOK, FoldsOK, TypeOK
<1>3. i \in Nat /\ j \in Nat
  BY <1>2, FoldFields
<1>4. QED
  BY <1>1, <1>2, <1>3 DEF FoldOK, Ordered, AtEnds

LEMMA RestoredAlways == "blob" \notin Torn /\ IInv => RestoresTree
<1>1. SUFFICES ASSUME "blob" \notin Torn, IInv, NEW s \in Session, stage[s] = "folding",
                      NEW p \in Path \ foreign[s]
               PROVE  disk[p] = mem[s].points[Target(s)].was[p]
  BY DEF RestoresTree
<1>2. TypeOK /\ SessionOK(s) /\ stage[s] \in Restoring
  BY <1>1 DEF IInv, Restoring
<1>3. /\ mem[s] # None /\ Position(mem[s], goal[s]) # {}
  BY <1>1, <1>2 DEF SessionOK, StageOK
<1>4. Target(s) \in DOMAIN mem[s].points /\ Honest(mem[s], disk, foreign[s])
      /\ IdOf(mem[s].points[Target(s)]) = goal[s]
  BY <1>2, <1>3, TargetFacts
<1>5. Target(s) \in Position(mem[s], goal[s])
  BY <1>4 DEF Position
<1>6. todo[s].write = {} /\ (Restored(mem[s], Target(s))[p] # Unseen
        => disk[p] = Restored(mem[s], Target(s))[p])
  BY <1>1, <1>2, <1>5 DEF SessionOK, RestoreOK
<1>7. mem[s].points[Target(s)].was[p] = IF Restored(mem[s], Target(s))[p] # Unseen
                                        THEN Restored(mem[s], Target(s))[p] ELSE disk[p]
  BY <1>1, <1>4 DEF Honest
<1>8. QED
  BY <1>6, <1>7

LEMMA SafeAlways == "blob" \notin Torn /\ IInv => BaselineIsSafe
<1>1. SUFFICES ASSUME "blob" \notin Torn, IInv, NEW s \in Session, file[s] # None,
                      NEW p \in Path \ foreign[s], NEW i \in DOMAIN file[s].points
               PROVE  file[s].points[i].was[p] =
                        IF Restored(file[s], i)[p] # Unseen THEN Restored(file[s], i)[p] ELSE disk[p]
  BY DEF BaselineIsSafe
<1>2. Honest(file[s], disk, foreign[s])
  BY <1>1 DEF IInv, SessionOK, FoldsOK
<1>3. QED
  BY <1>1, <1>2 DEF Honest

LEMMA KeptAlways == IInv => InheritanceKept
  BY DEF IInv, SessionOK, InheritOK, Keeps, InheritanceKept

LEMMA ServedAlways == IInv => HeirIsServed
<1>1. SUFFICES ASSUME IInv PROVE HeirIsServed
  OBVIOUS
<1>2. NoCircle /\ TypeOK
  BY <1>1 DEF IInv, HeirsOK
<1>3. ASSUME NEW s \in Session, NEW t \in Session, stage[s] = "waiting", heir[t] # None, heir[t].from = s
      PROVE  /\ \E i \in DOMAIN queue[t] : queue[t][i].kind = "adopt"
             /\ stage[t] \in {"ready", "saving"} \/ Head(queue[t]).kind = "rewind"
  <2>1. Adopts(queue[t]) # {}
    BY <1>1, <1>3 DEF IInv, HeirsOK
  <2>2. stage[t] \in Stage /\ StageOK(t)
    BY <1>1, <1>2 DEF IInv, TypeOK, SessionOK
  <2>3. stage[t] \in {"ready", "saving"} \/ Head(queue[t]).kind = "rewind"
    BY <2>2 DEF Stage, StageOK, First, Rewinding, Restoring
  <2>4. QED
    BY <2>1, <2>3 DEF Adopts
<1>4. QED
  BY <1>2, <1>3 DEF HeirIsServed, NoCircle

-----------------------------------------------------------------------------
(* What every step does *)

LEMMA WritesAlways ==
  ASSUME IInv, [Next]_vars, NEW s \in Session, tool[s] # None, tool'[s] = None, disk' # disk
  PROVE  stage[s] \notin {"deleting", "writing", "folding"}
<1>1. WriteByTool(s)
  BY ToolSteps DEF vars
<1>2. TypeOK /\ SessionOK(s) /\ tool[s].ready
  BY <1>1 DEF IInv, WriteByTool, Announced
<1>3. QED
  BY <1>2, WriterFacts DEF Restoring

-----------------------------------------------------------------------------
(* Theorems *)

\* In every behaviour IInv holds, whatever the sessions, paths, contents and
\* bounds: a queue, the folds in memory and in the file, the rewind that is
\* under way and the fold a child waits for belong to one history of the log
\* (the tasks of CheckpointsService and the state.json they keep).
THEOREM Invariance == Spec => []IInv
BY InvInit, InvStep, PTL DEF Spec

\* The variables have their types: in particular a queue holds tasks only, and
\* whatever a rewind writes back is a content (loadState, persist, rewind).
THEOREM TypeCorrect == Spec => []TypeOK
<1>1. IInv => TypeOK
  BY DEF IInv
<1>2. QED
  BY <1>1, Invariance, PTL

\* There is one checkpoint for each turn, in the order of the turns, although
\* turn/end and the idle agent both finish a turn, at times late, and rewinds
\* cut the fold and the log; as long as no turn is stopped also in the order
\* of the log (finishTurn, onAgentIdle, truncateAfter).
THEOREM CheckpointsInOrder == Spec => []TurnsInOrder
BY OrderedAlways, Invariance, PTL

\* When the files of a rewind are written the directory is what it was when
\* the checkpoint was taken, but for the paths others changed: sparse trees
\* over a baseline that is only ever completed lose nothing, whatever sessions,
\* tools and restarts come between (snapshotFromDisk, restoreTree).  The blobs
\* must be written whole: a cut one is never written again.
THEOREM RewindRestores == "blob" \notin Torn => (Spec => []RestoresTree)
<1>1. CASE "blob" \notin Torn
  <2>1. IInv => RestoresTree
    BY <1>1, RestoredAlways
  <2>2. Spec => []RestoresTree
    BY <2>1, Invariance, PTL
  <2>3. QED
    BY <2>2
<1>2. QED
  BY <1>1

\* A child keeps the baseline it inherited: neither its own attach, which may
\* run before or after the fold arrives, nor a restart replaces it with an
\* empty one (attach, adoptState).
THEOREM ChildKeepsBaseline == Spec => []InheritanceKept
BY KeptAlways, Invariance, PTL

\* A rewind that waits for its child waits for work that is in the child's
\* queue and goes on, and no chain of rewinds waits for itself, though each
\* holds its own queue meanwhile (rewind, runExclusive).
THEOREM WaitersAreServed == Spec => []HeirIsServed
BY ServedAlways, Invariance, PTL

\* No tool of a session writes while the session's own rewind restores files:
\* a rewind is refused while a turn is open, and none starts a tool call later
\* without its start in the queue (rewind's check, runExclusive).
THEOREM RewindIsAlone == Spec => NoToolWriteDuringRewind
<1> DEFINE Step == \A s \in Session : tool[s] # None /\ tool'[s] = None /\ disk' # disk
                     => stage[s] \notin {"deleting", "writing", "folding"}
<1>1. IInv /\ [Next]_vars => [Step]_vars
  BY WritesAlways
<1>2. QED
  BY <1>1, Invariance, PTL DEF Spec, NoToolWriteDuringRewind

\* At any moment state.json tells what the directory was at each checkpoint it
\* lists, but for the paths others changed: a tool writes only after what the
\* file held is saved (noteIntent is awaited), and what a fold knows is never
\* overwritten (snapshotFromDisk, truncateAfter, adoptState), so a crash at any
\* moment leaves the way back.  The blobs must be written whole.
THEOREM WayBackIsSafe == "blob" \notin Torn => (Spec => []BaselineIsSafe)
<1>1. CASE "blob" \notin Torn
  <2>1. IInv => BaselineIsSafe
    BY <1>1, SafeAlways
  <2>2. Spec => []BaselineIsSafe
    BY <2>1, Invariance, PTL
  <2>3. QED
    BY <2>2
<1>2. QED
  BY <1>1

=============================================================================
