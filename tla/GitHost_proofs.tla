--------------------------- MODULE GitHost_proofs ---------------------------
(***************************************************************************)
(* Proofs about one Git child (GitProcess), for any hooks, limit and       *)
(* amount of output: what an answer means that GitCommit relies on.        *)
(*                                                                         *)
(* Proofs about GitCommit, for any requests, ids, retries and agents: one  *)
(* request at a time works on the repository, a cancellation reaches the   *)
(* request in flight, and what a failed commit-all does to the index.      *)
(***************************************************************************)
EXTENDS GitCommit, GitProcess, TLAPS

-----------------------------------------------------------------------------
(* GitProcess: what the host knows of the group *)

Values ==
  /\ git \in {"new", "failed", "running", "ended", "reaped"}
  /\ status \in {0, 1, Nil}
  /\ hooks \in [Hook -> {"none", "loud", "quiet", "gone"}]
  /\ pipe \in [unread: 0..MaxOutput, all: 0..MaxOutput]
  /\ reason \in Reason \cup {Nil}
  /\ shutdown \in {"no", "grace", "kill", "over"}
  /\ result \in Answers \cup {Nil, Unknown}

Settled == result # Nil /\ result # Unknown

\* Git and its hooks: none before it started, none of it left without status.
Processes ==
  /\ git \in {"new", "failed"} => Live = {} /\ ~escaped /\ pipe.unread = 0
  /\ git \notin {"ended", "reaped"} => status = Nil
  /\ error => git = "failed"
  /\ pipe.unread <= pipe.all

\* What the host knows is so: a group once gone stays gone, nobody writes after
\* the close event, and output is dropped for a reason.
GoneStays == groupGone => git \in {"failed", "reaped"} /\ Live = {}
ClosedStays == closed => git \in {"failed", "reaped"} /\ ~Writers /\ pipe.unread = 0
DropHasReason == kept.dropped => reason # Nil
Knowledge == GoneStays /\ ClosedStays /\ DropHasReason

\* The answer is that of a call refused or of one closed and gone.
ProcessAnswer ==
  /\ Settled /\ git = "new" => result.code = 130
  /\ Settled /\ git # "new" =>
       closed /\ groupGone /\ result.code = Code(reason, error)
  /\ result = Unknown => forced /\ git # "new"

ProcessInv == ProcessTypeOK /\ Processes /\ Knowledge /\ ProcessAnswer

-----------------------------------------------------------------------------

\* The record finish() returns is an answer.
LEMMA FinishedIsAnswer ==
  ASSUME ProcessTypeOK, NEW r \in Reason \cup {Nil}
  PROVE  /\ Finished(r) \in Answers
         /\ Finished(r).code = Code(r, error)
  BY GitProcessAssumption DEF ProcessTypeOK, Flags, Finished, Answers, Code, Reason

\* The answer to a call that never started.
LEMMA RefusedIsAnswer == Refused \in Answers /\ Refused.code = 130
  BY DEF Refused, Answers

\* A hook that is loud is alive.
LEMMA LoudIsLive == Live = {} => Loud = {}
  BY DEF Live, Loud

LEMMA ProcessInvInit == ProcessInit => ProcessInv
<1> SUFFICES ASSUME ProcessInit PROVE ProcessInv
  OBVIOUS
<1>1. ProcessTypeOK
  <2>1. Values
    BY GitProcessAssumption DEF ProcessInit, Values
  <2>2. kept \in [size: 0..MaxBuffer, dropped: BOOLEAN]
    BY GitProcessAssumption DEF ProcessInit
  <2>3. Flags
    BY DEF ProcessInit, Flags
  <2>4. QED
    BY <2>1, <2>2, <2>3 DEF ProcessTypeOK, Values
<1>2. Processes
  BY DEF ProcessInit, Processes, Live
<1>3. Knowledge /\ ProcessAnswer
  BY GitProcessAssumption
  DEF ProcessInit, Knowledge, GoneStays, ClosedStays, DropHasReason, ProcessAnswer, Settled
<1>4. QED
  BY <1>1, <1>2, <1>3 DEF ProcessInv

LEMMA ProcessInvStep == ProcessInv /\ [ProcessNext]_processVars => ProcessInv'
<1> SUFFICES ASSUME ProcessInv, [ProcessNext]_processVars PROVE ProcessInv'
  OBVIOUS
<1> USE GitProcessAssumption DEF ProcessInv
<1>1. ASSUME NEW h \in Hook, StartHook(h) PROVE ProcessInv'
  <2>2. Live' \subseteq Live \cup {h} /\ Loud' \subseteq Loud \cup {h}
    BY <1>1 DEF ProcessTypeOK, Live, Loud, StartHook, host
  <2>3. ProcessTypeOK'
    <3>1. Values'
      BY <1>1 DEF ProcessTypeOK, Values, Reason, Processes, StartHook, host
    <3>2. (kept \in [size: 0..MaxBuffer, dropped: BOOLEAN])'
      BY <1>1 DEF ProcessTypeOK, StartHook, host
    <3>3. Flags'
      BY <1>1 DEF ProcessTypeOK, Flags, StartHook, host
    <3>4. QED
      BY <3>1, <3>2, <3>3 DEF ProcessTypeOK, Values
  <2>4. Processes'
    BY <1>1, <2>2 DEF ProcessTypeOK, Processes, StartHook, host
  <2>5. Knowledge'
    <3>1. GoneStays'
      BY <1>1, <2>2 DEF ProcessTypeOK, Processes, Knowledge, GoneStays, GroupExists, StartHook, host
    <3>2. ClosedStays'
      BY <1>1, <2>2 DEF ProcessTypeOK, Processes, Knowledge, ClosedStays, Writers, StartHook, host
    <3>3. DropHasReason'
      BY <1>1 DEF ProcessTypeOK, Knowledge, DropHasReason, StartHook, host
    <3>4. QED
      BY <3>1, <3>2, <3>3 DEF Knowledge
  <2>6. ProcessAnswer'
    BY <1>1 DEF ProcessTypeOK, Processes, Knowledge, GoneStays, ClosedStays, ProcessAnswer, Settled, Code, StartHook, host
  <2>7. QED
    BY <2>3, <2>4, <2>5, <2>6
<1>2. ASSUME NEW h \in Hook, Escape(h) PROVE ProcessInv'
  <2>2. h \in Live /\ Live' \subseteq Live /\ Loud' \subseteq Loud
    BY <1>2 DEF ProcessTypeOK, Live, Loud, Escape, host
  <2>3. ProcessTypeOK'
    <3>1. Values'
      BY <1>2 DEF ProcessTypeOK, Values, Reason, Processes, Escape, host
    <3>2. (kept \in [size: 0..MaxBuffer, dropped: BOOLEAN])'
      BY <1>2 DEF ProcessTypeOK, Escape, host
    <3>3. Flags'
      BY <1>2 DEF ProcessTypeOK, Flags, Escape, host
    <3>4. QED
      BY <3>1, <3>2, <3>3 DEF ProcessTypeOK, Values
  <2>4. Processes'
    BY <1>2, <2>2 DEF ProcessTypeOK, Processes, Escape, host, Loud
  <2>5. Knowledge'
    <3>1. GoneStays'
      BY <1>2, <2>2 DEF ProcessTypeOK, Processes, Knowledge, GoneStays, GroupExists, Escape, host, Loud
    <3>2. ClosedStays'
      BY <1>2, <2>2 DEF ProcessTypeOK, Processes, Knowledge, ClosedStays, Writers, Escape, host, Loud
    <3>3. DropHasReason'
      BY <1>2 DEF ProcessTypeOK, Knowledge, DropHasReason, Escape, host
    <3>4. QED
      BY <3>1, <3>2, <3>3 DEF Knowledge
  <2>6. ProcessAnswer'
    BY <1>2 DEF ProcessTypeOK, Processes, Knowledge, GoneStays, ClosedStays, ProcessAnswer, Settled, Code, Escape, host
  <2>7. QED
    BY <2>3, <2>4, <2>5, <2>6
<1>3. ASSUME NEW h \in Hook, NEW c \in {"quiet", "gone"}, EndHook(h, c) PROVE ProcessInv'
  <2>2. h \in Live /\ Live' \subseteq Live /\ Loud' \subseteq Loud
    BY <1>3 DEF ProcessTypeOK, Live, Loud, EndHook, host
  <2>3. ProcessTypeOK'
    <3>1. Values'
      BY <1>3 DEF ProcessTypeOK, Values, Reason, Processes, EndHook, host
    <3>2. (kept \in [size: 0..MaxBuffer, dropped: BOOLEAN])'
      BY <1>3 DEF ProcessTypeOK, EndHook, host
    <3>3. Flags'
      BY <1>3 DEF ProcessTypeOK, Flags, EndHook, host
    <3>4. QED
      BY <3>1, <3>2, <3>3 DEF ProcessTypeOK, Values
  <2>4. Processes'
    BY <1>3, <2>2 DEF ProcessTypeOK, Processes, EndHook, host
  <2>5. Knowledge'
    <3>1. GoneStays'
      BY <1>3, <2>2 DEF ProcessTypeOK, Processes, Knowledge, GoneStays, GroupExists, EndHook, host
    <3>2. ClosedStays'
      BY <1>3, <2>2 DEF ProcessTypeOK, Processes, Knowledge, ClosedStays, Writers, EndHook, host
    <3>3. DropHasReason'
      BY <1>3 DEF ProcessTypeOK, Knowledge, DropHasReason, EndHook, host
    <3>4. QED
      BY <3>1, <3>2, <3>3 DEF Knowledge
  <2>6. ProcessAnswer'
    BY <1>3 DEF ProcessTypeOK, Processes, Knowledge, GoneStays, ClosedStays, ProcessAnswer, Settled, Code, EndHook, host
  <2>7. QED
    BY <2>3, <2>4, <2>5, <2>6
<1>4. ASSUME EndEscaped PROVE ProcessInv'
  <2>2. Live' = Live /\ Loud' = Loud
    BY <1>4 DEF Live, Loud, EndEscaped, host
  <2>3. ProcessTypeOK'
    <3>1. Values'
      BY <1>4 DEF ProcessTypeOK, Values, Reason, Processes, EndEscaped, host
    <3>2. (kept \in [size: 0..MaxBuffer, dropped: BOOLEAN])'
      BY <1>4 DEF ProcessTypeOK, EndEscaped, host
    <3>3. Flags'
      BY <1>4 DEF ProcessTypeOK, Flags, EndEscaped, host
    <3>4. QED
      BY <3>1, <3>2, <3>3 DEF ProcessTypeOK, Values
  <2>4. Processes'
    BY <1>4, <2>2 DEF ProcessTypeOK, Processes, EndEscaped, host
  <2>5. Knowledge'
    <3>1. GoneStays'
      BY <1>4, <2>2 DEF ProcessTypeOK, Processes, Knowledge, GoneStays, GroupExists, EndEscaped, host
    <3>2. ClosedStays'
      BY <1>4, <2>2 DEF ProcessTypeOK, Processes, Knowledge, ClosedStays, Writers, EndEscaped, host
    <3>3. DropHasReason'
      BY <1>4 DEF ProcessTypeOK, Knowledge, DropHasReason, EndEscaped, host
    <3>4. QED
      BY <3>1, <3>2, <3>3 DEF Knowledge
  <2>6. ProcessAnswer'
    BY <1>4 DEF ProcessTypeOK, Processes, Knowledge, GoneStays, ClosedStays, ProcessAnswer, Settled, Code, EndEscaped, host
  <2>7. QED
    BY <2>3, <2>4, <2>5, <2>6
<1>5. ASSUME NEW code \in {0, 1, Nil}, EndGit(code) PROVE ProcessInv'
  <2>2. Live' = Live /\ Loud' = Loud
    BY <1>5 DEF Live, Loud, EndGit, host
  <2>3. ProcessTypeOK'
    <3>1. Values'
      BY <1>5 DEF ProcessTypeOK, Values, Reason, Processes, EndGit, host
    <3>2. (kept \in [size: 0..MaxBuffer, dropped: BOOLEAN])'
      BY <1>5 DEF ProcessTypeOK, EndGit, host
    <3>3. Flags'
      BY <1>5 DEF ProcessTypeOK, Flags, EndGit, host
    <3>4. QED
      BY <3>1, <3>2, <3>3 DEF ProcessTypeOK, Values
  <2>4. Processes'
    BY <1>5, <2>2 DEF ProcessTypeOK, Processes, EndGit, host
  <2>5. Knowledge'
    <3>1. GoneStays'
      BY <1>5, <2>2 DEF ProcessTypeOK, Processes, Knowledge, GoneStays, GroupExists, EndGit, host
    <3>2. ClosedStays'
      BY <1>5, <2>2 DEF ProcessTypeOK, Processes, Knowledge, ClosedStays, Writers, EndGit, host
    <3>3. DropHasReason'
      BY <1>5 DEF ProcessTypeOK, Knowledge, DropHasReason, EndGit, host
    <3>4. QED
      BY <3>1, <3>2, <3>3 DEF Knowledge
  <2>6. ProcessAnswer'
    BY <1>5 DEF ProcessTypeOK, Processes, Knowledge, GoneStays, ClosedStays, ProcessAnswer, Settled, Code, EndGit, host
  <2>7. QED
    BY <2>3, <2>4, <2>5, <2>6
<1>6. ASSUME Write PROVE ProcessInv'
  <2>2. Live' = Live /\ Loud' = Loud
    BY <1>6 DEF Live, Loud, Write, host
  <2>3. ProcessTypeOK'
    <3>1. Values'
      BY <1>6 DEF ProcessTypeOK, Values, Reason, Processes, Write, host
    <3>2. (kept \in [size: 0..MaxBuffer, dropped: BOOLEAN])'
      BY <1>6 DEF ProcessTypeOK, Write, host
    <3>3. Flags'
      BY <1>6 DEF ProcessTypeOK, Flags, Write, host
    <3>4. QED
      BY <3>1, <3>2, <3>3 DEF ProcessTypeOK, Values
  <2>4. Processes'
    BY <1>6, <2>2, LoudIsLive DEF ProcessTypeOK, Processes, Write, host, Writers
  <2>5. Knowledge'
    <3>1. GoneStays'
      BY <1>6, <2>2 DEF ProcessTypeOK, Processes, Knowledge, GoneStays, GroupExists, Write, host
    <3>2. ClosedStays'
      BY <1>6, <2>2 DEF ProcessTypeOK, Processes, Knowledge, ClosedStays, Writers, Write, host
    <3>3. DropHasReason'
      BY <1>6 DEF ProcessTypeOK, Knowledge, DropHasReason, Write, host
    <3>4. QED
      BY <3>1, <3>2, <3>3 DEF Knowledge
  <2>6. ProcessAnswer'
    BY <1>6 DEF ProcessTypeOK, Processes, Knowledge, GoneStays, ClosedStays, ProcessAnswer, Settled, Code, Write, host
  <2>7. QED
    BY <2>3, <2>4, <2>5, <2>6
<1>7. ASSUME Begin PROVE ProcessInv'
  <2>2. Live' = Live /\ Loud' = Loud
    BY <1>7 DEF Live, Loud, Begin
  <2>3. ProcessTypeOK'
    <3>1. Values'
      BY <1>7, RefusedIsAnswer DEF ProcessTypeOK, Values, Reason, Processes, Begin
    <3>2. (kept \in [size: 0..MaxBuffer, dropped: BOOLEAN])'
      BY <1>7 DEF ProcessTypeOK, Begin
    <3>3. Flags'
      BY <1>7 DEF ProcessTypeOK, Flags, Begin
    <3>4. QED
      BY <3>1, <3>2, <3>3 DEF ProcessTypeOK, Values
  <2>4. Processes'
    BY <1>7, <2>2 DEF ProcessTypeOK, Processes, Begin
  <2>5. Knowledge'
    <3>1. GoneStays'
      BY <1>7, <2>2 DEF ProcessTypeOK, Processes, Knowledge, GoneStays, GroupExists, Begin
    <3>2. ClosedStays'
      BY <1>7, <2>2 DEF ProcessTypeOK, Processes, Knowledge, ClosedStays, Writers, Begin
    <3>3. DropHasReason'
      BY <1>7 DEF ProcessTypeOK, Knowledge, DropHasReason, Begin
    <3>4. QED
      BY <3>1, <3>2, <3>3 DEF Knowledge
  <2>6. ProcessAnswer'
    BY <1>7, RefusedIsAnswer DEF ProcessTypeOK, Processes, Knowledge, GoneStays, ClosedStays, ProcessAnswer, Settled, Code, Begin
  <2>7. QED
    BY <2>3, <2>4, <2>5, <2>6
<1>8. ASSUME OnAbort PROVE ProcessInv'
  <2>1. Finished("cancelled") \in Answers /\ Finished("cancelled").code = Code("cancelled", error)
    BY FinishedIsAnswer DEF ProcessTypeOK, Reason
  <2>2. Live' = Live /\ Loud' = Loud
    BY <1>8 DEF Live, Loud, OnAbort, Terminate, Stop, Ask, world, Waiting
  <2>3. ProcessTypeOK'
    <3>1. Values'
      BY <1>8, <2>1 DEF ProcessTypeOK, Values, Reason, Processes, OnAbort, Terminate, Stop, Ask, world, Waiting
    <3>2. (kept \in [size: 0..MaxBuffer, dropped: BOOLEAN])'
      BY <1>8 DEF ProcessTypeOK, OnAbort, Terminate, Stop, Ask, world, Waiting
    <3>3. Flags'
      BY <1>8 DEF ProcessTypeOK, Flags, OnAbort, Terminate, Stop, Ask, world, Waiting
    <3>4. QED
      BY <3>1, <3>2, <3>3 DEF ProcessTypeOK, Values
  <2>4. Processes'
    BY <1>8, <2>2 DEF ProcessTypeOK, Processes, OnAbort, Terminate, Stop, Ask, world, Waiting
  <2>5. Knowledge'
    <3>1. GoneStays'
      BY <1>8, <2>2 DEF ProcessTypeOK, Processes, Knowledge, GoneStays, GroupExists, OnAbort, Terminate, Stop, Ask, world, Waiting
    <3>2. ClosedStays'
      BY <1>8, <2>2 DEF ProcessTypeOK, Processes, Knowledge, ClosedStays, Writers, OnAbort, Terminate, Stop, Ask, world, Waiting
    <3>3. DropHasReason'
      BY <1>8 DEF ProcessTypeOK, Knowledge, DropHasReason, OnAbort, Terminate, Stop, Ask, world, Waiting
    <3>4. QED
      BY <3>1, <3>2, <3>3 DEF Knowledge
  <2>6. ProcessAnswer'
    BY <1>8, <2>1 DEF ProcessTypeOK, Processes, Knowledge, GoneStays, ClosedStays, ProcessAnswer, Settled, Code, OnAbort, Terminate, Stop, Ask, world, Waiting
  <2>7. QED
    BY <2>3, <2>4, <2>5, <2>6
<1>9. ASSUME TimesOut PROVE ProcessInv'
  <2>1. Finished("timeout") \in Answers /\ Finished("timeout").code = Code("timeout", error)
    BY FinishedIsAnswer DEF ProcessTypeOK, Reason
  <2>2. Live' = Live /\ Loud' = Loud
    BY <1>9 DEF Live, Loud, TimesOut, Terminate, Stop, Ask, world, Waiting
  <2>3. ProcessTypeOK'
    <3>1. Values'
      BY <1>9, <2>1 DEF ProcessTypeOK, Values, Reason, Processes, TimesOut, Terminate, Stop, Ask, world, Waiting
    <3>2. (kept \in [size: 0..MaxBuffer, dropped: BOOLEAN])'
      BY <1>9 DEF ProcessTypeOK, TimesOut, Terminate, Stop, Ask, world, Waiting
    <3>3. Flags'
      BY <1>9 DEF ProcessTypeOK, Flags, TimesOut, Terminate, Stop, Ask, world, Waiting
    <3>4. QED
      BY <3>1, <3>2, <3>3 DEF ProcessTypeOK, Values
  <2>4. Processes'
    BY <1>9, <2>2 DEF ProcessTypeOK, Processes, TimesOut, Terminate, Stop, Ask, world, Waiting
  <2>5. Knowledge'
    <3>1. GoneStays'
      BY <1>9, <2>2 DEF ProcessTypeOK, Processes, Knowledge, GoneStays, GroupExists, TimesOut, Terminate, Stop, Ask, world, Waiting
    <3>2. ClosedStays'
      BY <1>9, <2>2 DEF ProcessTypeOK, Processes, Knowledge, ClosedStays, Writers, TimesOut, Terminate, Stop, Ask, world, Waiting
    <3>3. DropHasReason'
      BY <1>9 DEF ProcessTypeOK, Knowledge, DropHasReason, TimesOut, Terminate, Stop, Ask, world, Waiting
    <3>4. QED
      BY <3>1, <3>2, <3>3 DEF Knowledge
  <2>6. ProcessAnswer'
    BY <1>9, <2>1 DEF ProcessTypeOK, Processes, Knowledge, GoneStays, ClosedStays, ProcessAnswer, Settled, Code, TimesOut, Terminate, Stop, Ask, world, Waiting
  <2>7. QED
    BY <2>3, <2>4, <2>5, <2>6
<1>10. ASSUME NEW n \in 1..MaxOutput, OnData(n) PROVE ProcessInv'
  <2>1. Finished("maxBuffer") \in Answers /\ Finished("maxBuffer").code = Code("maxBuffer", error)
    BY FinishedIsAnswer DEF ProcessTypeOK, Reason
  <2>2. Live' = Live /\ Loud' = Loud
    BY <1>10 DEF Live, Loud, OnData, Overrun, Stop, Ask, Waiting, Least
  <2>3. ProcessTypeOK'
    <3>1. Values'
      BY <1>10, <2>1 DEF ProcessTypeOK, Values, Reason, Processes, OnData, Overrun, Stop, Ask, Waiting, Least
    <3>2. (kept \in [size: 0..MaxBuffer, dropped: BOOLEAN])'
      BY <1>10 DEF ProcessTypeOK, OnData, Overrun, Stop, Ask, Waiting, Least
    <3>3. Flags'
      BY <1>10 DEF ProcessTypeOK, Flags, OnData, Overrun, Stop, Ask, Waiting, Least
    <3>4. QED
      BY <3>1, <3>2, <3>3 DEF ProcessTypeOK, Values
  <2>4. Processes'
    BY <1>10, <2>2 DEF ProcessTypeOK, Processes, OnData, Overrun, Stop, Ask, Waiting, Least
  <2>5. Knowledge'
    <3>1. GoneStays'
      BY <1>10, <2>2 DEF ProcessTypeOK, Processes, Knowledge, GoneStays, GroupExists, OnData, Overrun, Stop, Ask, Waiting, Least
    <3>2. ClosedStays'
      BY <1>10, <2>2 DEF ProcessTypeOK, Processes, Knowledge, ClosedStays, Writers, OnData, Overrun, Stop, Ask, Waiting, Least
    <3>3. DropHasReason'
      BY <1>10 DEF ProcessTypeOK, Knowledge, DropHasReason, OnData, Overrun, Stop, Ask, Waiting, Least
    <3>4. QED
      BY <3>1, <3>2, <3>3 DEF Knowledge
  <2>6. ProcessAnswer'
    BY <1>10, <2>1 DEF ProcessTypeOK, Processes, Knowledge, GoneStays, ClosedStays, ProcessAnswer, Settled, Code, OnData, Overrun, Stop, Ask, Waiting, Least
  <2>7. QED
    BY <2>3, <2>4, <2>5, <2>6
<1>11. ASSUME OnError PROVE ProcessInv'
  <2>2. Live' = Live /\ Loud' = Loud
    BY <1>11 DEF Live, Loud, OnError, world, Waiting
  <2>3. ProcessTypeOK'
    <3>1. Values'
      BY <1>11 DEF ProcessTypeOK, Values, Reason, Processes, OnError, world, Waiting
    <3>2. (kept \in [size: 0..MaxBuffer, dropped: BOOLEAN])'
      BY <1>11 DEF ProcessTypeOK, OnError, world, Waiting
    <3>3. Flags'
      BY <1>11 DEF ProcessTypeOK, Flags, OnError, world, Waiting
    <3>4. QED
      BY <3>1, <3>2, <3>3 DEF ProcessTypeOK, Values
  <2>4. Processes'
    BY <1>11, <2>2 DEF ProcessTypeOK, Processes, OnError, world, Waiting
  <2>5. Knowledge'
    <3>1. GoneStays'
      BY <1>11, <2>2 DEF ProcessTypeOK, Processes, Knowledge, GoneStays, GroupExists, OnError, world, Waiting
    <3>2. ClosedStays'
      BY <1>11, <2>2 DEF ProcessTypeOK, Processes, Knowledge, ClosedStays, Writers, OnError, world, Waiting
    <3>3. DropHasReason'
      BY <1>11 DEF ProcessTypeOK, Knowledge, DropHasReason, OnError, world, Waiting
    <3>4. QED
      BY <3>1, <3>2, <3>3 DEF Knowledge
  <2>6. ProcessAnswer'
    BY <1>11 DEF ProcessTypeOK, Processes, Knowledge, GoneStays, ClosedStays, ProcessAnswer, Settled, Code, OnError, world, Waiting
  <2>7. QED
    BY <2>3, <2>4, <2>5, <2>6
<1>12. ASSUME OnExit PROVE ProcessInv'
  <2>1. Finished(reason) \in Answers /\ Finished(reason).code = Code(reason, error)
    BY FinishedIsAnswer DEF ProcessTypeOK, Reason
  <2>2. Live' = Live /\ Loud' = Loud
    BY <1>12 DEF Live, Loud, OnExit, Stop, Ask, Waiting
  <2>3. ProcessTypeOK'
    <3>1. Values'
      BY <1>12, <2>1 DEF ProcessTypeOK, Values, Reason, Processes, OnExit, Stop, Ask, Waiting
    <3>2. (kept \in [size: 0..MaxBuffer, dropped: BOOLEAN])'
      BY <1>12 DEF ProcessTypeOK, OnExit, Stop, Ask, Waiting
    <3>3. Flags'
      BY <1>12 DEF ProcessTypeOK, Flags, OnExit, Stop, Ask, Waiting
    <3>4. QED
      BY <3>1, <3>2, <3>3 DEF ProcessTypeOK, Values
  <2>4. Processes'
    BY <1>12, <2>2 DEF ProcessTypeOK, Processes, OnExit, Stop, Ask, Waiting
  <2>5. Knowledge'
    <3>1. GoneStays'
      BY <1>12, <2>2 DEF ProcessTypeOK, Processes, Knowledge, GoneStays, GroupExists, OnExit, Stop, Ask, Waiting
    <3>2. ClosedStays'
      BY <1>12, <2>2 DEF ProcessTypeOK, Processes, Knowledge, ClosedStays, Writers, OnExit, Stop, Ask, Waiting
    <3>3. DropHasReason'
      BY <1>12 DEF ProcessTypeOK, Knowledge, DropHasReason, OnExit, Stop, Ask, Waiting
    <3>4. QED
      BY <3>1, <3>2, <3>3 DEF Knowledge
  <2>6. ProcessAnswer'
    BY <1>12, <2>1 DEF ProcessTypeOK, Processes, Knowledge, GoneStays, ClosedStays, ProcessAnswer, Settled, Code, OnExit, Stop, Ask, Waiting
  <2>7. QED
    BY <2>3, <2>4, <2>5, <2>6
<1>13. ASSUME OnClose PROVE ProcessInv'
  <2>1. Finished(reason) \in Answers /\ Finished(reason).code = Code(reason, error)
    BY FinishedIsAnswer DEF ProcessTypeOK, Reason
  <2>2. Live' = Live /\ Loud' = Loud
    BY <1>13 DEF Live, Loud, OnClose, Close, Stop, Ask, world, Waiting
  <2>3. ProcessTypeOK'
    <3>1. Values'
      BY <1>13, <2>1 DEF ProcessTypeOK, Values, Reason, Processes, OnClose, Close, Stop, Ask, world, Waiting
    <3>2. (kept \in [size: 0..MaxBuffer, dropped: BOOLEAN])'
      BY <1>13 DEF ProcessTypeOK, OnClose, Close, Stop, Ask, world, Waiting
    <3>3. Flags'
      BY <1>13 DEF ProcessTypeOK, Flags, OnClose, Close, Stop, Ask, world, Waiting
    <3>4. QED
      BY <3>1, <3>2, <3>3 DEF ProcessTypeOK, Values
  <2>4. Processes'
    BY <1>13, <2>2 DEF ProcessTypeOK, Processes, OnClose, Close, Stop, Ask, world, Waiting
  <2>5. Knowledge'
    <3>1. GoneStays'
      BY <1>13, <2>2 DEF ProcessTypeOK, Processes, Knowledge, GoneStays, GroupExists, OnClose, Close, Stop, Ask, world, Waiting
    <3>2. ClosedStays'
      BY <1>13, <2>2 DEF ProcessTypeOK, Processes, Knowledge, ClosedStays, Writers, OnClose, Close, Stop, Ask, world, Waiting
    <3>3. DropHasReason'
      BY <1>13 DEF ProcessTypeOK, Knowledge, DropHasReason, OnClose, Close, Stop, Ask, world, Waiting
    <3>4. QED
      BY <3>1, <3>2, <3>3 DEF Knowledge
  <2>6. ProcessAnswer'
    BY <1>13, <2>1 DEF ProcessTypeOK, Processes, Knowledge, GoneStays, ClosedStays, ProcessAnswer, Settled, Code, OnClose, Close, Stop, Ask, world, Waiting
  <2>7. QED
    BY <2>3, <2>4, <2>5, <2>6
<1>14. ASSUME Elapse PROVE ProcessInv'
  <2>2. Live' = Live /\ Loud' = Loud
    BY <1>14 DEF Live, Loud, Elapse, world, Waiting
  <2>3. ProcessTypeOK'
    <3>1. Values'
      BY <1>14 DEF ProcessTypeOK, Values, Reason, Processes, Elapse, world, Waiting
    <3>2. (kept \in [size: 0..MaxBuffer, dropped: BOOLEAN])'
      BY <1>14 DEF ProcessTypeOK, Elapse, world, Waiting
    <3>3. Flags'
      BY <1>14 DEF ProcessTypeOK, Flags, Elapse, world, Waiting
    <3>4. QED
      BY <3>1, <3>2, <3>3 DEF ProcessTypeOK, Values
  <2>4. Processes'
    BY <1>14, <2>2 DEF ProcessTypeOK, Processes, Elapse, world, Waiting
  <2>5. Knowledge'
    <3>1. GoneStays'
      BY <1>14, <2>2 DEF ProcessTypeOK, Processes, Knowledge, GoneStays, GroupExists, Elapse, world, Waiting
    <3>2. ClosedStays'
      BY <1>14, <2>2 DEF ProcessTypeOK, Processes, Knowledge, ClosedStays, Writers, Elapse, world, Waiting
    <3>3. DropHasReason'
      BY <1>14 DEF ProcessTypeOK, Knowledge, DropHasReason, Elapse, world, Waiting
    <3>4. QED
      BY <3>1, <3>2, <3>3 DEF Knowledge
  <2>6. ProcessAnswer'
    BY <1>14 DEF ProcessTypeOK, Processes, Knowledge, GoneStays, ClosedStays, ProcessAnswer, Settled, Code, Elapse, world, Waiting
  <2>7. QED
    BY <2>3, <2>4, <2>5, <2>6
<1>15. ASSUME Poll PROVE ProcessInv'
  <2>1. Finished(reason) \in Answers /\ Finished(reason).code = Code(reason, error)
    BY FinishedIsAnswer DEF ProcessTypeOK, Reason
  <2>2. Live' = Live /\ Loud' = Loud
    BY <1>15 DEF Live, Loud, Poll, Verdict, GraceOver, Ask, world, Waiting
  <2>3. ProcessTypeOK'
    <3>1. Values'
      BY <1>15, <2>1 DEF ProcessTypeOK, Values, Reason, Processes, Poll, Verdict, GraceOver, Ask, world, Waiting
    <3>2. (kept \in [size: 0..MaxBuffer, dropped: BOOLEAN])'
      BY <1>15 DEF ProcessTypeOK, Poll, Verdict, GraceOver, Ask, world, Waiting
    <3>3. Flags'
      BY <1>15 DEF ProcessTypeOK, Flags, Poll, Verdict, GraceOver, Ask, world, Waiting
    <3>4. QED
      BY <3>1, <3>2, <3>3 DEF ProcessTypeOK, Values
  <2>4. Processes'
    BY <1>15, <2>2 DEF ProcessTypeOK, Processes, Poll, Verdict, GraceOver, Ask, world, Waiting
  <2>5. Knowledge'
    <3>1. GoneStays'
      BY <1>15, <2>2 DEF ProcessTypeOK, Processes, Knowledge, GoneStays, GroupExists, Poll, Verdict, GraceOver, Ask, world, Waiting
    <3>2. ClosedStays'
      BY <1>15, <2>2 DEF ProcessTypeOK, Processes, Knowledge, ClosedStays, Writers, Poll, Verdict, GraceOver, Ask, world, Waiting
    <3>3. DropHasReason'
      BY <1>15 DEF ProcessTypeOK, Knowledge, DropHasReason, Poll, Verdict, GraceOver, Ask, world, Waiting
    <3>4. QED
      BY <3>1, <3>2, <3>3 DEF Knowledge
  <2>6. ProcessAnswer'
    BY <1>15, <2>1 DEF ProcessTypeOK, Processes, Knowledge, GoneStays, ClosedStays, ProcessAnswer, Settled, Code, Poll, Verdict, GraceOver, Ask, world, Waiting
  <2>7. QED
    BY <2>3, <2>4, <2>5, <2>6
<1>20. CASE UNCHANGED processVars
  BY <1>20 DEF processVars, world, host, ProcessTypeOK, Flags, Processes, Knowledge, GoneStays,
     ClosedStays, DropHasReason, ProcessAnswer, Settled, Live, Loud, Writers, Code
<1>21. QED
  BY <1>1, <1>2, <1>3, <1>4, <1>5, <1>6, <1>7, <1>8, <1>9, <1>10, <1>11, <1>12, <1>13, <1>14, <1>15, <1>20 DEF ProcessNext

-----------------------------------------------------------------------------
(* The promise to the caller *)

Group == IF git \in {"new", "failed"} THEN "new" ELSE IF GroupExists THEN "alive" ELSE "gone"
Told == IF result = Nil THEN "none"
        ELSE IF result = Unknown THEN "unconfirmed" ELSE "settled"

\* A step of the promise, or none.
Kept == [Promise!Next]_(Promise!vars)

\* What a step is that leaves the answer alone.
LEMMA GroupStep ==
  ASSUME result' = result,
         \/ Group' = Group
         \/ Group = "new" /\ Group' = "alive" /\ result = Nil
         \/ Group = "alive" /\ Group' = "gone"
  PROVE  Kept
  BY DEF Kept, Group, Told, Promise!Next, Promise!vars, Promise!Start, Promise!End

\* What a step is that leaves the processes alone.
LEMMA AnswerStep ==
  ASSUME Group' = Group, result = Nil,
         result' \in {Nil, Unknown} \/ Group # "alive"
  PROVE  Kept
  BY GitProcessAssumption
  DEF Kept, Group, Told, Promise!Next, Promise!vars, Promise!Settle, Promise!GiveUp

\* A group that is gone, or of a git that was not found, does not come back.
LEMMA GoneIsNotAlive == ProcessInv /\ (groupGone \/ ~GroupExists) => Group # "alive"
  BY DEF ProcessInv, Knowledge, GoneStays, Group, GroupExists

LEMMA StepIsKept == ProcessInv /\ [ProcessNext]_processVars => Kept
<1> SUFFICES ASSUME ProcessInv, [ProcessNext]_processVars PROVE Kept
  OBVIOUS
<1> USE GitProcessAssumption
<1>1. ASSUME NEW h \in Hook, StartHook(h) PROVE Kept
  <2>1. Group' = Group /\ result' = result
    BY <1>1 DEF StartHook, host, Group, GroupExists
  <2>2. QED
    BY <2>1, GroupStep
<1>2. ASSUME NEW h \in Hook, NEW c \in {"quiet", "gone"}, EndHook(h, c) \/ Escape(h)
      PROVE  Kept
  <2>1. h \in Live /\ git' = git /\ result' = result /\ Live' \subseteq Live
    BY <1>2 DEF ProcessInv, ProcessTypeOK, EndHook, Escape, host, Live, Loud
  <2>2. Group = "alive" /\ Group' \in {"alive", "gone"}
    BY <2>1 DEF ProcessInv, Processes, Group, GroupExists
  <2>3. QED
    BY <2>1, <2>2, GroupStep
<1>3. ASSUME EndEscaped \/ Write \/ OnError \/ Elapse PROVE Kept
  <2>1. Group' = Group /\ result' = result
    BY <1>3 DEF EndEscaped, Write, OnError, Elapse, host, world, Group, GroupExists, Live
  <2>2. QED
    BY <2>1, GroupStep
<1>4. ASSUME NEW code \in {0, 1, Nil}, EndGit(code) PROVE Kept
  <2>1. Group' = Group /\ result' = result
    BY <1>4 DEF EndGit, host, Group, GroupExists, Live
  <2>2. QED
    BY <2>1, GroupStep
<1>5. CASE Begin
  <2>1. CASE result' = result
    <3>1. (Live' = Live /\ git = "new" /\ git' \in {"running", "failed"}) \/ git' = git
      BY <1>5, <2>1, RefusedIsAnswer DEF Begin, Live
    <3>2. result = Nil
      BY <1>5 DEF Begin
    <3>3. Group' = Group \/ (Group = "new" /\ Group' = "alive")
      BY <1>5, <3>1 DEF Begin, Group, GroupExists, Live
    <3>4. QED
      BY <2>1, <3>2, <3>3, GroupStep
  <2>2. CASE result' # result
    <3>1. git' = git /\ git = "new" /\ result = Nil
      BY <1>5, <2>2 DEF Begin
    <3>2. Group' = Group /\ Group # "alive"
      BY <3>1 DEF Group
    <3>3. QED
      BY <3>1, <3>2, AnswerStep
  <2>3. QED
    BY <2>1, <2>2
<1>6. CASE OnAbort \/ TimesOut
  <2>1. Group' = Group /\ result' = result
    BY <1>6 DEF OnAbort, TimesOut, Terminate, Stop, world, Group, GroupExists, Live
  <2>2. QED
    BY <2>1, GroupStep
<1>7. ASSUME NEW n \in 1..MaxOutput, OnData(n) PROVE Kept
  <2>1. Group' = Group /\ result' = result
    BY <1>7 DEF OnData, Overrun, Stop, Group, GroupExists, Live
  <2>2. QED
    BY <2>1, GroupStep
<1>8. CASE OnExit
  <2>1. git = "ended" /\ git' = "reaped" /\ Live' = Live
    BY <1>8 DEF OnExit, Live
  <2>2. ~closed
    BY <2>1 DEF ProcessInv, Knowledge, ClosedStays
  <2>3. result' = result
    BY <1>8, <2>2 DEF OnExit, Stop
  <2>4. Group = "alive" /\ Group' \in {"alive", "gone"}
    BY <2>1 DEF Group, GroupExists
  <2>5. QED
    BY <2>3, <2>4, GroupStep
<1>9. CASE OnClose
  <2>1. Group' = Group /\ result = Nil
    BY <1>9 DEF OnClose, world, Waiting, Group, GroupExists, Live
  <2>2. CASE groupGone \/ ~GroupExists
    BY <2>1, <2>2, GoneIsNotAlive, AnswerStep
  <2>3. CASE ~(groupGone \/ ~GroupExists)
    <3>1. result' = Nil
      BY <1>9, <2>1, <2>3 DEF OnClose, Close, Stop, Ask
    <3>2. QED
      BY <2>1, <3>1, AnswerStep
  <2>4. QED
    BY <2>2, <2>3
<1>10. CASE Poll
  <2>1. Group' = Group /\ result = Nil
    BY <1>10 DEF Poll, world, Waiting, Group, GroupExists, Live
  <2>2. CASE groupGone \/ ~GroupExists
    BY <2>1, <2>2, GoneIsNotAlive, AnswerStep
  <2>3. CASE ~(groupGone \/ ~GroupExists)
    <3>1. result' \in {Nil, Unknown}
      BY <1>10, <2>1, <2>3 DEF Poll, Verdict, Ask
    <3>2. QED
      BY <2>1, <3>1, AnswerStep
  <2>4. QED
    BY <2>2, <2>3
<1>11. CASE UNCHANGED processVars
  <2>1. Group' = Group /\ result' = result
    BY <1>11 DEF processVars, world, host, Group, GroupExists, Live
  <2>2. QED
    BY <2>1, GroupStep
<1>12. QED
  BY <1>1, <1>2, <1>3, <1>4, <1>5, <1>6, <1>7, <1>8, <1>9, <1>10, <1>11 DEF ProcessNext

-----------------------------------------------------------------------------
(* Theorems *)

LEMMA ProcessInvariance == ProcessSpec => []ProcessInv
<1>1. QED
  BY ProcessInvInit, ProcessInvStep, PTL DEF ProcessSpec

\* execManaged() keeps its types: the answer is one of those it may give, and
\* it keeps no more output than its caller accepts.
THEOREM ProcessTypeCorrect == ProcessSpec => []ProcessTypeOK
<1>1. ProcessInv => ProcessTypeOK
  BY DEF ProcessInv
<1>2. QED
  BY <1>1, ProcessInvariance, PTL

\* The promise of execManaged(): one answer, and one that is not "unconfirmed"
\* only after everybody in Git's process group is gone.
THEOREM ProcessImplementsGitCall == ProcessSpec => ImplementsGitCall
<1>1. ProcessInit => Promise!Init
  BY DEF ProcessInit, Promise!Init
<1>2. ProcessInv /\ [ProcessNext]_processVars => [Promise!Next]_(Promise!vars)
  BY StepIsKept DEF Kept
<1>3. QED
  BY <1>1, <1>2, ProcessInvariance, PTL DEF ProcessSpec, ImplementsGitCall, Promise!Spec

\* finish() answers 0 only for a Git that exited with 0 and whose output was
\* read to the end and kept.
THEOREM SuccessComplete == ProcessSpec => []SuccessIsComplete
<1>1. ProcessInv => SuccessIsComplete
  BY GitProcessAssumption
  DEF ProcessInv, ProcessTypeOK, Reason, Processes, Knowledge, ClosedStays, DropHasReason, ProcessAnswer,
      Settled, Code, Writers, SuccessIsComplete
<1>2. QED
  BY <1>1, ProcessInvariance, PTL

\* checkShutdown() gives up only after SIGKILL.
THEOREM KilledFirst == ProcessSpec => []KilledBeforeGivingUp
<1>1. ProcessInv => KilledBeforeGivingUp
  BY DEF ProcessInv, ProcessAnswer, KilledBeforeGivingUp
<1>2. QED
  BY <1>1, ProcessInvariance, PTL

-----------------------------------------------------------------------------
(* GitCommit: the queue, the children and the index *)

\* The types; how high HEAD may get does not matter.
Place == {"new", "discover", "queued", "over"} \cup Working
Types ==
  /\ index \in SUBSET Change /\ head \in Nat
  /\ child \in [Request -> Process \cup {None}]
  /\ pc \in [Request -> Place]
  /\ retries \in [Request -> Nat]
  /\ prev \in [Request -> Request \cup {None}] /\ tail \in Request \cup {None}
  /\ quarantined \in BOOLEAN
  /\ controllers \in [Ids -> CommitAll \cup {None}]
  /\ aborted \subseteq CommitAll
  /\ saved \in [Request -> [index: SUBSET Change, head: Nat] \cup {None}]
  /\ staged \in [Request -> (SUBSET Change) \cup {None}]

\* The queue: who waits and who holds the repository.
Line == {r \in Request : pc[r] = "queued"} \cup Holding
First(r) == prev[r] # None => pc[prev[r]] = "over"

\* The tail is the last of the line, which is empty when there is none.
TailIsLast ==
  /\ tail # None => tail \in Line
  /\ \A r \in Line : tail # None /\ prev[r] # tail

\* Whom a request waits for is in the line, or was.
WaitsForLine ==
  \A r \in Line : prev[r] # None => prev[r] \in Line \/ pc[prev[r]] = "over"

\* No two wait for the same one, and only one waits for nobody.
OneEach == \A r, q \in Line : prev[r] # None /\ prev[r] = prev[q] => r = q
OneFirst == \A r, q \in Line : First(r) /\ First(q) => r = q

\* The requests of no part of the line wait for each other in a circle.
NoCircle == \A S \in SUBSET Line : S # {} => \E r \in S : prev[r] \notin S

HoldersAreFirst == \A r \in Holding : prev[r] = None

Queue ==
  TailIsLast /\ WaitsForLine /\ OneEach /\ OneFirst /\ NoCircle /\ HoldersAreFirst

\* A process belongs to the call of the one who holds the repository, unless
\* the queue is closed, and then nobody holds it.
Closed == quarantined => Holding = {}
OwnCall(r) ==
  child[r] # None =>
    /\ quarantined \/ pc[r] \in {"add", "commit"}
    /\ r \in Holding => child[r].kind = pc[r]
Children == Closed /\ \A r \in Request : OwnCall(r)

Rollback == {"rollback", "compare", "verify", "install"}

\* What a request knows at each place of its way, and when its commit landed.
Snapshot(r) ==
  /\ pc[r] \in {"new", "discover", "queued", "prepare", "capture", "over"}
       \/ r \notin CommitAll => saved[r] = None
  /\ pc[r] = "capture" => r \in CommitAll
  /\ staged[r] # None => pc[r] \in {"check", "commit"} \cup Rollback
  /\ pc[r] \in Rollback => saved[r] # None /\ staged[r] # None
Landing(r) ==
  /\ r \in landed => pc[r] \in {"commit", "rollback", "compare", "verify"}
  /\ saved[r] # None => saved[r].head <= head /\ (r \in landed => saved[r].head < head)
  /\ r \in Holding /\ child[r] # None /\ child[r].kind = "commit"
       /\ child[r].phase = "done" => r \in landed
Memory == \A r \in Request : Snapshot(r) /\ Landing(r)

\* From its comparison on, a rollback holds the lock over an index as staged.
HoldsLock(r) ==
  /\ pc[r] \in {"compare", "verify", "install"} => lock = "rollback"
  /\ pc[r] \in {"verify", "install"} => index = staged[r]
Locked == \A r \in Request : HoldsLock(r)

\* Its add is done.
Added(r) ==
  \/ pc[r] = "add" /\ child[r] # None /\ child[r].phase = "done"
  \/ pc[r] \in {"tree", "check", "commit", "rollback"}

\* What one who was not disturbed finds: after its add no lock but one of its own
\* commit, which may leave it behind; the index its add left, and HEAD where it
\* was unless its own commit moved it.
Locking(r) == child[r] # None /\ child[r].phase = "locked"
Calm(r) ==
  r \in Holding /\ r \notin disturbed =>
    /\ Added(r) => lock \in {None, "stale"} \/ Locking(r)
    /\ pc[r] \in {"check", "commit", "rollback", "compare"} => index = staged[r]
    /\ saved[r] # None /\ r \notin landed => saved[r].head = head
Undisturbed == \A r \in Request : Calm(r)

IInv == Types /\ Queue /\ Children /\ Cancellable /\ Memory /\ Locked /\ Undisturbed

-----------------------------------------------------------------------------
(* What every step does to the queue *)

place == <<pc, prev, tail>>

Stays == UNCHANGED place

\* A request outside the line stays outside, or one that holds the repository
\* keeps it.
Moves(r) ==
  /\ \E p \in Place :
       /\ pc' = [pc EXCEPT ![r] = p]
       /\ \/ pc[r] \in Working /\ p \in Working
          \/ pc[r] \in {"new", "discover"} /\ p \in {"discover", "over"}
  /\ UNCHANGED <<prev, tail>>

Joins(r) ==
  /\ pc[r] = "discover" /\ pc' = [pc EXCEPT ![r] = "queued"]
  /\ prev' = [prev EXCEPT ![r] = tail] /\ tail' = r

Turns(r) ==
  /\ pc[r] = "queued" /\ First(r) /\ pc' = [pc EXCEPT ![r] = "prepare"]
  /\ prev' = [prev EXCEPT ![r] = None] /\ UNCHANGED tail

Leaves(r) ==
  /\ r \in Line /\ First(r) /\ pc' = [pc EXCEPT ![r] = "over"]
  /\ prev' \in {prev, [prev EXCEPT ![r] = None]} /\ tail' = Leave(r)

QueueStep == Stays \/ \E r \in Request : Moves(r) \/ Joins(r) \/ Turns(r) \/ Leaves(r)

\* Who finishes while holding the repository leaves the line.
LEMMA FinishLeaves ==
  ASSUME Types, HoldersAreFirst, NEW r \in Request, pc[r] \in Working, Finish(r),
         UNCHANGED prev
  PROVE  Leaves(r)
  BY DEF Types, HoldersAreFirst, Finish, Answer, GoTo, Leaves, Line, Holding, First

LEMMA OnwardMoves ==
  ASSUME NEW r \in Request, NEW p \in Working, pc[r] \in Working, Onward(r, p),
         UNCHANGED prev
  PROVE  Moves(r)
  BY DEF Onward, GoTo, Moves, Place

LEMMA FailWorkIsQueueStep ==
  ASSUME Types, HoldersAreFirst, NEW r \in Request, pc[r] \in Working, FailWork(r),
         UNCHANGED prev
  PROVE  Moves(r) \/ Leaves(r)
<1>1. CASE Finish(r)
  BY <1>1, FinishLeaves
<1>2. CASE Onward(r, "rollback")
  BY <1>2, OnwardMoves DEF Working
<1>3. QED
  BY <1>1, <1>2 DEF FailWork

LEMMA HostQueueStep ==
  ASSUME Types, HoldersAreFirst, NEW r \in Request, Host(r)
  PROVE  QueueStep
<1> USE DEF QueueStep
<1>1. CASE Discover(r)
  <2>1. CASE Answer(r) /\ UNCHANGED <<prev, tail>>
    BY <1>1, <2>1 DEF Discover, Answer, GoTo, Moves, Place
  <2>2. CASE ~(Answer(r) /\ UNCHANGED <<prev, tail>>)
    BY <1>1, <2>2 DEF Discover, GoTo, Joins
  <2>3. QED
    BY <2>1, <2>2
<1>2. CASE TakeTurn(r)
  <2>1. CASE Onward(r, "prepare")
    BY <1>2, <2>1 DEF TakeTurn, Onward, GoTo, Turns, First
  <2>2. CASE Finish(r)
    BY <1>2, <2>2 DEF TakeTurn, Finish, Answer, GoTo, Leaves, Line, First
  <2>3. QED
    BY <1>2, <2>1, <2>2 DEF TakeTurn
<1>3. CASE Prepare(r)
  <2>1. pc[r] \in Working /\ UNCHANGED prev
    BY <1>3 DEF Prepare, elsewhere, Working
  <2>2. CASE Finish(r)
    BY <2>1, <2>2, FinishLeaves
  <2>3. CASE Onward(r, IF r \in CommitAll THEN "capture" ELSE "add")
    BY <2>1, <2>3, OnwardMoves DEF Working
  <2>4. QED
    BY <1>3, <2>2, <2>3 DEF Prepare
<1>4. CASE Capture(r)
  BY <1>4, OnwardMoves DEF Capture, elsewhere, Working
<1>5. CASE Call(r, "add") \/ Call(r, "commit")
  BY <1>5 DEF Call, elsewhere, Stays, place
<1>6. CASE CallRefused(r)
  BY <1>6, FailWorkIsQueueStep DEF CallRefused, elsewhere, Working
<1>7. CASE Answered(r)
  <2>1. pc[r] \in Working /\ UNCHANGED prev
    BY <1>7 DEF Answered, Calling, Holding, elsewhere
  <2>2. CASE FailWork(r)
    BY <2>1, <2>2, FailWorkIsQueueStep
  <2>3. CASE Succeed(r)
    BY <2>1, <2>3, FinishLeaves, OnwardMoves DEF Succeed, Working
  <2>4. QED
    BY <1>7, <2>2, <2>3 DEF Answered
<1>8. CASE Unconfirmed(r)
  BY <1>8, FinishLeaves DEF Unconfirmed, Calling, Holding, elsewhere
<1>9. CASE WriteTree(r)
  BY <1>9, FinishLeaves, OnwardMoves DEF WriteTree, elsewhere, Working
<1>10. CASE Check(r)
  BY <1>10, FailWorkIsQueueStep, OnwardMoves DEF Check, elsewhere, Working
<1>11. CASE RollbackLocks(r) \/ Compare(r) \/ Verify(r)
  BY <1>11, OnwardMoves DEF RollbackLocks, Compare, Verify, elsewhere, Working
<1>12. CASE Install(r) \/ Decline(r)
  BY <1>12, FinishLeaves DEF Install, Decline, Differs, LockTaken, EndRollback, Working
<1>13. QED
  BY <1>1, <1>2, <1>3, <1>4, <1>5, <1>6, <1>7, <1>8, <1>9, <1>10, <1>11, <1>12 DEF Host

LEMMA NextQueueStep ==
  ASSUME Types, HoldersAreFirst, [Next]_vars
  PROVE  QueueStep
<1>1. CASE UNCHANGED vars
  BY <1>1 DEF QueueStep, Stays, place, vars, queueVars
<1>2. ASSUME NEW r \in Request, Host(r) PROVE QueueStep
  BY <1>2, HostQueueStep
<1>3. ASSUME NEW r \in Request, Submit(r) PROVE QueueStep
  BY <1>3 DEF QueueStep, Submit, GoTo, Moves, Place, queueVars
<1>4. ASSUME NEW r \in Request, Git(r) PROVE QueueStep
  <2>1. CASE Broken(r)
    BY <2>1, FailWorkIsQueueStep DEF QueueStep, Broken, Calling, Holding, elsewhere
  <2>2. CASE Collide(r)
    <3>1. pc[r] \in Working /\ UNCHANGED prev
      BY <2>2 DEF Collide, Calling, Holding, elsewhere
    <3>2. QED
      BY <2>2, <3>1, FailWorkIsQueueStep, OnwardMoves DEF QueueStep, Collide
  <2>3. QED
    BY <1>4, <2>1, <2>2 DEF QueueStep, Git, AddLocks, AddInstalls, CommitLocks, CommitRefreshed,
       HookStages, CommitLands, OrphanEnds, plugin, queueVars, Stays, place
<1>5. ASSUME NEW r \in Request, Timeout(r) PROVE QueueStep
  BY <1>5 DEF QueueStep, Timeout, elsewhere, Stays, place
<1>6. ASSUME NEW r \in Request, RollbackFails(r) PROVE QueueStep
  BY <1>6, FinishLeaves DEF QueueStep, RollbackFails, EndRollback, Working
<1>7. ASSUME NEW k \in Ids, Cancel(k) PROVE QueueStep
  BY <1>7 DEF QueueStep, Cancel, queueVars, Stays, place
<1>8. CASE AgentStep
  BY <1>8 DEF QueueStep, AgentStep, queueVars, Stays, place
<1>9. QED
  BY <1>1, <1>2, <1>3, <1>4, <1>5, <1>6, <1>7, <1>8 DEF Next

-----------------------------------------------------------------------------
(* The queue *)

LEMMA QueueInit == Init => Queue
<1> SUFFICES ASSUME Init PROVE Queue
  OBVIOUS
<1>1. Line = {} /\ Holding = {} /\ tail = None
  BY DEF Init, Line, Holding, Working
<1>2. QED
  BY <1>1 DEF Queue, TailIsLast, WaitsForLine, OneEach, OneFirst, NoCircle, HoldersAreFirst

\* A move within or without the line does not change the queue.
LEMMA MoveKeepsQueue ==
  ASSUME Types, Queue, NEW r \in Request, Moves(r)
  PROVE  Queue'
<1>1. PICK p \in Place :
        /\ pc' = [pc EXCEPT ![r] = p]
        /\ \/ pc[r] \in Working /\ p \in Working
           \/ pc[r] \in {"new", "discover"} /\ p \in {"discover", "over"}
  BY DEF Moves
<1>2. Line' = Line /\ Holding' = Holding /\ UNCHANGED <<prev, tail>>
  BY <1>1 DEF Types, Moves, Line, Holding, Working
<1>3. \A q \in Line : prev[q] # None => (pc'[prev[q]] = "over" <=> pc[prev[q]] = "over")
  <2> SUFFICES ASSUME NEW q \in Line, prev[q] # None
               PROVE  pc'[prev[q]] = "over" <=> pc[prev[q]] = "over"
    OBVIOUS
  <2>1. prev[q] \in Request /\ (prev[q] \in Line \/ pc[prev[q]] = "over")
    BY DEF Queue, WaitsForLine, Types, Line, Holding
  <2>2. CASE prev[q] = r
    BY <1>1, <2>1, <2>2 DEF Types, Line, Holding, Working
  <2>3. CASE prev[q] # r
    BY <1>1, <2>1, <2>3 DEF Types
  <2>4. QED
    BY <2>2, <2>3
<1>4. QED
  BY <1>2, <1>3 DEF Queue, TailIsLast, WaitsForLine, OneEach, OneFirst, First, NoCircle,
     HoldersAreFirst

\* Who joins waits for the last one, and nobody waits for it yet.
LEMMA JoinKeepsQueue ==
  ASSUME Types, Queue, NEW r \in Request, Joins(r)
  PROVE  Queue'
<1> USE GitCommitAssumption
<1>1. Line' = Line \cup {r} /\ Holding' = Holding /\ r \notin Line /\ tail' = r
  BY DEF Types, Joins, Line, Holding, Working
<1>2. /\ prev'[r] = tail /\ \A q \in Line : prev'[q] = prev[q]
      /\ \A q \in Line : prev[q] # r
  BY <1>1 DEF Types, Joins, Queue, WaitsForLine, Line, Holding
<1>3. \A q \in Request : pc'[q] = "over" <=> pc[q] = "over"
  BY DEF Types, Joins
<1>4. tail = None => Line = {}
  BY DEF Queue, TailIsLast
<1>5. \A q \in Line : First(q)' => First(q)
  BY <1>2, <1>3 DEF First, Types, Line, Holding
<1>6. First(r)' => Line = {}
  <2>1. CASE tail = None
    BY <2>1, <1>4
  <2>2. CASE tail # None
    BY <2>2, <1>2, <1>3 DEF First, Queue, TailIsLast, Line, Holding, Working
  <2>3. QED
    BY <2>1, <2>2
<1>7. TailIsLast'
  BY <1>1, <1>2 DEF Queue, TailIsLast, Line, Holding
<1>8. WaitsForLine'
  BY <1>1, <1>2, <1>3 DEF Queue, TailIsLast, WaitsForLine, Types, Line, Holding
<1>9. OneEach'
  BY <1>1, <1>2 DEF Queue, TailIsLast, OneEach
<1>10. OneFirst'
  BY <1>1, <1>5, <1>6 DEF Queue, OneFirst
<1>11. NoCircle'
  <2> SUFFICES ASSUME NEW S \in SUBSET (Line \cup {r}), S # {}
               PROVE  \E q \in S : prev'[q] \notin S
    BY <1>1 DEF NoCircle
  <2>1. CASE S = {r}
    BY <2>1, <1>1, <1>2 DEF Queue, TailIsLast
  <2>2. CASE S # {r}
    <3>1. S \ {r} \in SUBSET Line /\ S \ {r} # {}
      BY <2>2
    <3>2. PICK q \in S \ {r} : prev[q] \notin S \ {r}
      BY <3>1 DEF Queue, NoCircle
    <3>3. QED
      BY <3>1, <3>2, <1>2
  <2>3. QED
    BY <2>1, <2>2
<1>12. HoldersAreFirst'
  BY <1>1, <1>2 DEF Queue, HoldersAreFirst, Line
<1>13. QED
  BY <1>7, <1>8, <1>9, <1>10, <1>11, <1>12 DEF Queue

\* Whose turn it is was the first already.
LEMMA TurnKeepsQueue ==
  ASSUME Types, Queue, NEW r \in Request, Turns(r)
  PROVE  Queue'
<1>1. Line' = Line /\ Holding' = Holding \cup {r} /\ r \in Line /\ tail' = tail
  BY DEF Types, Turns, Line, Holding, Working
<1>2. prev'[r] = None /\ \A q \in Line : q # r => prev'[q] = prev[q]
  BY DEF Types, Turns, Line, Holding
<1>3. \A q \in Request : pc'[q] = "over" <=> pc[q] = "over"
  BY DEF Types, Turns
<1>4. \A q \in Line : First(q)' => First(q)
  BY <1>1, <1>2, <1>3 DEF First, Turns, Types, Line, Holding
<1>5. TailIsLast'
  BY <1>1, <1>2 DEF Queue, TailIsLast
<1>6. WaitsForLine'
  BY <1>1, <1>2, <1>3 DEF Queue, WaitsForLine, Types, Line, Holding
<1>7. OneEach'
  BY <1>1, <1>2 DEF Queue, OneEach
<1>8. OneFirst'
  BY <1>1, <1>4 DEF Queue, OneFirst
<1>9. NoCircle'
  <2> SUFFICES ASSUME NEW S \in SUBSET Line, S # {}
               PROVE  \E q \in S : prev'[q] \notin S
    BY <1>1 DEF NoCircle
  <2>1. PICK q \in S : prev[q] \notin S
    BY DEF Queue, NoCircle
  <2>2. None \notin S
    BY GitCommitAssumption DEF Line, Holding
  <2>3. QED
    BY <2>1, <2>2, <1>2
<1>10. HoldersAreFirst'
  BY <1>1, <1>2 DEF Queue, HoldersAreFirst, Line
<1>11. QED
  BY <1>5, <1>6, <1>7, <1>8, <1>9, <1>10 DEF Queue

\* Who leaves is the first.  The one that waited for it is the next first, and
\* when the last one leaves nobody is left: the others would wait for each other.
LEMMA LeaveKeepsQueue ==
  ASSUME Types, Queue, NEW r \in Request, Leaves(r)
  PROVE  Queue'
<1>1. Line' = Line \ {r} /\ Holding' = Holding \ {r}
  BY DEF Types, Leaves, Line, Holding, Working
<1>2. \A q \in Line \ {r} : prev'[q] = prev[q]
  BY DEF Types, Leaves, Line, Holding
<1>3. \A q \in Request : pc'[q] = "over" <=> pc[q] = "over" \/ q = r
  BY DEF Types, Leaves
<1>4. \A q \in Line \ {r} : ~First(q)
  BY DEF Leaves, Queue, OneFirst
<1>5. \A q \in Line \ {r} : First(q)' => prev[q] = r
  BY <1>2, <1>3, <1>4 DEF First, Types, Line, Holding
<1>6. tail = r => Line = {r}
  <2> SUFFICES ASSUME tail = r, Line \ {r} # {} PROVE FALSE
    BY DEF Leaves
  <2>1. PICK q \in Line \ {r} : prev[q] \notin Line \ {r}
    BY DEF Queue, NoCircle
  <2>2. prev[q] \in Line
    BY <1>4 DEF First, Queue, WaitsForLine
  <2>3. QED
    BY <2>1, <2>2 DEF Queue, TailIsLast
<1>7. TailIsLast'
  BY <1>1, <1>2, <1>6 DEF Leaves, Leave, Queue, TailIsLast
<1>8. WaitsForLine'
  BY <1>1, <1>2, <1>3 DEF Queue, WaitsForLine, Types, Line, Holding
<1>9. OneEach'
  BY <1>1, <1>2 DEF Queue, OneEach
<1>10. OneFirst'
  <2> SUFFICES ASSUME NEW p \in Line \ {r}, NEW q \in Line \ {r}, First(p)', First(q)'
               PROVE  p = q
    BY <1>1 DEF OneFirst
  <2>1. prev[p] = r /\ prev[q] = r
    BY <1>5
  <2>2. QED
    BY <2>1, GitCommitAssumption DEF Queue, OneEach
<1>11. NoCircle'
  BY <1>1, <1>2 DEF Queue, NoCircle
<1>12. HoldersAreFirst'
  BY <1>1, <1>2 DEF Queue, HoldersAreFirst, Line
<1>13. QED
  BY <1>7, <1>8, <1>9, <1>10, <1>11, <1>12 DEF Queue

LEMMA QueueStepKeepsQueue == ASSUME Types, Queue, QueueStep PROVE Queue'
<1>1. CASE Stays
  BY <1>1 DEF Stays, place, Queue, TailIsLast, WaitsForLine, OneEach, OneFirst, First,
     NoCircle, HoldersAreFirst, Line, Holding
<1>2. QED
  BY <1>1, MoveKeepsQueue, JoinKeepsQueue, TurnKeepsQueue, LeaveKeepsQueue DEF QueueStep

-----------------------------------------------------------------------------
(* Types *)

\* What a request changes of itself when it ends or goes on is well typed.
Own == <<pc, controllers, tail, retries, saved, staged>>
OwnTypes ==
  /\ pc \in [Request -> Place]
  /\ retries \in [Request -> Nat]
  /\ tail \in Request \cup {None}
  /\ controllers \in [Ids -> CommitAll \cup {None}]
  /\ saved \in [Request -> [index: SUBSET Change, head: Nat] \cup {None}]
  /\ staged \in [Request -> (SUBSET Change) \cup {None}]

LEMMA OnwardTypes ==
  ASSUME Types, NEW r \in Request, NEW p \in Place, Onward(r, p)
  PROVE  /\ pc' \in [Request -> Place] /\ tail' \in Request \cup {None}
         /\ controllers' \in [Ids -> CommitAll \cup {None}]
  BY DEF Types, Onward, GoTo

LEMMA FinishTypes ==
  ASSUME Types, NEW r \in Request, Finish(r)
  PROVE  OwnTypes'
  BY DEF Types, OwnTypes, Finish, Answer, GoTo, Place, End, Leave, Forget

LEMMA FailWorkTypes ==
  ASSUME Types, NEW r \in Request, FailWork(r)
  PROVE  OwnTypes'
<1>1. CASE Finish(r)
  BY <1>1, FinishTypes
<1>2. CASE Onward(r, "rollback") /\ UNCHANGED memory
  BY <1>2, OnwardTypes DEF memory, Types, OwnTypes, Place, Working
<1>3. QED
  BY <1>1, <1>2 DEF FailWork

LEMMA RaiseTypes ==
  ASSUME Types, NEW R \in SUBSET CommitAll, Raise(R)
  PROVE  child' \in [Request -> Process \cup {None}] /\ aborted' \subseteq CommitAll
<1>1. ASSUME NEW r \in Request, child[r] # None
      PROVE  [child[r] EXCEPT !.stopped = "cancelled"] \in Process
  BY <1>1 DEF Types, Process
<1>2. QED
  BY <1>1 DEF Types, Raise

LEMMA TypesInit == Init => Types
<1> SUFFICES ASSUME Init PROVE Types
  OBVIOUS
<1>1. index \in SUBSET Change /\ head \in Nat /\ quarantined \in BOOLEAN
  BY DEF Init, Change
<1>2. QED
  BY <1>1 DEF Init, Types, Place

\* The steps of a request at work.
LEMMA WorkTypes ==
  ASSUME Types, Memory, NEW r \in Request,
         \/ Prepare(r) \/ Capture(r) \/ CallRefused(r) \/ Answered(r) \/ Broken(r)
         \/ Collide(r) \/ Unconfirmed(r) \/ WriteTree(r) \/ Check(r)
         \/ RollbackLocks(r) \/ Compare(r) \/ Verify(r) \/ Install(r) \/ Decline(r)
         \/ RollbackFails(r)
  PROVE  Types'
<1> DEFINE Rest == /\ index' \in SUBSET Change /\ head' \in Nat
                   /\ child' \in [Request -> Process \cup {None}]
                   /\ prev' \in [Request -> Request \cup {None}]
                   /\ quarantined' \in BOOLEAN
                   /\ aborted' \subseteq CommitAll
<1> SUFFICES OwnTypes' /\ Rest
  BY DEF Types, OwnTypes
<1>1. CASE Prepare(r)
  <2>1. CASE Finish(r)
    BY <1>1, <2>1, FinishTypes DEF Types, Prepare, elsewhere
  <2>2. CASE /\ Onward(r, IF r \in CommitAll THEN "capture" ELSE "add")
             /\ UNCHANGED memory
    <3>1. (IF r \in CommitAll THEN "capture" ELSE "add") \in Place
      BY DEF Place, Working
    <3>2. QED
      BY <1>1, <2>2, <3>1, OnwardTypes DEF Types, OwnTypes, Prepare, elsewhere, memory
  <2>3. QED
    BY <1>1, <2>1, <2>2 DEF Prepare
<1>2. CASE Capture(r)
  <2>1. saved' \in [Request -> [index: SUBSET Change, head: Nat] \cup {None}]
    BY <1>2 DEF Capture, Types
  <2>2. QED
    BY <1>2, <2>1, OnwardTypes DEF Types, OwnTypes, Capture, elsewhere, Place, Working
<1>3. CASE CallRefused(r)
  BY <1>3, FailWorkTypes DEF Types, CallRefused, elsewhere
<1>4. CASE Answered(r)
  <2>1. Rest
    BY <1>4 DEF Types, Answered, elsewhere
  <2>2. CASE FailWork(r) \/ Finish(r)
    BY <2>1, <2>2, FailWorkTypes, FinishTypes
  <2>3. CASE Onward(r, "tree") /\ UNCHANGED memory
    BY <2>1, <2>3, OnwardTypes DEF Types, OwnTypes, memory, Place, Working
  <2>4. QED
    BY <1>4, <2>2, <2>3 DEF Answered, Succeed
<1>5. CASE Broken(r)
  BY <1>5, FailWorkTypes DEF Types, Broken, elsewhere
<1>6. CASE Collide(r)
  <2>1. Rest
    BY <1>6 DEF Types, Collide, elsewhere
  <2>2. CASE FailWork(r)
    BY <2>1, <2>2, FailWorkTypes
  <2>3. CASE /\ retries' = [retries EXCEPT ![r] = @ + 1]
             /\ Onward(r, pc[r]) /\ UNCHANGED <<saved, staged, ghosts>>
    <3>1. pc[r] \in Place
      BY DEF Types
    <3>2. QED
      BY <2>1, <2>3, <3>1, OnwardTypes DEF Types, OwnTypes
  <2>4. QED
    BY <1>6, <2>2, <2>3 DEF Collide
<1>7. CASE Unconfirmed(r)
  BY <1>7, FinishTypes DEF Types, Unconfirmed, elsewhere
<1>8. CASE WriteTree(r)
  <2>1. CASE Finish(r)
    BY <1>8, <2>1, FinishTypes DEF Types, WriteTree, elsewhere
  <2>2. CASE /\ staged' = [staged EXCEPT ![r] = index]
             /\ Onward(r, "check") /\ UNCHANGED <<retries, saved, ghosts>>
    BY <1>8, <2>2, OnwardTypes DEF Types, OwnTypes, WriteTree, elsewhere, Place, Working
  <2>3. QED
    BY <1>8, <2>1, <2>2 DEF WriteTree
<1>9. CASE Check(r)
  <2>1. CASE FailWork(r)
    BY <1>9, <2>1, FailWorkTypes DEF Types, Check, elsewhere
  <2>2. CASE /\ retries' = [retries EXCEPT ![r] = 0]
             /\ Onward(r, "commit") /\ UNCHANGED <<saved, staged, ghosts>>
    BY <1>9, <2>2, OnwardTypes DEF Types, OwnTypes, Check, elsewhere, Place, Working
  <2>3. QED
    BY <1>9, <2>1, <2>2 DEF Check
<1>10. CASE RollbackLocks(r) \/ Compare(r) \/ Verify(r)
  BY <1>10, OnwardTypes DEF Types, OwnTypes, RollbackLocks, Compare, Verify, elsewhere, memory,
     Place, Working
<1>11. CASE Install(r)
  <2>1. saved[r] \in [index: SUBSET Change, head: Nat]
    BY <1>11 DEF Types, Memory, Snapshot, Rollback, Install
  <2>2. QED
    BY <1>11, <2>1, FinishTypes DEF Types, Install, EndRollback
<1>12. CASE Decline(r) \/ RollbackFails(r)
  BY <1>12, FinishTypes DEF Types, Decline, RollbackFails, EndRollback
<1>13. QED
  BY <1>1, <1>2, <1>3, <1>4, <1>5, <1>6, <1>7, <1>8, <1>9, <1>10, <1>11, <1>12

LEMMA GitTypes ==
  ASSUME Types, NEW r \in Request,
         \/ AddLocks(r) \/ AddInstalls(r) \/ CommitLocks(r) \/ CommitRefreshed(r) \/ HookStages(r)
         \/ CommitLands(r) \/ OrphanEnds(r)
  PROVE  Types'
<1>1. CASE AddLocks(r) \/ AddInstalls(r) \/ CommitLocks(r) \/ CommitRefreshed(r) \/ CommitLands(r)
  <2>1. PICK phase \in {"locked", "hooks", "done"} : Advance(r, phase)
    BY <1>1 DEF AddLocks, AddInstalls, CommitLocks, CommitRefreshed, CommitLands
  <2>2. child[r] # None
    BY <1>1 DEF AddLocks, AddInstalls, CommitLocks, CommitRefreshed, CommitLands, In
  <2>3. [child[r] EXCEPT !.phase = phase] \in Process
    BY <2>2 DEF Types, Process
  <2>4. child' \in [Request -> Process \cup {None}]
    BY <2>1, <2>3 DEF Advance, Types
  <2>5. index' \in SUBSET Change
    BY <1>1 DEF Types, AddLocks, AddInstalls, CommitLocks, CommitRefreshed, CommitLands, repo, Change
  <2>6. head' \in Nat
    BY <1>1 DEF Types, AddLocks, AddInstalls, CommitLocks, CommitRefreshed, CommitLands, repo
  <2>7. QED
    BY <1>1, <2>4, <2>5, <2>6 DEF Types, AddLocks, AddInstalls, CommitLocks, CommitRefreshed, CommitLands,
       plugin, queueVars, cancelVars
<1>2. CASE HookStages(r)
  BY <1>2 DEF Types, HookStages, plugin, queueVars, cancelVars, Change
<1>3. CASE OrphanEnds(r)
  BY <1>3 DEF Types, OrphanEnds, plugin, queueVars, cancelVars
<1>4. QED
  BY <1>1, <1>2, <1>3

-----------------------------------------------------------------------------
(* The holder and its work *)

Sound(r) == OwnCall(r) /\ Snapshot(r) /\ Landing(r) /\ HoldsLock(r) /\ Calm(r)

LEMMA SoundParts ==
  Children /\ Memory /\ Locked /\ Undisturbed <=> Closed /\ \A r \in Request : Sound(r)
  BY DEF Children, Memory, Locked, Undisturbed, Sound

LEMMA OneHolder == ASSUME Queue PROVE \A r, q \in Holding : r = q
  BY DEF Queue, OneFirst, HoldersAreFirst, First, Line

\* Who holds the repository, or left a process in it, is the only one there.
LEMMA ActsAlone ==
  ASSUME Queue, Children, NEW r \in Request, r \in Holding \/ child[r] # None
  PROVE  \A q \in Holding : q = r
<1>1. CASE quarantined
  BY <1>1 DEF Children, Closed
<1>2. CASE ~quarantined
  <2>1. r \in Holding
    BY <1>2 DEF Children, OwnCall, Holding, Working
  <2>2. QED
    BY <2>1, OneHolder
<1>3. QED
  BY <1>1, <1>2

\* The steps of the one who holds the repository.
WorkStep(r) ==
  \/ Prepare(r) \/ Capture(r) \/ Call(r, "add") \/ Call(r, "commit") \/ CallRefused(r)
  \/ Answered(r) \/ Broken(r) \/ Collide(r) \/ Timeout(r) \/ Unconfirmed(r)
  \/ WriteTree(r) \/ Check(r)
  \/ RollbackLocks(r) \/ Compare(r) \/ Verify(r) \/ Install(r) \/ Decline(r) \/ RollbackFails(r)

LEMMA WorkerHolds ==
  ASSUME NEW r \in Request, WorkStep(r) PROVE r \in Holding
  BY DEF WorkStep, Holding, Working, Prepare, Capture, Call, CallRefused, Answered,
     Calling, Broken, Collide, Timeout, Unconfirmed, WriteTree, Check, RollbackLocks,
     Compare, Verify, Install, Decline, Differs, LockTaken, RollbackFails

\* A process goes on, is stopped or is gone.
SameChild(r) ==
  child'[r] # None =>
    child[r] # None /\ child'[r].kind = child[r].kind /\ child'[r].phase = child[r].phase

Lives(r) == child[r] # None => child'[r] # None

SameMemory(r) ==
  /\ saved'[r] = saved[r] /\ staged'[r] = staged[r]
  /\ r \in landed' <=> r \in landed

\* What the end of another request, or its next step, leaves alone.
LEMMA FinishOthers ==
  ASSUME Types, NEW r \in Request, NEW q \in Request, q # r, Finish(r)
  PROVE  pc'[q] = pc[q] /\ SameMemory(q)
  BY DEF Types, Finish, Answer, GoTo, Forget, SameMemory

LEMMA OnwardOthers ==
  ASSUME Types, NEW r \in Request, NEW q \in Request, q # r, NEW p, Onward(r, p)
  PROVE  pc'[q] = pc[q]
  BY DEF Types, Onward, GoTo

LEMMA FailWorkOthers ==
  ASSUME Types, NEW r \in Request, NEW q \in Request, q # r, FailWork(r)
  PROVE  pc'[q] = pc[q] /\ SameMemory(q)
  BY FinishOthers, OnwardOthers DEF FailWork, memory, ghosts, SameMemory

LEMMA WorkOthers ==
  ASSUME Types, NEW r \in Request, NEW q \in Request, q # r, WorkStep(r)
  PROVE  pc'[q] = pc[q] /\ SameMemory(q) /\ SameChild(q)
<1>1. SameChild(q)
  <2>1. child'[q] = child[q]
    BY DEF WorkStep, Types, Prepare, Capture, Call, CallRefused, Answered, Broken,
       Collide, Timeout, Unconfirmed, WriteTree, Check, RollbackLocks, Compare, Verify, Install,
       Decline, RollbackFails, EndRollback
  <2>2. QED
    BY <2>1 DEF SameChild
<1> SUFFICES pc'[q] = pc[q] /\ SameMemory(q)
  BY <1>1
<1>2. CASE Prepare(r)
  BY <1>2, FinishOthers, OnwardOthers DEF Prepare, memory, ghosts, SameMemory
<1>3. CASE Capture(r)
  <2>1. saved'[q] = saved[q]
    BY <1>3 DEF Capture, Types
  <2>2. QED
    BY <1>3, <2>1, OnwardOthers DEF Capture, ghosts, SameMemory
<1>4. CASE Call(r, "add") \/ Call(r, "commit") \/ Timeout(r)
  BY <1>4 DEF Call, Timeout, memory, ghosts, SameMemory
<1>5. CASE CallRefused(r) \/ Broken(r)
  BY <1>5, FailWorkOthers DEF CallRefused, Broken
<1>6. CASE Answered(r)
  BY <1>6, FailWorkOthers, FinishOthers, OnwardOthers
  DEF Answered, Succeed, memory, ghosts, SameMemory
<1>7. CASE Collide(r)
  BY <1>7, FailWorkOthers, OnwardOthers DEF Collide, ghosts, SameMemory
<1>8. CASE Unconfirmed(r)
  BY <1>8, FinishOthers DEF Unconfirmed
<1>9. CASE WriteTree(r)
  <2>1. CASE Finish(r)
    BY <2>1, FinishOthers
  <2>2. CASE ~Finish(r)
    BY <1>9, <2>2, OnwardOthers DEF WriteTree, Types, ghosts, SameMemory
  <2>3. QED
    BY <2>1, <2>2
<1>10. CASE Check(r)
  BY <1>10, FailWorkOthers, OnwardOthers DEF Check, ghosts, SameMemory
<1>11. CASE RollbackLocks(r) \/ Compare(r) \/ Verify(r)
  BY <1>11, OnwardOthers DEF RollbackLocks, Compare, Verify, memory, ghosts, SameMemory
<1>12. CASE Install(r) \/ Decline(r) \/ RollbackFails(r)
  BY <1>12, FinishOthers DEF Install, Decline, Differs, RollbackFails, EndRollback
<1>13. QED
  BY <1>2, <1>3, <1>4, <1>5, <1>6, <1>7, <1>8, <1>9, <1>10, <1>11, <1>12 DEF WorkStep

\* What those who do not hold the repository know stays so.
LEMMA IdleStaySound ==
  ASSUME Types, NEW q \in Request, Sound(q), q \notin Holding,
         pc'[q] = pc[q], SameMemory(q), SameChild(q),
         quarantined => quarantined', head' \in Nat, head <= head'
  PROVE  Sound(q)' /\ q \notin Holding'
<1>1. q \notin Holding'
  BY DEF Holding
<1>2. OwnCall(q)'
  BY <1>1 DEF Sound, OwnCall, SameChild
<1>3. Snapshot(q)'
  BY DEF Sound, Snapshot, Rollback, SameMemory
<1>4. Landing(q)'
  <2>1. saved[q] # None => saved[q].head \in Nat
    BY DEF Types
  <2>2. QED
    BY <1>1, <2>1 DEF Sound, Types, Landing, SameMemory
<1>5. HoldsLock(q)' /\ Calm(q)'
  BY <1>1 DEF HoldsLock, Calm, Holding, Working
<1>6. QED
  BY <1>1, <1>2, <1>3, <1>4, <1>5 DEF Sound

LEMMA FinishStaysSound ==
  ASSUME Types, NEW r \in Request, Sound(r), r \in Holding, Finish(r), SameChild(r),
         child'[r] # None => quarantined'
  PROVE  Sound(r)' /\ r \notin Holding'
<1>1. /\ pc'[r] = "over" /\ saved'[r] = None /\ staged'[r] = None
      /\ r \notin landed'
  BY DEF Types, Finish, Answer, GoTo, Forget
<1>2. r \notin Holding'
  BY <1>1 DEF Holding, Working
<1>3. OwnCall(r)'
  BY <1>2 DEF Sound, OwnCall, SameChild
<1>4. Snapshot(r)' /\ Landing(r)' /\ HoldsLock(r)' /\ Calm(r)'
  BY <1>1, <1>2 DEF Snapshot, Rollback, Landing, HoldsLock, Calm
<1>5. QED
  BY <1>2, <1>3, <1>4 DEF Sound

\* Work that fails after its add goes on with a rollback, without a lock but one
\* it may have left behind.
LEMMA FailWorkStaysSound ==
  ASSUME Types, NEW r \in Request, Sound(r), r \in Holding, FailWork(r),
         child'[r] = None, UNCHANGED <<index, head>>,
         (UNCHANGED lock /\ ~Locking(r)) \/ lock' \in {None, "stale"},
         pc[r] \in {"add", "check", "commit"}
  PROVE  Sound(r)'
<1>1. CASE Finish(r)
  BY <1>1, FinishStaysSound DEF SameChild
<1>2. CASE /\ saved[r] # None /\ staged[r] # None
           /\ Onward(r, "rollback") /\ UNCHANGED memory
  <2>1. pc'[r] = "rollback" /\ UNCHANGED <<saved, staged, landed, disturbed>>
    BY <1>2 DEF Types, Onward, GoTo, memory, ghosts
  <2>2. pc[r] \in {"check", "commit"}
    BY <1>2 DEF Sound, Snapshot, Rollback
  <2>3. r \in Holding' /\ Added(r) /\ r \in CommitAll
    BY <1>2, <2>1, <2>2 DEF Holding, Working, Added, Locking, Sound, Snapshot, Rollback
  <2>4. OwnCall(r)' /\ Snapshot(r)' /\ Landing(r)' /\ HoldsLock(r)'
    BY <1>2, <2>1, <2>3 DEF Sound, OwnCall, Snapshot, Rollback, Landing, HoldsLock
  <2>5. Calm(r)'
    BY <2>1, <2>2, <2>3 DEF Sound, Calm, Added, Locking
  <2>6. QED
    BY <2>4, <2>5 DEF Sound
<1>3. QED
  BY <1>1, <1>2 DEF FailWork

\* A step by which the request goes on: where it is now, and what it knows.
LEMMA OnwardPlace ==
  ASSUME Types, NEW r \in Request, NEW p \in Working, Onward(r, p)
  PROVE  pc'[r] = p /\ r \in Holding'
  BY DEF Types, Onward, GoTo, Holding

LEMMA NoChildOutsideCalls ==
  ASSUME NEW r \in Request, Sound(r), ~quarantined, pc[r] \notin {"add", "commit"}
  PROVE  child[r] = None
  BY DEF Sound, OwnCall

LEMMA WorkStaysSound ==
  ASSUME Types, Closed, NEW r \in Request, Sound(r), WorkStep(r)
  PROVE  Sound(r)'
<1>1. r \in Holding /\ ~quarantined
  BY WorkerHolds DEF Closed
<1>2. CASE Prepare(r)
  <2>1. child[r] = None /\ UNCHANGED <<child, index, head, lock>>
    BY <1>1, <1>2, NoChildOutsideCalls DEF Prepare, elsewhere
  <2>2. CASE Finish(r)
    BY <1>1, <2>1, <2>2, FinishStaysSound DEF SameChild
  <2>3. CASE /\ Onward(r, IF r \in CommitAll THEN "capture" ELSE "add")
             /\ UNCHANGED memory
    <3>1. pc'[r] = IF r \in CommitAll THEN "capture" ELSE "add"
      BY <2>3, OnwardPlace DEF Working
    <3>2. UNCHANGED <<saved, staged, landed, disturbed>> /\ saved[r] = None
      BY <1>2, <2>3 DEF Prepare, Sound, Snapshot, Rollback, memory, ghosts
    <3>3. OwnCall(r)' /\ Snapshot(r)' /\ Landing(r)' /\ HoldsLock(r)'
      BY <1>2, <2>1, <3>1, <3>2 DEF Prepare, Sound, OwnCall, Snapshot, Rollback, Landing, HoldsLock
    <3>4. Calm(r)'
      BY <2>1, <3>1, <3>2 DEF Calm, Added, Locking
    <3>5. QED
      BY <3>3, <3>4 DEF Sound
  <2>4. QED
    BY <1>2, <2>2, <2>3 DEF Prepare
<1>3. CASE Capture(r)
  <2>1. child[r] = None /\ UNCHANGED <<child, index, head, lock, staged, landed>>
    BY <1>1, <1>3, NoChildOutsideCalls DEF Capture, elsewhere, ghosts
  <2>2. pc'[r] = "add" /\ r \in CommitAll
    BY <1>3, OnwardPlace DEF Capture, Working, Sound, Snapshot, Rollback
  <2>3. saved'[r] \in {None, [index |-> index, head |-> head]}
    BY <1>3 DEF Capture, Types, Sound, Snapshot, Rollback
  <2>4. QED
  BY <1>3, <2>1, <2>2, <2>3 DEF Types, Capture, Sound, OwnCall, Snapshot, Rollback, Landing,
     HoldsLock, Calm, Added, Locking
<1>4. CASE Call(r, "add") \/ Call(r, "commit")
  <2>1. PICK kind \in {"add", "commit"} : Call(r, kind)
    BY <1>4
  <2>2. /\ pc[r] = kind /\ child[r] = None
        /\ child'[r] = [kind |-> kind, phase |-> "started", stopped |-> "no"]
        /\ UNCHANGED <<index, lock, head, pc, saved, staged, landed, disturbed>>
    BY <2>1 DEF Call, elsewhere, memory, ghosts, Types
  <2>3. OwnCall(r)' /\ Snapshot(r)' /\ HoldsLock(r)'
    BY <2>2 DEF Sound, OwnCall, Snapshot, Rollback, HoldsLock
  <2>4. Landing(r)' /\ Calm(r)'
    BY <2>2 DEF Sound, Landing, Calm, Added, Locking, Holding
  <2>5. QED
    BY <2>3, <2>4 DEF Sound
<1>5. CASE CallRefused(r)
  BY <1>1, <1>5, FailWorkStaysSound DEF CallRefused, elsewhere, Locking
<1>6. CASE Answered(r)
  <2>1. /\ child'[r] = None /\ UNCHANGED <<index, head, lock>>
        /\ pc[r] \in {"add", "commit"} /\ SameChild(r) /\ ~Locking(r)
    BY <1>1, <1>6 DEF Answered, Calling, elsewhere, Types, Sound, OwnCall, SameChild, Locking
  <2>2. CASE FailWork(r)
    BY <1>1, <2>1, <2>2, FailWorkStaysSound
  <2>3. CASE Finish(r)
    BY <1>1, <2>1, <2>3, FinishStaysSound
  <2>4. CASE /\ pc[r] = "add" /\ r \in CommitAll
             /\ Onward(r, "tree") /\ UNCHANGED memory
    <3>1. pc'[r] = "tree" /\ UNCHANGED <<saved, staged, landed, disturbed>>
      BY <2>4, OnwardPlace DEF Working, memory, ghosts
    <3>2. Added(r)
      BY <1>6, <2>4 DEF Answered, Calling, Added, Locking
    <3>3. OwnCall(r)' /\ Snapshot(r)' /\ Landing(r)' /\ HoldsLock(r)'
      BY <2>1, <2>4, <3>1 DEF Sound, OwnCall, Snapshot, Rollback, Landing, HoldsLock
    <3>4. Calm(r)'
      BY <1>1, <2>1, <3>1, <3>2 DEF Sound, Calm, Added, Locking
    <3>5. QED
      BY <3>3, <3>4 DEF Sound
  <2>5. QED
    BY <1>6, <2>2, <2>3, <2>4 DEF Answered, Succeed
<1>7. CASE Broken(r)
  <2>1. child'[r] = None /\ UNCHANGED <<index, head>> /\ pc[r] \in {"add", "commit"}
    BY <1>1, <1>7 DEF Broken, Calling, elsewhere, Types, Sound, OwnCall
  <2>2. (UNCHANGED lock /\ ~Locking(r)) \/ lock' \in {None, "stale"}
    BY <1>7 DEF Broken, Locking
  <2>3. QED
    BY <1>1, <1>7, <2>1, <2>2, FailWorkStaysSound DEF Broken
<1>8. CASE Collide(r)
  <2>1. /\ child'[r] = None /\ UNCHANGED <<index, head, lock>>
        /\ pc[r] \in {"add", "commit"} /\ ~Locking(r)
    BY <1>1, <1>8 DEF Collide, Calling, elsewhere, Types, Sound, OwnCall, Locking
  <2>2. CASE FailWork(r)
    BY <1>1, <2>1, <2>2, FailWorkStaysSound
  <2>3. CASE Onward(r, pc[r]) /\ UNCHANGED <<saved, staged, ghosts>>
    <3>1. pc'[r] = pc[r] /\ UNCHANGED <<saved, staged, landed, disturbed>>
      BY <1>1, <2>3, OnwardPlace DEF Holding, ghosts
    <3>2. OwnCall(r)' /\ Snapshot(r)' /\ Landing(r)' /\ HoldsLock(r)'
      BY <2>1, <3>1 DEF Sound, OwnCall, Snapshot, Rollback, Landing, HoldsLock
    <3>3. Calm(r)'
      BY <1>1, <2>1, <3>1 DEF Sound, Calm, Added, Locking
    <3>4. QED
      BY <3>2, <3>3 DEF Sound
  <2>4. QED
    BY <1>8, <2>2, <2>3 DEF Collide
<1>9. CASE Timeout(r)
  <2>1. /\ UNCHANGED <<index, lock, head, pc, saved, staged, landed, disturbed>>
        /\ SameChild(r) /\ child[r] # None /\ (Locking(r)' <=> Locking(r))
    <3>1. /\ UNCHANGED <<index, lock, head, pc, saved, staged, landed, disturbed>>
          /\ child[r] \in Process /\ child[r] # None
          /\ child'[r] = [child[r] EXCEPT !.stopped = "timeout"]
      BY <1>9 DEF Timeout, Calling, elsewhere, memory, ghosts, Types
    <3>2. child'[r] \in Process /\ child'[r].phase = child[r].phase /\ child'[r].kind = child[r].kind
      BY <3>1 DEF Process
    <3>3. QED
      BY <3>1, <3>2, GitCommitAssumption DEF SameChild, Locking
  <2>2. OwnCall(r)' /\ Snapshot(r)' /\ HoldsLock(r)'
    BY <1>1, <1>9, <2>1 DEF Sound, OwnCall, Snapshot, Rollback, HoldsLock, SameChild, Holding, Timeout
  <2>3. Landing(r)' /\ Calm(r)'
    BY <1>1, <2>1 DEF Sound, Landing, Calm, Added, SameChild
  <2>4. QED
    BY <2>2, <2>3 DEF Sound
<1>10. CASE Unconfirmed(r)
  BY <1>1, <1>10, FinishStaysSound DEF Unconfirmed, SameChild
<1>11. CASE WriteTree(r)
  <2>1. child[r] = None /\ UNCHANGED <<child, index, head, lock>>
    BY <1>1, <1>11, NoChildOutsideCalls DEF WriteTree, elsewhere
  <2>2. CASE Finish(r)
    BY <1>1, <2>1, <2>2, FinishStaysSound DEF SameChild
  <2>3. CASE /\ staged' = [staged EXCEPT ![r] = index]
             /\ Onward(r, "check") /\ UNCHANGED <<retries, saved, ghosts>>
    <3>1. /\ pc'[r] = "check" /\ staged'[r] = index
          /\ UNCHANGED <<saved, landed, disturbed>>
      BY <2>3, OnwardPlace DEF Working, ghosts, Types
    <3>2. r \in CommitAll \/ saved[r] = None
      BY DEF Sound, Snapshot, Rollback
    <3>3. OwnCall(r)' /\ Snapshot(r)' /\ Landing(r)' /\ HoldsLock(r)'
      BY <1>11, <2>1, <3>1, <3>2
      DEF WriteTree, Sound, OwnCall, Snapshot, Rollback, Landing, HoldsLock
    <3>4. Calm(r)'
      BY <1>1, <1>11, <2>1, <3>1 DEF WriteTree, Sound, Calm, Added, Locking
    <3>5. QED
      BY <3>3, <3>4 DEF Sound
  <2>4. QED
    BY <1>11, <2>2, <2>3 DEF WriteTree
<1>12. CASE Check(r)
  <2>1. child[r] = None /\ UNCHANGED <<child, index, head, lock>>
    BY <1>1, <1>12, NoChildOutsideCalls DEF Check, elsewhere
  <2>2. CASE FailWork(r)
    BY <1>1, <1>12, <2>1, <2>2, FailWorkStaysSound DEF Check, Locking
  <2>3. CASE Onward(r, "commit") /\ UNCHANGED <<saved, staged, ghosts>>
    <3>1. pc'[r] = "commit" /\ UNCHANGED <<saved, staged, landed, disturbed>>
      BY <2>3, OnwardPlace DEF Working, ghosts
    <3>2. OwnCall(r)' /\ Snapshot(r)' /\ Landing(r)' /\ HoldsLock(r)'
      BY <1>12, <2>1, <3>1 DEF Check, Sound, OwnCall, Snapshot, Rollback, Landing, HoldsLock
    <3>3. Calm(r)'
      BY <1>1, <1>12, <2>1, <3>1 DEF Check, Sound, Calm, Added, Locking
    <3>4. QED
      BY <3>2, <3>3 DEF Sound
  <2>4. QED
    BY <1>12, <2>2, <2>3 DEF Check
<1>13. CASE RollbackLocks(r)
  <2>1. child[r] = None /\ UNCHANGED <<child, index, head>> /\ lock' = "rollback"
    BY <1>1, <1>13, NoChildOutsideCalls DEF RollbackLocks, elsewhere
  <2>2. pc'[r] = "compare" /\ UNCHANGED <<saved, staged, landed, disturbed>>
    BY <1>13, OnwardPlace DEF RollbackLocks, Working, memory, ghosts
  <2>3. OwnCall(r)' /\ Snapshot(r)' /\ Landing(r)' /\ HoldsLock(r)'
    BY <1>13, <2>1, <2>2
    DEF RollbackLocks, Sound, OwnCall, Snapshot, Rollback, Landing, HoldsLock
  <2>4. Calm(r)'
    BY <1>1, <1>13, <2>1, <2>2 DEF RollbackLocks, Sound, Calm, Added, Locking
  <2>5. QED
    BY <2>3, <2>4 DEF Sound
<1>14. CASE Compare(r)
  <2>1. child[r] = None /\ UNCHANGED <<child, index, head, lock>>
    BY <1>1, <1>14, NoChildOutsideCalls DEF Compare, elsewhere
  <2>2. pc'[r] = "verify" /\ UNCHANGED <<saved, staged, landed, disturbed>>
    BY <1>14, OnwardPlace DEF Compare, Working, memory, ghosts
  <2>3. OwnCall(r)' /\ Snapshot(r)' /\ Landing(r)' /\ HoldsLock(r)'
    BY <1>14, <2>1, <2>2
    DEF Compare, AsStaged, Sound, OwnCall, Snapshot, Rollback, Landing, HoldsLock
  <2>4. Calm(r)'
    BY <1>1, <1>14, <2>1, <2>2 DEF Compare, Sound, Calm, Added, Locking
  <2>5. QED
    BY <2>3, <2>4 DEF Sound
<1>15. CASE Verify(r)
  <2>1. child[r] = None /\ UNCHANGED <<child, index, head, lock>>
    BY <1>1, <1>15, NoChildOutsideCalls DEF Verify, elsewhere
  <2>2. pc'[r] = "install" /\ UNCHANGED <<saved, staged, landed, disturbed>>
    BY <1>15, OnwardPlace DEF Verify, Working, memory, ghosts
  <2>3. r \notin landed
    BY <1>15 DEF Verify, HeadKept, Types, Sound, Snapshot, Rollback, Landing
  <2>4. OwnCall(r)' /\ Snapshot(r)' /\ Landing(r)' /\ HoldsLock(r)'
    BY <1>15, <2>1, <2>2, <2>3
    DEF Verify, Sound, OwnCall, Snapshot, Rollback, Landing, HoldsLock
  <2>5. Calm(r)'
    BY <1>1, <1>15, <2>1, <2>2 DEF Verify, Sound, Calm, Added, Locking
  <2>6. QED
    BY <2>4, <2>5 DEF Sound
<1>16. CASE Install(r) \/ Decline(r) \/ RollbackFails(r)
  BY <1>1, <1>16, FinishStaysSound
  DEF Install, Decline, Differs, LockTaken, RollbackFails, EndRollback, SameChild, Sound, OwnCall
<1>17. QED
  BY <1>2, <1>3, <1>4, <1>5, <1>6, <1>7, <1>8, <1>9, <1>10, <1>11, <1>12, <1>13, <1>14,
     <1>15, <1>16 DEF WorkStep

-----------------------------------------------------------------------------
(* Requests that come and wait, cancellations, Git and agents *)

LEMMA RaiseKeepsCalls ==
  ASSUME Types, NEW R, Raise(R), NEW q \in Request
  PROVE  SameChild(q) /\ Lives(q)
<1>1. CASE child'[q] = child[q]
  BY <1>1 DEF SameChild, Lives
<1>2. CASE child[q] # None /\ child'[q] = [child[q] EXCEPT !.stopped = "cancelled"]
  <2>1. /\ child'[q] \in Process
        /\ child'[q].phase = child[q].phase /\ child'[q].kind = child[q].kind
    BY <1>2 DEF Types, Process
  <2>2. QED
    BY <1>2, <2>1, GitCommitAssumption DEF SameChild, Lives
<1>3. QED
  BY <1>1, <1>2 DEF Types, Raise

\* A request is as sound as it was when nothing but a signal reaches it.
LEMMA UntouchedStaySound ==
  ASSUME Types, NEW q \in Request, Sound(q), pc'[q] = pc[q], SameMemory(q), SameChild(q),
         Lives(q), UNCHANGED <<index, lock, head, quarantined, disturbed>>
  PROVE  Sound(q)'
<1>1. OwnCall(q)' /\ Snapshot(q)' /\ HoldsLock(q)'
  BY DEF Sound, OwnCall, Snapshot, Rollback, HoldsLock, SameMemory, SameChild, Holding
<1>2. Landing(q)' /\ Calm(q)'
  BY DEF Sound, Landing, Calm, Added, Locking, SameMemory, SameChild, Lives, Holding
<1>3. QED
  BY <1>1, <1>2 DEF Sound

\* A request that waits, ends without work or begins with it.
LEMMA WaitingStaySound ==
  ASSUME Types, NEW r \in Request, Sound(r), pc[r] \in {"new", "discover", "queued"},
         \/ pc'[r] \in {"discover", "queued", "over"}
         \/ pc'[r] = "prepare" /\ ~quarantined,
         saved'[r] \in {saved[r], None}, staged'[r] \in {staged[r], None},
         r \in landed' => r \in landed, SameChild(r), UNCHANGED quarantined
  PROVE  Sound(r)'
<1>1. /\ saved'[r] = None /\ staged'[r] = None /\ r \notin landed'
      /\ child'[r] # None => quarantined /\ child[r] # None
  BY DEF Sound, OwnCall, Snapshot, Rollback, Landing, SameChild
<1>2. OwnCall(r)'
  BY <1>1 DEF Sound, OwnCall, SameChild, Holding, Working
<1>3. Snapshot(r)' /\ Landing(r)' /\ HoldsLock(r)' /\ Calm(r)'
  BY <1>1 DEF Snapshot, Rollback, Landing, HoldsLock, Calm, Added, Locking, Holding, Working
<1>4. QED
  BY <1>2, <1>3 DEF Sound

LEMMA SubmitStaysSound ==
  ASSUME Types, NEW r \in Request, \A q \in Request : Sound(q), Submit(r),
         NEW q \in Request
  PROVE  Sound(q)'
<1>1. SameChild(q) /\ Lives(q) /\ SameMemory(q)
  BY RaiseKeepsCalls DEF Submit, SameChild, Lives, SameMemory, ghosts
<1>2. CASE q = r
  BY <1>1, <1>2, WaitingStaySound DEF Submit, GoTo, Types, queueVars, ghosts
<1>3. CASE q # r
  BY <1>1, <1>3, UntouchedStaySound DEF Submit, GoTo, Types, repo, queueVars, ghosts
<1>4. QED
  BY <1>2, <1>3

LEMMA DiscoverStaysSound ==
  ASSUME Types, NEW r \in Request, \A q \in Request : Sound(q), Discover(r),
         NEW q \in Request
  PROVE  Sound(q)'
<1>1. SameChild(q) /\ Lives(q) /\ SameMemory(q)
  BY DEF Discover, SameChild, Lives, SameMemory, ghosts
<1>2. CASE q = r
  BY <1>1, <1>2, WaitingStaySound DEF Discover, Answer, GoTo, Types, ghosts
<1>3. CASE q # r
  BY <1>1, <1>3, UntouchedStaySound DEF Discover, Answer, GoTo, Types, repo, ghosts
<1>4. QED
  BY <1>2, <1>3

LEMMA TakeTurnStaysSound ==
  ASSUME Types, NEW r \in Request, \A q \in Request : Sound(q), TakeTurn(r),
         NEW q \in Request
  PROVE  Sound(q)'
<1>1. SameChild(q) /\ Lives(q) /\ UNCHANGED <<index, lock, head, quarantined>>
  BY DEF TakeTurn, SameChild, Lives, repo
<1>2. CASE Finish(r)
  <2>1. CASE q = r
    BY <1>1, <1>2, <2>1, WaitingStaySound DEF TakeTurn, Finish, Answer, GoTo, Forget, Types
  <2>2. CASE q # r
    <3>1. q \in disturbed' <=> q \in disturbed
      BY <1>2, <2>2 DEF Finish, Forget
    <3>2. pc'[q] = pc[q] /\ SameMemory(q)
      BY <1>2, <2>2, FinishOthers
    <3>3. OwnCall(q)' /\ Snapshot(q)' /\ HoldsLock(q)'
      BY <1>1, <3>2 DEF Sound, OwnCall, Snapshot, Rollback, HoldsLock, SameMemory, SameChild, Holding
    <3>4. Landing(q)' /\ Calm(q)'
      BY <1>1, <3>1, <3>2 DEF Sound, Landing, Calm, Added, Locking, SameMemory, SameChild, Lives,
         Holding
    <3>5. QED
      BY <3>3, <3>4 DEF Sound
  <2>3. QED
    BY <2>1, <2>2
<1>3. CASE Safe /\ Onward(r, "prepare") /\ UNCHANGED <<retries, saved, staged, ghosts>>
  <2>1. SameMemory(q) /\ UNCHANGED disturbed
    BY <1>3 DEF SameMemory, ghosts
  <2>2. CASE q = r
    BY <1>1, <1>3, <2>1, <2>2, WaitingStaySound
    DEF TakeTurn, Safe, Onward, GoTo, Types, ghosts
  <2>3. CASE q # r
    BY <1>1, <1>3, <2>1, <2>3, OnwardOthers, UntouchedStaySound
  <2>4. QED
    BY <2>2, <2>3
<1>4. QED
  BY <1>2, <1>3 DEF TakeTurn

LEMMA CancelStaysSound ==
  ASSUME Types, NEW k \in Ids, \A q \in Request : Sound(q), Cancel(k), NEW q \in Request
  PROVE  Sound(q)'
<1>1. SameChild(q) /\ Lives(q) /\ SameMemory(q)
  BY RaiseKeepsCalls DEF Cancel, SameMemory, ghosts
<1>2. QED
  BY <1>1, UntouchedStaySound DEF Cancel, repo, queueVars, ghosts

\* A process that goes on is that of the one who holds the repository, if anybody
\* does.
LEMMA GitStaysSound ==
  ASSUME Types, Queue, Children, NEW r \in Request, \A q \in Request : Sound(q),
         \/ AddLocks(r) \/ AddInstalls(r) \/ CommitLocks(r) \/ CommitRefreshed(r) \/ HookStages(r)
         \/ CommitLands(r) \/ OrphanEnds(r),
         NEW q \in Request
  PROVE  Sound(q)'
<1>1. child[r] # None /\ \A p \in Holding : p = r
  <2>1. child[r] # None
    BY DEF AddLocks, AddInstalls, CommitLocks, CommitRefreshed, HookStages, CommitLands, OrphanEnds, In
  <2>2. QED
    BY <2>1, ActsAlone
<1>2. /\ UNCHANGED <<pc, saved, staged, quarantined>>
      /\ head' \in Nat /\ head <= head'
  BY DEF Types, AddLocks, AddInstalls, CommitLocks, CommitRefreshed, HookStages, CommitLands, OrphanEnds,
     plugin, queueVars, repo
<1>3. CASE q # r
  <2>1. q \notin Holding
    BY <1>1, <1>3
  <2>2. SameChild(q)
    BY <1>3 DEF Types, AddLocks, AddInstalls, CommitLocks, CommitRefreshed, HookStages, CommitLands,
       OrphanEnds, Advance, SameChild
  <2>3. SameMemory(q)
    BY <1>2, <1>3 DEF AddLocks, AddInstalls, CommitLocks, CommitRefreshed, HookStages, CommitLands,
       OrphanEnds, ghosts, SameMemory
  <2>4. QED
    BY <1>2, <2>1, <2>2, <2>3, IdleStaySound
<1>4. CASE q = r
  <2>1. CASE AddLocks(r)
    <3>1. /\ child[r].kind = "add" /\ child'[r] = [child[r] EXCEPT !.phase = "locked"]
          /\ child[r] \in Process
          /\ UNCHANGED <<index, head, landed, disturbed>>
      BY <1>1, <2>1 DEF AddLocks, In, Advance, Types, ghosts
    <3>2. child'[r].kind = "add" /\ child'[r].phase = "locked"
      BY <3>1 DEF Process
    <3>3. r \in Holding => pc[r] = "add"
      BY <1>1, <3>1 DEF Sound, OwnCall
    <3>4. OwnCall(r)' /\ Snapshot(r)' /\ HoldsLock(r)'
      BY <1>1, <1>2, <3>1, <3>2, <3>3
      DEF Sound, OwnCall, Snapshot, Rollback, HoldsLock, Holding, Working
    <3>5. Landing(r)' /\ Calm(r)'
      BY <1>1, <1>2, <3>1, <3>2, <3>3 DEF Sound, Landing, Calm, Added, Locking, Holding, Working
    <3>6. QED
      BY <1>4, <3>4, <3>5 DEF Sound
  <2>2. CASE AddInstalls(r)
    <3>1. /\ child[r].kind = "add" /\ child'[r] = [child[r] EXCEPT !.phase = "done"]
          /\ child[r] \in Process /\ lock' = None
          /\ UNCHANGED <<head, landed, disturbed>>
      BY <1>1, <2>2 DEF AddInstalls, In, Advance, Types, ghosts
    <3>2. child'[r].kind = "add" /\ child'[r].phase = "done"
      BY <3>1 DEF Process
    <3>3. r \in Holding => pc[r] = "add"
      BY <1>1, <3>1 DEF Sound, OwnCall
    <3>4. OwnCall(r)' /\ Snapshot(r)' /\ HoldsLock(r)'
      BY <1>1, <1>2, <3>1, <3>2, <3>3
      DEF Sound, OwnCall, Snapshot, Rollback, HoldsLock, Holding, Working
    <3>5. Landing(r)' /\ Calm(r)'
      BY <1>1, <1>2, <3>1, <3>2, <3>3 DEF Sound, Landing, Calm, Added, Locking, Holding, Working
    <3>6. QED
      BY <1>4, <3>4, <3>5 DEF Sound
  <2>3. CASE CommitLocks(r) \/ CommitRefreshed(r)
    <3>1. PICK phase \in {"locked", "hooks"} :
            /\ child[r].kind = "commit" /\ child'[r] = [child[r] EXCEPT !.phase = phase]
            /\ child[r] \in Process /\ UNCHANGED <<index, head, landed, disturbed>>
            /\ phase = "hooks" => lock' = None
      BY <1>1, <2>3 DEF CommitLocks, CommitRefreshed, In, Advance, Types, ghosts
    <3>2. /\ child'[r] \in Process /\ child'[r].kind = "commit"
          /\ child'[r].phase \in {"locked", "hooks"}
          /\ child'[r].phase = "hooks" => lock' = None
      BY <3>1 DEF Process
    <3>3. r \in Holding => pc[r] = "commit"
      BY <1>1, <3>1 DEF Sound, OwnCall
    <3>4. OwnCall(r)' /\ Snapshot(r)' /\ HoldsLock(r)'
      BY <1>1, <1>2, <3>1, <3>2, <3>3
      DEF Sound, OwnCall, Snapshot, Rollback, HoldsLock, Holding, Working
    <3>5. Landing(r)' /\ Calm(r)'
      BY <1>1, <1>2, <3>1, <3>2, <3>3, GitCommitAssumption
      DEF Sound, Landing, Calm, Added, Locking, Holding, Working
    <3>6. QED
      BY <1>4, <3>4, <3>5 DEF Sound
  <2>4. CASE HookStages(r)
    <3>1. /\ child[r].kind = "commit" /\ UNCHANGED <<child, lock, head, landed>>
          /\ Holding \subseteq disturbed'
      BY <2>4 DEF HookStages, In
    <3>2. r \in Holding => pc[r] = "commit"
      BY <1>1, <3>1 DEF Sound, OwnCall
    <3>3. OwnCall(r)' /\ Snapshot(r)' /\ HoldsLock(r)'
      BY <1>1, <1>2, <3>1, <3>2
      DEF Sound, OwnCall, Snapshot, Rollback, HoldsLock, Holding, Working
    <3>4. Landing(r)' /\ Calm(r)'
      BY <1>1, <1>2, <3>1, <3>2 DEF Sound, Landing, Calm, Added, Locking, Holding, Working
    <3>5. QED
      BY <1>4, <3>3, <3>4 DEF Sound
  <2>5. CASE CommitLands(r)
    <3>1. /\ child[r].kind = "commit" /\ child'[r] = [child[r] EXCEPT !.phase = "done"]
          /\ child[r] \in Process /\ UNCHANGED <<index, lock, disturbed>>
          /\ head' = head + 1 /\ landed' = landed \cup ({r} \cap Holding)
      BY <1>1, <2>5 DEF CommitLands, In, Advance, Types
    <3>2. child'[r].kind = "commit" /\ child'[r].phase = "done" /\ ~Locking(r)
      BY <3>1, <2>5 DEF Process, CommitLands, In, Locking
    <3>3. r \in Holding => pc[r] = "commit"
      BY <1>1, <3>1 DEF Sound, OwnCall
    <3>4. OwnCall(r)' /\ Snapshot(r)' /\ HoldsLock(r)'
      BY <1>1, <1>2, <3>1, <3>2, <3>3
      DEF Sound, OwnCall, Snapshot, Rollback, HoldsLock, Holding, Working
    <3>5. Landing(r)' /\ Calm(r)'
      <4>1. saved[r] # None => saved[r].head \in Nat
        BY DEF Types
      <4>2. r \in landed => pc[r] \in Working
        BY DEF Sound, Landing, Working
      <4>3. r \in Holding' <=> r \in Holding
        BY <1>2 DEF Holding
      <4>4. Landing(r)'
        BY <1>2, <3>1, <3>2, <3>3, <4>1, <4>3 DEF Types, Sound, Landing
      <4>5. Calm(r)'
        BY <1>2, <3>1, <3>2, <3>3, <4>3 DEF Sound, Calm, Added, Locking
      <4>6. QED
        BY <4>4, <4>5
    <3>6. QED
      BY <1>4, <3>4, <3>5 DEF Sound
  <2>6. CASE OrphanEnds(r)
    <3>1. r \notin Holding /\ SameChild(r) /\ SameMemory(r)
      BY <1>2, <2>6 DEF OrphanEnds, Types, SameChild, SameMemory, ghosts
    <3>2. QED
      BY <1>2, <1>4, <3>1, IdleStaySound
  <2>7. QED
    BY <2>1, <2>2, <2>3, <2>4, <2>5, <2>6
<1>5. QED
  BY <1>3, <1>4

\* An agent waits for the lock, so it never changes the index under a rollback.
LEMMA AgentStaysSound ==
  ASSUME Types, \A q \in Request : Sound(q), AgentStep, NEW q \in Request
  PROVE  Sound(q)'
<1> USE GitCommitAssumption
<1>1. /\ UNCHANGED <<child, pc, quarantined, saved, staged, landed>>
      /\ Holding \subseteq disturbed' /\ head' \in Nat /\ head <= head'
  BY DEF AgentStep, queueVars, Types
<1>2. OwnCall(q)' /\ Snapshot(q)'
  BY <1>1 DEF Sound, OwnCall, Snapshot, Rollback, Holding
<1>3. Landing(q)'
  <2>1. saved[q] # None => saved[q].head \in Nat
    BY DEF Types
  <2>2. QED
    BY <1>1, <2>1 DEF Sound, Types, Landing, Holding
<1>4. HoldsLock(q)'
  BY <1>1 DEF Sound, HoldsLock, AgentStep, Holder
<1>5. Calm(q)'
  BY <1>1 DEF Calm, Holding
<1>6. QED
  BY <1>2, <1>3, <1>4, <1>5 DEF Sound

-----------------------------------------------------------------------------
(* Types and cancellation in every step *)

LEMMA TypesStep == ASSUME IInv, [Next]_vars PROVE Types'
<1> USE DEF IInv
<1>1. CASE UNCHANGED vars
  BY <1>1 DEF Types, vars, repo, queueVars, cancelVars
<1>2. ASSUME NEW r \in Request, Submit(r) PROVE Types'
  <2>1. pc' \in [Request -> Place]
    BY <1>2 DEF Types, Submit, GoTo, Place
  <2>2. /\ child' \in [Request -> Process \cup {None}] /\ aborted' \subseteq CommitAll
        /\ controllers' \in [Ids -> CommitAll \cup {None}]
    <3>1. CASE r \in CommitAll
      <4>1. controllers[Key[r]] \in CommitAll \cup {None}
        BY <3>1 DEF Types, Ids
      <4>2. Raise({controllers[Key[r]]} \ {None})
            /\ controllers' = [controllers EXCEPT ![Key[r]] = r]
        BY <1>2, <3>1 DEF Submit
      <4>3. QED
        BY <3>1, <4>1, <4>2, RaiseTypes DEF Types
    <3>2. CASE r \notin CommitAll
      BY <1>2, <3>2 DEF Types, Submit, cancelVars
    <3>3. QED
      BY <3>1, <3>2
  <2>3. QED
    BY <1>2, <2>1, <2>2 DEF Types, Submit, repo, queueVars
<1>3. ASSUME NEW r \in Request, Discover(r) PROVE Types'
  BY <1>3 DEF Types, Discover, Answer, End, GoTo, Place, repo
<1>4. ASSUME NEW r \in Request, TakeTurn(r) PROVE Types'
  <2>1. OwnTypes'
    BY <1>4, FinishTypes, OnwardTypes DEF TakeTurn, OwnTypes, Types, Place, Working
  <2>2. QED
    BY <1>4, <2>1 DEF Types, OwnTypes, TakeTurn, repo
<1>5. ASSUME NEW r \in Request, WorkStep(r) PROVE Types'
  <2>1. CASE Call(r, "add") \/ Call(r, "commit")
    BY <2>1 DEF Types, Call, elsewhere, memory, Process
  <2>2. CASE Timeout(r)
    <3>1. [child[r] EXCEPT !.stopped = "timeout"] \in Process
      BY <2>2 DEF Types, Process, Timeout, Calling
    <3>2. QED
      BY <2>2, <3>1 DEF Types, Timeout, elsewhere, memory
  <2>3. QED
    BY <1>5, <2>1, <2>2, WorkTypes DEF WorkStep
<1>6. ASSUME NEW r \in Request, Git(r) PROVE Types'
  BY <1>6, GitTypes, WorkTypes DEF Git
<1>7. ASSUME NEW k \in Ids, Cancel(k) PROVE Types'
  <2>1. {controllers[k]} \in SUBSET CommitAll
    BY <1>7 DEF Types, Cancel
  <2>2. QED
    BY <1>7, <2>1, RaiseTypes DEF Types, Cancel, repo, queueVars
<1>8. CASE AgentStep
  <2>1. index' \in SUBSET Change
    BY <1>8 DEF Types, AgentStep, Change
  <2>2. head' \in Nat
    BY <1>8 DEF Types, AgentStep
  <2>3. QED
    BY <1>8, <2>1, <2>2 DEF Types, AgentStep, queueVars, cancelVars
<1>9. QED
  BY <1>1, <1>2, <1>3, <1>4, <1>5, <1>6, <1>7, <1>8 DEF Next, Host, WorkStep

\* What a step may do to the registered requests.
Registers(r) ==
  /\ pc[r] = "new" /\ pc' = [pc EXCEPT ![r] = "discover"]
  /\ IF r \in CommitAll
     THEN /\ aborted' = aborted \cup ({controllers[Key[r]]} \ {None})
          /\ controllers' = [controllers EXCEPT ![Key[r]] = r]
     ELSE UNCHANGED cancelVars
Unregisters(k) ==
  /\ aborted' = aborted \cup {controllers[k]} /\ UNCHANGED pc
  /\ controllers' = [controllers EXCEPT ![k] = None]
Ends(r) ==
  /\ pc' = [pc EXCEPT ![r] = "over"] /\ UNCHANGED aborted
  /\ controllers' = IF r \in CommitAll THEN End(r) ELSE controllers
Goes(r) ==
  /\ \E p \in Place : pc' = [pc EXCEPT ![r] = p]
  /\ pc[r] \notin {"new", "over"} /\ UNCHANGED cancelVars

LEMMA FinishEnds ==
  ASSUME NEW r \in Request, Finish(r), UNCHANGED aborted PROVE Ends(r)
  BY DEF Finish, Answer, GoTo, Ends

LEMMA FailWorkEndsOrGoes ==
  ASSUME NEW r \in Request, r \in Holding, FailWork(r), UNCHANGED aborted
  PROVE  Ends(r) \/ Goes(r)
  BY FinishEnds DEF FailWork, Onward, GoTo, Goes, cancelVars, Holding, Working, Place

LEMMA WorkEndsOrGoes ==
  ASSUME Types, NEW r \in Request, WorkStep(r)
  PROVE  Ends(r) \/ Goes(r)
<1>1. r \in Holding /\ UNCHANGED aborted /\ pc[r] \in Working
  <2>1. r \in Holding
    BY WorkerHolds
  <2>2. UNCHANGED aborted
    BY DEF WorkStep, Prepare, Capture, Call, CallRefused, Answered, Broken, Collide,
       Timeout, Unconfirmed, WriteTree, Check, RollbackLocks, Compare, Verify, Install, Decline,
       RollbackFails, EndRollback, elsewhere
  <2>3. QED
    BY <2>1, <2>2 DEF Holding
<1>2. CASE Finish(r) \/ FailWork(r)
  BY <1>1, <1>2, FinishEnds, FailWorkEndsOrGoes
<1>3. CASE \E p \in Place : GoTo(r, p) /\ UNCHANGED <<controllers, tail>>
  BY <1>1, <1>3 DEF GoTo, Goes, cancelVars, Working
<1>4. CASE UNCHANGED <<pc, controllers>>
  <2>1. pc' = [pc EXCEPT ![r] = pc[r]] /\ pc[r] \in Place
    BY <1>4 DEF Types
  <2>2. QED
    BY <1>1, <1>4, <2>1 DEF Goes, cancelVars, Working
<1>5. \/ Finish(r) \/ FailWork(r)
      \/ \E p \in Place : GoTo(r, p) /\ UNCHANGED <<controllers, tail>>
      \/ UNCHANGED <<pc, controllers>>
  <2>1. CASE Prepare(r) \/ Capture(r) \/ WriteTree(r) \/ Check(r)
    BY <2>1 DEF Prepare, Capture, WriteTree, Check, Onward, Place, Working
  <2>2. CASE Answered(r) \/ Collide(r)
    BY <1>1, <2>2 DEF Answered, Succeed, Collide, Onward, Place, Working
  <2>3. CASE RollbackLocks(r) \/ Compare(r) \/ Verify(r)
    BY <2>3 DEF RollbackLocks, Compare, Verify, Onward, Place, Working
  <2>4. CASE Call(r, "add") \/ Call(r, "commit") \/ Timeout(r)
    BY <2>4 DEF Call, Timeout
  <2>5. CASE CallRefused(r) \/ Broken(r) \/ Unconfirmed(r)
    BY <2>5 DEF CallRefused, Broken, Unconfirmed
  <2>6. CASE Install(r) \/ Decline(r) \/ RollbackFails(r)
    BY <2>6 DEF Install, Decline, Differs, RollbackFails, EndRollback
  <2>7. QED
    BY <2>1, <2>2, <2>3, <2>4, <2>5, <2>6 DEF WorkStep
<1>6. QED
  BY <1>2, <1>3, <1>4, <1>5

LEMMA CancellableStep == ASSUME IInv, [Next]_vars PROVE Cancellable'
<1> USE GitCommitAssumption DEF IInv
<1>1. CASE UNCHANGED <<pc, cancelVars>>
  BY <1>1 DEF Cancellable, cancelVars
<1>2. ASSUME NEW r \in Request, Registers(r) PROVE Cancellable'
  <2>1. CASE r \in CommitAll
    <3> SUFFICES ASSUME NEW q \in CommitAll, pc'[q] \notin {"new", "over"}, q \notin aborted'
                 PROVE  controllers'[Key[q]] = q
      BY DEF Cancellable
    <3>1. Key[q] \in Ids /\ Key[r] \in Ids
      BY <2>1 DEF Ids
    <3>2. CASE q = r
      BY <1>2, <2>1, <3>1, <3>2 DEF Registers, Types
    <3>3. CASE q # r
      BY <1>2, <2>1, <3>1, <3>3 DEF Registers, Types, Cancellable
    <3>4. QED
      BY <3>2, <3>3
  <2>2. CASE r \notin CommitAll
    BY <1>2, <2>2 DEF Registers, Types, Cancellable, cancelVars
  <2>3. QED
    BY <2>1, <2>2
<1>3. ASSUME NEW k \in Ids, Unregisters(k) PROVE Cancellable'
  <2> SUFFICES ASSUME NEW q \in CommitAll, pc'[q] \notin {"new", "over"}, q \notin aborted'
               PROVE  controllers'[Key[q]] = q
    BY DEF Cancellable
  <2>1. Key[q] \in Ids /\ controllers[Key[q]] = q
    BY <1>3 DEF Ids, Unregisters, Cancellable
  <2>2. Key[q] # k
    BY <1>3, <2>1 DEF Unregisters
  <2>3. QED
    BY <1>3, <2>1, <2>2 DEF Unregisters, Types
<1>4. ASSUME NEW r \in Request, Ends(r) PROVE Cancellable'
  <2> SUFFICES ASSUME NEW q \in CommitAll, pc'[q] \notin {"new", "over"}, q \notin aborted'
               PROVE  controllers'[Key[q]] = q
    BY DEF Cancellable
  <2>1. q # r /\ Key[q] \in Ids /\ controllers[Key[q]] = q
    BY <1>4 DEF Ids, Ends, Types, Cancellable
  <2>2. QED
    BY <1>4, <2>1 DEF Ends, End, Types
<1>5. ASSUME NEW r \in Request, Goes(r) PROVE Cancellable'
  BY <1>5 DEF Goes, Types, Cancellable, cancelVars
<1>6. \/ UNCHANGED <<pc, cancelVars>>
      \/ \E r \in Request : Registers(r) \/ Ends(r) \/ Goes(r)
      \/ \E k \in Ids : Unregisters(k)
  <2>1. CASE UNCHANGED vars \/ AgentStep
    BY <2>1 DEF vars, AgentStep
  <2>2. ASSUME NEW r \in Request, Submit(r) PROVE Registers(r)
    BY <2>2 DEF Submit, GoTo, Raise, Registers, cancelVars
  <2>3. ASSUME NEW r \in Request, Discover(r) PROVE Ends(r) \/ Goes(r)
    BY <2>3 DEF Discover, Answer, GoTo, Ends, Goes, cancelVars, Place
  <2>4. ASSUME NEW r \in Request, TakeTurn(r) PROVE Ends(r) \/ Goes(r)
    BY <2>4, FinishEnds DEF TakeTurn, Onward, GoTo, Goes, cancelVars, Place, Working
  <2>5. ASSUME NEW r \in Request, WorkStep(r) PROVE Ends(r) \/ Goes(r)
    BY <2>5, WorkEndsOrGoes
  <2>6. ASSUME NEW r \in Request,
               \/ AddLocks(r) \/ AddInstalls(r) \/ CommitLocks(r) \/ CommitRefreshed(r) \/ HookStages(r)
               \/ CommitLands(r) \/ OrphanEnds(r)
        PROVE  UNCHANGED <<pc, cancelVars>>
    BY <2>6 DEF AddLocks, AddInstalls, CommitLocks, CommitRefreshed, HookStages, CommitLands, OrphanEnds,
       plugin
  <2>7. ASSUME NEW k \in Ids, Cancel(k) PROVE Unregisters(k)
    BY <2>7 DEF Cancel, Raise, Unregisters
  <2>8. QED
    BY <2>1, <2>2, <2>3, <2>4, <2>5, <2>6, <2>7 DEF Next, Host, Git, WorkStep
<1>7. QED
  BY <1>1, <1>2, <1>3, <1>4, <1>5, <1>6

-----------------------------------------------------------------------------
(* The invariant *)

LEMMA InvInit == Init => IInv
<1> SUFFICES ASSUME Init PROVE IInv
  OBVIOUS
<1>1. Holding = {} /\ \A r \in Request : pc[r] = "new" /\ child[r] = None
  BY DEF Init, Holding, Working
<1>2. \A r \in Request : saved[r] = None /\ staged[r] = None /\ r \notin landed
  BY DEF Init
<1>3. Closed /\ \A r \in Request : Sound(r)
  BY <1>1, <1>2 DEF Closed, Sound, OwnCall, Snapshot, Rollback, Landing, HoldsLock, Calm
<1>4. Children /\ Memory /\ Locked /\ Undisturbed
  BY <1>3, SoundParts
<1>5. Cancellable
  BY <1>1, GitCommitAssumption DEF Cancellable
<1>6. QED
  BY <1>4, <1>5, TypesInit, QueueInit DEF IInv

\* The work of a request leaves nobody sound who was not the holder, and closes the
\* queue only when it ends.
LEMMA WorkKeepsSound ==
  ASSUME IInv, NEW r \in Request, WorkStep(r)
  PROVE  Closed' /\ \A q \in Request : Sound(q)'
<1> USE DEF IInv
<1>1. /\ Closed /\ \A q \in Request : Sound(q)
      /\ r \in Holding /\ \A q \in Holding : q = r
      /\ ~quarantined
  BY SoundParts, WorkerHolds, ActsAlone DEF Closed
<1>2. head' = head /\ head \in Nat
  BY DEF Types, WorkStep, Prepare, Capture, Call, CallRefused, Answered, Broken, Collide,
     Timeout, Unconfirmed, WriteTree, Check, RollbackLocks, Compare, Verify, Install, Decline,
     RollbackFails, EndRollback, elsewhere
<1>3. Sound(r)'
  BY <1>1, WorkStaysSound
<1>4. ASSUME NEW q \in Request, q # r PROVE Sound(q)' /\ q \notin Holding'
  <2>1. q \notin Holding
    BY <1>1, <1>4
  <2>2. QED
    BY <1>1, <1>2, <1>4, <2>1, WorkOthers, IdleStaySound
<1>5. Closed'
  <2>1. CASE Unconfirmed(r)
    <3>1. r \notin Holding'
      BY <1>1, <2>1, FinishOthers DEF Types, Unconfirmed, Finish, Answer, GoTo, Holding, Working
    <3>2. QED
      BY <1>4, <3>1 DEF Closed, Holding
  <2>2. CASE UNCHANGED quarantined
    BY <1>1, <2>2 DEF Closed
  <2>3. QED
    BY <2>1, <2>2 DEF WorkStep, Prepare, Capture, Call, CallRefused, Answered, Broken,
       Collide, Timeout, WriteTree, Check, RollbackLocks, Compare, Verify, Install, Decline,
       RollbackFails, EndRollback, elsewhere
<1>6. QED
  BY <1>3, <1>4, <1>5

LEMMA SoundStep == ASSUME IInv, [Next]_vars PROVE Closed' /\ \A q \in Request : Sound(q)'
<1> USE DEF IInv
<1>1. Closed /\ \A q \in Request : Sound(q)
  BY SoundParts
<1>2. CASE UNCHANGED vars
  BY <1>1, <1>2 DEF vars, repo, queueVars, ghosts, Closed, Sound, OwnCall, Snapshot, Rollback,
     Landing, HoldsLock, Calm, Added, Locking, Holding
<1>3. ASSUME NEW r \in Request, Submit(r) PROVE Closed' /\ \A q \in Request : Sound(q)'
  <2>1. Closed'
    BY <1>1, <1>3 DEF Closed, Holding, Working, Submit, GoTo, Types, queueVars
  <2>2. QED
    BY <1>1, <1>3, <2>1, SubmitStaysSound
<1>4. ASSUME NEW r \in Request, Discover(r) PROVE Closed' /\ \A q \in Request : Sound(q)'
  <2>1. Closed'
    BY <1>1, <1>4 DEF Closed, Holding, Working, Discover, Answer, GoTo, Types
  <2>2. QED
    BY <1>1, <1>4, <2>1, DiscoverStaysSound
<1>5. ASSUME NEW r \in Request, TakeTurn(r) PROVE Closed' /\ \A q \in Request : Sound(q)'
  <2>1. Closed'
    BY <1>1, <1>5 DEF Closed, Holding, Working, TakeTurn, Safe, Finish, Answer, Onward,
       GoTo, Types
  <2>2. QED
    BY <1>1, <1>5, <2>1, TakeTurnStaysSound
<1>6. ASSUME NEW r \in Request, WorkStep(r) PROVE Closed' /\ \A q \in Request : Sound(q)'
  BY <1>6, WorkKeepsSound
<1>7. ASSUME NEW r \in Request,
             \/ AddLocks(r) \/ AddInstalls(r) \/ CommitLocks(r) \/ CommitRefreshed(r) \/ HookStages(r)
             \/ CommitLands(r) \/ OrphanEnds(r)
      PROVE  Closed' /\ \A q \in Request : Sound(q)'
  <2>1. Closed'
    BY <1>1, <1>7 DEF Closed, Holding, AddLocks, AddInstalls, CommitLocks, CommitRefreshed, HookStages,
       CommitLands, OrphanEnds, plugin, queueVars
  <2>2. QED
    BY <1>1, <1>7, <2>1, GitStaysSound
<1>8. ASSUME NEW k \in Ids, Cancel(k) PROVE Closed' /\ \A q \in Request : Sound(q)'
  <2>1. Closed'
    BY <1>1, <1>8 DEF Closed, Holding, Cancel, queueVars
  <2>2. QED
    BY <1>1, <1>8, <2>1, CancelStaysSound
<1>9. CASE AgentStep
  <2>1. Closed'
    BY <1>1, <1>9 DEF Closed, Holding, AgentStep, queueVars
  <2>2. QED
    BY <1>1, <1>9, <2>1, AgentStaysSound
<1>10. QED
  BY <1>2, <1>3, <1>4, <1>5, <1>6, <1>7, <1>8, <1>9 DEF Next, Host, Git, WorkStep

LEMMA InvStep == IInv /\ [Next]_vars => IInv'
<1> SUFFICES ASSUME IInv, [Next]_vars PROVE IInv'
  OBVIOUS
<1>1. Types' /\ Cancellable'
  BY TypesStep, CancellableStep
<1>2. Queue'
  BY NextQueueStep, QueueStepKeepsQueue DEF IInv, Queue
<1>3. Closed' /\ \A q \in Request : Sound(q)'
  BY SoundStep
<1>4. Children' /\ Memory' /\ Locked' /\ Undisturbed'
  BY <1>3 DEF Children, Memory, Locked, Undisturbed, Sound
<1>5. QED
  BY <1>1, <1>2, <1>4 DEF IInv

LEMMA InvHolds == Spec => []IInv
<1>1. QED
  BY InvInit, InvStep, PTL DEF Spec

-----------------------------------------------------------------------------
(* Theorems *)

\* The types of the queue, the repository and what requests know.
THEOREM TypeCorrect == Spec => []Types
<1>1. IInv => Types
  BY DEF IInv
<1>2. QED
  BY <1>1, InvHolds, PTL

\* Mutations of a repository never overlap, not even with a process that an earlier
\* one left behind: whoever begins found its predecessor over and the queue open.
THEOREM MutationsAlone == Spec => []Alone
<1>1. IInv => Alone
  <2> SUFFICES ASSUME IInv, NEW r \in Request, NEW q \in Request, r # q,
                      r \in Holding \/ child[r] # None, q \in Holding
               PROVE  FALSE
    BY DEF Alone
  <2>1. QED
    BY ActsAlone DEF IInv
<1>2. QED
  BY <1>1, InvHolds, PTL

\* A cancellation reaches the request in flight under its id, whatever other tries
\* with that id did before or after.
THEOREM AlwaysCancellable == Spec => []Cancellable
<1>1. IInv => Cancellable
  BY DEF IInv
<1>2. QED
  BY <1>1, InvHolds, PTL

\* Who installs the saved index has compared the index and HEAD, and holds the lock.
LEMMA RollbackStep ==
  ASSUME IInv, [Next]_vars
  PROVE  [\A r \in CommitAll : Restores(r) => index = staged[r] /\ r \notin landed]_vars
<1> USE DEF IInv
<1> SUFFICES ASSUME NEW r \in CommitAll, Restores(r)
             PROVE  index = staged[r] /\ r \notin landed
  OBVIOUS
<1>1. r \in Request /\ pc[r] = "install" /\ r \in Holding /\ Sound(r)
  BY GitCommitAssumption, SoundParts DEF Restores, Holding, Working
<1>2. lock = "rollback" /\ index = staged[r] /\ saved[r] # None
  BY <1>1 DEF Sound, HoldsLock, Snapshot, Rollback
<1>3. QED
  BY <1>1, <1>2 DEF Sound, Landing

\* A rollback takes back exactly what the add of its request staged, and never the
\* index of a commit that landed.
THEOREM RollbackExact == Spec => RollbackIsExact
<1>1. IInv /\ [Next]_vars =>
        [\A r \in CommitAll : Restores(r) => index = staged[r] /\ r \notin landed]_vars
  BY RollbackStep
<1>2. QED
  BY <1>1, InvHolds, PTL DEF Spec, RollbackIsExact

\* Only the end of a rollback answers a request that knows both trees.
LEMMA FailureStep ==
  ASSUME IInv, [Next]_vars
  PROVE  [\A r \in CommitAll :
            /\ pc[r] # "over" /\ pc'[r] = "over" /\ ~quarantined'
            /\ saved[r] # None /\ staged[r] # None
            /\ r \notin landed \cup disturbed /\ lock # "stale"
            => index' = saved[r].index \/ (RollbackFails(r) /\ ~Differs(r))]_vars
<1> USE DEF IInv
<1> SUFFICES ASSUME NEW r \in CommitAll, pc[r] # "over", pc'[r] = "over",
                    ~quarantined', saved[r] # None, staged[r] # None,
                    r \notin landed \cup disturbed, lock # "stale"
             PROVE  index' = saved[r].index \/ (RollbackFails(r) /\ ~Differs(r))
  OBVIOUS
<1>1. r \in Request /\ Sound(r)
  BY GitCommitAssumption, SoundParts
<1>2. /\ pc[r] \in {"check", "commit"} \cup Rollback
      /\ r \in Holding
  BY <1>1 DEF Sound, Snapshot, Rollback, Holding, Working
<1>3. /\ pc[r] \in {"check", "commit", "rollback", "compare"} => index = staged[r]
      /\ pc[r] \in {"check", "commit", "rollback"} => lock \in {None, "stale"} \/ Locking(r)
      /\ saved[r].head = head
  BY <1>1, <1>2 DEF Sound, Calm, Added, Locking
<1>4. WorkStep(r)
  <2>1. pc' # pc
    OBVIOUS
  <2>2. ASSUME NEW q \in Request, Submit(q) \/ Discover(q) \/ TakeTurn(q) PROVE FALSE
    <3>1. q # r
      BY <1>2, <2>2 DEF Submit, Discover, TakeTurn, Rollback
    <3>2. QED
      BY <1>1, <2>2, <3>1, FinishOthers, OnwardOthers
      DEF Submit, Discover, Answer, TakeTurn, GoTo, Types
  <2>3. ASSUME NEW q \in Request, WorkStep(q) PROVE q = r
    BY <1>1, <2>3, WorkOthers
  <2>4. QED
    BY <2>1, <2>2, <2>3 DEF Next, Host, Git, WorkStep, AddLocks, AddInstalls, CommitLocks, CommitRefreshed,
       HookStages, CommitLands, OrphanEnds, plugin, vars, Cancel, AgentStep
<1>5. ~FailWork(r)
  BY <1>1, OnwardPlace DEF FailWork, Working
<1>6. CASE Answered(r)
  <2>1. Succeed(r) /\ child[r] # None /\ child[r].phase = "done"
    BY <1>5, <1>6 DEF Answered, Calling
  <2>2. child[r].kind = pc[r]
    BY <1>1, <1>2, <2>1 DEF Sound, OwnCall
  <2>3. pc[r] = "commit"
    <3>1. ~quarantined
      BY <1>2 DEF Children, Closed
    <3>2. QED
      BY <1>1, <1>2, <2>1, <3>1 DEF Sound, OwnCall, Rollback
  <2>4. QED
    BY <1>1, <1>2, <2>1, <2>2, <2>3 DEF Sound, Landing
<1>7. CASE Collide(r)
  BY <1>1, <1>2, <1>5, <1>7, OnwardPlace DEF Collide, Holding
<1>8. CASE Install(r)
  BY <1>8 DEF Install
<1>9. ~Differs(r)
  <2>1. pc[r] = "rollback" => child[r] = None
    BY <1>1, <1>2, NoChildOutsideCalls DEF Children, Closed
  <2>2. pc[r] = "rollback" => lock = None
    BY <1>3, <2>1 DEF Locking
  <2>3. QED
    BY <1>3, <2>2 DEF Differs, LockTaken, HeadKept, AsStaged
<1>10. CASE Decline(r) \/ RollbackFails(r)
  BY <1>9, <1>10 DEF Decline
<1>11. CASE Unconfirmed(r)
  BY <1>11 DEF Unconfirmed
<1>12. CASE Check(r) \/ RollbackLocks(r) \/ Compare(r) \/ Verify(r)
  BY <1>1, <1>5, <1>12, OnwardPlace DEF Check, RollbackLocks, Compare, Verify, Working
<1>13. CASE \/ Prepare(r) \/ Capture(r) \/ WriteTree(r) \/ Call(r, "add")
            \/ Call(r, "commit") \/ CallRefused(r) \/ Broken(r) \/ Timeout(r)
  BY <1>2, <1>5, <1>13
  DEF Prepare, Capture, WriteTree, Call, CallRefused, Broken, Timeout, Rollback
<1>14. QED
  BY <1>4, <1>6, <1>7, <1>8, <1>9, <1>10, <1>11, <1>12, <1>13 DEF WorkStep

\* A commit-all that fails once the tree of its add is known leaves the index it
\* found, when nobody interfered, its commit did not land, no call of its rollback
\* failed and no killed Git of its own left index.lock.
THEOREM FailureIsUndone == Spec => FailureRestores
<1>1. IInv /\ [Next]_vars =>
        [\A r \in CommitAll :
            /\ pc[r] # "over" /\ pc'[r] = "over" /\ ~quarantined'
            /\ saved[r] # None /\ staged[r] # None
            /\ r \notin landed \cup disturbed /\ lock # "stale"
            => index' = saved[r].index \/ (RollbackFails(r) /\ ~Differs(r))]_vars
  BY FailureStep
<1>2. QED
  BY <1>1, InvHolds, PTL DEF Spec, FailureRestores

=============================================================================
