----------------------------- MODULE HECReplay -----------------------------
(***************************************************************************)
(* The two files of the HEC writer across restarts: what a failing flush   *)
(* leaves in the DLQ and in the persistent buffer, the replay of both when *)
(* NewHECWriter starts, and crashes at any point (output/hec.go:102-219,   *)
(* 527-756). The concurrent life of the writer in between is HECWriter;    *)
(* here one flush at a time runs, with the order of its file writes.       *)
(*                                                                         *)
(* The persistent buffer is a sequence of cells: a cell is the line of an  *)
(* event or as many NUL bytes as a line has. The file is opened without    *)
(* O_APPEND: writes go to an offset that Truncate(0) does not move, and    *)
(* the gap they leave reads as NULs in front of the next line. The DLQ is  *)
(* opened with O_APPEND and is a sequence of entries, the sets of events   *)
(* that were written as one line.                                          *)
(***************************************************************************)
EXTENDS Integers, FiniteSets, SequencesExt

CONSTANTS
  Events,            (* each of them is flushed once                       *)
  NUL,               (* a cell of NUL bytes                                *)
  BatchSize,
  ScanLimit,         (* bufio.MaxScanTokenSize, in cells: 64 KiB           *)
  DLQ,               (* BOOLEAN: HECDLQPath is set                         *)
  PersistentBuf,     (* BOOLEAN: HECPersistentBuf                          *)
  SplunkUp           (* BOOLEAN: every POST is answered 2xx in the end     *)

ASSUME ReplayAssumption ==
  /\ NUL \notin Events
  /\ BatchSize \in Nat \ {0} /\ ScanLimit \in Nat \ {0}
  /\ {DLQ, PersistentBuf, SplunkUp} \subseteq BOOLEAN

VARIABLES
  pc,
  fresh,             (* events no flush has taken yet                      *)
  flush,             (* the events of the running flush, {} if there is none*)
  round,             (* 1: the batch failed, 2: single events failed       *)
  buf,               (* the cells of the persistent buffer file            *)
  offset,            (* cells before its file position                     *)
  dlq,               (* the entries of the DLQ file                        *)
  queue,             (* replay: what is left to send, as POSTs             *)
  anySent,           (* replay: successfulEvents / successfulLines # {}    *)
  received           (* events Splunk has received                         *)

files  == <<buf, offset, dlq>>
replay == <<queue, anySent>>
vars   == <<pc, fresh, flush, round, files, replay, received>>

(* "down": no process. "replayBuffer", "replayDLQ": inside the functions,  *)
(* fileMutex held. "stuck": waiting for fileMutex while holding it.        *)
PC == {"down", "opened", "replayBuffer", "bufferDone", "replayDLQ",
       "stuck", "running", "dlq", "save", "singly"}

Goto(from, to) == pc = from /\ pc' = to

TypeOK ==
  /\ pc \in PC
  /\ fresh \subseteq Events
  /\ flush \subseteq Events
  /\ round \in {1, 2}
  /\ buf \in Seq(Events \cup {NUL})
  /\ offset \in Nat
  /\ dlq \in Seq(SUBSET Events)
  /\ queue \in Seq(SUBSET Events)
  /\ anySent \in BOOLEAN
  /\ received \subseteq Events

Init ==
  /\ pc = "down"
  /\ fresh = Events /\ flush = {} /\ round = 1
  /\ buf = <<>> /\ offset = 0 /\ dlq = <<>>
  /\ queue = <<>> /\ anySent = FALSE
  /\ received = {}

-----------------------------------------------------------------------------
(* Reading the files with a bufio.Scanner                                  *)

LineEnds == {i \in DOMAIN buf : buf[i] # NUL}
LineStart(i) == 1 + Max({0} \cup {j \in LineEnds : j < i})

(* A line that is longer than the limit ends the scan.                     *)
TooLong == {i \in LineEnds : i - LineStart(i) + 1 > ScanLimit}
ScanEnd == IF TooLong = {} THEN Len(buf) + 1 ELSE Min(TooLong)

(* The lines that parse as events: no NULs in front.                       *)
ReadableLines == {i \in LineEnds : i < ScanEnd /\ LineStart(i) = i}

ScanOffsetLastIndex ==
  IF TooLong = {} THEN Len(buf) - 1
                  ELSE LineStart(Min(TooLong)) - 1 + ScanLimit

ScanOffsetLastReadable == Max({0} \cup ReadableLines)

(* Cells the scanner has consumed when it stops: all of them, or the limit *)
(* counted from the start of the line that is too long.                    *)
ScanOffset ==
  IF TooLong = {} THEN Len(buf) ELSE LineStart(Min(TooLong)) - 1 + ScanLimit

(* The parsed events in the order of the file, in n groups of BatchSize.   *)
Rank(i)  == Cardinality({j \in ReadableLines : j <= i})
Group(k) == {i \in ReadableLines :
               (k - 1) * BatchSize < Rank(i) /\ Rank(i) <= k * BatchSize}
Posts(n) == [k \in 1 .. n |-> {buf[i] : i \in Group(k)}]

BufferPostsFullOnly == Posts(Cardinality(ReadableLines) \div BatchSize)

(* The last group may be smaller.                                          *)
BufferPosts ==
  Posts((Cardinality(ReadableLines) + BatchSize - 1) \div BatchSize)

(* The DLQ's entries, a POST each, up to the first whose line is too long. *)
DLQPosts ==
  LET long == {i \in DOMAIN dlq : Cardinality(dlq[i]) > ScanLimit}
  IN  IF long = {} THEN dlq ELSE SubSeq(dlq, 1, Min(long) - 1)

-----------------------------------------------------------------------------
(* Startup: NewHECWriter                                                   *)

(* The files are opened, the position of the persistent buffer is 0.       *)
Open ==
  /\ Goto("down", "opened")
  /\ offset' = 0
  /\ UNCHANGED <<fresh, flush, round, buf, dlq, replay, received>>

StartBufferReplay ==
  /\ Goto("opened", IF PersistentBuf THEN "replayBuffer" ELSE "bufferDone")
  /\ queue' = IF PersistentBuf THEN BufferPosts ELSE <<>>
  /\ offset' = IF PersistentBuf THEN ScanOffset ELSE offset
  /\ anySent' = FALSE
  /\ UNCHANGED <<fresh, flush, round, buf, dlq, received>>

StartDLQReplay ==
  /\ Goto("bufferDone", IF DLQ THEN "replayDLQ" ELSE "running")
  /\ queue' = IF DLQ THEN DLQPosts ELSE <<>>
  /\ anySent' = FALSE
  /\ UNCHANGED <<fresh, flush, round, files, received>>

(* replayBatch: postToHEC succeeds.                                        *)
ReplaySent ==
  /\ pc \in {"replayBuffer", "replayDLQ"} /\ queue # <<>>
  /\ received' = received \cup Head(queue)
  /\ queue' = Tail(queue)
  /\ anySent' = TRUE
  /\ UNCHANGED <<pc, fresh, flush, round, files>>

ReplayFailedGoesOn ==
  /\ ~SplunkUp
  /\ pc \in {"replayBuffer", "replayDLQ"} /\ queue # <<>>
  /\ queue' = Tail(queue)
  /\ UNCHANGED <<pc, fresh, flush, round, files, anySent, received>>

(* postToHEC fails: it calls writeToDLQ, which locks fileMutex before it   *)
(* looks whether there is a DLQ, and the replay holds that mutex. An       *)
(* unanswered POST may have been received.                                 *)
ReplayFailed ==
  /\ ~SplunkUp
  /\ pc \in {"replayBuffer", "replayDLQ"} /\ queue # <<>>
  /\ pc' = "stuck"
  /\ received' \in {received, received \cup Head(queue)}
  /\ UNCHANGED <<fresh, flush, round, files, replay>>

(* Everything was tried. One success and the whole file is truncated; the  *)
(* file position stays where the scan ended.                               *)
EndBufferReplay ==
  /\ queue = <<>>
  /\ Goto("replayBuffer", "bufferDone")
  /\ buf' = IF anySent THEN <<>> ELSE buf
  /\ anySent' = FALSE
  /\ UNCHANGED <<fresh, flush, round, offset, dlq, queue, received>>

EndDLQReplay ==
  /\ queue = <<>>
  /\ Goto("replayDLQ", "running")
  /\ dlq' = IF anySent THEN <<>> ELSE dlq
  /\ anySent' = FALSE
  /\ UNCHANGED <<fresh, flush, round, buf, offset, queue, received>>

-----------------------------------------------------------------------------
(* A flush while the writer runs                                           *)

FlushSent ==
  /\ pc = "running"
  /\ \E es \in SUBSET fresh \ {{}} :
       /\ IsFiniteSet(es) /\ Cardinality(es) <= BatchSize
       /\ fresh' = fresh \ es
       /\ received' = received \cup es
  /\ UNCHANGED <<pc, flush, round, files, replay>>

(* The batch failed, or the breaker is open and the DLQ is passed over.    *)
FlushFails ==
  /\ ~SplunkUp
  /\ \E es \in SUBSET fresh \ {{}} :
       /\ IsFiniteSet(es) /\ Cardinality(es) <= BatchSize
       /\ fresh' = fresh \ es /\ flush' = es
  /\ \E to \in {"dlq", "save"} : Goto("running", to)
  /\ round' = 1
  /\ UNCHANGED <<files, replay, received>>

WriteToDLQ ==
  /\ Goto("dlq", "save")
  /\ dlq' = IF DLQ THEN Append(dlq, flush) ELSE dlq
  /\ UNCHANGED <<fresh, flush, round, buf, offset, replay, received>>

(* The file after a write at the offset: over old cells, or after a gap.   *)
Written(cells) ==
  [i \in 1 .. Max({Len(buf), offset + Len(cells)}) |->
     IF i > offset /\ i <= offset + Len(cells) THEN cells[i - offset]
     ELSE IF i <= Len(buf) THEN buf[i] ELSE NUL]

(* A crash may leave the first lines of it only.                           *)
SaveToPersistentBuffer ==
  /\ \/ /\ Goto("save", IF round = 1 THEN "singly" ELSE "running")
        /\ buf' = IF PersistentBuf THEN Written(SetToSeq(flush)) ELSE buf
        /\ offset' = IF PersistentBuf THEN offset + Cardinality(flush)
                                      ELSE offset
        /\ flush' = IF round = 1 THEN flush ELSE {}
     \/ /\ PersistentBuf /\ Goto("save", "down")
        /\ \E n \in 1 .. Cardinality(flush) :
             buf' = Written(SubSeq(SetToSeq(flush), 1, n))
        /\ offset' = 0 /\ flush' = {}
  /\ UNCHANGED <<fresh, round, dlq, replay, received>>

(* The individual retries: what still fails goes to the files again. Those *)
(* are counted as not received, a batch that failed likewise.              *)
RetrySingly ==
  /\ \E bad \in SUBSET flush :
       /\ received' = received \cup (flush \ bad)
       /\ flush' = bad
       /\ Goto("singly", IF bad = {} THEN "running" ELSE "dlq")
  /\ round' = 2
  /\ UNCHANGED <<fresh, files, replay>>

(* The process dies, or is killed and started again by its operator; what  *)
(* it had in memory is gone.                                               *)
Crash ==
  /\ pc # "down"
  /\ pc' = "down"
  /\ flush' = {} /\ queue' = <<>> /\ anySent' = FALSE
  /\ UNCHANGED <<fresh, round, files, received>>

Startup ==
  \/ Open \/ StartBufferReplay \/ StartDLQReplay
  \/ ReplaySent \/ ReplayFailed \/ EndBufferReplay \/ EndDLQReplay

Running ==
  \/ FlushSent \/ FlushFails \/ WriteToDLQ \/ SaveToPersistentBuffer
  \/ RetrySingly

Next == Startup \/ Running \/ Crash

Spec == Init /\ [][Next]_vars

(* A process that was started goes on with its startup.                    *)
FairSpec == Spec /\ WF_vars(Startup)

-----------------------------------------------------------------------------
(* What replay promises                                                    *)

(* Truncating the DLQ loses nothing: whatever crashed, failed or was       *)
(* retried before, every event in it has been received by then             *)
(* (hec.go:680-684, 745). It holds while every entry's line fits the       *)
(* scanner, and because a failing replay never gets to the truncation.     *)
TruncatedDLQWasSent ==
  [][\A i \in DOMAIN dlq : dlq' = <<>> => dlq[i] \subseteq received]_vars

(* The same of the persistent buffer, of the lines the scanner can read:   *)
(* the events of a last, smaller batch are sent too (hec.go:581-606).      *)
ReadableSentBeforeTruncation ==
  [][buf # <<>> /\ buf' = <<>>
       => \A i \in ReadableLines : buf[i] \in received]_vars

(* A save neither overwrites a line that the scanner gets to nor puts one  *)
(* out of its reach. With no O_APPEND it is the scan of the replay that    *)
(* leaves the position behind those lines: at the end of the file, or      *)
(* inside the line that is too long (hec.go:145, 555, 209).                *)
Reachable == {i \in LineEnds : i < ScanEnd}

SavesKeepReachableLines ==
  [][buf' # <<>> => \A i \in Reachable :
                       i \in Reachable' /\ buf'[i] = buf[i]]_vars

-----------------------------------------------------------------------------
(* The invariants behind these                                             *)

SmallFlush == IsFiniteSet(flush) /\ Cardinality(flush) <= BatchSize

(* What a replay has read and not sent yet is still to be sent.            *)
BufferQueued ==
  pc = "replayBuffer" =>
    \A i \in ReadableLines :
      buf[i] \in received \/ \E k \in DOMAIN queue : buf[i] \in queue[k]

DLQQueued ==
  pc = "replayDLQ" =>
    \A i \in DOMAIN dlq :
      dlq[i] \subseteq received \/ \E k \in DOMAIN queue : queue[k] = dlq[i]

SmallEntries ==
  \A i \in DOMAIN dlq : IsFiniteSet(dlq[i]) /\ Cardinality(dlq[i]) <= BatchSize

(* So many cells in front of position o without a line in them that a line *)
(* behind o is too long.                                                   *)
GapBefore(o) == \A j \in LineEnds \cup {0} : j <= o => o - j >= ScanLimit

(* Once the file was scanned, the lines behind the file position, over     *)
(* which a save goes, are out of the scanner's reach; without the          *)
(* persistent buffer there is no line.                                     *)
BehindReach ==
  /\ PersistentBuf /\ pc \notin {"down", "opened"} =>
       \A i \in LineEnds :
         i > offset => GapBefore(offset) \/ \E j \in TooLong : j <= offset
  /\ ~PersistentBuf => buf = <<>>

-----------------------------------------------------------------------------
(* What the comments say and the code does not do                          *)

(* hec.go:726, "we'll truncate the file since we've successfully sent all  *)
(* events": every event in the persistent buffer was sent when it is       *)
(* truncated. A line with the gap of an earlier truncation in front is     *)
(* skipped and truncated with the others.                                  *)
TruncatedBufferWasSent ==
  [][buf # <<>> /\ buf' = <<>>
       => \A i \in LineEnds : buf[i] \in received]_vars

(* hec.go:105, "Don't fail startup, just log the warning": a startup comes *)
(* to its end, unless the process dies, whatever replay meets.             *)
StartupCompletes == pc = "opened" ~> pc \in {"running", "down"}
=============================================================================
