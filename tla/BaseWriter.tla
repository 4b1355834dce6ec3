----------------------------- MODULE BaseWriter -----------------------------
(***************************************************************************)
(* The writers that embed output.BaseWriter: named pipe, Unix socket and   *)
(* rotating file (output/output.go:125-146, pipe.go, socket.go, file.go).  *)
(* They share the event buffer, the bufio.Writer behind it and the shape   *)
(* of AddEvent, Flush and Close; kind says which of the three NewWriter    *)
(* created. Unlike the HEC writer they have no lock, though the service    *)
(* calls them from the connections' handlers, the flush ticker and the     *)
(* shutdown goroutine: the parts of a call are steps of their own here.    *)
(* What the memory model allows beyond interleaving such steps (a slice    *)
(* header or a bufio.Writer torn by a race) is left out; the properties    *)
(* speak of events that no two overlapping calls handled.                  *)
(*                                                                         *)
(* Event n is the n-th one for which AddEvent was called.                  *)
(***************************************************************************)
EXTENDS Integers, Sequences, FiniteSets

CONSTANTS
  Kinds,             (* the OutputTypes to choose from                     *)
  Handlers, Flusher, Closer,                           (* the goroutines   *)
  BatchSize,
  WriterSize,        (* messages that fit into the 64 KiB of bufio.Writer  *)
  MaxFileSize,       (* in messages                                        *)
  MaxFiles,
  MaxEvents,         (* bound: events added                                *)
  MaxMishaps,        (* bound: system calls that fail, calls that begin    *)
                     (* during another one, and times the clock is set back*)
  LastSecond         (* bound: the clock goes no further                   *)

Goroutines == Handlers \cup {Flusher, Closer}
Events     == 1 .. MaxEvents
Nobody     == 0

ASSUME WriterAssumption ==
  /\ Kinds \subseteq {"pipe", "socket", "file"}
  /\ Flusher \notin Handlers /\ Closer \notin Handlers /\ Flusher # Closer
  /\ Nobody \notin Goroutines
  /\ {BatchSize, WriterSize, MaxFileSize, MaxFiles} \subseteq Nat \ {0}
  /\ {MaxEvents, MaxMishaps, LastSecond} \subseteq Nat

VARIABLES
  kind,
  added,             (* events added so far                                *)
  array,             (* the slots of buffer's array, 0 if never used       *)
  len,               (* len(buffer)                                        *)
  call,              (* per goroutine: where its call is, the event that an*)
                     (* append stores, the length it loaded or the index of*)
                     (* Flush's loop, the length that the loop ranges over *)
  pending,           (* messages in the bufio.Writer                       *)
  broken,            (* its sticky error                                   *)
  open,              (* its descriptor is open                             *)
  owner,             (* whose pipe or socket is at OutputPath              *)
  received,          (* messages the descriptor has taken, in order        *)
  out,               (* events some descriptor has taken                   *)
  size,              (* currentSize                                        *)
  current,           (* the name of currentFile: the second it was opened  *)
  files,             (* the directory: name to last change, messages, events*)
  now,               (* the wall clock, in seconds                         *)
  setbacks,          (* history: how often it was set back                 *)
  faults,
  skipped,           (* history: lost with a bufio.Writer that a reconnect *)
                     (* replaced in the middle of their flush              *)
  retried,           (* history: in the buffer when a flush failed         *)
  overlaps,
  overlapped         (* history: in the buffer while two calls were going on*)

buffer == <<array, len>>
writer == <<pending, broken, open, owner>>
sink   == <<received, out, files>>
file   == <<size, current>>
vars   == <<kind, added, buffer, call, writer, sink, file, now, setbacks,
            faults, skipped, retried, overlaps, overlapped>>

PC == {"idle", "append", "added", "writing", "reconnect", "opening",
       "rotating", "cleaning", "clearing", "closing", "closed"}

TypeOK ==
  /\ kind \in Kinds
  /\ added \in 0 .. MaxEvents
  /\ array \in [Events -> Events \cup {0}]
  /\ len \in 0 .. MaxEvents
  /\ call \in [Goroutines ->
       [pc : PC, event : Events \cup {0}, at : 0 .. MaxEvents + 1, count : 0 .. MaxEvents]]
  /\ pending \in Seq(Events) /\ Len(pending) <= WriterSize
  /\ broken \in BOOLEAN /\ open \in BOOLEAN
  /\ owner \in Goroutines \cup {Nobody}
  /\ received \in Seq(Events)
  /\ size \in Nat /\ faults \in Nat /\ overlaps \in Nat /\ setbacks \in Nat
  /\ faults + overlaps + setbacks <= MaxMishaps
  /\ now \in 0 .. LastSecond /\ current \in 0 .. LastSecond
  /\ DOMAIN files \subseteq 0 .. LastSecond
  /\ \A n \in DOMAIN files :
       files[n] \in [mtime : 0 .. LastSecond, size : Nat, events : SUBSET Events]
  /\ out \subseteq Events /\ skipped \subseteq Events
  /\ retried \subseteq Events /\ overlapped \subseteq Events

No(pc) == [pc |-> pc, event |-> 0, at |-> 0, count |-> 0]

(* The writer has been created: its first pipe, connection or file is open.*)
Init ==
  /\ kind \in Kinds
  /\ added = 0
  /\ array = [i \in Events |-> 0] /\ len = 0
  /\ call = [g \in Goroutines |-> No("idle")]
  /\ pending = <<>> /\ broken = FALSE /\ open = TRUE /\ owner = Nobody
  /\ received = <<>> /\ out = {}
  /\ size = 0 /\ current = 0 /\ now = 0 /\ setbacks = 0
  /\ files = [n \in {0} |-> [mtime |-> 0, size |-> 0, events |-> {}]]
  /\ faults = 0 /\ skipped = {} /\ retried = {} /\ overlaps = 0 /\ overlapped = {}

At(g, pc) == call[g].pc = pc

Goto(g, from, to) == At(g, from) /\ call' = [call EXCEPT ![g].pc = to]

(* Flush returns: for Close, the descriptor is next.                       *)
Return(g, from) ==
  /\ At(g, from)
  /\ call' = [call EXCEPT ![g] = No(IF g = Closer THEN "closing" ELSE "idle")]

Fault == faults' = faults + 1

-----------------------------------------------------------------------------
(* AddEvent and the begin of Flush                                         *)

(* append loads the slice ...                                              *)
AddEvent(h) ==
  /\ added < MaxEvents /\ At(h, "idle")
  /\ added' = added + 1
  /\ call' = [call EXCEPT ![h] = [No("append") EXCEPT !.event = added', !.at = len]]
  /\ UNCHANGED <<kind, buffer, writer, sink, file, now, faults, skipped>>

(* ... and stores the element and the slice.                               *)
Store(h) ==
  /\ At(h, "append")
  /\ array' = [array EXCEPT ![call[h].at + 1] = call[h].event]
  /\ len' = call[h].at + 1
  /\ call' = [call EXCEPT ![h] = No("added")]
  /\ UNCHANGED <<kind, added, writer, sink, file, now, faults, skipped>>

(* Flush: nothing to do, or the loop over the events there are now.        *)
BeginFlush(g, from) ==
  /\ IF len = 0
     THEN Return(g, from)
     ELSE /\ At(g, from)
          /\ call' = [call EXCEPT ![g] = [No("writing") EXCEPT !.at = 1, !.count = len]]
  /\ UNCHANGED <<kind, added, buffer, writer, sink, file, now, faults, skipped>>

BatchFull(h) ==
  IF len >= BatchSize
  THEN BeginFlush(h, "added")
  ELSE /\ Return(h, "added")
       /\ UNCHANGED <<kind, added, buffer, writer, sink, file, now, faults, skipped>>

FlushFullOnly(g) ==
  /\ g = Flusher => call[Closer].pc = "idle"
  /\ len >= BatchSize
  /\ BeginFlush(g, "idle")

(* Flush by the ticker, and by Close; there are no ticks once the service  *)
(* shuts down.                                                             *)
Flush(g) ==
  /\ g = Flusher => call[Closer].pc = "idle"
  /\ BeginFlush(g, "idle")

-----------------------------------------------------------------------------
(* The bufio.Writer                                                        *)

(* The descriptor takes the first k of the pending messages. A file that   *)
(* was removed takes them as well, but the directory has none of it.       *)
Take(k) ==
  LET taken == SubSeq(pending, 1, k)
      es    == {taken[i] : i \in 1 .. k}
  IN  /\ received' = received \o taken
      /\ out' = out \cup es
      /\ files' = IF kind = "file" /\ k > 0 /\ current \in DOMAIN files
                  THEN [files EXCEPT ![current] =
                          [mtime |-> now, size |-> @.size + k, events |-> @.events \cup es]]
                  ELSE files

(* A write of all that is pending, and one that fails on the way.          *)
WriteOut == open /\ Take(Len(pending)) /\ UNCHANGED faults
WriteOutFails ==
  IF open THEN Fault /\ \E k \in 0 .. Len(pending) - 1 : Take(k)
          ELSE UNCHANGED <<sink, faults>>

-----------------------------------------------------------------------------
(* Flush: the loop                                                         *)

Message(g)  == array[call[g].at]
LoopDone(g) == call[g].at > call[g].count

(* The next message goes into the bufio.Writer, which writes when it is    *)
(* full, or answers with its sticky error.                                 *)
WriteMessage(g) ==
  /\ ~LoopDone(g)
  /\ \/ /\ ~broken
        /\ At(g, "writing") /\ call' = [call EXCEPT ![g].at = @ + 1]
        /\ size' = size + 1
        /\ IF Len(pending) < WriterSize
           THEN pending' = Append(pending, Message(g)) /\ UNCHANGED <<sink, faults>>
           ELSE pending' = <<Message(g)>> /\ WriteOut
        /\ UNCHANGED broken
     \/ /\ ~broken /\ Len(pending) = WriterSize
        /\ Goto(g, "writing", "reconnect")
        /\ WriteOutFails /\ broken' = TRUE
        /\ UNCHANGED <<size, pending>>
     \/ /\ broken
        /\ Goto(g, "writing", "reconnect")
        /\ UNCHANGED <<size, pending, broken, sink, faults>>
  /\ UNCHANGED <<kind, added, buffer, open, owner, current, now, skipped>>

(* reconnect closes the descriptor and puts a pipe or socket of its own at *)
(* OutputPath, in the place of any other one that still waits for a peer.  *)
Reconnect(g) ==
  /\ Goto(g, "reconnect", "opening")
  /\ open' = FALSE
  /\ owner' = IF kind = "file" THEN owner ELSE g
  /\ UNCHANGED <<kind, added, buffer, pending, broken, sink, file, now, faults, skipped>>

(* openFile: the name has a resolution of one second.                      *)
OpenFile ==
  /\ current' = now
  /\ files' = IF now \in DOMAIN files THEN files
              ELSE [n \in DOMAIN files \cup {now} |->
                      IF n = now THEN [mtime |-> now, size |-> 0, events |-> {}] ELSE files[n]]
  /\ open' = TRUE /\ received' = <<>>

ReopenedKeepingPending(g) ==
  /\ At(g, "opening")
  /\ call' = [call EXCEPT ![g].pc = "writing", ![g].at = @ + 1]
  /\ pending' = Append(pending, Message(g)) /\ broken' = FALSE
  /\ open' = TRUE /\ received' = <<>> /\ owner' = Nobody
  /\ UNCHANGED <<kind, added, buffer, out, now, faults, file, files, skipped>>

(* A reader or peer has come, or the file is open: the message that failed *)
(* goes into the new bufio.Writer, the loop goes on from there.            *)
Reopened(g) ==
  /\ At(g, "opening")
  /\ call' = [call EXCEPT ![g].pc = "writing", ![g].at = @ + 1]
  /\ pending' = <<Message(g)>> /\ broken' = FALSE
  /\ skipped' = skipped \cup ({array[i] : i \in 1 .. call[g].at - 1} \ out)
  /\ IF kind = "file"
     THEN /\ OpenFile /\ size' = files'[now].size + 1
          /\ UNCHANGED owner
     ELSE /\ owner = g /\ owner' = Nobody
          /\ open' = TRUE /\ received' = <<>>
          /\ UNCHANGED <<file, files>>
  /\ UNCHANGED <<kind, added, buffer, out, now, faults>>

ReopenFails(g) ==
  /\ Return(g, "opening")
  /\ Fault
  /\ UNCHANGED <<kind, added, buffer, writer, sink, file, now, skipped>>

-----------------------------------------------------------------------------
(* Flush: after the loop                                                   *)

AfterFlush == IF kind = "file" /\ size >= MaxFileSize THEN "rotating" ELSE "clearing"

FlushWriterIgnoringError(g) ==
  /\ LoopDone(g)
  /\ Goto(g, "writing", AfterFlush)
  /\ IF broken THEN UNCHANGED <<pending, broken, sink, faults>>
     ELSE \/ WriteOut /\ pending' = <<>> /\ UNCHANGED broken
          \/ WriteOutFails /\ broken' = TRUE /\ UNCHANGED pending
  /\ UNCHANGED <<kind, added, buffer, open, owner, file, now, skipped>>

FlushWriterNotSticky(g) ==
  /\ LoopDone(g)
  /\ \/ Goto(g, "writing", AfterFlush) /\ WriteOut /\ pending' = <<>>
     \/ Return(g, "writing") /\ pending # <<>> /\ WriteOutFails /\ pending' = <<>>
  /\ UNCHANGED <<kind, added, buffer, broken, open, owner, file, now, skipped>>

(* bw.writer.Flush; an error leaves the buffer as it is.                   *)
FlushWriter(g) ==
  /\ LoopDone(g)
  /\ \/ /\ broken /\ Return(g, "writing")
        /\ UNCHANGED <<pending, broken, sink, faults>>
     \/ /\ ~broken /\ pending = <<>> /\ Goto(g, "writing", AfterFlush)
        /\ UNCHANGED <<pending, broken, sink, faults>>
     \/ /\ ~broken /\ pending # <<>> /\ Goto(g, "writing", AfterFlush)
        /\ WriteOut /\ pending' = <<>> /\ UNCHANGED broken
     \/ /\ ~broken /\ pending # <<>> /\ Return(g, "writing")
        /\ WriteOutFails /\ broken' = TRUE /\ UNCHANGED pending
  /\ UNCHANGED <<kind, added, buffer, open, owner, file, now, skipped>>

(* rotateFile opens a new file; if it cannot, the old one is closed, and   *)
(* Flush returns before it clears the buffer.                              *)
Rotate(g) ==
  /\ \/ /\ Goto(g, "rotating", "cleaning")
        /\ OpenFile /\ size' = files'[now].size
        /\ pending' = <<>> /\ broken' = FALSE /\ UNCHANGED faults
     \/ /\ Return(g, "rotating") /\ Fault
        /\ open' = FALSE
        /\ UNCHANGED <<pending, broken, files, received, file>>
  /\ UNCHANGED <<kind, added, buffer, owner, out, now, skipped>>

(* ReadDir returns the names in order, and sort.Slice is an insertion sort *)
(* on up to twelve of them.                                                *)
Older(m, n) ==
  \/ files[m].mtime < files[n].mtime
  \/ files[m].mtime = files[n].mtime /\ m < n

Rank(n) == Cardinality({m \in DOMAIN files : Older(n, m)})

CleanupNewestFirst(g) ==
  /\ Goto(g, "cleaning", "clearing")
  /\ LET kept == {n \in DOMAIN files : Rank(n) >= Cardinality(DOMAIN files) - MaxFiles}
     IN  files' = [n \in kept |-> files[n]]
  /\ UNCHANGED <<kind, added, buffer, writer, received, out, file, now, faults, skipped>>

(* cleanupOldFiles keeps the last MaxFiles of the files with the prefix,   *)
(* by modification time and then by name.                                  *)
Cleanup(g) ==
  /\ Goto(g, "cleaning", "clearing")
  /\ LET kept == {n \in DOMAIN files : Rank(n) < MaxFiles}
     IN  files' = [n \in kept |-> files[n]]
  /\ UNCHANGED <<kind, added, buffer, writer, received, out, file, now, faults, skipped>>

(* pw.buffer = pw.buffer[:0]                                               *)
Clear(g) ==
  /\ Return(g, "clearing")
  /\ len' = 0
  /\ UNCHANGED <<kind, added, array, writer, sink, file, now, faults, skipped>>

-----------------------------------------------------------------------------
(* Close, after its Flush                                                  *)
Close ==
  /\ Goto(Closer, "closing", "closed")
  /\ open' = FALSE
  /\ owner' = IF kind = "file" THEN owner ELSE Nobody
  /\ UNCHANGED <<kind, added, buffer, pending, broken, sink, file, now, faults, skipped>>

(* The wall clock moves on, or is set back by any amount; names are in     *)
(* local time, so the end of daylight saving counts as the latter.         *)
Tick ==
  /\ kind = "file"
  /\ \E t \in 0 .. LastSecond : t # now /\ t <= now + 1 /\ now' = t
  /\ UNCHANGED <<kind, added, buffer, call, writer, sink, file, faults, skipped>>

Continue(g) ==
  \/ Store(g) \/ BatchFull(g) \/ WriteMessage(g) \/ Reconnect(g)
  \/ Reopened(g) \/ ReopenFails(g) \/ FlushWriter(g) \/ Rotate(g)
  \/ Cleanup(g) \/ Clear(g)

InCall == {g \in Goroutines : call[g].pc \notin {"idle", "closed"}}

(* In the buffer, or on the way into it.                                   *)
Held == ({array[i] : i \in 1 .. len} \cup {call[g].event : g \in Goroutines}) \ {0}

Step ==
  \/ \E h \in Handlers : AddEvent(h)
  \/ \E g \in {Flusher, Closer} : Flush(g)
  \/ \E g \in Goroutines : Continue(g)
  \/ Close
  \/ Tick

FlushFails(g) ==
  /\ call[g].pc \in {"writing", "opening", "rotating"}
  /\ call'[g].pc \in {"idle", "closing"}

(* Who calls while others are calling, what will be sent again, and how    *)
(* often the clock was set back.                                           *)
Overlap ==
  /\ overlaps' = IF InCall # {} /\ InCall' \ InCall # {} THEN overlaps + 1 ELSE overlaps
  /\ setbacks' = IF now' < now THEN setbacks + 1 ELSE setbacks
  /\ faults' + overlaps' + setbacks' <= MaxMishaps
  /\ overlapped' = overlapped \cup (IF \E g, h \in InCall' : g # h THEN Held' ELSE {})
  /\ retried' = retried \cup (IF \E g \in InCall : FlushFails(g) THEN Held ELSE {})

Next == Step /\ Overlap

Spec == Init /\ [][Next]_vars

(* The ticker keeps firing, calls go on, and a reader comes to every pipe  *)
(* or socket it can find; nobody has to add or to close.                   *)
FairSpec ==
  /\ Spec
  /\ WF_vars(Flush(Flusher) /\ Overlap)
  /\ \A g \in Goroutines : WF_vars(Continue(g) /\ Overlap)

-----------------------------------------------------------------------------
(* What the writers promise to callers that do not overlap                 *)

(* The writers keep the contract of OutputWriter: an event stays in the    *)
(* buffer until a descriptor took its message, however often writes,       *)
(* reconnects and rotations fail - except for the messages in a            *)
(* bufio.Writer that a reconnect in the middle of the flush replaced       *)
(* (pipe.go:83-99, output.go:125-137), and for overlapping calls.          *)
Contract == INSTANCE OutputWriter WITH
  Events  <- Events,
  added   <- 1 .. added,
  held    <- Held \cup overlapped,
  out     <- out,
  excused <- skipped

ContractSpec == Contract!Spec

(* A reader, peer or file gets the events in the order in which they were  *)
(* added and none twice, until it is opened anew: after a failed write the *)
(* bufio.Writer takes no more, so the buffer, which is sent again from its *)
(* first event, is sent to another descriptor (output.go:127-137).         *)
Ascending(s, n) ==
  \A i, j \in 1 .. n :
    i < j /\ s[i] \notin overlapped /\ s[j] \notin overlapped => s[i] < s[j]

ReceivedInOrder == Ascending(received, Len(received))

(* As long as the clock is not set back, rotation loses the oldest events: *)
(* those in the files that cleanup removes are older than those in the     *)
(* files it keeps, though a name has a resolution of one second and a      *)
(* rotation may come back to the file it was to close - but for events     *)
(* that a flush sent again after it failed, which a later file has for a   *)
(* second time, or alone if an earlier reconnect lost them (file.go:52-85, *)
(* 116-120, 148-188).                                                      *)
EventsIn(names) == (UNION {files[n].events : n \in names}) \ overlapped
RotationLosesOldest ==
  [][LET removed == DOMAIN files \ DOMAIN files'
     IN  setbacks = 0 => \A e \in EventsIn(removed), f \in EventsIn(DOMAIN files \ removed) :
           e < f \/ f \in retried]_vars

(* The file that is written to is in the directory: as long as the clock   *)
(* is not set back, cleanup never removes it, whatever rotations and       *)
(* reopenings came before, in the same second or not (file.go:148-188).    *)
CurrentFileKept == kind = "file" /\ setbacks = 0 => current \in DOMAIN files

(* Liveness: every event leaves the buffer, without a call of Close, if in *)
(* the end writes and reconnects succeed and readers come back: the buffer *)
(* is emptied again and again (service.go:202-213).                        *)
EventsLeaveBuffer == []<>(Held \subseteq overlapped \/ call[Closer].pc # "idle")

-----------------------------------------------------------------------------
(* The invariants behind the contract and the order                        *)

Messages(s) == {s[i] : i \in 1 .. Len(s)}
Slots(n)    == {array[i] : i \in 1 .. n}
Sent        == Messages(received) \cup Messages(pending)

Looping(g)   == call[g].pc \in {"writing", "reconnect", "opening"}
Finishing(g) == call[g].pc \in {"rotating", "cleaning", "clearing"}

(* Every event anywhere has been added; only an append carries one.        *)
OnlyAdded ==
  /\ \A i \in Events : array[i] <= added
  /\ Sent \cup out \cup skipped \subseteq 1 .. added
  /\ \A g \in Goroutines :
       call[g].event <= added /\ (~At(g, "append") => call[g].event = 0)

(* What a call relies on in the buffer, by the length that it loaded.      *)
Reach(g) == IF At(g, "append") THEN call[g].at ELSE IF Looping(g) THEN call[g].count ELSE 0

(* Calls that overlapped have marked all that they deal with.              *)
Together(g) == Held \cup Slots(Reach(g)) \subseteq overlapped

Precede(S, T) == \A e \in S \ overlapped, f \in T \ overlapped : e < f

(* A call that runs alone finds the buffer as it left it.                  *)
Progress(g) ==
  /\ At(g, "append") =>
       /\ call[g].at = len /\ call[g].event = added
       /\ added \notin Sent /\ \A i \in Events : array[i] # added
  /\ Looping(g) =>
       /\ call[g].count = len
       /\ Slots(call[g].at - 1) \subseteq out \cup skipped \cup Messages(pending)
  /\ At(g, "writing") /\ open /\ ~broken =>
       Precede(Sent, {array[i] : i \in call[g].at .. len})
  /\ At(g, "reconnect") => broken
  /\ At(g, "opening") => ~open
  /\ Finishing(g) => Slots(len) \subseteq out \cup skipped

CallsProgress ==
  \A g \in InCall : \/ InCall = {g} /\ Progress(g)
                    \/ Together(g)

(* A descriptor that works has got what comes before the buffer's events,  *)
(* unless a flush of them is going on.                                     *)
BufferIsNext ==
  /\ Ascending(array, len)
  /\ open /\ ~broken /\ (\A g \in Goroutines : ~Looping(g) /\ ~Finishing(g)) =>
       Precede(Sent, Slots(len))

StreamInOrder ==
  /\ ReceivedInOrder
  /\ open /\ ~broken =>
       Ascending(pending, Len(pending)) /\ Precede(Messages(received), Messages(pending))

OrderInv == OnlyAdded /\ CallsProgress /\ BufferIsNext /\ StreamInOrder

(* Rotation: what is in a file comes before what is in a later one, and    *)
(* before what is still to be written, but for what is sent again.         *)
Behind(S) ==
  \A n \in DOMAIN files :
    \A e \in files[n].events \ overlapped, f \in S \ (overlapped \cup retried) : e < f

FilesInOrder ==
  \A m, n \in DOMAIN files :
    m < n => \A e \in files[m].events \ overlapped,
                f \in files[n].events \ (overlapped \cup retried) : e < f

ToCome(g) == IF At(g, "append") THEN {call[g].event}
             ELSE IF Looping(g) THEN {array[i] : i \in call[g].at .. len} ELSE {}

BufferIsBehind ==
  /\ \A g \in Goroutines : Behind(ToCome(g))
  /\ (\A g \in Goroutines : ~Looping(g) /\ ~Finishing(g)) => Behind(Slots(len))

RotationInv ==
  /\ \A n \in DOMAIN files : files[n].events \subseteq out
  /\ kind # "file" => \A n \in DOMAIN files : files[n].events = {}
  /\ kind = "file" /\ setbacks = 0 =>
       /\ FilesInOrder /\ BufferIsBehind
       /\ open /\ ~broken => Behind(Messages(pending))

-----------------------------------------------------------------------------
(* What the comments say and the code does not do                          *)

(* pipe.go:77, "Flush writes all buffered events to the pipe" (socket.go:82*)
(* and file.go:97 alike): when a flush ends by clearing the buffer, all of *)
(* its events were taken by a descriptor. An event that another goroutine  *)
(* appends between the loop and the clearing was not.                      *)
Cleared(g) == At(g, "clearing") /\ call'[g].pc \in {"idle", "closing"}

FlushWritesAll ==
  [][\A g \in Goroutines : Cleared(g) => Slots(len) \subseteq out]_vars
=============================================================================
