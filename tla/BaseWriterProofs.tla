-------------------------- MODULE BaseWriterProofs --------------------------
(***************************************************************************)
(* Theorems about BaseWriter, for any batch size, buffer size, number of   *)
(* files, number of goroutines and of overlapping calls.                   *)
(***************************************************************************)
EXTENDS BaseWriter, FiniteSetTheorems, SequenceTheorems, TLAPS

-----------------------------------------------------------------------------
(* Types. A slot of the buffer's array is never emptied, so every index    *)
(* that a length or a loop still reaches holds an event, also when calls   *)
(* overlap and a length is older than the buffer's.                        *)
CallType ==
  [pc : PC, event : Events \cup {0}, at : 0 .. MaxEvents + 1, count : 0 .. MaxEvents]

Filled(n) == \A i \in 1 .. n : array[i] # 0

CallOK(c) ==
  /\ c \in CallType
  /\ c.pc = "append" => c.at < c.event /\ c.event <= added /\ Filled(c.at)
  /\ c.pc \in {"writing", "reconnect", "opening"} =>
       1 <= c.at /\ c.at <= c.count + 1 /\ Filled(c.count)
  /\ c.pc \in {"reconnect", "opening"} => c.at <= c.count

BufferOK ==
  /\ added \in 0 .. MaxEvents
  /\ array \in [Events -> Events \cup {0}]
  /\ len \in 0 .. added /\ Filled(len)
  /\ call = [g \in Goroutines |-> call[g]]
  /\ \A g \in Goroutines : CallOK(call[g])

StreamOK ==
  /\ pending \in Seq(Events) /\ Len(pending) <= WriterSize
  /\ received \in Seq(Events)
  /\ out \subseteq Events /\ skipped \subseteq Events

FileType == [mtime : 0 .. LastSecond, size : Nat, events : SUBSET Events]

FilesOK ==
  /\ now \in 0 .. LastSecond /\ current \in 0 .. LastSecond
  /\ DOMAIN files \subseteq 0 .. LastSecond
  /\ \A n \in DOMAIN files : files[n] \in FileType
  /\ size \in Nat

FlagsOK ==
  /\ kind \in Kinds
  /\ broken \in BOOLEAN /\ open \in BOOLEAN
  /\ owner \in Goroutines \cup {Nobody}
  /\ faults \in Nat

HistoryOK ==
  /\ overlaps \in Nat /\ setbacks \in Nat /\ faults + overlaps + setbacks <= MaxMishaps
  /\ overlapped \subseteq Events /\ retried \subseteq Events

Typed == BufferOK /\ StreamOK /\ FilesOK /\ FlagsOK /\ HistoryOK

LEMMA Bounds == /\ MaxEvents \in Nat /\ BatchSize \in Nat \ {0} /\ WriterSize \in Nat \ {0}
                /\ MaxMishaps \in Nat /\ LastSecond \in Nat
BY WriterAssumption

-----------------------------------------------------------------------------
(* The buffer and the calls                                                *)

(* The buffer stays as it is, or is cleared, and one call moves.           *)
LEMMA CallMoves ==
  ASSUME BufferOK, NEW g \in Goroutines, NEW c, CallOK(c),
         call' = [call EXCEPT ![g] = c], UNCHANGED <<added, array>>,
         len' \in {0, len}
  PROVE  BufferOK'
<1>1. \A h \in Goroutines : CallOK(call'[h])
  BY DEF BufferOK
<1>2. \A h \in Goroutines : CallOK(call[h])'
  BY <1>1 DEF CallOK, Filled
<1>3. (len \in 0 .. added)' /\ Filled(len)'
  BY Bounds DEF BufferOK, Filled
<1>4. call' = [h \in Goroutines |-> call'[h]]
  BY DEF BufferOK
<1> QED
  BY <1>2, <1>3, <1>4 DEF BufferOK

LEMMA ReturnKeeps ==
  ASSUME BufferOK, NEW g \in Goroutines, NEW from, Return(g, from),
         UNCHANGED <<added, array>>, len' \in {0, len}
  PROVE  BufferOK'
<1> DEFINE pc == IF g = Closer THEN "closing" ELSE "idle"
<1>1. CallOK(No(pc))
  BY Bounds DEF CallOK, No, CallType, PC
<1>2. call' = [call EXCEPT ![g] = No(pc)]
  BY DEF Return
<1> QED
  BY <1>1, <1>2, CallMoves

LEMMA GotoKeeps ==
  ASSUME BufferOK, NEW g \in Goroutines, NEW from,
         NEW to \in PC \ {"append", "writing", "reconnect", "opening"}, Goto(g, from, to),
         UNCHANGED <<added, array, len>>
  PROVE  BufferOK'
<1> DEFINE c == [call[g] EXCEPT !.pc = to]
<1>1. call[g] \in CallType
  BY DEF BufferOK, CallOK
<1>2. c \in CallType /\ c.pc = to
  BY <1>1 DEF CallType
<1>3. CallOK(c)
  BY <1>2 DEF CallOK
<1>4. call' = [call EXCEPT ![g] = c]
  BY DEF Goto
<1> QED
  BY <1>3, <1>4, CallMoves

(* From the loop to the reconnect and from there to the opening.           *)
LEMMA ReconnectKeeps ==
  ASSUME BufferOK, NEW g \in Goroutines,
         \/ Goto(g, "writing", "reconnect") /\ ~LoopDone(g)
         \/ Goto(g, "reconnect", "opening"),
         UNCHANGED <<added, array, len>>
  PROVE  BufferOK'
<1> PICK to \in {"reconnect", "opening"} : call' = [call EXCEPT ![g].pc = to]
  BY DEF Goto
<1> DEFINE c == [call[g] EXCEPT !.pc = to]
<1>1. CallOK(call[g]) /\ call[g] \in CallType
  BY DEF BufferOK, CallOK
<1>2. /\ c \in CallType /\ c.pc = to /\ c.at = call[g].at /\ c.count = call[g].count
  BY <1>1 DEF CallType, PC
<1>3. 1 <= c.at /\ c.at <= c.count /\ Filled(c.count)
  BY <1>1, <1>2, Bounds DEF Goto, At, LoopDone, CallOK, CallType
<1>4. CallOK(c)
  BY <1>2, <1>3, Bounds DEF CallOK, CallType
<1> QED
  BY <1>4, CallMoves

(* The loop goes on to its next index.                                     *)
LEMMA LoopKeeps ==
  ASSUME BufferOK, NEW g \in Goroutines, ~LoopDone(g),
         call[g].pc \in {"writing", "opening"},
         \/ call' = [call EXCEPT ![g].at = @ + 1] /\ call[g].pc = "writing"
         \/ call' = [call EXCEPT ![g].pc = "writing", ![g].at = @ + 1],
         UNCHANGED <<added, array, len>>
  PROVE  BufferOK'
<1> DEFINE c == call'[g]
<1>1. CallOK(call[g]) /\ call[g] \in CallType
  BY DEF BufferOK, CallOK
<1>2. call[g].at \in 0 .. MaxEvents + 1 /\ call[g].count \in 0 .. MaxEvents
  BY <1>1 DEF CallType
<1>3. 1 <= call[g].at /\ call[g].at <= call[g].count /\ Filled(call[g].count)
  BY <1>1, <1>2, Bounds DEF LoopDone, CallOK
<1>4. call[g].at + 1 \in 0 .. MaxEvents + 1
  BY <1>2, <1>3, Bounds
<1>5. CASE call' = [call EXCEPT ![g].at = @ + 1] /\ call[g].pc = "writing"
  <2>1. c = [call[g] EXCEPT !.at = @ + 1]
    BY <1>5 DEF BufferOK
  <2>2. /\ c \in CallType /\ c.pc = "writing" /\ c.at = call[g].at + 1
        /\ c.count = call[g].count
    BY <1>1, <1>4, <1>5, <2>1 DEF CallType
  <2>3. CallOK(c)
    BY <1>2, <1>3, <2>2, Bounds DEF CallOK
  <2> QED
    BY <1>5, <2>1, <2>3, CallMoves
<1>6. CASE call' = [call EXCEPT ![g].pc = "writing", ![g].at = @ + 1]
  <2> DEFINE d == [[call[g] EXCEPT !.pc = "writing"] EXCEPT !.at = @ + 1]
  <2>1. call' = [call EXCEPT ![g] = d]
    BY <1>1, <1>6 DEF CallType, BufferOK
  <2>2. /\ d \in CallType /\ d.pc = "writing" /\ d.at = call[g].at + 1
        /\ d.count = call[g].count
    BY <1>1, <1>4 DEF CallType, PC
  <2>3. CallOK(d)
    BY <1>2, <1>3, <2>2, Bounds DEF CallOK
  <2> QED
    BY <2>1, <2>3, CallMoves
<1> QED
  BY <1>5, <1>6

LEMMA BeginFlushKeeps ==
  ASSUME BufferOK, NEW g \in Goroutines, NEW from, BeginFlush(g, from)
  PROVE  BufferOK'
<1>1. CASE len = 0
  BY <1>1, ReturnKeeps DEF BeginFlush, buffer
<1>2. CASE len # 0
  <2> DEFINE c == [No("writing") EXCEPT !.at = 1, !.count = len]
  <2>1. len \in 0 .. MaxEvents /\ len >= 1 /\ Filled(len)
    BY <1>2, Bounds DEF BufferOK
  <2>4. No("writing") \in CallType /\ No("writing").pc = "writing"
    BY Bounds DEF No, CallType, PC
  <2>5. 1 \in 0 .. MaxEvents + 1
    BY Bounds
  <2>6. [No("writing") EXCEPT !.at = 1] \in CallType
    BY <2>4, <2>5 DEF CallType
  <2>7. c = [[No("writing") EXCEPT !.at = 1] EXCEPT !.count = len]
    OBVIOUS
  <2>2. c \in CallType /\ c.pc = "writing" /\ c.at = 1 /\ c.count = len
    BY <2>1, <2>4, <2>5, <2>6, <2>7 DEF CallType
  <2>3. CallOK(c)
    BY <2>1, <2>2 DEF CallOK
  <2> QED
    BY <1>2, <2>3, CallMoves DEF BeginFlush, buffer
<1> QED
  BY <1>1, <1>2

LEMMA AddEventKeeps ==
  ASSUME BufferOK, NEW h \in Handlers, AddEvent(h)
  PROVE  BufferOK'
<1> DEFINE c == [No("append") EXCEPT !.event = added', !.at = len]
<1>1. /\ added \in Nat /\ added' = added + 1 /\ added' \in Events /\ added' \in 0 .. MaxEvents
      /\ len \in 0 .. added /\ len \in 0 .. MaxEvents + 1 /\ UNCHANGED <<array, len>>
      /\ h \in Goroutines
  BY Bounds DEF AddEvent, BufferOK, Events, buffer, Goroutines
<1>0. No("append") \in CallType /\ No("append").pc = "append"
  BY Bounds DEF No, CallType, PC
<1>2. c \in CallType /\ c.pc = "append" /\ c.at = len /\ c.event = added'
  BY <1>0, <1>1 DEF CallType
<1>3. ASSUME NEW g \in Goroutines
      PROVE  CallOK(call[g])'
  <2>1. CASE g = h
    <3>1. call'[g] = c
      BY <2>1 DEF AddEvent, BufferOK
    <3>2. Filled(len)'
      BY <1>1 DEF BufferOK, Filled
    <3> QED
      BY <1>1, <1>2, <3>1, <3>2 DEF CallOK, CallType, Filled
  <2>2. CASE g # h
    <3>1. call'[g] = call[g] /\ CallOK(call[g]) /\ call[g] \in CallType
      BY <2>2 DEF AddEvent, BufferOK, CallOK
    <3>2. call[g].event \in Int
      BY <3>1 DEF CallType, Events
    <3> QED
      BY <1>1, <3>1, <3>2 DEF CallOK, Filled
  <2> QED
    BY <2>1, <2>2
<1>4. call' = [g \in Goroutines |-> call'[g]]
  BY DEF AddEvent, BufferOK
<1>5. (len \in 0 .. added)' /\ Filled(len)'
  BY <1>1 DEF BufferOK, Filled
<1> QED
  BY <1>1, <1>3, <1>4, <1>5 DEF BufferOK

LEMMA StoreKeeps ==
  ASSUME BufferOK, NEW h \in Goroutines, Store(h)
  PROVE  BufferOK'
<1> DEFINE slot == call[h].at + 1
<1>1. /\ call[h] \in CallType /\ call[h].at < call[h].event /\ call[h].event <= added
      /\ Filled(call[h].at)
  BY DEF Store, At, BufferOK, CallOK
<1>2. /\ call[h].at \in Nat /\ call[h].event \in Events \cup {0} /\ call[h].event \in Nat
  BY <1>1, Bounds DEF CallType, Events
<1>3. slot \in Events /\ slot \in 0 .. added /\ call[h].event \in Events
  BY <1>1, <1>2, Bounds DEF BufferOK, Events
<1>4. array' = [array EXCEPT ![slot] = call[h].event] /\ len' = slot /\ added' = added
  BY DEF Store
<1>5. array' \in [Events -> Events \cup {0}]
  BY <1>3, <1>4 DEF BufferOK
<1>6. array'[slot] # 0 /\ \A i \in Events \ {slot} : array'[i] = array[i]
  BY <1>3, <1>4, Bounds DEF BufferOK, Events
<1>7. ASSUME NEW n \in 0 .. MaxEvents, Filled(n)
      PROVE  \A i \in 1 .. n : array'[i] # 0
  BY <1>6, <1>7, Bounds DEF Filled, Events
<1>8. Filled(len)'
  <2>1. \A i \in 1 .. slot : i = slot \/ (i \in 1 .. call[h].at /\ i \in Events)
    BY <1>2, <1>3, Bounds DEF Events
  <2> QED
    BY <1>1, <1>4, <1>6, <2>1 DEF Filled
<1>9. ASSUME NEW g \in Goroutines
      PROVE  CallOK(call[g])'
  <2>1. CASE g = h
    <3>1. call'[g] = No("added")
      BY <2>1 DEF Store, BufferOK
    <3>2. No("added") \in CallType
      BY Bounds DEF No, CallType, PC
    <3> QED
      BY <3>1, <3>2 DEF CallOK, CallType, No
  <2>2. CASE g # h
    <3>1. call'[g] = call[g] /\ CallOK(call[g]) /\ call[g] \in CallType
      BY <2>2 DEF Store, BufferOK, CallOK
    <3>2. call[g].count \in 0 .. MaxEvents /\ call[g].at \in 0 .. MaxEvents + 1
          /\ call[g].event \in 0 .. MaxEvents
      BY <3>1, Bounds DEF CallType, Events
    <3>3. call[g].pc = "append" => call[g].at \in 0 .. MaxEvents
      BY <3>1, <3>2, Bounds DEF CallOK
    <3>4. call[g].pc = "append" => \A i \in 1 .. call[g].at : array'[i] # 0
      BY <1>7, <3>1, <3>3 DEF CallOK
    <3>5. call[g].pc \in {"writing", "reconnect", "opening"} =>
            \A i \in 1 .. call[g].count : array'[i] # 0
      BY <1>7, <3>1, <3>2 DEF CallOK
    <3> QED
      BY <1>4, <3>1, <3>4, <3>5 DEF CallOK, CallType, Filled
  <2> QED
    BY <2>1, <2>2
<1>10. call' = [g \in Goroutines |-> call'[g]]
  BY DEF Store, BufferOK
<1> QED
  BY <1>3, <1>4, <1>5, <1>8, <1>9, <1>10 DEF BufferOK

LEMMA BufferInvariant ==
  ASSUME BufferOK, [Next]_vars
  PROVE  BufferOK'
<1> USE DEF buffer
<1>1. ASSUME NEW g \in Goroutines, Continue(g)
      PROVE  BufferOK'
  <2>1. CASE Store(g)
    BY <2>1, StoreKeeps
  <2>2. CASE BatchFull(g)
    BY <2>2, BeginFlushKeeps, ReturnKeeps DEF BatchFull
  <2>3. CASE WriteMessage(g)
    <3>1. CASE Goto(g, "writing", "reconnect")
      BY <2>3, <3>1, ReconnectKeeps DEF WriteMessage
    <3>2. CASE At(g, "writing") /\ call' = [call EXCEPT ![g].at = @ + 1]
      BY <2>3, <3>2, LoopKeeps DEF WriteMessage, At
    <3> QED
      BY <2>3, <3>1, <3>2 DEF WriteMessage
  <2>4. CASE Reconnect(g)
    BY <2>4, ReconnectKeeps DEF Reconnect
  <2>5. CASE Reopened(g)
    <3>1. call[g] \in CallType /\ call[g].pc = "opening" /\ call[g].at <= call[g].count
      BY <2>5 DEF BufferOK, CallOK, Reopened, At
    <3>2. ~LoopDone(g)
      BY <3>1, Bounds DEF CallType, LoopDone
    <3> QED
      BY <2>5, <3>1, <3>2, LoopKeeps DEF Reopened
  <2>6. CASE ReopenFails(g)
    BY <2>6, ReturnKeeps DEF ReopenFails
  <2>7. CASE FlushWriter(g)
    <3>1. AfterFlush \in {"rotating", "clearing"}
      BY DEF AfterFlush
    <3> QED
      BY <2>7, <3>1, ReturnKeeps, GotoKeeps DEF FlushWriter, PC
  <2>8. CASE Rotate(g)
    BY <2>8, ReturnKeeps, GotoKeeps DEF Rotate, PC
  <2>9. CASE Cleanup(g)
    BY <2>9, GotoKeeps DEF Cleanup, PC
  <2>10. CASE Clear(g)
    BY <2>10, ReturnKeeps DEF Clear
  <2> QED
    BY <1>1, <2>1, <2>2, <2>3, <2>4, <2>5, <2>6, <2>7, <2>8, <2>9, <2>10 DEF Continue
<1>2. ASSUME NEW h \in Handlers, AddEvent(h)
      PROVE  BufferOK'
  BY <1>2, AddEventKeeps
<1>3. ASSUME NEW g \in {Flusher, Closer}, Flush(g)
      PROVE  BufferOK'
  BY <1>3, BeginFlushKeeps DEF Flush, Goroutines
<1>4. CASE Close
  BY <1>4, GotoKeeps DEF Close, PC, Goroutines
<1>5. CASE Tick \/ UNCHANGED vars
  BY <1>5 DEF Tick, vars, BufferOK, CallOK, Filled
<1> QED
  BY <1>1, <1>2, <1>3, <1>4, <1>5 DEF Next, Step

-----------------------------------------------------------------------------
(* The bufio.Writer, the descriptor and the directory                      *)

SinkOK ==
  /\ received \in Seq(Events) /\ out \subseteq Events
  /\ DOMAIN files \subseteq 0 .. LastSecond
  /\ \A n \in DOMAIN files : files[n] \in FileType

LEMMA TakeTyped ==
  ASSUME StreamOK, FilesOK, NEW k \in 0 .. Len(pending), Take(k), now' = now
  PROVE  SinkOK'
<1> DEFINE taken == SubSeq(pending, 1, k)
           es    == {taken[i] : i \in 1 .. k}
<1>1. Len(pending) \in Nat /\ k \in Nat /\ \A i \in 1 .. k : pending[i] \in Events
  BY LenProperties, ElementOfSeq DEF StreamOK
<1>2. taken \in Seq(Events) /\ \A i \in 1 .. k : taken[i] = pending[i]
  BY <1>1, SubSeqProperties
<1>3. es \subseteq Events
  BY <1>1, <1>2
<1>4. received' = received \o taken /\ out' = out \cup es
  BY DEF Take
<1>5. received' \in Seq(Events) /\ out' \subseteq Events
  BY <1>2, <1>3, <1>4, ConcatProperties DEF StreamOK
<1> HIDE DEF es
<1>6. \/ files' = files
      \/ files' = [files EXCEPT ![current] = [mtime |-> now, size |-> @.size + k, events |-> @.events \cup es]]
  BY DEF Take, es
<1>7. ASSUME NEW n \in DOMAIN files
      PROVE  files'[n] \in FileType
  <2>1. files[n] \in FileType /\ now \in 0 .. LastSecond
    BY DEF FilesOK
  <2> QED
    BY <1>3, <1>6, <2>1 DEF FileType
<1>8. DOMAIN files' = DOMAIN files
  BY <1>6
<1> QED
  BY <1>5, <1>7, <1>8 DEF SinkOK, FilesOK

LEMMA WritesTyped ==
  ASSUME StreamOK, FilesOK, FlagsOK, WriteOut \/ WriteOutFails, now' = now
  PROVE  SinkOK' /\ faults' \in Nat
<1>1. Len(pending) \in Nat
  BY LenProperties DEF StreamOK
<1>2. CASE WriteOut
  BY <1>1, <1>2, TakeTyped DEF WriteOut, FlagsOK
<1>3. CASE WriteOutFails /\ open
  <2>1. PICK k \in 0 .. Len(pending) - 1 : Take(k)
    BY <1>3 DEF WriteOutFails
  <2>2. k \in 0 .. Len(pending)
    BY <1>1
  <2> QED
    BY <1>3, <2>1, <2>2, TakeTyped DEF WriteOutFails, Fault, FlagsOK
<1>4. CASE WriteOutFails /\ ~open
  BY <1>4 DEF WriteOutFails, sink, SinkOK, StreamOK, FilesOK, FlagsOK
<1> QED
  BY <1>2, <1>3, <1>4

LEMMA OpenTyped ==
  ASSUME FilesOK, OpenFile, UNCHANGED <<now, out>>, StreamOK,
         size' \in {files'[now].size, files'[now].size + 1}
  PROVE  FilesOK' /\ SinkOK' /\ open' = TRUE
<1>1. now \in 0 .. LastSecond /\ now \in Nat
  BY Bounds DEF FilesOK
<1>2. /\ now \in DOMAIN files' /\ DOMAIN files' \subseteq 0 .. LastSecond
      /\ \A n \in DOMAIN files' : files'[n] \in FileType
  <2>1. CASE now \in DOMAIN files
    BY <2>1 DEF OpenFile, FilesOK
  <2>2. CASE now \notin DOMAIN files
    <3>1. files' = [n \in DOMAIN files \cup {now} |->
                      IF n = now THEN [mtime |-> now, size |-> 0, events |-> {}] ELSE files[n]]
      BY <2>2 DEF OpenFile
    <3>2. DOMAIN files' = DOMAIN files \cup {now}
      BY <3>1
    <3>3. [mtime |-> now, size |-> 0, events |-> {}] \in FileType
      BY <1>1 DEF FileType
    <3> QED
      BY <1>1, <2>2, <3>1, <3>2, <3>3 DEF FilesOK
  <2> QED
    BY <2>1, <2>2
<1>3. files'[now].size \in Nat
  BY <1>2 DEF FileType
<1>4. size' \in Nat
  BY <1>3
<1>6. current' = now /\ open' = TRUE /\ received' = <<>>
  BY DEF OpenFile
<1>7. received' \in Seq(Events)
  BY <1>6
<1> QED
  BY <1>1, <1>2, <1>4, <1>6, <1>7 DEF FilesOK, SinkOK, StreamOK

Core == StreamOK /\ FilesOK /\ FlagsOK

(* A message that the loop reaches is an event.                            *)
LEMMA MessageIsEvent ==
  ASSUME BufferOK, NEW g \in Goroutines,
         call[g].pc \in {"writing", "opening"}, ~LoopDone(g)
  PROVE  /\ Message(g) \in Events
         /\ \A i \in 1 .. call[g].at - 1 : array[i] \in Events
<1>1. CallOK(call[g]) /\ call[g].at \in 0 .. MaxEvents + 1 /\ call[g].count \in 0 .. MaxEvents
  BY DEF BufferOK, CallOK, CallType
<1>2. 1 <= call[g].at /\ call[g].at <= call[g].count /\ Filled(call[g].count)
  BY <1>1, Bounds DEF LoopDone, CallOK
<1>3. ASSUME NEW i \in 1 .. call[g].at
      PROVE  array[i] \in Events
  <2>1. i \in 1 .. call[g].count /\ i \in 1 .. MaxEvents
    BY <1>1, <1>2, Bounds
  <2>2. array[i] # 0 /\ array[i] \in Events \cup {0}
    BY <1>2, <2>1 DEF Filled, BufferOK, Events
  <2> QED
    BY <2>2
<1> QED
  BY <1>1, <1>2, <1>3, Bounds DEF Message

LEMMA WriteMessageTyped ==
  ASSUME Core, BufferOK, NEW g \in Goroutines, WriteMessage(g)
  PROVE  Core'
<1>1. /\ UNCHANGED <<kind, open, owner, current, now, skipped>>
      /\ size \in Nat /\ Len(pending) \in Nat
  BY LenProperties DEF WriteMessage, Core, FilesOK, StreamOK
<1>2. CASE broken /\ Goto(g, "writing", "reconnect") /\ UNCHANGED <<size, pending, broken, sink, faults>>
  BY <1>1, <1>2 DEF Core, StreamOK, FilesOK, FlagsOK, sink
<1>3. CASE Goto(g, "writing", "reconnect") /\ WriteOutFails /\ broken' = TRUE /\ UNCHANGED <<size, pending>>
  BY <1>1, <1>3, WritesTyped DEF Core, StreamOK, FilesOK, FlagsOK, SinkOK
<1>4. CASE /\ At(g, "writing") /\ size' = size + 1 /\ UNCHANGED broken
           /\ IF Len(pending) < WriterSize
              THEN pending' = Append(pending, Message(g)) /\ UNCHANGED <<sink, faults>>
              ELSE pending' = <<Message(g)>> /\ WriteOut
  <2>1. Message(g) \in Events
    BY <1>4, MessageIsEvent DEF WriteMessage, At, Core
  <2>2. CASE Len(pending) < WriterSize /\ pending' = Append(pending, Message(g)) /\ UNCHANGED <<sink, faults>>
    <3>1. pending' \in Seq(Events) /\ Len(pending') <= WriterSize
      BY <1>1, <2>1, <2>2, Bounds, AppendProperties DEF Core, StreamOK
    <3> QED
      BY <1>1, <1>4, <2>2, <3>1 DEF Core, StreamOK, FilesOK, FlagsOK, sink
  <2>3. CASE pending' = <<Message(g)>> /\ WriteOut
    <3>1. pending' \in Seq(Events) /\ Len(pending') <= WriterSize
      BY <2>1, <2>3, Bounds
    <3> QED
      BY <1>1, <1>4, <2>3, <3>1, WritesTyped DEF Core, StreamOK, FilesOK, FlagsOK, SinkOK
  <2> QED
    BY <1>4, <2>2, <2>3
<1> QED
  BY <1>2, <1>3, <1>4 DEF WriteMessage

LEMMA CoreInvariant ==
  ASSUME Core, BufferOK, [Next]_vars
  PROVE  Core'
<1>1. ASSUME UNCHANGED <<kind, writer, sink, file, now, faults, skipped>>
      PROVE  Core'
  BY <1>1 DEF Core, StreamOK, FilesOK, FlagsOK, writer, sink, file
<1>2. ASSUME NEW g \in Goroutines, Continue(g)
      PROVE  Core'
  <2>1. CASE Store(g) \/ BatchFull(g) \/ Clear(g)
    BY <1>1, <2>1 DEF Store, BatchFull, BeginFlush, Clear
  <2>2. CASE WriteMessage(g)
    BY <2>2, WriteMessageTyped
  <2>3. CASE Reconnect(g)
    BY <1>2, <2>3 DEF Reconnect, Core, StreamOK, FilesOK, FlagsOK, sink, file
  <2>4. CASE Reopened(g)
    <3>1. call[g].pc = "opening" /\ ~LoopDone(g)
      <4>1. /\ call[g].pc = "opening" /\ call[g].at \in Int /\ call[g].count \in Int
            /\ call[g].at <= call[g].count
        BY <2>4, Bounds DEF Reopened, At, BufferOK, CallOK, CallType
      <4> QED
        BY <4>1 DEF LoopDone
    <3>2. Message(g) \in Events /\ \A i \in 1 .. call[g].at - 1 : array[i] \in Events
      BY <3>1, MessageIsEvent
    <3>3. /\ pending' \in Seq(Events) /\ Len(pending') <= WriterSize
          /\ skipped' \subseteq Events
      BY <2>4, <3>2, Bounds DEF Reopened, Core, StreamOK
    <3>4. /\ UNCHANGED <<kind, now, out, faults>> /\ broken' = FALSE
      BY <2>4 DEF Reopened
    <3>5. CASE kind = "file"
      <4>1. OpenFile /\ owner' = owner /\ size' = files'[now].size + 1
        BY <2>4, <3>5 DEF Reopened
      <4> QED
        BY <3>3, <3>4, <4>1, OpenTyped DEF Core, StreamOK, FilesOK, FlagsOK, SinkOK
    <3>6. CASE kind # "file"
      <4>1. /\ owner' = Nobody /\ open' = TRUE /\ received' = <<>>
            /\ UNCHANGED <<file, files>>
        BY <2>4, <3>6 DEF Reopened
      <4>2. received' \in Seq(Events)
        BY <4>1
      <4> QED
        BY <3>3, <3>4, <4>1, <4>2 DEF Core, StreamOK, FilesOK, FlagsOK, file
    <3> QED
      BY <3>5, <3>6
  <2>5. CASE ReopenFails(g)
    BY <2>5 DEF ReopenFails, Fault, Core, StreamOK, FilesOK, FlagsOK, writer, sink, file
  <2>6. CASE FlushWriter(g)
    <3>1. UNCHANGED <<kind, open, owner, file, now, skipped>>
      BY <2>6 DEF FlushWriter
    <3>2. CASE UNCHANGED <<pending, broken, sink, faults>>
      BY <3>1, <3>2 DEF Core, StreamOK, FilesOK, FlagsOK, sink, file
    <3>3. CASE /\ WriteOut \/ WriteOutFails
               /\ broken' \in {broken, TRUE} /\ pending' \in {pending, <<>>}
      <4>1. pending \in Seq(Events) /\ Len(pending) <= WriterSize
        BY DEF Core, StreamOK
      <4>2. <<>> \in Seq(Events) /\ Len(<<>>) <= WriterSize
        BY Bounds
      <4>3. pending' \in Seq(Events) /\ Len(pending') <= WriterSize
        BY <3>3, <4>1, <4>2
      <4> QED
        BY <3>1, <3>3, <4>3, WritesTyped DEF Core, StreamOK, FilesOK, FlagsOK, SinkOK, file
    <3> QED
      BY <2>6, <3>2, <3>3 DEF FlushWriter
  <2>7. CASE Rotate(g)
    <3>1. UNCHANGED <<kind, owner, out, now, skipped>>
      BY <2>7 DEF Rotate
    <3>2. CASE OpenFile /\ size' = files'[now].size /\ pending' = <<>> /\ broken' = FALSE /\ UNCHANGED faults
      <4>1. pending' \in Seq(Events) /\ Len(pending') <= WriterSize
        BY <3>2, Bounds
      <4> QED
        BY <3>1, <3>2, <4>1, OpenTyped DEF Core, StreamOK, FilesOK, FlagsOK, SinkOK
    <3>3. CASE Fault /\ open' = FALSE /\ UNCHANGED <<pending, broken, files, received, file>>
      <4>1. StreamOK'
        BY <3>1, <3>3 DEF Core, StreamOK
      <4>2. FilesOK'
        BY <3>1, <3>3 DEF Core, FilesOK, file
      <4>3. FlagsOK'
        <5>1. faults' \in Nat
          BY <3>3 DEF Fault, Core, FlagsOK
        <5>2. UNCHANGED <<kind, broken, owner>> /\ open' \in BOOLEAN
          BY <3>1, <3>3
        <5> QED
          BY <5>1, <5>2 DEF Core, FlagsOK
      <4> QED
        BY <4>1, <4>2, <4>3 DEF Core
    <3> QED
      BY <2>7, <3>2, <3>3 DEF Rotate
  <2>8. CASE Cleanup(g)
    <3> DEFINE kept == {n \in DOMAIN files : Rank(n) < MaxFiles}
    <3>1. files' = [n \in kept |-> files[n]] /\ kept \subseteq DOMAIN files
      BY <2>8 DEF Cleanup
    <3> HIDE DEF kept
    <3>2. DOMAIN files' = kept /\ \A n \in kept : files'[n] = files[n]
      BY <3>1
    <3> QED
      BY <2>8, <3>1, <3>2 DEF Cleanup, Core, StreamOK, FilesOK, FlagsOK, writer, file
  <2> QED
    BY <1>2, <2>1, <2>2, <2>3, <2>4, <2>5, <2>6, <2>7, <2>8 DEF Continue
<1>3. ASSUME NEW h \in Handlers, AddEvent(h)
      PROVE  Core'
  BY <1>1, <1>3 DEF AddEvent
<1>4. ASSUME NEW g \in {Flusher, Closer}, Flush(g)
      PROVE  Core'
  BY <1>1, <1>4 DEF Flush, BeginFlush
<1>5. CASE Close
  BY <1>5 DEF Close, Core, StreamOK, FilesOK, FlagsOK, sink, file
<1>6. CASE Tick
  <2>1. now' \in 0 .. LastSecond /\ UNCHANGED <<kind, writer, sink, file, faults, skipped>>
    BY <1>6 DEF Tick
  <2> QED
    BY <2>1 DEF Core, StreamOK, FilesOK, FlagsOK, writer, sink, file
<1>7. CASE UNCHANGED vars
  BY <1>1, <1>7 DEF vars
<1> QED
  BY <1>2, <1>3, <1>4, <1>5, <1>6, <1>7 DEF Next, Step

LEMMA HeldAreEvents ==
  ASSUME BufferOK
  PROVE  Held \subseteq Events
<1>1. ASSUME NEW i \in 1 .. len
      PROVE  array[i] \in Events
  <2>1. i \in 1 .. MaxEvents
    BY Bounds DEF BufferOK
  <2> QED
    BY <2>1 DEF BufferOK, Filled, Events
<1>2. \A g \in Goroutines : call[g].event \in Events \cup {0}
  BY DEF BufferOK, CallOK, CallType
<1> QED
  BY <1>1, <1>2 DEF Held

LEMMA HistoryInvariant ==
  ASSUME BufferOK, BufferOK', Core', HistoryOK, [Next]_vars
  PROVE  HistoryOK'
<1>1. CASE Overlap
  <2>1. Held \subseteq Events /\ (Held \subseteq Events)'
    BY HeldAreEvents, PTL
  <2>2. faults' \in Nat
    BY DEF Core, FlagsOK
  <2>3. /\ overlaps' \in Nat /\ setbacks' \in Nat
        /\ faults' + overlaps' + setbacks' <= MaxMishaps
    BY <1>1 DEF Overlap, HistoryOK
  <2>4. overlapped' \subseteq Events /\ retried' \subseteq Events
    <3>1. \A S \in {Held', {}}, T \in {Held, {}} :
            overlapped \cup S \subseteq Events /\ retried \cup T \subseteq Events'
      BY <2>1 DEF HistoryOK, Events
    <3> QED
      BY <1>1, <3>1 DEF Overlap
  <2> QED
    BY <2>3, <2>4 DEF HistoryOK
<1>2. CASE UNCHANGED vars
  BY <1>2 DEF vars, HistoryOK
<1> QED
  BY <1>1, <1>2 DEF Next

LEMMA InitTyped == Init => Typed
<1> SUFFICES ASSUME Init PROVE Typed
  OBVIOUS
<1>1. No("idle") \in CallType /\ No("idle").pc = "idle"
  BY Bounds DEF No, CallType, PC
<1>2. BufferOK
  BY <1>1, Bounds DEF Init, BufferOK, CallOK, Filled
<1>3. StreamOK
  BY Bounds DEF Init, StreamOK
<1>4. DOMAIN files = {0} /\ files[0] = [mtime |-> 0, size |-> 0, events |-> {}]
  BY DEF Init
<1>5. FilesOK
  BY <1>4, Bounds DEF Init, FilesOK, FileType
<1>6. FlagsOK
  BY DEF Init, FlagsOK
<1>7. HistoryOK
  <2>1. faults = 0 /\ overlaps = 0 /\ setbacks = 0 /\ overlapped = {} /\ retried = {}
    BY DEF Init
  <2> QED
    BY <2>1, Bounds DEF HistoryOK
<1> QED
  BY <1>2, <1>3, <1>5, <1>6, <1>7 DEF Typed

LEMMA TypesHold == Spec => []Typed
<1>1. Typed /\ [Next]_vars => Typed'
  BY BufferInvariant, CoreInvariant, HistoryInvariant DEF Typed, Core
<1> QED
  BY <1>1, InitTyped, PTL DEF Spec

(* The variables keep their types, though calls overlap without a lock:    *)
(* in particular a message is always that of an event, never an empty slot *)
(* of the buffer's array (pipe.go:67-101).                                 *)
THEOREM TypeCorrect == Spec => []TypeOK
<1>1. Typed => TypeOK
  <2> SUFFICES ASSUME Typed PROVE TypeOK
    OBVIOUS
  <2>1. len \in 0 .. MaxEvents
    BY Bounds DEF Typed, BufferOK
  <2>2. call \in [Goroutines -> CallType]
    BY DEF Typed, BufferOK, CallOK
  <2>3. /\ faults \in Nat /\ overlaps \in Nat /\ setbacks \in Nat
        /\ faults + overlaps + setbacks <= MaxMishaps
    BY DEF Typed, FlagsOK, HistoryOK
  <2> QED
    BY <2>1, <2>2, <2>3 DEF TypeOK, Typed, BufferOK, StreamOK, FilesOK, FlagsOK, HistoryOK, CallType, FileType
<1> QED
  BY <1>1, TypesHold, PTL

-----------------------------------------------------------------------------
(* The directory, as long as the clock is not set back: no file is newer   *)
(* than the current one, by name or by change, and every one was left      *)
(* before the next was opened.                                             *)
Directory ==
  /\ now \in Nat
  /\ files = [n \in DOMAIN files |-> files[n]]
  /\ current \in DOMAIN files
  /\ \A n \in DOMAIN files :
       /\ n \in Nat /\ n <= current
       /\ files[n].mtime \in Nat
       /\ files[n].mtime <= files[current].mtime
       /\ n <= files[n].mtime /\ files[n].mtime <= now
       /\ \A m \in DOMAIN files : m < n => files[m].mtime <= n

FileInv == kind = "file" /\ setbacks = 0 => Directory

(* A write changes the current file, now.                                  *)
LEMMA TakeKeeps ==
  ASSUME Directory, NEW k, Take(k), UNCHANGED <<current, now>>
  PROVE  Directory'
<1>1. CASE kind = "file" /\ k > 0
  <2>0. current \in DOMAIN files
    BY DEF Directory
  <2>1. PICK es : files' = [files EXCEPT ![current] = [mtime |-> now, size |-> @.size + k, events |-> @.events \cup es]]
    BY <1>1, <2>0 DEF Take
  <2>2. DOMAIN files' = DOMAIN files
    BY <2>1
  <2>3. files'[current].mtime = now /\ \A n \in DOMAIN files \ {current} : files'[n] = files[n]
    BY <2>1 DEF Directory
  <2>4. files' = [n \in DOMAIN files' |-> files'[n]]
    BY <2>1
  <2> QED
    BY <2>2, <2>3, <2>4 DEF Directory
<1>2. CASE ~(kind = "file" /\ k > 0)
  <2>1. files' = files
    BY <1>2 DEF Take
  <2> QED
    BY <2>1 DEF Directory
<1> QED
  BY <1>1, <1>2

LEMMA WritesKeep ==
  ASSUME Directory, WriteOut \/ WriteOutFails, UNCHANGED <<current, now>>
  PROVE  Directory'
<1>1. CASE WriteOut
  BY <1>1, TakeKeeps DEF WriteOut
<1>2. CASE WriteOutFails
  <2>1. CASE open
    BY <1>2, <2>1, TakeKeeps DEF WriteOutFails
  <2>2. CASE ~open
    BY <1>2, <2>2 DEF WriteOutFails, sink, Directory
  <2> QED
    BY <2>1, <2>2
<1> QED
  BY <1>1, <1>2

(* A file that is opened is the newest: one of this name is the current    *)
(* one, or there is none.                                                  *)
LEMMA OpenKeeps ==
  ASSUME Directory, OpenFile, UNCHANGED now
  PROVE  Directory'
<1>1. CASE now \in DOMAIN files
  <2>1. files' = files /\ current' = now
    BY <1>1 DEF OpenFile
  <2>2. current = now
    BY <1>1 DEF Directory
  <2> QED
    BY <2>1, <2>2 DEF Directory
<1>2. CASE now \notin DOMAIN files
  <2>1. /\ current' = now
        /\ files' = [n \in DOMAIN files \cup {now} |->
                       IF n = now THEN [mtime |-> now, size |-> 0, events |-> {}] ELSE files[n]]
    BY <1>2 DEF OpenFile
  <2>2. /\ DOMAIN files' = DOMAIN files \cup {now} /\ files'[now].mtime = now
        /\ \A n \in DOMAIN files : files'[n] = files[n]
        /\ files' = [n \in DOMAIN files' |-> files'[n]]
    BY <1>2, <2>1
  <2> QED
    BY <2>1, <2>2 DEF Directory
<1> QED
  BY <1>1, <1>2

(* Nothing is newer than the current file, and MaxFiles is not zero.       *)
LEMMA CleanupKeeps ==
  ASSUME Directory, NEW g, Cleanup(g)
  PROVE  Directory'
<1>1. UNCHANGED <<current, now>>
  BY DEF Cleanup, file
<1>2. \A n \in DOMAIN files : ~Older(current, n)
  BY DEF Directory, Older
<1>3. Rank(current) = 0
  <2>1. {n \in DOMAIN files : Older(current, n)} = {}
    BY <1>2
  <2> QED
    BY <2>1, FS_EmptySet DEF Rank
<1>4. Rank(current) < MaxFiles
  BY <1>3, WriterAssumption
<1> DEFINE kept == {n \in DOMAIN files : Rank(n) < MaxFiles}
<1>5. current \in kept /\ kept \subseteq DOMAIN files
  BY <1>4 DEF Directory
<1>6. files' = [n \in kept |-> files[n]]
  BY DEF Cleanup
<1> HIDE DEF kept
<1>7. DOMAIN files' = kept /\ \A n \in kept : files'[n] = files[n]
  BY <1>6
<1>8. files' = [n \in DOMAIN files' |-> files'[n]]
  BY <1>6, <1>7
<1> QED
  BY <1>1, <1>5, <1>7, <1>8 DEF Directory

(* Once the clock was set back, that stays known.                          *)
LEMMA SetBack ==
  ASSUME FilesOK, HistoryOK, [Next]_vars
  PROVE  setbacks' = 0 => setbacks = 0 /\ ~(now' < now)
<1>1. now \in Nat /\ setbacks \in Nat
  BY Bounds DEF FilesOK, HistoryOK
<1>2. CASE UNCHANGED vars
  BY <1>1, <1>2 DEF vars
<1>3. CASE Overlap
  BY <1>1, <1>3 DEF Overlap
<1> QED
  BY <1>2, <1>3 DEF Next

LEMMA FileInvariant ==
  ASSUME FileInv, FilesOK, HistoryOK, [Next]_vars
  PROVE  FileInv'
<1> SUFFICES ASSUME kind = "file", Directory, ~(now' < now)
             PROVE  Directory'
  <2>1. kind' = kind
    BY DEF Next, Step, Continue, AddEvent, Flush, BeginFlush, Store, BatchFull, WriteMessage,
       Reconnect, Reopened, ReopenFails, FlushWriter, Rotate, Cleanup, Clear, Close, Tick, vars
  <2>2. setbacks' = 0 => setbacks = 0 /\ ~(now' < now)
    BY SetBack
  <2> QED
    BY <2>1, <2>2 DEF FileInv
<1>1. ASSUME UNCHANGED <<files, current, now>>
      PROVE  Directory'
  BY <1>1 DEF Directory
<1>2. ASSUME NEW h \in Handlers, AddEvent(h)
      PROVE  Directory'
  BY <1>1, <1>2 DEF AddEvent, sink, file
<1>3. ASSUME NEW g, NEW from, BeginFlush(g, from)
      PROVE  Directory'
  BY <1>1, <1>3 DEF BeginFlush, sink, file
<1>4. ASSUME NEW g \in Goroutines, Continue(g)
      PROVE  Directory'
  <2>1. CASE Store(g) \/ BatchFull(g) \/ Reconnect(g) \/ ReopenFails(g) \/ Clear(g)
    BY <1>1, <1>3, <2>1 DEF Store, BatchFull, Reconnect, ReopenFails, Clear, sink, file
  <2>2. CASE WriteMessage(g)
    BY <1>1, <2>2, WritesKeep DEF WriteMessage, sink
  <2>3. CASE Reopened(g)
    BY <2>3, OpenKeeps DEF Reopened
  <2>4. CASE FlushWriter(g)
    BY <1>1, <2>4, WritesKeep DEF FlushWriter, sink, file
  <2>5. CASE Rotate(g)
    BY <1>1, <2>5, OpenKeeps DEF Rotate, file
  <2>6. CASE Cleanup(g)
    BY <2>6, CleanupKeeps
  <2> QED
    BY <1>4, <2>1, <2>2, <2>3, <2>4, <2>5, <2>6 DEF Continue
<1>5. CASE Close
  BY <1>1, <1>5 DEF Close, sink, file
<1>6. CASE Tick
  <2>1. now' \in 0 .. LastSecond /\ now \in Nat
    BY <1>6 DEF Tick, Directory
  <2>2. now' \in Nat /\ now <= now'
    BY <2>1, Bounds
  <2>3. UNCHANGED <<files, current>>
    BY <1>6 DEF Tick, sink, file
  <2> QED
    BY <2>2, <2>3 DEF Directory
<1>7. CASE UNCHANGED vars
  BY <1>1, <1>7 DEF vars, sink, file
<1> QED
  BY <1>2, <1>3, <1>4, <1>5, <1>6, <1>7 DEF Next, Step, Flush

(* As long as the clock is not set back, cleanup never removes the file    *)
(* that is written to (file.go:148-188).                                   *)
THEOREM CurrentFileIsKept == Spec => []CurrentFileKept
<1>1. Init => FileInv
  BY DEF Init, FileInv, Directory
<1>2. Typed /\ FileInv /\ [Next]_vars => FileInv'
  BY FileInvariant DEF Typed
<1>3. FileInv => CurrentFileKept
  BY DEF FileInv, Directory, CurrentFileKept
<1> QED
  BY <1>1, <1>2, <1>3, TypesHold, PTL DEF Spec

-----------------------------------------------------------------------------
(* Calls that overlap mark the events they deal with                       *)

(* Besides the actor's, no call moves.                                     *)
LEMMA OthersStay ==
  ASSUME BufferOK, NEW g \in Goroutines, NEW c, call' = [call EXCEPT ![g] = c]
  PROVE  call'[g] = c /\ \A h \in Goroutines \ {g} : call'[h] = call[h]
BY DEF BufferOK

LEMMA TheBufferIsHeld ==
  ASSUME BufferOK
  PROVE  Slots(len) \subseteq Held
BY DEF BufferOK, Slots, Held, Filled

(* A step of the call of g. What another call relies on has been marked or *)
(* is marked now; g's own call was alone and still is, or the same holds.  *)
LEMMA StepProgress ==
  ASSUME BufferOK, BufferOK', CallsProgress, Overlap, NEW g \in Goroutines,
         \A h \in Goroutines \ {g} : call'[h] = call[h],
         g \in InCall \cup InCall',
         \A i \in Events : array'[i] = array[i] \/ array'[i] \in Held',
         g \notin InCall => array' = array /\ len' = len,
         g \notin InCall' => Held' \subseteq Held,
         Held' \subseteq Held \cup (IF g \in InCall THEN Slots(Reach(g)) ELSE Held'),
         \/ Reach(g)' = 0 \/ Reach(g)' = len'
         \/ g \in InCall /\ Reach(g)' = Reach(g),
         g \in InCall' /\ InCall \subseteq {g} /\ (g \in InCall => Progress(g)) => Progress(g)'
  PROVE  CallsProgress'
<1>0. /\ InCall \subseteq Goroutines /\ InCall' \subseteq Goroutines
      /\ \A h \in Goroutines \ {g} : h \in InCall <=> h \in InCall'
  BY DEF InCall
<1>1. /\ overlapped \subseteq overlapped'
      /\ \A h, k \in InCall' : h # k => Held' \subseteq overlapped'
  BY DEF Overlap
<1>2. (Slots(len) \subseteq Held)'
  BY TheBufferIsHeld, PTL
<1>3. ASSUME NEW n \in 0 .. MaxEvents, Slots(n) \subseteq overlapped, Held' \subseteq overlapped'
      PROVE  \A i \in 1 .. n : array'[i] \in overlapped'
  <2> TAKE i \in 1 .. n
  <2>1. i \in Events /\ array[i] \in overlapped
    BY <1>3, Bounds DEF Slots, Events
  <2> QED
    BY <1>1, <1>3, <2>1
<1>4. ASSUME NEW h \in Goroutines
      PROVE  Reach(h) \in 0 .. MaxEvents
  <2>1. CallOK(call[h]) /\ call[h] \in CallType
    BY DEF BufferOK, CallOK
  <2> QED
    BY <2>1, Bounds DEF Reach, At, CallOK, CallType, Events
<1>5. ASSUME NEW h \in InCall', h # g
      PROVE  Together(h)'
  <2>1. h \in InCall /\ h \in Goroutines /\ call'[h] = call[h]
    BY <1>0, <1>5
  <2>2. Reach(h)' = Reach(h)
    BY <2>1 DEF Reach, At, Looping
  <2>3. CASE InCall = {h} /\ Progress(h)
    <3>1. g \notin InCall /\ g \in InCall' /\ array' = array /\ len' = len
      BY <1>5, <2>3
    <3>2. Held' \subseteq overlapped'
      BY <1>1, <1>5, <3>1
    <3>3. Reach(h) \in {0, len} /\ len \in Nat
      BY <2>3, Bounds DEF Reach, Progress, BufferOK
    <3>4. Slots(Reach(h))' \subseteq Held'
      BY <1>2, <2>2, <3>1, <3>3 DEF Slots
    <3> QED
      BY <3>2, <3>4 DEF Together
  <2>4. CASE Together(h)
    <3>1. Held' \subseteq overlapped'
      <4>1. CASE g \in InCall'
        BY <1>1, <1>5, <4>1
      <4>2. CASE g \notin InCall'
        BY <1>1, <2>4, <4>2 DEF Together
      <4> QED
        BY <4>1, <4>2
    <3>2. \A i \in 1 .. Reach(h) : array'[i] \in overlapped'
      BY <1>3, <1>4, <2>1, <2>4, <3>1 DEF Together
    <3> QED
      BY <2>2, <3>1, <3>2 DEF Together, Slots
  <2> QED
    BY <2>1, <2>3, <2>4 DEF CallsProgress
<1>6. ASSUME g \in InCall'
      PROVE  (InCall' = {g} /\ Progress(g)') \/ Together(g)'
  <2>1. ASSUME Held' \subseteq overlapped', g \in InCall => Together(g)
        PROVE  Together(g)'
    <3>1. CASE Reach(g)' = 0 \/ Reach(g)' = len'
      <4>1. Slots(Reach(g))' \subseteq Held'
        BY <1>2, <3>1 DEF Slots
      <4> QED
        BY <2>1, <4>1 DEF Together
    <3>2. CASE g \in InCall /\ Reach(g)' = Reach(g)
      <4>1. \A i \in 1 .. Reach(g) : array'[i] \in overlapped'
        BY <1>3, <1>4, <2>1, <3>2 DEF Together
      <4> QED
        BY <2>1, <3>2, <4>1 DEF Together, Slots
    <3> QED
      BY <3>1, <3>2
  <2>2. CASE \E h \in InCall' : h # g
    <3>1. PICK h \in InCall' : h # g
      BY <2>2
    <3>2. Held' \subseteq overlapped' /\ h \in InCall
      BY <1>0, <1>1, <1>6, <3>1
    <3>3. g \in InCall => Together(g)
      BY <3>1, <3>2 DEF CallsProgress
    <3> QED
      BY <2>1, <3>2, <3>3
  <2>3. CASE \A h \in InCall' : h = g
    <3>1. InCall' = {g} /\ InCall \subseteq {g}
      BY <1>0, <1>6, <2>3
    <3>2. CASE g \in InCall => Progress(g)
      BY <1>6, <3>1, <3>2
    <3>3. CASE g \in InCall /\ Together(g)
      <4>1. Held' \subseteq overlapped'
        BY <1>1, <3>3 DEF Together
      <4> QED
        BY <2>1, <3>3, <4>1
    <3> QED
      BY <3>1, <3>2, <3>3 DEF CallsProgress
  <2> QED
    BY <2>2, <2>3
<1> QED
  BY <1>5, <1>6 DEF CallsProgress

-----------------------------------------------------------------------------
(* Only events that were added are anywhere                                *)

(* The descriptor gets the first k pending messages behind what it got.    *)
LEMMA Receives ==
  ASSUME StreamOK, NEW k \in 0 .. Len(pending), Take(k)
  PROVE  /\ Len(received') = Len(received) + k
         /\ Len(received) \in Nat /\ Len(pending) \in Nat
         /\ \A i \in 1 .. Len(received) : received'[i] = received[i]
         /\ \A i \in 1 .. k : received'[Len(received) + i] = pending[i]
         /\ out' = out \cup {pending[i] : i \in 1 .. k}
<1> DEFINE taken == SubSeq(pending, 1, k)
<1>1. Len(pending) \in Nat /\ Len(received) \in Nat /\ k \in Nat
  BY LenProperties DEF StreamOK
<1>2. /\ taken \in Seq(Events) /\ Len(taken) = k
      /\ \A i \in 1 .. k : taken[i] = pending[i]
  BY <1>1, SubSeqProperties DEF StreamOK
<1>3. received' = received \o taken /\ out' = out \cup {taken[i] : i \in 1 .. k}
  BY DEF Take
<1>4. {taken[i] : i \in 1 .. k} = {pending[i] : i \in 1 .. k}
  BY <1>2
<1> HIDE DEF taken
<1>5. /\ Len(received') = Len(received) + k
      /\ \A i \in 1 .. Len(received) : received'[i] = received[i]
      /\ \A i \in 1 .. k : received'[Len(received) + i] = pending[i]
  <2>1. received \in Seq(Events) /\ received' = received \o taken
    BY <1>3 DEF StreamOK
  <2>2. \A i \in 1 .. Len(received) + k :
          received'[i] = IF i <= Len(received) THEN received[i] ELSE taken[i - Len(received)]
    BY <1>2, <2>1, ConcatProperties
  <2>3. ASSUME NEW i \in 1 .. k
        PROVE  received'[Len(received) + i] = pending[i]
    <3>1. /\ Len(received) + i \in 1 .. Len(received) + k
          /\ ~(Len(received) + i <= Len(received))
          /\ Len(received) + i - Len(received) = i
      BY <1>1
    <3> QED
      BY <1>2, <2>2, <3>1
  <2>4. ASSUME NEW i \in 1 .. Len(received)
        PROVE  received'[i] = received[i]
    <3>1. i \in 1 .. Len(received) + k /\ i <= Len(received)
      BY <1>1
    <3> QED
      BY <2>2, <3>1
  <2> QED
    BY <1>2, <2>1, <2>3, <2>4, ConcatProperties
<1> QED
  BY <1>1, <1>3, <1>4, <1>5

LEMMA TakesFromPending ==
  ASSUME StreamOK, NEW k \in 0 .. Len(pending), Take(k)
  PROVE  /\ Messages(received)' \subseteq Sent
         /\ out \subseteq out' /\ out' \subseteq out \cup Messages(pending)
         /\ k = Len(pending) => out' = out \cup Messages(pending)
<1>1. ASSUME NEW i \in 1 .. Len(received')
      PROVE  received'[i] \in Sent
  <2>1. CASE i \in 1 .. Len(received)
    BY <2>1, Receives DEF Sent, Messages
  <2>2. CASE i \notin 1 .. Len(received)
    <3>1. PICK j \in 1 .. k : i = Len(received) + j
      <4>1. i - Len(received) \in 1 .. k /\ i = Len(received) + (i - Len(received))
        BY <2>2, Receives
      <4> QED
        BY <4>1
    <3>2. received'[i] = pending[j] /\ j \in 1 .. Len(pending)
      BY <3>1, Receives
    <3> QED
      BY <3>2 DEF Sent, Messages
  <2> QED
    BY <2>1, <2>2
<1>2. {pending[i] : i \in 1 .. k} \subseteq Messages(pending)
  BY Receives DEF Messages
<1> QED
  BY <1>1, <1>2, Receives DEF Messages

(* A write, whether it succeeds or fails.                                  *)
LEMMA Writes ==
  ASSUME StreamOK, WriteOut \/ WriteOutFails
  PROVE  /\ Messages(received)' \subseteq Sent
         /\ out \subseteq out' /\ out' \subseteq out \cup Messages(pending)
         /\ WriteOut => out' = out \cup Messages(pending)
<1>1. Len(pending) \in 0 .. Len(pending) /\ 0 .. Len(pending) - 1 \subseteq 0 .. Len(pending)
  BY LenProperties DEF StreamOK
<1>2. ASSUME UNCHANGED <<sink, faults>>
      PROVE  Messages(received)' \subseteq Sent /\ out' = out
  BY <1>2 DEF sink, Sent, Messages
<1>3. CASE WriteOut
  BY <1>1, <1>3, TakesFromPending DEF WriteOut
<1>4. CASE WriteOutFails
  <2>1. CASE ~open
    BY <1>2, <1>4, <2>1 DEF WriteOutFails, WriteOut
  <2>2. CASE open
    <3>1. PICK k \in 0 .. Len(pending) - 1 : Take(k)
      BY <1>4, <2>2 DEF WriteOutFails
    <3>2. k # Len(pending) /\ k \in 0 .. Len(pending)
      BY <1>1, LenProperties DEF StreamOK
    <3>3. ~WriteOut \/ out' = out \cup Messages(pending)
      BY <1>1, TakesFromPending DEF WriteOut
    <3> QED
      BY <3>1, <3>2, <3>3, TakesFromPending
  <2> QED
    BY <2>1, <2>2
<1> QED
  BY <1>3, <1>4

-----------------------------------------------------------------------------
(* Steps that neither add nor store an event                               *)

LoopStep(g) == WriteMessage(g) \/ Reconnect(g) \/ Reopened(g)
EndStep(g)  == ReopenFails(g) \/ FlushWriter(g) \/ Rotate(g) \/ Cleanup(g) \/ Clear(g)

Quiet(g) ==
  \/ BatchFull(g) \/ LoopStep(g) \/ EndStep(g)
  \/ g \in {Flusher, Closer} /\ Flush(g)
  \/ g = Closer /\ Close

LEMMA GotoEvent ==
  ASSUME BufferOK, NEW g \in Goroutines, NEW from, NEW to, Goto(g, from, to)
  PROVE  /\ \A h \in Goroutines \ {g} : call'[h] = call[h]
         /\ call[g].pc = from /\ call'[g].pc = to
         /\ call'[g].event = call[g].event
         /\ call'[g].at = call[g].at /\ call'[g].count = call[g].count
<1>1. call[g] \in CallType
  BY DEF BufferOK, CallOK
<1>2. call' = [call EXCEPT ![g].pc = to] /\ call[g].pc = from
  BY DEF Goto, At
<1>3. call'[g] = [call[g] EXCEPT !.pc = to] /\ \A h \in Goroutines \ {g} : call'[h] = call[h]
  BY <1>2 DEF BufferOK
<1> QED
  BY <1>1, <1>2, <1>3 DEF CallType

LEMMA ReturnEvent ==
  ASSUME BufferOK, NEW g \in Goroutines, NEW from, Return(g, from)
  PROVE  /\ \A h \in Goroutines \ {g} : call'[h] = call[h]
         /\ call[g].pc = from /\ call'[g].pc = (IF g = Closer THEN "closing" ELSE "idle")
         /\ call'[g].event = 0
BY DEF BufferOK, Return, At, No

LEMMA LoopCall ==
  ASSUME NEW n, NEW c, c = [No("writing") EXCEPT !.at = 1, !.count = n]
  PROVE  c.pc = "writing" /\ c.event = 0 /\ c.at = 1 /\ c.count = n
<1> DEFINE b == No("writing")
           d == [b EXCEPT !.at = 1]
<1>1. /\ DOMAIN b = {"pc", "event", "at", "count"}
      /\ b.pc = "writing" /\ b.event = 0 /\ b.count = 0
  BY DEF No
<1> HIDE DEF b
<1>2. /\ DOMAIN d = {"pc", "event", "at", "count"}
      /\ d.pc = "writing" /\ d.event = 0 /\ d.at = 1
  BY <1>1
<1> HIDE DEF d
<1>3. c = [d EXCEPT !.count = n]
  BY DEF d, b
<1> QED
  BY <1>2, <1>3

LEMMA BeginFlushEvent ==
  ASSUME BufferOK, NEW g \in Goroutines, NEW from, BeginFlush(g, from)
  PROVE  /\ \A h \in Goroutines \ {g} : call'[h] = call[h]
         /\ call[g].pc = from /\ call'[g].event = 0
         /\ \/ len = 0 /\ call'[g].pc = (IF g = Closer THEN "closing" ELSE "idle")
            \/ /\ call'[g].pc = "writing"
               /\ call'[g].at = 1 /\ call'[g].count = len
<1>1. CASE len = 0
  BY <1>1, ReturnEvent DEF BeginFlush
<1>2. CASE len # 0
  <2>1. call' = [call EXCEPT ![g] = [No("writing") EXCEPT !.at = 1, !.count = len]]
        /\ call[g].pc = from
    BY <1>2 DEF BeginFlush, At
  <2>2. /\ call'[g] = [No("writing") EXCEPT !.at = 1, !.count = len]
        /\ \A h \in Goroutines \ {g} : call'[h] = call[h]
    BY <2>1 DEF BufferOK
  <2>3. /\ call'[g].pc = "writing" /\ call'[g].event = 0
        /\ call'[g].at = 1 /\ call'[g].count = len
    <3>1. PICK c : c = [No("writing") EXCEPT !.at = 1, !.count = len]
      OBVIOUS
    <3>2. c.pc = "writing" /\ c.event = 0 /\ c.at = 1 /\ c.count = len
      BY <3>1, LoopCall
    <3>3. call'[g] = c
      BY <2>2, <3>1, Zenon
    <3> QED
      BY <3>2, <3>3
  <2> QED
    BY <2>1, <2>2, <2>3
<1> QED
  BY <1>1, <1>2

(* The loop goes on to its next index.                                     *)
LEMMA NextIndex ==
  ASSUME BufferOK, NEW g \in Goroutines,
         \/ call' = [call EXCEPT ![g].at = @ + 1] /\ call[g].pc = "writing"
         \/ call' = [call EXCEPT ![g].pc = "writing", ![g].at = @ + 1]
  PROVE  /\ \A h \in Goroutines \ {g} : call'[h] = call[h]
         /\ call'[g].pc = "writing" /\ call'[g].event = call[g].event
         /\ call'[g].at = call[g].at + 1 /\ call'[g].count = call[g].count
<1>1. call[g] \in CallType
  BY DEF BufferOK, CallOK
<1>2. CASE call' = [call EXCEPT ![g].at = @ + 1] /\ call[g].pc = "writing"
  <2>1. call'[g] = [call[g] EXCEPT !.at = @ + 1] /\ \A h \in Goroutines \ {g} : call'[h] = call[h]
    BY <1>2 DEF BufferOK
  <2> QED
    BY <1>1, <1>2, <2>1 DEF CallType
<1>3. CASE call' = [call EXCEPT ![g].pc = "writing", ![g].at = @ + 1]
  <2>1. /\ call'[g] = [[call[g] EXCEPT !.pc = "writing"] EXCEPT !.at = @ + 1]
        /\ \A h \in Goroutines \ {g} : call'[h] = call[h]
    BY <1>1, <1>3 DEF BufferOK, CallType
  <2> QED
    BY <1>1, <2>1 DEF CallType
<1> QED
  BY <1>2, <1>3

(* What all quiet steps have in common.                                    *)
LEMMA QuietStep ==
  ASSUME BufferOK, NEW g \in Goroutines, Quiet(g)
  PROVE  /\ \A h \in Goroutines \ {g} : call'[h] = call[h]
         /\ ~At(g, "append") /\ ~At(g, "append")'
         /\ call[g].event = 0 => call'[g].event = 0
         /\ added' = added /\ array' = array
         /\ len' = len \/ (len' = 0 /\ At(g, "clearing"))
<1> USE DEF At, buffer
<1>1. CASE BatchFull(g)
  BY <1>1, BeginFlushEvent, ReturnEvent DEF BatchFull, BeginFlush
<1>2. CASE WriteMessage(g)
  <2>1. CASE Goto(g, "writing", "reconnect")
    BY <1>2, <2>1, GotoEvent DEF WriteMessage
  <2>2. CASE At(g, "writing") /\ call' = [call EXCEPT ![g].at = @ + 1]
    BY <1>2, <2>2, NextIndex DEF WriteMessage
  <2> QED
    BY <1>2, <2>1, <2>2 DEF WriteMessage
<1>3. CASE Reconnect(g)
  BY <1>3, GotoEvent DEF Reconnect
<1>4. CASE Reopened(g)
  BY <1>4, NextIndex DEF Reopened
<1>5. CASE ReopenFails(g)
  BY <1>5, ReturnEvent DEF ReopenFails
<1>6. CASE FlushWriter(g)
  <2>1. AfterFlush \in {"rotating", "clearing"}
    BY DEF AfterFlush
  <2>2. CASE Goto(g, "writing", AfterFlush)
    BY <1>6, <2>1, <2>2, GotoEvent DEF FlushWriter
  <2>3. CASE Return(g, "writing")
    BY <1>6, <2>3, ReturnEvent DEF FlushWriter
  <2> QED
    BY <1>6, <2>2, <2>3 DEF FlushWriter
<1>7. CASE Rotate(g)
  BY <1>7, GotoEvent, ReturnEvent DEF Rotate
<1>8. CASE Cleanup(g)
  BY <1>8, GotoEvent DEF Cleanup
<1>9. CASE Clear(g)
  BY <1>9, ReturnEvent DEF Clear
<1>10. CASE Flush(g)
  BY <1>10, BeginFlushEvent DEF Flush, BeginFlush
<1>11. CASE g = Closer /\ Close
  BY <1>11, GotoEvent DEF Close
<1> QED
  BY <1>1, <1>2, <1>3, <1>4, <1>5, <1>6, <1>7, <1>8, <1>9, <1>10, <1>11
  DEF Quiet, LoopStep, EndStep

(* The steps there are.                                                    *)
LEMMA Steps ==
  ASSUME [Next]_vars
  PROVE  \/ Overlap /\ \E h \in Handlers : AddEvent(h)
         \/ Overlap /\ \E g \in Goroutines : Store(g)
         \/ Overlap /\ \E g \in Goroutines : Quiet(g)
         \/ Overlap /\ Tick
         \/ UNCHANGED vars
BY DEF Next, Step, Continue, Quiet, LoopStep, EndStep, Goroutines

-----------------------------------------------------------------------------
(* Where events go                                                         *)

LEMMA MessagesOf ==
  /\ Messages(<<>>) = {}
  /\ \A m : Messages(<<m>>) = {m}
  /\ \A s \in Seq(Events), m \in Events : Messages(Append(s, m)) = Messages(s) \cup {m}
<1>1. Messages(<<>>) = {}
  BY DEF Messages
<1>2. ASSUME NEW m
      PROVE  Messages(<<m>>) = {m}
  <2>1. Len(<<m>>) = 1 /\ <<m>>[1] = m
    OBVIOUS
  <2>2. 1 .. 1 = {1}
    OBVIOUS
  <2> QED
    BY <2>1, <2>2 DEF Messages
<1>3. ASSUME NEW s \in Seq(Events), NEW m \in Events
      PROVE  Messages(Append(s, m)) = Messages(s) \cup {m}
  <2>1. /\ Len(Append(s, m)) = Len(s) + 1 /\ Len(s) \in Nat
        /\ Append(s, m)[Len(s) + 1] = m
        /\ \A i \in 1 .. Len(s) : Append(s, m)[i] = s[i]
    BY AppendProperties, LenProperties
  <2>2. 1 .. Len(s) + 1 = (1 .. Len(s)) \cup {Len(s) + 1}
    BY <2>1
  <2> QED
    BY <2>1, <2>2 DEF Messages
<1> QED
  BY <1>1, <1>2, <1>3

(* Every event that has left the buffer, or is on its way.                 *)
Gone == Sent \cup out \cup skipped

(* A flush only sends what is in the buffer's array.                       *)
LEMMA QuietStream ==
  ASSUME BufferOK, Core, NEW g \in Goroutines, Quiet(g)
  PROVE  /\ Gone' \subseteq Gone \cup ({array[i] : i \in Events} \ {0})
         /\ out \subseteq out' /\ skipped \subseteq skipped'
<1> DEFINE events == {array[i] : i \in Events} \ {0}
<1>0. StreamOK
  BY DEF Core
<1>1. ASSUME UNCHANGED <<pending, received, out, skipped>>
      PROVE  Gone' = Gone
  BY <1>1 DEF Gone, Sent, Messages
<1>2. ASSUME ~LoopDone(g), call[g].pc \in {"writing", "opening"}
      PROVE  /\ Message(g) \in events /\ Message(g) \in Events
             /\ Slots(call[g].at - 1) \subseteq events
  <2>1. CallOK(call[g]) /\ call[g].at \in 0 .. MaxEvents + 1 /\ call[g].count \in 0 .. MaxEvents
    BY DEF BufferOK, CallOK, CallType
  <2>2. call[g].at \in Events /\ \A i \in 1 .. call[g].at - 1 : i \in Events
    BY <1>2, <2>1, Bounds DEF CallOK, LoopDone, Events
  <2>3. Message(g) \in Events /\ \A i \in 1 .. call[g].at - 1 : array[i] \in Events
    BY <1>2, MessageIsEvent
  <2>4. 0 \notin Events
    BY Bounds DEF Events
  <2> QED
    BY <2>2, <2>3, <2>4 DEF Message, Slots
<1> HIDE DEF events
<1>3. CASE WriteMessage(g)
  <2>0. skipped' = skipped
    BY <1>3 DEF WriteMessage
  <2>1. CASE /\ At(g, "writing") /\ Len(pending) < WriterSize
             /\ pending' = Append(pending, Message(g)) /\ UNCHANGED <<sink, faults>>
    <3>1. Messages(pending)' = Messages(pending) \cup {Message(g)} /\ Message(g) \in events
      BY <1>0, <1>2, <1>3, <2>1, MessagesOf DEF WriteMessage, At, StreamOK, Messages
    <3> QED
      BY <2>0, <2>1, <3>1 DEF Gone, Sent, sink, Messages, events
  <2>2. CASE At(g, "writing") /\ pending' = <<Message(g)>> /\ WriteOut
    <3>1. Messages(pending)' = {Message(g)} /\ Message(g) \in events
      BY <1>2, <1>3, <2>2, MessagesOf DEF WriteMessage, At, Messages
    <3> QED
      BY <1>0, <2>0, <2>2, <3>1, Writes DEF Gone, Sent, events
  <2>3. CASE WriteOutFails /\ UNCHANGED pending
    <3>1. Messages(pending)' = Messages(pending)
      BY <2>3 DEF Messages
    <3> QED
      BY <1>0, <2>0, <2>3, <3>1, Writes DEF Gone, Sent
  <2>4. CASE UNCHANGED <<pending, sink>>
    BY <1>1, <2>0, <2>4 DEF sink
  <2> QED
    BY <1>3, <2>1, <2>2, <2>3, <2>4 DEF WriteMessage
<1>4. CASE Reopened(g)
  <2>1. /\ At(g, "opening") /\ pending' = <<Message(g)>> /\ received' = <<>> /\ out' = out
        /\ skipped' = skipped \cup (Slots(call[g].at - 1) \ out)
    BY <1>4 DEF Reopened, OpenFile, Slots
  <2>2. ~LoopDone(g)
    <3>1. call[g] \in CallType /\ call[g].at <= call[g].count
      BY <2>1 DEF BufferOK, CallOK, At
    <3> QED
      BY <3>1, Bounds DEF CallType, LoopDone
  <2>3. Messages(pending)' = {Message(g)} /\ Messages(received)' = {}
    BY <2>1, MessagesOf DEF Messages
  <2>4. Message(g) \in events /\ Slots(call[g].at - 1) \subseteq events
    BY <1>2, <2>1, <2>2 DEF At
  <2> QED
    BY <2>1, <2>3, <2>4 DEF Gone, Sent, events
<1>5. CASE FlushWriter(g)
  <2>0. skipped' = skipped
    BY <1>5 DEF FlushWriter
  <2>1. CASE UNCHANGED <<pending, sink>>
    BY <1>1, <2>0, <2>1 DEF sink
  <2>2. CASE (WriteOut \/ WriteOutFails) /\ pending' \in {<<>>, pending}
    <3>1. Messages(pending)' \subseteq Messages(pending)
      BY <2>2, MessagesOf DEF Messages
    <3> QED
      BY <1>0, <2>0, <2>2, <3>1, Writes DEF Gone, Sent
  <2> QED
    BY <1>5, <2>1, <2>2 DEF FlushWriter
<1>6. CASE Rotate(g)
  <2>1. /\ out' = out /\ skipped' = skipped
        /\ (pending' = <<>> /\ received' = <<>>) \/ UNCHANGED <<pending, received>>
    BY <1>6 DEF Rotate, OpenFile
  <2>2. Sent' \subseteq Sent
    BY <2>1, MessagesOf DEF Sent, Messages
  <2> QED
    BY <2>1, <2>2 DEF Gone
<1>7. CASE BatchFull(g) \/ Reconnect(g) \/ ReopenFails(g) \/ Cleanup(g) \/ Clear(g) \/ Flush(g) \/ Close
  <2>1. UNCHANGED <<pending, received, out, skipped>>
    BY <1>7 DEF BatchFull, BeginFlush, Reconnect, ReopenFails, Cleanup, Clear, Flush, Close, writer, sink
  <2> QED
    BY <1>1, <2>1
<1> QED
  BY <1>3, <1>4, <1>5, <1>6, <1>7 DEF Quiet, LoopStep, EndStep, events

LEMMA OnlyAddedKept ==
  ASSUME BufferOK, Core, OnlyAdded, [Next]_vars
  PROVE  OnlyAdded'
<1>0. /\ added \in Nat /\ Gone \subseteq 1 .. added
      /\ \A i \in Events : array[i] <= added
      /\ \A g \in Goroutines :
           call[g].event <= added /\ (call[g].pc # "append" => call[g].event = 0)
  BY Bounds DEF OnlyAdded, Gone, BufferOK, At
<1>1. ASSUME NEW h \in Handlers, AddEvent(h)
      PROVE  OnlyAdded'
  <2>1. /\ added' = added + 1 /\ array' = array /\ UNCHANGED <<pending, received, out, skipped>>
        /\ h \in Goroutines
    BY <1>1 DEF AddEvent, buffer, writer, sink, Goroutines
  <2>2. call'[h].pc = "append" /\ call'[h].event = added' /\ \A g \in Goroutines \ {h} : call'[g] = call[g]
    BY <1>1, <2>1 DEF AddEvent, BufferOK, No
  <2>3. /\ \A i \in Events : array[i] \in Int
        /\ \A g \in Goroutines : call[g].event \in Int
    BY Bounds DEF BufferOK, CallOK, CallType, Events
  <2>4. \A i \in Events : array'[i] <= added'
    BY <1>0, <2>1, <2>3 DEF OnlyAdded
  <2>5. Gone' \subseteq 1 .. added'
    <3>1. Gone' = Gone
      BY <2>1 DEF Gone, Sent, Messages
    <3>2. 1 .. added \subseteq 1 .. added'
      BY <1>0, <2>1
    <3> QED
      BY <1>0, <3>1, <3>2
  <2>6. ASSUME NEW g \in Goroutines
        PROVE  call'[g].event <= added' /\ (~At(g, "append")' => call'[g].event = 0)
    <3>1. CASE g = h
      BY <1>0, <2>1, <2>2, <3>1 DEF At
    <3>2. CASE g # h
      <4>1. call'[g] = call[g]
        BY <2>2, <3>2
      <4>2. call[g].event <= added' /\ (call[g].pc # "append" => call[g].event = 0)
        BY <1>0, <2>1, <2>3
      <4> QED
        BY <4>1, <4>2 DEF At
    <3> QED
      BY <3>1, <3>2
  <2> QED
    BY <2>4, <2>5, <2>6 DEF OnlyAdded, Gone
<1>2. ASSUME NEW h \in Goroutines, Store(h)
      PROVE  OnlyAdded'
  <2>1. /\ added' = added /\ UNCHANGED <<pending, received, out, skipped>>
        /\ array' = [array EXCEPT ![call[h].at + 1] = call[h].event]
    BY <1>2 DEF Store, writer, sink
  <2>2. call'[h] = No("added") /\ \A g \in Goroutines \ {h} : call'[g] = call[g]
    BY <1>2 DEF Store, BufferOK
  <2>3. \A i \in Events : array'[i] \in {array[i], call[h].event}
    BY <2>1 DEF BufferOK
  <2>4. \A i \in Events : array'[i] <= added'
    BY <2>1, <2>3 DEF OnlyAdded
  <2>5. Gone' = Gone
    BY <2>1 DEF Gone, Sent, Messages
  <2>6. \A g \in Goroutines : call'[g].event <= added' /\ (~At(g, "append")' => call'[g].event = 0)
    BY <1>0, <2>1, <2>2 DEF OnlyAdded, At, No
  <2> QED
    BY <1>0, <2>1, <2>4, <2>5, <2>6 DEF OnlyAdded, Gone
<1>3. ASSUME NEW g \in Goroutines, Quiet(g)
      PROVE  OnlyAdded'
  <2>1. Gone' \subseteq Gone \cup ({array[i] : i \in Events} \ {0}) /\ added' = added /\ array' = array
    BY <1>3, QuietStream, QuietStep
  <2>2. ASSUME NEW i \in Events, array[i] # 0
        PROVE  array[i] \in 1 .. added
    BY <1>0, <2>2, Bounds DEF OnlyAdded, BufferOK, Events
  <2>3. Gone' \subseteq 1 .. added
    BY <1>0, <2>1, <2>2 DEF OnlyAdded
  <2>4. \A h \in Goroutines : call'[h].event <= added' /\ (~At(h, "append")' => call'[h].event = 0)
    BY <1>0, <1>3, <2>1, QuietStep DEF OnlyAdded, At
  <2> QED
    BY <2>1, <2>3, <2>4 DEF OnlyAdded, Gone
<1>4. CASE Tick \/ UNCHANGED vars
  BY <1>4 DEF Tick, vars, buffer, writer, sink, OnlyAdded, Sent, Messages, At
<1> QED
  BY <1>1, <1>2, <1>3, <1>4, Steps

-----------------------------------------------------------------------------
(* A call that runs alone makes progress                                   *)

LEMMA QuietHolds ==
  ASSUME BufferOK, OnlyAdded, NEW g \in Goroutines, Quiet(g)
  PROVE  Held' \subseteq Held
<1>1. call[g].event = 0 /\ call'[g].event = 0 /\ array' = array /\ len' \in {0, len}
  BY QuietStep DEF OnlyAdded
<1>2. \A h \in Goroutines : call'[h].event = call[h].event
  BY <1>1, QuietStep
<1>3. len \in Nat
  BY Bounds DEF BufferOK
<1>4. {array'[i] : i \in 1 .. len'} \subseteq {array[i] : i \in 1 .. len}
  BY <1>1, <1>3
<1> QED
  BY <1>2, <1>4 DEF Held

(* What a call that goes on relies on is what it relied on before.         *)
LEMMA QuietReach ==
  ASSUME BufferOK, NEW g \in Goroutines, Quiet(g)
  PROVE  \/ Reach(g)' = 0 \/ Reach(g)' = len'
         \/ g \in InCall /\ Reach(g)' = Reach(g)
<1> USE DEF Reach, At, Looping
<1>1. ASSUME NEW from, BeginFlush(g, from)
      PROVE  Reach(g)' = 0 \/ Reach(g)' = len'
  BY <1>1, BeginFlushEvent DEF BeginFlush, buffer
<1>2. ASSUME NEW from, Return(g, from)
      PROVE  Reach(g)' = 0
  BY <1>2, ReturnEvent
<1>3. ASSUME NEW from \in {"reconnect", "rotating", "cleaning", "writing"},
             NEW to \in {"reconnect", "opening", "cleaning", "clearing", "rotating"}, Goto(g, from, to),
             from \in {"rotating", "cleaning"} => to \in {"cleaning", "clearing"}
      PROVE  Reach(g)' = 0 \/ (g \in InCall /\ Reach(g)' = Reach(g))
  BY <1>3, GotoEvent DEF InCall
<1>4. CASE BatchFull(g) \/ Flush(g)
  BY <1>1, <1>2, <1>4 DEF BatchFull, Flush
<1>5. CASE WriteMessage(g) \/ Reopened(g)
  <2>1. CASE Goto(g, "writing", "reconnect")
    BY <1>3, <2>1
  <2>2. CASE ~Goto(g, "writing", "reconnect")
    BY <1>5, <2>2, NextIndex DEF WriteMessage, Reopened, InCall
  <2> QED
    BY <2>1, <2>2
<1>6. CASE FlushWriter(g)
  <2>1. AfterFlush \in {"rotating", "clearing"}
    BY DEF AfterFlush
  <2> QED
    BY <1>2, <1>3, <1>6, <2>1 DEF FlushWriter
<1>7. CASE Reconnect(g) \/ ReopenFails(g) \/ Rotate(g) \/ Cleanup(g) \/ Clear(g)
  BY <1>2, <1>3, <1>7 DEF Reconnect, ReopenFails, Rotate, Cleanup, Clear
<1>8. CASE g = Closer /\ Close
  BY <1>8, GotoEvent DEF Close
<1> QED
  BY <1>4, <1>5, <1>6, <1>7, <1>8 DEF Quiet, LoopStep, EndStep

(* The bounds of a loop.                                                   *)
LEMMA LoopIndex ==
  ASSUME BufferOK, NEW g \in Goroutines, Looping(g)
  PROVE  /\ call[g].at \in 1 .. MaxEvents + 1 /\ call[g].count \in 0 .. MaxEvents
         /\ call[g].at <= call[g].count + 1
         /\ call[g].pc # "writing" => call[g].at <= call[g].count
BY Bounds DEF BufferOK, CallOK, CallType, Looping

LEMMA WriteProgress ==
  ASSUME BufferOK, Core, BufferIsNext, Overlap, NEW g \in Goroutines, Progress(g),
         WriteMessage(g)
  PROVE  Progress(g)'
<1>0. StreamOK /\ overlapped \subseteq overlapped'
  BY DEF Core, Overlap
<1>1. /\ call[g].pc = "writing" /\ Looping(g) /\ call[g].count = len
      /\ UNCHANGED <<array, len, open, skipped>>
      /\ Slots(call[g].at - 1) \subseteq out \cup skipped \cup Messages(pending)
  BY DEF WriteMessage, Progress, Looping, At, Goto, buffer
<1>2. CASE Goto(g, "writing", "reconnect")
  <2>1. call'[g].pc = "reconnect" /\ call'[g].at = call[g].at /\ call'[g].count = call[g].count
    BY <1>2, GotoEvent
  <2>2. out \subseteq out' /\ pending' = pending /\ broken'
    <3>1. ~(At(g, "writing") /\ call' = [call EXCEPT ![g].at = @ + 1])
      BY <2>1, NextIndex DEF At
    <3>2. CASE WriteOutFails /\ broken' = TRUE /\ UNCHANGED <<size, pending>>
      BY <1>0, <3>2, Writes
    <3>3. CASE broken /\ UNCHANGED <<size, pending, broken, sink, faults>>
      BY <3>3 DEF sink
    <3> QED
      BY <3>1, <3>2, <3>3 DEF WriteMessage
  <2> QED
    BY <1>1, <2>1, <2>2 DEF Progress, At, Looping, Finishing, Slots, Messages
<1>3. CASE ~Goto(g, "writing", "reconnect")
  <2>1. /\ call'[g].pc = "writing" /\ call'[g].at = call[g].at + 1 /\ call'[g].count = call[g].count
        /\ call[g].at <= call[g].count /\ call[g].at \in 1 .. MaxEvents + 1
        /\ ~broken /\ broken' = broken
    <3>1. /\ call' = [call EXCEPT ![g].at = @ + 1] /\ ~(call[g].at > call[g].count)
          /\ ~broken /\ broken' = broken
      BY <1>3 DEF WriteMessage, LoopDone
    <3>2. /\ call'[g].pc = "writing" /\ call'[g].at = call[g].at + 1
          /\ call'[g].count = call[g].count
      BY <1>1, <3>1, NextIndex
    <3>3. call[g].at <= call[g].count /\ call[g].at \in 1 .. MaxEvents + 1
      BY <1>1, <3>1, LoopIndex, Bounds
    <3> QED
      BY <3>1, <3>2, <3>3
  <2>2. Message(g) \in Events
    BY <1>1, MessageIsEvent DEF WriteMessage
  <2>3. /\ Sent' \subseteq Sent \cup {Message(g)}
        /\ out \cup Messages(pending) \cup {Message(g)} \subseteq out' \cup Messages(pending)'
    <3>1. CASE pending' = Append(pending, Message(g)) /\ UNCHANGED sink
      <4>1. Messages(pending)' = Messages(pending) \cup {Message(g)}
        BY <1>0, <2>2, <3>1, MessagesOf DEF StreamOK, Messages
      <4> QED
        BY <3>1, <4>1 DEF Sent, sink, Messages
    <3>2. CASE pending' = <<Message(g)>> /\ WriteOut
      <4>1. Messages(pending)' = {Message(g)}
        BY <3>2, MessagesOf DEF Messages
      <4> QED
        BY <1>0, <3>2, <4>1, Writes DEF Sent
    <3> QED
      BY <1>3, <2>1, <3>1, <3>2 DEF WriteMessage
  <2>4. \A i \in 1 .. call[g].at : array[i] = Message(g) \/ array[i] \in Slots(call[g].at - 1)
    BY <2>1 DEF Message, Slots
  <2>5. \A i \in 1 .. call[g].at : array'[i] \in out' \cup skipped' \cup Messages(pending)'
    BY <1>1, <2>3, <2>4
  <2>6. ASSUME open', ~broken', NEW e \in Sent' \ overlapped', NEW i \in call[g].at + 1 .. len,
               array[i] \notin overlapped'
        PROVE  e < array[i]
    <3>1. /\ e \notin overlapped /\ array[i] \notin overlapped
          /\ i \in call[g].at .. len /\ len \in Nat
      BY <1>0, <2>1, <2>6, Bounds DEF BufferOK
    <3>2. CASE e \in Sent
      BY <1>1, <2>1, <2>6, <3>1, <3>2 DEF Progress, Precede, At
    <3>3. CASE e = Message(g)
      <4>1. call[g].at \in 1 .. len /\ i \in 1 .. len /\ call[g].at < i
        BY <2>1, <2>6, <3>1
      <4> QED
        BY <3>1, <3>3, <4>1 DEF BufferIsNext, Ascending, Message
    <3> QED
      BY <2>3, <3>2, <3>3
  <2>7. call[g].at + 1 - 1 = call[g].at
    BY <2>1
  <2> QED
    BY <1>1, <2>1, <2>5, <2>6, <2>7 DEF Progress, At, Looping, Finishing, Slots, Precede
<1> QED
  BY <1>2, <1>3

LEMMA ReopenProgress ==
  ASSUME BufferOK, BufferIsNext, Overlap, NEW g \in Goroutines, Progress(g), Reopened(g)
  PROVE  Progress(g)'
<1>1. /\ call[g].pc = "opening" /\ Looping(g) /\ call[g].count = len
      /\ UNCHANGED <<array, len, out>>
      /\ pending' = <<Message(g)>> /\ received' = <<>>
      /\ skipped' = skipped \cup (Slots(call[g].at - 1) \ out)
  BY DEF Reopened, OpenFile, Progress, Looping, At, Goto, buffer, Slots
<1>2. /\ call'[g].pc = "writing" /\ call'[g].at = call[g].at + 1 /\ call'[g].count = call[g].count
  BY NextIndex DEF Reopened
<1>3. /\ call[g].at \in 1 .. MaxEvents + 1 /\ call[g].at <= call[g].count /\ len \in 0 .. MaxEvents
      /\ overlapped \subseteq overlapped'
  BY <1>1, LoopIndex, Bounds DEF BufferOK, Overlap
<1>4. Messages(pending)' = {Message(g)} /\ Sent' = {Message(g)}
  BY <1>1, MessagesOf DEF Messages, Sent
<1>5. \A i \in 1 .. call[g].at : array[i] = Message(g) \/ array[i] \in Slots(call[g].at - 1)
  BY <1>3 DEF Message, Slots
<1>6. \A i \in 1 .. call[g].at : array'[i] \in out' \cup skipped' \cup Messages(pending)'
  BY <1>1, <1>4, <1>5
<1>7. ASSUME NEW e \in Sent' \ overlapped', NEW i \in call[g].at + 1 .. len,
             array[i] \notin overlapped'
      PROVE  e < array[i]
  <2>1. e = Message(g) /\ e \notin overlapped /\ array[i] \notin overlapped
    BY <1>3, <1>4, <1>7
  <2>2. call[g].at \in 1 .. len /\ i \in 1 .. len /\ call[g].at < i
    BY <1>1, <1>3, <1>7
  <2> QED
    BY <2>1, <2>2 DEF BufferIsNext, Ascending, Message
<1>8. call[g].at + 1 - 1 = call[g].at
  BY <1>3
<1>9. call'[g].count = len' /\ \A i \in 1 .. call'[g].at - 1 : array'[i] \in out' \cup skipped' \cup Messages(pending)'
  <2>1. call'[g].at - 1 = call[g].at /\ call'[g].count = len'
    BY <1>1, <1>2, <1>3
  <2> HIDE <1>2
  <2> QED
    BY <1>6, <2>1
<1>10. \A e \in Sent' \ overlapped', f \in {array'[i] : i \in call'[g].at .. len'} \ overlapped' : e < f
  BY <1>1, <1>2, <1>7
<1> QED
  BY <1>2, <1>9, <1>10 DEF Progress, At, Looping, Finishing, Slots, Precede

LEMMA FlushProgress ==
  ASSUME BufferOK, Core, NEW g \in Goroutines, Progress(g), FlushWriter(g)
  PROVE  Progress(g)'
<1>1. CASE Return(g, "writing")
  BY <1>1, ReturnEvent DEF Progress, At, Looping, Finishing
<1>2. CASE Goto(g, "writing", AfterFlush)
  <2>1. call[g].pc = "writing" /\ call'[g].pc \in {"rotating", "clearing"}
    BY <1>2, GotoEvent DEF AfterFlush
  <2>2. /\ call[g].count = len /\ call[g].at > call[g].count
        /\ Slots(call[g].at - 1) \subseteq out \cup skipped \cup Messages(pending)
        /\ UNCHANGED <<array, len, skipped>>
    BY <2>1 DEF FlushWriter, LoopDone, Progress, At, Looping, buffer
  <2>3. call[g].at \in 1 .. MaxEvents + 1 /\ len \in 0 .. MaxEvents
    BY <2>1, LoopIndex, Bounds DEF Looping, BufferOK
  <2>4. Slots(len) \subseteq Slots(call[g].at - 1)
    <3>1. \A i \in 1 .. len : i \in 1 .. call[g].at - 1
      BY <2>2, <2>3
    <3> QED
      BY <3>1 DEF Slots
  <2>5. out \cup Messages(pending) \subseteq out'
    <3>1. CASE pending = <<>> /\ UNCHANGED sink
      BY <3>1, MessagesOf DEF sink
    <3>2. CASE WriteOut
      BY <3>2, Writes DEF Core
    <3>3. ~Return(g, "writing")
      BY <2>1, ReturnEvent
    <3> QED
      BY <3>1, <3>2, <3>3 DEF FlushWriter
  <2>6. \A i \in 1 .. len' : array'[i] \in out' \cup skipped'
    BY <2>2, <2>4, <2>5 DEF Slots
  <2> QED
    BY <2>1, <2>6 DEF Progress, At, Looping, Finishing, Slots
<1> QED
  BY <1>1, <1>2 DEF FlushWriter

LEMMA StartProgress ==
  ASSUME BufferOK, BufferIsNext, Overlap, NEW g \in Goroutines,
         \A h \in Goroutines \ {g} : ~Looping(h) /\ ~Finishing(h),
         NEW from \in {"added", "idle"}, BeginFlush(g, from)
  PROVE  Progress(g)'
<1>1. UNCHANGED <<array, len, open, broken, out, skipped, pending, received>> /\ len \in Nat
  BY Bounds DEF BeginFlush, buffer, writer, sink, BufferOK
<1>2. CASE call'[g].pc # "writing"
  BY <1>2, BeginFlushEvent DEF Progress, At, Looping, Finishing
<1>3. CASE call'[g].pc = "writing"
  <2>1. call'[g].at = 1 /\ call'[g].count = len /\ call[g].pc = from
    BY <1>3, BeginFlushEvent
  <2>2. open /\ ~broken => Precede(Sent, Slots(len))
    BY <2>1 DEF BufferIsNext, Looping, Finishing
  <2>3. overlapped \subseteq overlapped' /\ Sent' = Sent
    BY <1>1 DEF Overlap, Sent, Messages
  <2>4. open' /\ ~broken' =>
          \A e \in Sent' \ overlapped', f \in {array'[i] : i \in 1 .. len'} \ overlapped' : e < f
    BY <1>1, <2>2, <2>3 DEF Precede, Slots
  <2>5. \A i \in 1 .. 1 - 1 : FALSE
    OBVIOUS
  <2> QED
    BY <1>1, <1>3, <2>1, <2>4, <2>5 DEF Progress, At, Looping, Finishing, Slots, Precede
<1> QED
  BY <1>2, <1>3

(* The call of a quiet step, if it runs alone.                             *)
LEMMA QuietProgress ==
  ASSUME BufferOK, Core, BufferIsNext, Overlap, NEW g \in Goroutines, Quiet(g),
         InCall \subseteq {g}, g \in InCall => Progress(g)
  PROVE  Progress(g)'
<1>0. \A h \in Goroutines \ {g} : ~Looping(h) /\ ~Finishing(h)
  BY DEF InCall, Looping, Finishing
<1>1. ASSUME NEW from, Return(g, from)
      PROVE  Progress(g)'
  BY <1>1, ReturnEvent DEF Progress, At, Looping, Finishing
<1>2. CASE BatchFull(g) \/ Flush(g)
  BY <1>0, <1>1, <1>2, StartProgress DEF BatchFull, Flush
<1>3. CASE WriteMessage(g)
  <2>1. g \in InCall
    BY <1>3 DEF WriteMessage, InCall, Goto, At
  <2> QED
    BY <1>3, <2>1, WriteProgress
<1>4. CASE Reopened(g)
  <2>1. g \in InCall
    BY <1>4 DEF Reopened, InCall, At
  <2> QED
    BY <1>4, <2>1, ReopenProgress
<1>5. CASE FlushWriter(g)
  <2>1. g \in InCall
    BY <1>5 DEF FlushWriter, InCall, Goto, Return, At
  <2> QED
    BY <1>5, <2>1, FlushProgress
<1>6. CASE Reconnect(g)
  <2>1. call[g].pc = "reconnect" /\ call'[g].pc = "opening"
        /\ call'[g].at = call[g].at /\ call'[g].count = call[g].count
    BY <1>6, GotoEvent DEF Reconnect
  <2>2. Progress(g) /\ UNCHANGED <<array, len, out, skipped, pending>> /\ ~open'
    BY <1>6, <2>1 DEF Reconnect, InCall, buffer, sink
  <2> QED
    BY <2>1, <2>2 DEF Progress, At, Looping, Finishing, Slots, Messages
<1>7. CASE (Goto(g, "rotating", "cleaning") /\ Rotate(g)) \/ Cleanup(g)
  <2>1. call[g].pc \in {"rotating", "cleaning"} /\ call'[g].pc \in {"cleaning", "clearing"}
    BY <1>7, GotoEvent DEF Cleanup
  <2>2. Progress(g) /\ UNCHANGED <<array, len, out, skipped>>
    BY <1>7, <2>1 DEF Rotate, Cleanup, InCall, buffer
  <2> QED
    BY <2>1, <2>2 DEF Progress, At, Looping, Finishing, Slots
<1>8. CASE g = Closer /\ Close
  BY <1>8, GotoEvent DEF Close, Progress, At, Looping, Finishing
<1>9. CASE ReopenFails(g) \/ (Return(g, "rotating") /\ Rotate(g)) \/ Clear(g)
  BY <1>1, <1>9 DEF ReopenFails, Clear
<1> QED
  BY <1>2, <1>3, <1>4, <1>5, <1>6, <1>7, <1>8, <1>9 DEF Quiet, LoopStep, EndStep, Rotate

(* A step in which no call moves, and no event.                            *)
LEMMA IdleProgress ==
  ASSUME CallsProgress, InCall' = InCall, \A h \in InCall : call'[h] = call[h],
         Held' \subseteq Held, overlapped \subseteq overlapped',
         UNCHANGED <<added, array, len, pending, received, out, skipped, open, broken>>
  PROVE  CallsProgress'
<1> SUFFICES ASSUME NEW g \in InCall
             PROVE  (InCall' = {g} /\ Progress(g)') \/ Together(g)'
  BY DEF CallsProgress
<1>1. call'[g] = call[g]
  OBVIOUS
<1>2. CASE Together(g)
  <2>1. Slots(Reach(g))' = Slots(Reach(g))
    BY <1>1 DEF Slots, Reach, At, Looping
  <2> QED
    BY <1>2, <2>1 DEF Together
<1>3. CASE InCall = {g} /\ Progress(g)
  <2>1. Sent' = Sent
    BY DEF Sent, Messages
  <2> QED
    BY <1>1, <1>3, <2>1 DEF Progress, At, Looping, Finishing, Slots, Messages, Precede
<1> QED
  BY <1>2, <1>3 DEF CallsProgress

LEMMA AddEventProgress ==
  ASSUME BufferOK, BufferOK', OnlyAdded, CallsProgress, Overlap, NEW h \in Handlers, AddEvent(h)
  PROVE  CallsProgress'
<1>1. /\ added' = added + 1 /\ added \in Nat /\ h \in Goroutines
      /\ UNCHANGED <<array, len, pending, received>>
  BY Bounds DEF AddEvent, BufferOK, buffer, writer, sink, Goroutines
<1>2. /\ call[h].pc = "idle" /\ \A g \in Goroutines \ {h} : call'[g] = call[g]
      /\ call'[h].pc = "append" /\ call'[h].at = len /\ call'[h].event = added'
  BY <1>1 DEF AddEvent, BufferOK, At, No
<1>3. h \notin InCall /\ h \in InCall' /\ Reach(h)' = len'
  BY <1>1, <1>2 DEF InCall, Reach, At
<1>4. Progress(h)'
  <2>1. added' \notin Sent
    BY <1>1 DEF OnlyAdded
  <2>2. \A i \in Events : array[i] # added'
    <3>1. \A i \in Events : array[i] \in Int /\ array[i] <= added
      BY Bounds DEF BufferOK, Events, OnlyAdded
    <3> QED
      BY <1>1, <3>1
  <2>3. Sent' = Sent
    BY <1>1 DEF Sent, Messages
  <2> QED
    BY <1>1, <1>2, <2>1, <2>2, <2>3 DEF Progress, At, Looping, Finishing
<1> QED
  BY <1>1, <1>2, <1>3, <1>4, StepProgress

(* A call that overlaps may store its event at a length of long ago.       *)
LEMMA StoreHolds ==
  ASSUME BufferOK, NEW h \in Goroutines, Store(h)
  PROVE  /\ call[h].pc = "append" /\ call'[h].pc = "added"
         /\ \A g \in Goroutines \ {h} : call'[g] = call[g]
         /\ call[h].at \in Nat /\ len' = call[h].at + 1 /\ len' \in Events
         /\ array'[len'] = call[h].event /\ call[h].event \in Held'
         /\ \A i \in Events \ {len'} : array'[i] = array[i]
         /\ Held' \subseteq Held \cup Slots(call[h].at)
<1> DEFINE slot == call[h].at + 1
<1>1. /\ call[h].pc = "append" /\ len' = slot
      /\ array' = [array EXCEPT ![slot] = call[h].event]
  BY DEF Store, At
<1>2. call'[h] = No("added") /\ \A g \in Goroutines \ {h} : call'[g] = call[g]
  BY DEF Store, BufferOK
<1>3. call'[h].pc = "added" /\ call'[h].event = 0
  BY <1>2 DEF No
<1>4. /\ call[h].at \in Nat /\ slot \in Events /\ call[h].event # 0
  BY <1>1, Bounds DEF BufferOK, CallOK, CallType, Events
<1>5. array'[slot] = call[h].event /\ \A i \in Events \ {slot} : array'[i] = array[i]
  BY <1>1, <1>4 DEF BufferOK
<1>6. call[h].event \in Held' /\ call[h].event \in Held
  BY <1>1, <1>4, <1>5 DEF Held
<1>7. Held' \subseteq Held \cup Slots(call[h].at)
  <2>1. ASSUME NEW i \in 1 .. slot
        PROVE  array'[i] \in Held \cup Slots(call[h].at)
    <3>1. CASE i = slot
      BY <1>5, <1>6, <3>1
    <3>2. CASE i # slot
      <4>1. i \in 1 .. call[h].at /\ i \in Events \ {slot}
        BY <1>4, <3>2, Bounds DEF Events
      <4> QED
        BY <1>5, <4>1 DEF Slots
    <3> QED
      BY <3>1, <3>2
  <2>2. \A g \in Goroutines : call'[g].event = 0 \/ call'[g].event = call[g].event
    BY <1>2, <1>3
  <2> QED
    BY <1>1, <2>1, <2>2 DEF Held
<1> QED
  BY <1>1, <1>2, <1>3, <1>4, <1>5, <1>6, <1>7

LEMMA StoreProgress ==
  ASSUME BufferOK, BufferOK', CallsProgress, Overlap, NEW h \in Goroutines, Store(h)
  PROVE  CallsProgress'
<1>1. h \in InCall /\ h \in InCall' /\ Reach(h) = call[h].at /\ Reach(h)' = 0
  BY StoreHolds DEF InCall, Reach, At, Looping
<1>2. \A i \in Events : array'[i] = array[i] \/ array'[i] \in Held'
  BY StoreHolds
<1>3. Held' \subseteq Held \cup Slots(Reach(h))
  BY <1>1, StoreHolds
<1>4. Progress(h)'
  BY StoreHolds DEF Progress, At, Looping, Finishing
<1>5. \A g \in Goroutines \ {h} : call'[g] = call[g]
  BY StoreHolds
<1> QED
  BY <1>1, <1>2, <1>3, <1>4, <1>5, StepProgress

LEMMA CallsProgressKept ==
  ASSUME BufferOK, BufferOK', Core, OnlyAdded, CallsProgress, BufferIsNext, [Next]_vars
  PROVE  CallsProgress'
<1>1. ASSUME Overlap, NEW g \in Goroutines, Quiet(g)
      PROVE  CallsProgress'
  <2>1. CASE g \in InCall \cup InCall'
    <3>1. /\ g \notin InCall => len' = len
          /\ \A h \in Goroutines \ {g} : call'[h] = call[h]
          /\ array' = array
      BY <1>1, QuietStep DEF InCall, At
    <3>2. Held' \subseteq Held
      BY <1>1, QuietHolds
    <3>3. InCall \subseteq {g} /\ (g \in InCall => Progress(g)) => Progress(g)'
      BY <1>1, QuietProgress
    <3>4. \/ Reach(g)' = 0 \/ Reach(g)' = len'
          \/ g \in InCall /\ Reach(g)' = Reach(g)
      BY <1>1, QuietReach
    <3> QED
      BY <1>1, <2>1, <3>1, <3>2, <3>3, <3>4, StepProgress
  <2>2. CASE g \notin InCall \cup InCall'
    <3>1. g \in {Flusher, Closer} /\ Flush(g)
      BY <1>1, <2>2 DEF Quiet, LoopStep, EndStep, InCall, At, BatchFull, BeginFlush, Return,
         WriteMessage, Goto, Reconnect, Reopened, ReopenFails, FlushWriter, Rotate, Cleanup,
         Clear, Close
    <3>2. UNCHANGED <<added, array, len, pending, received, out, skipped, open, broken>>
      BY <3>1 DEF Flush, BeginFlush, buffer, writer, sink
    <3>3. InCall' = InCall /\ \A h \in InCall : call'[h] = call[h]
      BY <1>1, <2>2, QuietStep DEF InCall
    <3>4. Held' \subseteq Held /\ overlapped \subseteq overlapped'
      BY <1>1, QuietHolds DEF Overlap
    <3> QED
      BY <3>2, <3>3, <3>4, IdleProgress
  <2> QED
    BY <2>1, <2>2
<1>2. CASE (Overlap /\ Tick) \/ UNCHANGED vars
  <2>1. UNCHANGED <<added, array, len, call, pending, received, out, skipped, open, broken>>
    BY <1>2 DEF Tick, vars, buffer, writer, sink
  <2>2. InCall' = InCall /\ Held' = Held /\ overlapped \subseteq overlapped'
    BY <1>2, <2>1 DEF InCall, Held, Overlap, vars
  <2> QED
    BY <2>1, <2>2, IdleProgress
<1> QED
  BY <1>1, <1>2, Steps, AddEventProgress, StoreProgress

-----------------------------------------------------------------------------
(* The buffer comes after what a working descriptor has got                *)

LEMMA MarkedBuffer ==
  ASSUME BufferOK, Held \subseteq overlapped
  PROVE  BufferIsNext
<1>1. \A i \in 1 .. len : array[i] \in overlapped
  BY TheBufferIsHeld DEF Slots
<1> QED
  BY <1>1 DEF BufferIsNext, Ascending, Precede, Slots

LEMMA StoreNext ==
  ASSUME BufferOK, BufferOK', OnlyAdded, CallsProgress, BufferIsNext, Overlap,
         NEW h \in Goroutines, Store(h)
  PROVE  BufferIsNext'
<1>0. overlapped \subseteq overlapped' /\ h \in InCall
  BY StoreHolds DEF Overlap, InCall
<1>1. CASE Together(h)
  <2>1. (Held \subseteq overlapped)'
    BY <1>0, <1>1, StoreHolds DEF Together, Reach, At
  <2> QED
    BY <2>1, MarkedBuffer, PTL
<1>2. CASE InCall = {h} /\ Progress(h)
  <2>1. /\ call[h].at = len /\ len' = len + 1 /\ len \in Nat
        /\ added \notin Sent /\ \A i \in Events : array[i] # added
        /\ array'[len'] = added /\ \A i \in 1 .. len : i \in Events /\ array'[i] = array[i]
    <3>1. /\ call[h].at = len /\ call[h].event = added
          /\ added \notin Sent /\ \A i \in Events : array[i] # added
      BY <1>2, StoreHolds DEF Progress, At
    <3>2. \A i \in 1 .. len : i \in Events \ {len'}
      BY <3>1, StoreHolds, Bounds DEF Events
    <3> QED
      BY <3>1, <3>2, StoreHolds
  <2>2. /\ added \in Nat /\ \A i \in Events : array[i] \in Nat /\ array[i] < added
        /\ \A e \in Sent : e \in Nat /\ e < added
    <3>1. added \in Nat /\ \A i \in Events : array[i] \in Nat /\ array[i] <= added
      BY Bounds DEF BufferOK, Events, OnlyAdded
    <3>2. \A e \in Sent : e \in 1 .. added /\ e # added
      BY <2>1 DEF OnlyAdded
    <3>3. \A i \in Events : array[i] < added
      BY <2>1, <3>1
    <3>4. \A e \in Sent : e \in Nat /\ e < added
      BY <3>1, <3>2
    <3> QED
      BY <3>1, <3>3, <3>4
  <2>3. Ascending(array, len)'
    <3> SUFFICES ASSUME NEW i \in 1 .. len', NEW j \in 1 .. len', i < j,
                        array'[i] \notin overlapped', array'[j] \notin overlapped'
                 PROVE  array'[i] < array'[j]
      BY DEF Ascending
    <3>1. i \in 1 .. len
      BY <2>1
    <3>2. CASE j = len'
      BY <2>1, <2>2, <3>1, <3>2
    <3>3. CASE j # len'
      <4>1. j \in 1 .. len
        BY <2>1, <3>3
      <4> QED
        BY <1>0, <2>1, <3>1, <4>1 DEF BufferIsNext, Ascending
    <3> QED
      BY <3>2, <3>3
  <2>4. Sent' = Sent /\ UNCHANGED <<open, broken>>
    BY DEF Store, writer, sink, Sent, Messages
  <2>5. open /\ ~broken => Precede(Sent, Slots(len))
    <3>1. \A g \in Goroutines : ~Looping(g) /\ ~Finishing(g)
      BY <1>2, StoreHolds DEF InCall, Looping, Finishing
    <3> QED
      BY <3>1 DEF BufferIsNext
  <2>6. ASSUME open, ~broken, NEW e \in Sent \ overlapped', NEW i \in 1 .. len',
               array'[i] \notin overlapped'
        PROVE  e < array'[i]
    <3>1. CASE i = len'
      BY <2>1, <2>2, <3>1
    <3>2. CASE i # len'
      <4>1. i \in 1 .. len
        BY <2>1, <3>2
      <4> QED
        BY <1>0, <2>1, <2>5, <2>6, <4>1 DEF Precede, Slots
    <3> QED
      BY <3>1, <3>2
  <2> QED
    BY <2>3, <2>4, <2>6 DEF BufferIsNext, Precede, Slots
<1> QED
  BY <1>0, <1>1, <1>2 DEF CallsProgress

(* The steps by which a flush ends, and where they leave the writer.       *)
LEMMA LeavesFlush ==
  ASSUME BufferOK, NEW g \in Goroutines, Quiet(g), Looping(g) \/ Finishing(g), Progress(g),
         ~Looping(g)', ~Finishing(g)'
  PROVE  ~open' \/ broken' \/ len' = 0
<1> USE DEF Looping, Finishing
<1>1. ASSUME NEW from, NEW to \in {"reconnect", "opening", "rotating", "cleaning", "clearing"},
             Goto(g, from, to)
      PROVE  FALSE
  BY <1>1, GotoEvent
<1>2. CASE WriteMessage(g)
  BY <1>1, <1>2, NextIndex DEF WriteMessage, At
<1>3. CASE Reconnect(g) \/ Cleanup(g)
  BY <1>1, <1>3 DEF Reconnect, Cleanup
<1>4. CASE Reopened(g)
  BY <1>4, NextIndex DEF Reopened
<1>5. CASE ReopenFails(g)
  BY <1>5, ReturnEvent DEF ReopenFails, Progress, At, writer
<1>6. CASE FlushWriter(g)
  <2>1. AfterFlush \in {"rotating", "clearing"}
    BY DEF AfterFlush
  <2> QED
    BY <1>1, <1>6, <2>1 DEF FlushWriter
<1>7. CASE Rotate(g)
  BY <1>1, <1>7 DEF Rotate
<1>8. CASE Clear(g)
  BY <1>8 DEF Clear
<1>9. CASE BatchFull(g) \/ Flush(g) \/ (g = Closer /\ Close)
  <2>1. call[g].pc \in {"added", "idle", "closing"}
    BY <1>9 DEF BatchFull, Flush, BeginFlush, Return, Close, Goto, At
  <2> QED
    BY <2>1
<1> QED
  BY <1>2, <1>3, <1>4, <1>5, <1>6, <1>7, <1>8, <1>9 DEF Quiet, LoopStep, EndStep

LEMMA QuietNext ==
  ASSUME BufferOK, BufferOK', OnlyAdded, CallsProgress, BufferIsNext, Overlap,
         NEW g \in Goroutines, Quiet(g)
  PROVE  BufferIsNext'
<1>0. overlapped \subseteq overlapped' /\ array' = array /\ len' \in {0, len} /\ len \in Nat
  BY QuietStep, Bounds DEF Overlap, BufferOK
<1>1. Ascending(array, len)'
  BY <1>0 DEF BufferIsNext, Ascending
<1>2. SUFFICES ASSUME open', ~broken', \A h \in Goroutines : ~Looping(h)' /\ ~Finishing(h)',
                      len' = len, len' # 0
               PROVE  Precede(Sent, Slots(len))'
  BY <1>0, <1>1 DEF BufferIsNext, Precede, Slots
<1>3. \A h \in Goroutines \ {g} : ~Looping(h) /\ ~Finishing(h)
  BY <1>2, QuietStep DEF Looping, Finishing
<1>4. CASE Looping(g) \/ Finishing(g)
  <2>1. g \in InCall
    BY <1>4 DEF Looping, Finishing, InCall
  <2>2. CASE Together(g)
    <3>1. Held' \subseteq overlapped'
      BY <1>0, <2>2, QuietHolds DEF Together
    <3>2. (Slots(len) \subseteq Held)'
      BY TheBufferIsHeld, PTL
    <3> QED
      BY <3>1, <3>2 DEF Precede
  <2>3. CASE Progress(g)
    BY <1>2, <1>4, <2>3, LeavesFlush
  <2> QED
    BY <2>1, <2>2, <2>3 DEF CallsProgress
<1>5. CASE ~Looping(g) /\ ~Finishing(g)
  <2>1. BatchFull(g) \/ Flush(g) \/ Close
    BY <1>5 DEF Quiet, LoopStep, EndStep, WriteMessage, Reconnect, Reopened, ReopenFails,
       FlushWriter, Rotate, Cleanup, Clear, Goto, Return, At, Looping, Finishing
  <2>2. UNCHANGED <<pending, received, broken>> /\ open
    BY <1>2, <2>1 DEF BatchFull, Flush, BeginFlush, Close, writer, sink
  <2>3. Precede(Sent, Slots(len))
    BY <1>2, <1>3, <1>5, <2>2 DEF BufferIsNext
  <2>4. Sent' = Sent /\ Slots(len)' = Slots(len)
    BY <1>0, <1>2, <2>2 DEF Sent, Messages, Slots
  <2> QED
    BY <1>0, <2>3, <2>4 DEF Precede
<1> QED
  BY <1>4, <1>5

LEMMA BufferIsNextKept ==
  ASSUME BufferOK, BufferOK', OnlyAdded, CallsProgress, BufferIsNext, [Next]_vars
  PROVE  BufferIsNext'
<1>1. ASSUME UNCHANGED <<array, len, pending, received, open, broken>>,
             overlapped \subseteq overlapped',
             \A g \in Goroutines : call'[g] = call[g] \/ call[g].pc = "idle"
      PROVE  BufferIsNext'
  <2>1. Sent' = Sent /\ Slots(len)' = Slots(len)
    BY <1>1 DEF Sent, Messages, Slots
  <2>2. (\A g \in Goroutines : ~Looping(g)' /\ ~Finishing(g)')
          => \A g \in Goroutines : ~Looping(g) /\ ~Finishing(g)
    BY <1>1 DEF Looping, Finishing
  <2> QED
    BY <1>1, <2>1, <2>2 DEF BufferIsNext, Ascending, Precede
<1>2. ASSUME Overlap, NEW h \in Handlers, AddEvent(h)
      PROVE  BufferIsNext'
  <2>1. UNCHANGED <<array, len, pending, received, open, broken>>
    BY <1>2 DEF AddEvent, buffer, writer, sink
  <2>2. \A g \in Goroutines : call'[g] = call[g] \/ call[g].pc = "idle"
    BY <1>2 DEF AddEvent, At, BufferOK
  <2> QED
    BY <1>1, <1>2, <2>1, <2>2 DEF Overlap
<1>3. CASE (Overlap /\ Tick) \/ UNCHANGED vars
  BY <1>1, <1>3 DEF Tick, vars, buffer, writer, sink, Overlap
<1> QED
  BY <1>2, <1>3, Steps, StoreNext, QuietNext

-----------------------------------------------------------------------------
(* A descriptor gets events in their order                                 *)

LEMMA StreamStays ==
  ASSUME StreamInOrder, overlapped \subseteq overlapped', UNCHANGED <<pending, received>>,
         open' /\ ~broken' => open /\ ~broken
  PROVE  StreamInOrder'
BY DEF StreamInOrder, ReceivedInOrder, Ascending, Precede, Messages

(* What a working descriptor takes comes behind what it has got.           *)
LEMMA TakesInOrder ==
  ASSUME StreamOK, StreamInOrder, overlapped \subseteq overlapped', open, ~broken,
         NEW k \in 0 .. Len(pending), Take(k)
  PROVE  ReceivedInOrder'
<1> SUFFICES ASSUME NEW i \in 1 .. Len(received'), NEW j \in 1 .. Len(received'), i < j,
                    received'[i] \notin overlapped, received'[j] \notin overlapped
             PROVE  received'[i] < received'[j]
  BY DEF ReceivedInOrder, Ascending
<1>1. /\ Len(received') = Len(received) + k
      /\ Len(received) \in Nat /\ Len(pending) \in Nat /\ k \in 0 .. Len(pending)
  BY Receives
<1>2. ASSUME NEW n \in 1 .. Len(received'), n > Len(received)
      PROVE  n - Len(received) \in 1 .. Len(pending) /\ received'[n] = pending[n - Len(received)]
  <2> DEFINE m == n - Len(received)
  <2>1. m \in 1 .. k /\ m \in 1 .. Len(pending) /\ n = Len(received) + m
    BY <1>1, <1>2
  <2> HIDE DEF m
  <2>2. received'[Len(received) + m] = pending[m]
    BY <2>1, Receives
  <2> QED
    BY <2>1, <2>2 DEF m
<1>3. CASE j <= Len(received)
  <2>1. i \in 1 .. Len(received) /\ j \in 1 .. Len(received)
    BY <1>1, <1>3
  <2>2. received'[i] = received[i] /\ received'[j] = received[j]
    BY <2>1, Receives
  <2> QED
    BY <2>1, <2>2 DEF StreamInOrder, ReceivedInOrder, Ascending
<1>4. CASE i > Len(received)
  <2>1. j > Len(received) /\ i - Len(received) < j - Len(received)
    BY <1>1, <1>4
  <2> QED
    BY <1>2, <1>4, <2>1 DEF StreamInOrder, Ascending
<1>5. CASE i <= Len(received) /\ j > Len(received)
  <2>1. i \in 1 .. Len(received) /\ received'[i] = received[i]
    <3>1. i \in 1 .. Len(received)
      BY <1>1, <1>5
    <3> QED
      BY <3>1, Receives
  <2>2. received'[i] \in Messages(received) /\ received'[j] \in Messages(pending)
    BY <1>2, <1>5, <2>1 DEF Messages
  <2> QED
    BY <2>2 DEF StreamInOrder, Precede
<1> QED
  BY <1>1, <1>3, <1>4, <1>5

LEMMA WritesInOrder ==
  ASSUME StreamOK, StreamInOrder, overlapped \subseteq overlapped', ~broken,
         WriteOut \/ WriteOutFails
  PROVE  ReceivedInOrder'
<1>1. Len(pending) \in 0 .. Len(pending) /\ 0 .. Len(pending) - 1 \subseteq 0 .. Len(pending)
  BY LenProperties DEF StreamOK
<1>2. CASE open
  BY <1>1, <1>2, TakesInOrder DEF WriteOut, WriteOutFails
<1>3. CASE ~open
  BY <1>3 DEF WriteOut, WriteOutFails, sink, StreamInOrder, ReceivedInOrder, Ascending
<1> QED
  BY <1>2, <1>3

(* The next message of a flush comes after all that the descriptor has got *)
(* and after all that is pending.                                          *)
LEMMA MessageIsNext ==
  ASSUME BufferOK, CallsProgress, NEW g \in Goroutines, call[g].pc = "writing", ~LoopDone(g),
         open, ~broken
  PROVE  Precede(Sent, {Message(g)})
<1>1. g \in InCall /\ Looping(g) /\ Reach(g) = call[g].count
  BY DEF InCall, Looping, Reach, At
<1>2. /\ call[g].at \in 1 .. MaxEvents + 1 /\ call[g].count \in 0 .. MaxEvents
      /\ call[g].at <= call[g].count
  BY <1>1, LoopIndex, Bounds DEF LoopDone
<1>3. CASE Together(g)
  <2>1. Message(g) \in Slots(Reach(g))
    BY <1>1, <1>2 DEF Message, Slots
  <2> QED
    BY <1>3, <2>1 DEF Together, Precede
<1>4. CASE Progress(g)
  <2>1. call[g].at \in call[g].at .. len
    BY <1>1, <1>2, <1>4 DEF Progress
  <2>2. Precede(Sent, {array[i] : i \in call[g].at .. len})
    BY <1>4 DEF Progress, At
  <2> QED
    BY <2>1, <2>2 DEF Precede, Message
<1> QED
  BY <1>1, <1>3, <1>4 DEF CallsProgress

LEMMA SingleMessage ==
  ASSUME NEW m, pending' = <<m>>
  PROVE  Ascending(pending, Len(pending))' /\ Messages(pending)' = {m}
<1>1. Len(pending') = 1 /\ \A i, j \in 1 .. 1 : ~(i < j)
  OBVIOUS
<1> QED
  BY <1>1, MessagesOf DEF Ascending, Messages

LEMMA WriteMessageInOrder ==
  ASSUME BufferOK, StreamOK, CallsProgress, StreamInOrder, overlapped \subseteq overlapped',
         NEW g \in Goroutines, WriteMessage(g)
  PROVE  StreamInOrder'
<1>1. call[g].pc = "writing" /\ ~LoopDone(g) /\ open' = open
  BY DEF WriteMessage, Goto, At
<1>2. Message(g) \in Events
  BY <1>1, MessageIsEvent
<1>3. CASE ~broken /\ broken' = broken /\ pending' = Append(pending, Message(g)) /\ UNCHANGED sink
  <2>1. ReceivedInOrder' /\ received' = received
    BY <1>3 DEF sink, StreamInOrder, ReceivedInOrder, Ascending
  <2>2. /\ Len(pending) \in Nat /\ Len(pending') = Len(pending) + 1
        /\ pending'[Len(pending) + 1] = Message(g)
        /\ \A i \in 1 .. Len(pending) : pending'[i] = pending[i]
    BY <1>2, <1>3, AppendProperties, LenProperties DEF StreamOK
  <2>3. Messages(pending)' = Messages(pending) \cup {Message(g)}
    BY <1>2, <1>3, MessagesOf DEF StreamOK, Messages
  <2>4. ASSUME open
        PROVE  /\ Ascending(pending, Len(pending)) /\ Precede(Messages(received), Messages(pending))
               /\ Precede(Sent, {Message(g)})
    BY <1>1, <1>3, <2>4, MessageIsNext DEF StreamInOrder
  <2>5. ASSUME open, NEW i \in 1 .. Len(pending'), NEW j \in 1 .. Len(pending'), i < j,
               pending'[i] \notin overlapped, pending'[j] \notin overlapped
        PROVE  pending'[i] < pending'[j]
    <3>1. i \in 1 .. Len(pending)
      BY <2>2, <2>5
    <3>2. CASE j \in 1 .. Len(pending)
      BY <2>2, <2>4, <2>5, <3>1, <3>2 DEF Ascending
    <3>3. CASE j \notin 1 .. Len(pending)
      <4>1. j = Len(pending) + 1
        BY <2>2, <3>3
      <4>2. pending'[i] \in Sent /\ pending'[j] = Message(g)
        BY <2>2, <3>1, <4>1 DEF Sent, Messages
      <4> QED
        BY <2>4, <2>5, <4>2 DEF Precede
    <3> QED
      BY <3>2, <3>3
  <2>6. open => Ascending(pending, Len(pending))'
    BY <2>5 DEF Ascending
  <2>7. open => Precede(Messages(received), Messages(pending))'
    BY <2>1, <2>3, <2>4 DEF Precede, Sent, Messages
  <2> QED
    BY <1>1, <2>1, <2>6, <2>7 DEF StreamInOrder
<1>4. CASE ~broken /\ pending' = <<Message(g)>> /\ WriteOut
  <2>1. ReceivedInOrder' /\ Messages(received)' \subseteq Sent /\ open
    BY <1>4, WritesInOrder, Writes DEF WriteOut
  <2>2. Ascending(pending, Len(pending))' /\ Messages(pending)' = {Message(g)}
    BY <1>4, SingleMessage
  <2>3. Precede(Sent, {Message(g)})
    BY <1>1, <1>4, <2>1, MessageIsNext
  <2>4. Precede(Messages(received), Messages(pending))'
    BY <2>1, <2>2, <2>3 DEF Precede
  <2> QED
    BY <2>1, <2>2, <2>4 DEF StreamInOrder
<1>5. CASE ~broken /\ WriteOutFails /\ broken' = TRUE
  BY <1>5, WritesInOrder DEF StreamInOrder
<1>6. CASE broken /\ UNCHANGED <<pending, broken, sink>>
  BY <1>6, StreamStays DEF sink
<1> QED
  BY <1>3, <1>4, <1>5, <1>6 DEF WriteMessage

LEMMA StreamInOrderKept ==
  ASSUME BufferOK, StreamOK, CallsProgress, StreamInOrder, [Next]_vars
  PROVE  StreamInOrder'
<1>0. overlapped \subseteq overlapped'
  BY DEF Next, Overlap, vars
<1>1. ASSUME Len(received') = 0, Messages(received)' = {}, Ascending(pending, Len(pending))'
      PROVE  StreamInOrder'
  BY <1>1 DEF StreamInOrder, ReceivedInOrder, Ascending, Precede
<1>2. ASSUME NEW g \in Goroutines, Quiet(g)
      PROVE  StreamInOrder'
  <2>1. CASE WriteMessage(g)
    BY <1>0, <2>1, WriteMessageInOrder
  <2>2. CASE Reopened(g)
    <3>1. received' = <<>> /\ pending' = <<Message(g)>>
      BY <2>2 DEF Reopened, OpenFile
    <3> QED
      BY <1>1, <3>1, SingleMessage, MessagesOf DEF Messages
  <2>3. CASE FlushWriter(g)
    <3>1. CASE UNCHANGED <<pending, broken, sink>>
      BY <1>0, <2>3, <3>1, StreamStays DEF FlushWriter, sink
    <3>2. CASE ~broken /\ WriteOut /\ pending' = <<>>
      <4>1. ReceivedInOrder'
        BY <1>0, <3>2, WritesInOrder
      <4>2. Len(pending') = 0 /\ Messages(pending)' = {}
        BY <3>2, MessagesOf DEF Messages
      <4> QED
        BY <4>1, <4>2 DEF StreamInOrder, Ascending, Precede
    <3>3. CASE ~broken /\ WriteOutFails /\ broken' = TRUE
      BY <1>0, <3>3, WritesInOrder DEF StreamInOrder
    <3> QED
      BY <2>3, <3>1, <3>2, <3>3 DEF FlushWriter
  <2>4. CASE Rotate(g)
    <3>1. CASE OpenFile /\ pending' = <<>>
      <4>1. received' = <<>> /\ Len(pending') = 0
        BY <3>1 DEF OpenFile
      <4> QED
        BY <1>1, <4>1, MessagesOf DEF Ascending, Messages
    <3>2. CASE open' = FALSE /\ UNCHANGED <<pending, received>>
      BY <1>0, <3>2, StreamStays
    <3> QED
      BY <2>4, <3>1, <3>2 DEF Rotate
  <2>5. CASE \/ BatchFull(g) \/ Reconnect(g) \/ ReopenFails(g) \/ Cleanup(g) \/ Clear(g)
             \/ Flush(g) \/ Close
    BY <1>0, <2>5, StreamStays DEF BatchFull, Reconnect, ReopenFails, Cleanup, Clear, Flush,
       BeginFlush, Close, writer, sink
  <2> QED
    BY <1>2, <2>1, <2>2, <2>3, <2>4, <2>5 DEF Quiet, LoopStep, EndStep
<1>3. ASSUME UNCHANGED <<writer, sink>>
      PROVE  StreamInOrder'
  BY <1>0, <1>3, StreamStays DEF writer, sink
<1> QED
  BY <1>2, <1>3, Steps DEF AddEvent, Store, Tick, vars

LEMMA OrderInvariant ==
  ASSUME BufferOK, BufferOK', Core, OrderInv, [Next]_vars
  PROVE  OrderInv'
BY OnlyAddedKept, CallsProgressKept, BufferIsNextKept, StreamInOrderKept DEF OrderInv, Core

LEMMA InitOrder == Init => OrderInv
<1> SUFFICES ASSUME Init PROVE OrderInv
  OBVIOUS
<1>1. /\ added = 0 /\ len = 0 /\ array = [i \in Events |-> 0]
      /\ Sent = {} /\ out = {} /\ skipped = {} /\ Len(received) = 0 /\ Len(pending) = 0
  BY MessagesOf DEF Init, Sent
<1>2. \A g \in Goroutines : call[g].pc = "idle" /\ call[g].event = 0
  BY DEF Init, No
<1>3. OnlyAdded
  BY <1>1, <1>2 DEF OnlyAdded
<1>4. CallsProgress
  BY <1>2 DEF CallsProgress, InCall
<1>5. BufferIsNext /\ StreamInOrder
  <2>1. Messages(received) = {} /\ Messages(pending) = {}
    BY <1>1 DEF Sent
  <2> QED
    BY <1>1, <2>1 DEF BufferIsNext, StreamInOrder, ReceivedInOrder, Ascending, Precede
<1> QED
  BY <1>3, <1>4, <1>5 DEF OrderInv

(* A reader, peer or file gets the events of calls that do not overlap in  *)
(* the order in which they were added and none twice, however often writes *)
(* fail and the buffer is sent again (output.go:127-137, pipe.go:67-101).  *)
THEOREM OrderIsKept == Spec => []ReceivedInOrder
<1>1. Init => Typed /\ OrderInv
  BY InitTyped, InitOrder
<1>2. Typed /\ OrderInv /\ [Next]_vars => (Typed /\ OrderInv)'
  BY BufferInvariant, CoreInvariant, HistoryInvariant, OrderInvariant DEF Typed, Core
<1>3. Typed /\ OrderInv => ReceivedInOrder
  BY DEF OrderInv, StreamInOrder
<1> QED
  BY <1>1, <1>2, <1>3, PTL DEF Spec

-----------------------------------------------------------------------------
(* The refinement of OutputWriter                                          *)

HeldOrMarked == Held \cup overlapped

(* Every step but AddEvent is some amount of output, or a stutter.         *)
LEMMA IsOutput ==
  ASSUME OnlyAdded, OnlyAdded', added' = added, out \subseteq out', skipped \subseteq skipped',
         HeldOrMarked' \subseteq HeldOrMarked,
         HeldOrMarked \ HeldOrMarked' \subseteq out' \cup skipped'
  PROVE  Contract!Output
<1>1. out' \subseteq 1 .. added /\ skipped' \subseteq 1 .. added
  BY DEF OnlyAdded
<1> QED
  BY <1>1 DEF Contract!Output, HeldOrMarked

LEMMA AddIsAddEvent ==
  ASSUME BufferOK, OnlyAdded, Overlap, NEW h \in Handlers, AddEvent(h)
  PROVE  \E e \in Events : Contract!AddEvent(e)
<1>1. /\ added \in Nat /\ added' = added + 1 /\ added' \in Events /\ h \in Goroutines
      /\ UNCHANGED <<array, len, out, skipped>>
  BY Bounds DEF AddEvent, BufferOK, Events, Goroutines, buffer, sink
<1>2. /\ call[h].pc = "idle" /\ call'[h].event = added'
      /\ \A g \in Goroutines \ {h} : call'[g] = call[g]
  BY <1>1 DEF AddEvent, BufferOK, At, No
<1>3. call[h].event = 0
  BY <1>1, <1>2 DEF OnlyAdded, At
<1>4. Held' = Held \cup {added'}
  <2>1. {call'[g].event : g \in Goroutines} \ {0}
          = ({call[g].event : g \in Goroutines} \cup {added'}) \ {0}
    <3>1. \A g \in Goroutines \ {h} : call'[g].event = call[g].event
      BY <1>2
    <3> QED
      BY <1>1, <1>2, <1>3, <3>1
  <2>2. added' # 0
    BY <1>1
  <2> QED
    BY <1>1, <2>1, <2>2 DEF Held
<1>5. (Held \cup overlapped)' = (Held \cup overlapped) \cup {added'}
  BY <1>4 DEF Overlap
<1>6. 1 .. added' = (1 .. added) \cup {added'} /\ added' \notin 1 .. added
  BY <1>1
<1>7. Contract!AddEvent(added')
  BY <1>1, <1>5, <1>6 DEF Contract!AddEvent
<1> QED
  BY <1>1, <1>7

LEMMA StoreIsOutput ==
  ASSUME BufferOK, OnlyAdded, OnlyAdded', CallsProgress, Overlap, NEW h \in Goroutines, Store(h)
  PROVE  Contract!Output
<1>1. /\ overlapped \subseteq overlapped' /\ overlapped' \subseteq overlapped \cup Held'
      /\ UNCHANGED <<added, out, skipped>>
  BY DEF Overlap, Store, sink
<1>2. h \in InCall /\ Reach(h) = call[h].at
  BY StoreHolds DEF InCall, Reach, At
<1>3. CASE Together(h)
  <2>1. Held \subseteq overlapped /\ Held' \subseteq overlapped
    BY <1>2, <1>3, StoreHolds DEF Together
  <2> QED
    BY <1>1, <2>1, IsOutput DEF HeldOrMarked
<1>4. CASE Progress(h)
  <2>1. call[h].at = len /\ len \in Nat
    BY <1>4, StoreHolds DEF Progress, At
  <2>2. Held' \subseteq Held
    BY <2>1, StoreHolds, TheBufferIsHeld
  <2>3. Held \subseteq Held'
    <3>1. \A i \in 1 .. len : i \in 1 .. len' /\ array'[i] = array[i]
      <4>1. \A i \in 1 .. len : i \in 1 .. len' /\ i \in Events \ {len'}
        BY <2>1, StoreHolds, Bounds DEF Events
      <4> QED
        BY <4>1, StoreHolds
    <3>2. \A g \in Goroutines \ {h} : call'[g].event = call[g].event
      BY StoreHolds
    <3> QED
      BY <3>1, <3>2, StoreHolds DEF Held
  <2> QED
    BY <1>1, <2>2, <2>3, IsOutput DEF HeldOrMarked
<1> QED
  BY <1>2, <1>3, <1>4 DEF CallsProgress

LEMMA QuietIsOutput ==
  ASSUME BufferOK, Core, OnlyAdded, OnlyAdded', CallsProgress, Overlap,
         NEW g \in Goroutines, Quiet(g)
  PROVE  Contract!Output
<1>1. /\ overlapped \subseteq overlapped' /\ overlapped' \subseteq overlapped \cup Held'
      /\ Held' \subseteq Held
      /\ out \subseteq out' /\ skipped \subseteq skipped'
      /\ added' = added /\ array' = array /\ (len' = len \/ At(g, "clearing"))
  BY QuietHolds, QuietStream, QuietStep DEF Overlap
<1>2. \A h \in Goroutines : call'[h].event = call[h].event
  BY QuietStep DEF OnlyAdded
<1>3. Held \subseteq Held' \cup Slots(len)
  BY <1>1, <1>2 DEF Held, Slots
<1>4. CASE len' = len
  <2>1. Held' = Held
    BY <1>1, <1>2, <1>4 DEF Held
  <2> QED
    BY <1>1, <2>1, IsOutput DEF HeldOrMarked
<1>5. CASE At(g, "clearing")
  <2>1. g \in InCall /\ Finishing(g)
    BY <1>5 DEF InCall, Finishing, At
  <2>2. Slots(len) \subseteq out \cup skipped \/ Held \subseteq overlapped
    BY <2>1 DEF CallsProgress, Progress, Together
  <2> QED
    BY <1>1, <1>3, <2>2, IsOutput DEF HeldOrMarked
<1> QED
  BY <1>1, <1>4, <1>5

(* The stream writers implement OutputWriter: an event stays in the buffer *)
(* until a descriptor took its message or a reconnect in the middle of its *)
(* flush replaced the bufio.Writer with it, for any number of failing      *)
(* calls; only overlapping calls are let off.                              *)
THEOREM Refinement == Spec => ContractSpec
<1>1. Init => Contract!Init
  BY Bounds DEF Init, Contract!Init, Held, No
<1>2. Init => Typed /\ OrderInv
  BY InitTyped, InitOrder
<1>3. Typed /\ OrderInv /\ [Next]_vars => (Typed /\ OrderInv)'
  BY BufferInvariant, CoreInvariant, HistoryInvariant, OrderInvariant DEF Typed, Core
<1>4. Typed /\ OrderInv /\ [Next]_vars => [Contract!Next]_(Contract!vars)
  <2> SUFFICES ASSUME Typed, OrderInv, [Next]_vars
               PROVE  [Contract!Next]_(Contract!vars)
    OBVIOUS
  <2>1. BufferOK /\ Core /\ OnlyAdded /\ CallsProgress /\ OnlyAdded'
    BY <1>3 DEF Typed, Core, OrderInv
  <2>2. ASSUME Overlap, NEW h \in Handlers, AddEvent(h)
        PROVE  Contract!Next
    BY <2>1, <2>2, AddIsAddEvent DEF Contract!Next
  <2>3. ASSUME Overlap, NEW g \in Goroutines, Store(g) \/ Quiet(g)
        PROVE  Contract!Next
    BY <2>1, <2>3, StoreIsOutput, QuietIsOutput DEF Contract!Next
  <2>4. CASE Overlap /\ Tick
    <3>1. /\ UNCHANGED <<added, out, skipped>> /\ Held' = Held
          /\ overlapped \subseteq overlapped' /\ overlapped' \subseteq overlapped \cup Held'
      BY <2>4 DEF Tick, Overlap, Held, buffer, sink
    <3> QED
      BY <2>1, <3>1, IsOutput DEF HeldOrMarked, Contract!Next
  <2>5. CASE UNCHANGED vars
    BY <2>5 DEF vars, buffer, sink, Contract!vars, Held
  <2> QED
    BY <2>2, <2>3, <2>4, <2>5, Steps
<1> QED
  BY <1>1, <1>2, <1>3, <1>4, PTL DEF Spec, ContractSpec, Contract!Spec

-----------------------------------------------------------------------------
(* What is in the files comes before what is still to be written           *)

(* A write adds pending messages to the current file.                      *)
LEMMA TakeFiles ==
  ASSUME StreamOK, NEW k \in 0 .. Len(pending), Take(k)
  PROVE  \A n \in DOMAIN files' :
           /\ n \in DOMAIN files
           /\ \A e \in files'[n].events :
                \/ e \in files[n].events
                \/ kind = "file" /\ n = current /\ e \in Messages(pending) \cap out'
<1>1. CASE kind = "file" /\ k > 0 /\ current \in DOMAIN files
  <2> DEFINE es == {SubSeq(pending, 1, k)[i] : i \in 1 .. k}
  <2>1. /\ files' = [files EXCEPT ![current] =
                       [mtime |-> now, size |-> @.size + k, events |-> @.events \cup es]]
        /\ out' = out \cup es
    BY <1>1 DEF Take
  <2>2. es \subseteq Messages(pending)
    <3>1. pending \in Seq(Events) /\ Len(pending) \in Nat
      BY LenProperties DEF StreamOK
    <3>2. \A i \in 1 .. k : SubSeq(pending, 1, k)[i] = pending[i] /\ i \in 1 .. Len(pending)
      BY <3>1, SubSeqProperties
    <3> QED
      BY <3>2 DEF Messages
  <2> HIDE DEF es
  <2>3. /\ DOMAIN files' = DOMAIN files /\ current \in DOMAIN files
        /\ files'[current].events = files[current].events \cup es
        /\ \A n \in DOMAIN files \ {current} : files'[n] = files[n]
    BY <1>1, <2>1
  <2> QED
    BY <1>1, <2>1, <2>2, <2>3
<1>2. CASE ~(kind = "file" /\ k > 0 /\ current \in DOMAIN files)
  BY <1>2 DEF Take
<1> QED
  BY <1>1, <1>2

(* What a quiet step does to the files: it writes, while the descriptor is *)
(* open and its bufio.Writer sound, or drops files, or opens an empty one. *)
LEMMA QuietFiles ==
  ASSUME BufferOK, StreamOK, NEW g \in Goroutines, Quiet(g)
  PROVE  \A n \in DOMAIN files' : \A e \in files'[n].events :
           /\ n \in DOMAIN files
           /\ \/ e \in files[n].events
              \/ /\ kind = "file" /\ n = current /\ e \in Messages(pending) \cap out'
                 /\ open /\ ~broken /\ call[g].pc = "writing"
<1>1. ASSUME files' = files
      PROVE  \A n \in DOMAIN files' : \A e \in files'[n].events :
               n \in DOMAIN files /\ e \in files[n].events
  BY <1>1
<1>2. ASSUME OpenFile
      PROVE  \A n \in DOMAIN files' : \A e \in files'[n].events :
               n \in DOMAIN files /\ e \in files[n].events
  BY <1>2 DEF OpenFile
<1>3. Len(pending) \in 0 .. Len(pending) /\ 0 .. Len(pending) - 1 \subseteq 0 .. Len(pending)
  BY LenProperties DEF StreamOK
<1>4. ASSUME WriteOut \/ WriteOutFails
      PROVE  \A n \in DOMAIN files' : \A e \in files'[n].events :
               /\ n \in DOMAIN files
               /\ \/ e \in files[n].events
                  \/ kind = "file" /\ n = current /\ e \in Messages(pending) \cap out' /\ open
  <2>1. CASE open
    BY <1>3, <1>4, <2>1, TakeFiles DEF WriteOut, WriteOutFails
  <2>2. CASE ~open
    BY <1>1, <1>4, <2>2 DEF WriteOut, WriteOutFails, sink
  <2> QED
    BY <2>1, <2>2
<1>5. CASE WriteMessage(g)
  <2>1. call[g].pc = "writing"
    BY <1>5 DEF WriteMessage, Goto, At
  <2>2. CASE UNCHANGED sink
    BY <1>1, <2>2 DEF sink
  <2>3. CASE ~broken /\ (WriteOut \/ WriteOutFails)
    BY <1>4, <2>1, <2>3
  <2> QED
    BY <1>5, <2>2, <2>3 DEF WriteMessage
<1>6. CASE FlushWriter(g)
  <2>1. call[g].pc = "writing"
    BY <1>6 DEF FlushWriter, Goto, Return, At
  <2>2. CASE UNCHANGED sink
    BY <1>1, <2>2 DEF sink
  <2>3. CASE ~broken /\ (WriteOut \/ WriteOutFails)
    BY <1>4, <2>1, <2>3
  <2> QED
    BY <1>6, <2>2, <2>3 DEF FlushWriter
<1>7. CASE Reopened(g) \/ Rotate(g)
  BY <1>1, <1>2, <1>7 DEF Reopened, Rotate
<1>8. CASE Cleanup(g)
  BY <1>8 DEF Cleanup
<1>9. CASE BatchFull(g) \/ Reconnect(g) \/ ReopenFails(g) \/ Clear(g) \/ Flush(g) \/ Close
  BY <1>1, <1>9 DEF BatchFull, BeginFlush, Reconnect, ReopenFails, Clear, Flush, Close, sink
<1> QED
  BY <1>5, <1>6, <1>7, <1>8, <1>9 DEF Quiet, LoopStep, EndStep

LEMMA ToComeIsHeld ==
  ASSUME BufferOK, NEW g \in Goroutines
  PROVE  ToCome(g) \subseteq Held
<1>1. CASE At(g, "append")
  <2>1. call[g].event # 0
    <3>1. CallOK(call[g]) /\ call[g].pc = "append"
      BY <1>1 DEF BufferOK, At
    <3> QED
      BY <3>1, Bounds DEF CallOK, CallType
  <2> QED
    BY <1>1, <2>1 DEF ToCome, Held
<1>2. CASE Looping(g)
  <2>1. \A i \in call[g].at .. len : i \in 1 .. len
    BY <1>2, LoopIndex, Bounds DEF BufferOK
  <2>2. {array[i] : i \in call[g].at .. len} \subseteq Held
    BY <2>1, TheBufferIsHeld DEF Slots
  <2> QED
    BY <1>2, <2>2 DEF ToCome, Looping, At
<1> QED
  BY <1>1, <1>2 DEF ToCome

(* If all in the buffer is marked, nothing more is said of it.             *)
LEMMA MarkedBehind ==
  ASSUME BufferOK, Held \subseteq overlapped
  PROVE  BufferIsBehind
<1>1. \A S : S \subseteq Held => Behind(S)
  BY DEF Behind
<1> QED
  BY <1>1, ToComeIsHeld, TheBufferIsHeld DEF BufferIsBehind

(* The message that a flush is to write next.                              *)
LEMMA MessageBehind ==
  ASSUME BufferOK, CallsProgress, BufferIsBehind, NEW g \in Goroutines,
         call[g].pc \in {"writing", "opening"}, ~LoopDone(g)
  PROVE  Behind({Message(g)})
<1>1. g \in InCall /\ Looping(g) /\ Reach(g) = call[g].count
  BY DEF InCall, Looping, Reach, At
<1>2. /\ call[g].at \in 1 .. MaxEvents + 1 /\ call[g].count \in 0 .. MaxEvents
      /\ call[g].at <= call[g].count
  BY <1>1, LoopIndex, Bounds DEF LoopDone
<1>3. CASE Together(g)
  <2>1. Message(g) \in Slots(Reach(g))
    BY <1>1, <1>2 DEF Message, Slots
  <2> QED
    BY <1>3, <2>1 DEF Together, Behind
<1>4. CASE Progress(g)
  <2>1. call[g].at \in call[g].at .. len
    BY <1>1, <1>2, <1>4 DEF Progress
  <2>2. Message(g) \in ToCome(g)
    BY <2>1 DEF ToCome, Message, Looping, At
  <2> QED
    BY <2>2 DEF BufferIsBehind, Behind
<1> QED
  BY <1>1, <1>3, <1>4 DEF CallsProgress

LEMMA LeavesFlushFailing ==
  ASSUME BufferOK, NEW g \in Goroutines, Quiet(g), Looping(g) \/ Finishing(g),
         ~Looping(g)', ~Finishing(g)'
  PROVE  FlushFails(g) \/ len' = 0
<1> USE DEF Looping, Finishing
<1>1. ASSUME NEW from, NEW to \in {"reconnect", "opening", "rotating", "cleaning", "clearing"},
             Goto(g, from, to)
      PROVE  FALSE
  BY <1>1, GotoEvent
<1>2. ASSUME NEW from \in {"writing", "opening", "rotating"}, Return(g, from)
      PROVE  FlushFails(g)
  BY <1>2, ReturnEvent DEF FlushFails
<1>3. CASE WriteMessage(g)
  BY <1>1, <1>3, NextIndex DEF WriteMessage, At
<1>4. CASE Reconnect(g) \/ Cleanup(g)
  BY <1>1, <1>4 DEF Reconnect, Cleanup
<1>5. CASE Reopened(g)
  BY <1>5, NextIndex DEF Reopened
<1>6. CASE ReopenFails(g)
  BY <1>2, <1>6 DEF ReopenFails
<1>7. CASE FlushWriter(g)
  <2>1. AfterFlush \in {"rotating", "clearing"}
    BY DEF AfterFlush
  <2> QED
    BY <1>1, <1>2, <1>7, <2>1 DEF FlushWriter
<1>8. CASE Rotate(g)
  BY <1>1, <1>2, <1>8 DEF Rotate
<1>9. CASE Clear(g)
  BY <1>9 DEF Clear
<1>10. CASE BatchFull(g) \/ Flush(g) \/ (g = Closer /\ Close)
  <2>1. call[g].pc \in {"added", "idle", "closing"}
    BY <1>10 DEF BatchFull, Flush, BeginFlush, Return, Close, Goto, At
  <2> QED
    BY <2>1
<1> QED
  BY <1>3, <1>4, <1>5, <1>6, <1>7, <1>8, <1>9, <1>10 DEF Quiet, LoopStep, EndStep

(* A flush begins with the whole buffer, and what it has to write does not *)
(* grow.                                                                   *)
LEMMA QuietToCome ==
  ASSUME BufferOK, NEW g \in Goroutines, Quiet(g)
  PROVE  /\ ToCome(g)' \subseteq (IF Looping(g) THEN ToCome(g) ELSE Slots(len))
         /\ Looping(g)' /\ ~Looping(g) => ~Finishing(g)
<1> USE DEF Looping, At
<1>1. CASE ~Looping(g)'
  BY <1>1, QuietStep DEF ToCome
<1>2. CASE Looping(g)'
  <2>0. ToCome(g)' = {array'[i] : i \in call'[g].at .. len'} /\ array' = array
    BY <1>2, QuietStep DEF ToCome
  <2>1. ASSUME NEW from, BeginFlush(g, from)
        PROVE  ToCome(g)' \subseteq Slots(len) /\ call[g].pc = from
    <3>1. call'[g].at = 1 /\ len' = len /\ call[g].pc = from
      BY <1>2, <2>1, BeginFlushEvent DEF BeginFlush, buffer
    <3> QED
      BY <2>0, <3>1 DEF Slots
  <2>2. ASSUME NEW from, Return(g, from)
        PROVE  FALSE
    BY <1>2, <2>2, ReturnEvent
  <2>3. ASSUME NEW from, NEW to \in {"rotating", "cleaning", "clearing", "closed"}, Goto(g, from, to)
        PROVE  FALSE
    BY <1>2, <2>3, GotoEvent
  <2>4. ASSUME Looping(g), len' = len, call'[g].at \in {call[g].at, call[g].at + 1}
        PROVE  ToCome(g)' \subseteq ToCome(g)
    <3>1. call[g].at \in Nat /\ len \in Nat
      BY <2>4, LoopIndex, Bounds DEF BufferOK
    <3>2. \A i \in call'[g].at .. len' : i \in call[g].at .. len
      BY <2>4, <3>1
    <3>3. ToCome(g) = {array[i] : i \in call[g].at .. len}
      BY <2>4 DEF ToCome
    <3> QED
      BY <2>0, <3>2, <3>3
  <2>5. CASE BatchFull(g) \/ Flush(g)
    BY <2>1, <2>2, <2>5 DEF BatchFull, Flush, Finishing
  <2>6. CASE WriteMessage(g) \/ Reopened(g) \/ Reconnect(g)
    <3>1. Looping(g) /\ len' = len
      BY <2>6 DEF WriteMessage, Reopened, Reconnect, Goto, buffer
    <3>2. call'[g].at \in {call[g].at, call[g].at + 1}
      BY <2>6, GotoEvent, NextIndex DEF WriteMessage, Reopened, Reconnect
    <3> QED
      BY <2>4, <3>1, <3>2
  <2>7. CASE FlushWriter(g)
    <3>1. AfterFlush \in {"rotating", "clearing"}
      BY DEF AfterFlush
    <3> QED
      BY <2>2, <2>3, <2>7, <3>1 DEF FlushWriter
  <2>8. CASE ReopenFails(g) \/ Rotate(g) \/ Cleanup(g) \/ Clear(g) \/ (g = Closer /\ Close)
    BY <2>2, <2>3, <2>8 DEF ReopenFails, Rotate, Cleanup, Clear, Close
  <2> QED
    BY <2>5, <2>6, <2>7, <2>8 DEF Quiet, LoopStep, EndStep
<1> QED
  BY <1>1, <1>2

(* What a step writes comes before all that the buffer has left.           *)
LEMMA WrittenBehind ==
  ASSUME BufferOK, CallsProgress, BufferIsBehind, NEW g \in Goroutines, call[g].pc = "writing",
         open, ~broken
  PROVE  Precede(Messages(pending), ToCome(g))
<1>1. g \in InCall /\ Looping(g) /\ ~At(g, "append")
  BY DEF InCall, Looping, At
<1>2. CASE Together(g)
  BY <1>2, ToComeIsHeld DEF Together, Precede
<1>3. CASE Progress(g)
  BY <1>1, <1>3 DEF Progress, ToCome, Precede, Sent, At
<1> QED
  BY <1>1, <1>2, <1>3 DEF CallsProgress

LEMMA QuietBehind ==
  ASSUME BufferOK, BufferOK', StreamOK, OnlyAdded, CallsProgress, BufferIsBehind, Overlap,
         NEW g \in Goroutines, Quiet(g)
  PROVE  BufferIsBehind'
<1>0. /\ overlapped \subseteq overlapped' /\ retried \subseteq retried'
      /\ Held' \subseteq Held /\ array' = array
      /\ \A h \in Goroutines \ {g} : call'[h] = call[h]
  BY QuietHolds, QuietStep DEF Overlap
<1>1. CASE Held' \subseteq overlapped'
  <2>1. (Held \subseteq overlapped)'
    BY <1>1
  <2> QED
    BY <2>1, MarkedBehind, PTL
<1>2. CASE ~(Held' \subseteq overlapped') /\ g \notin InCall \cup InCall'
  <2>1. g \in {Flusher, Closer} /\ Flush(g)
    BY <1>2 DEF Quiet, LoopStep, EndStep, InCall, At, BatchFull, BeginFlush, Return,
       WriteMessage, Goto, Reconnect, Reopened, ReopenFails, FlushWriter, Rotate, Cleanup,
       Clear, Close
  <2>2. files' = files /\ len' = len
    BY <2>1 DEF Flush, BeginFlush, buffer, sink
  <2>3. ~Looping(g) /\ ~Finishing(g) /\ ToCome(g)' = {}
    BY <1>2 DEF InCall, Looping, Finishing, ToCome, At
  <2>4. \A h \in Goroutines \ {g} :
          /\ ToCome(h)' = ToCome(h)
          /\ Looping(h)' = Looping(h) /\ Finishing(h)' = Finishing(h)
    BY <1>0, <2>2 DEF ToCome, Looping, Finishing, At
  <2>5. Slots(len)' = Slots(len)
    BY <1>0, <2>2 DEF Slots
  <2> QED
    BY <1>0, <2>2, <2>3, <2>4, <2>5 DEF BufferIsBehind, Behind
<1>3. CASE ~(Held' \subseteq overlapped') /\ g \in InCall \cup InCall'
  <2>1. \A h \in Goroutines \ {g} : h \notin InCall /\ h \notin InCall'
    <3> SUFFICES ASSUME NEW h \in Goroutines \ {g}, h \in InCall
                 PROVE  FALSE
      BY <1>0 DEF InCall
    <3>1. h \in InCall'
      BY <1>0 DEF InCall
    <3>2. CASE g \in InCall'
      BY <1>3, <3>1, <3>2 DEF Overlap
    <3>3. CASE g \in InCall
      BY <1>0, <1>3, <3>3 DEF CallsProgress, Together
    <3> QED
      BY <1>3, <3>2, <3>3
  <2>2. \A h \in Goroutines \ {g} : ~Looping(h) /\ ~Finishing(h) /\ ToCome(h)' = {}
    BY <2>1 DEF InCall, Looping, Finishing, ToCome, At
  <2>3. g \in InCall => ~(Held \subseteq overlapped)
    BY <1>0, <1>3
  <2>4. ASSUME NEW n \in DOMAIN files', NEW e \in files'[n].events
        PROVE  /\ n \in DOMAIN files
               /\ \/ e \in files[n].events
                  \/ e \in Messages(pending) /\ open /\ ~broken /\ call[g].pc = "writing"
    BY QuietFiles
  <2>5. ASSUME NEW n \in DOMAIN files', NEW e \in files'[n].events \ overlapped',
               NEW f \in ToCome(g)' \ (overlapped' \cup retried')
        PROVE  e < f
    <3>1. e \notin overlapped /\ f \notin overlapped \cup retried
      BY <1>0
    <3>2. CASE Looping(g)
      <4>1. f \in ToCome(g)
        BY <3>2, QuietToCome
      <4>2. CASE e \in files[n].events
        BY <2>4, <3>1, <4>1, <4>2 DEF BufferIsBehind, Behind
      <4>3. CASE e \notin files[n].events
        BY <2>4, <3>1, <4>1, <4>3, WrittenBehind DEF Precede
      <4> QED
        BY <4>2, <4>3
    <3>3. CASE ~Looping(g)
      <4>1. f \in Slots(len) /\ ~Finishing(g)
        <5>1. Looping(g)'
          BY QuietStep DEF ToCome
        <5> QED
          BY <3>3, <5>1, QuietToCome
      <4>2. e \in files[n].events
        BY <2>4, <3>3 DEF Looping
      <4> QED
        BY <2>2, <2>4, <3>1, <3>3, <4>1, <4>2 DEF BufferIsBehind, Behind
    <3> QED
      BY <3>2, <3>3
  <2>6. ASSUME \A h \in Goroutines : ~Looping(h)' /\ ~Finishing(h)',
               NEW n \in DOMAIN files', NEW e \in files'[n].events \ overlapped',
               NEW f \in Slots(len)' \ (overlapped' \cup retried')
        PROVE  e < f
    <3>1. len' = len /\ len' # 0 /\ f \in Slots(len)
      <4>1. len' \in {0, len} /\ \A i \in 1 .. 0 : FALSE
        BY QuietStep
      <4> QED
        BY <1>0, <2>6, <4>1 DEF Slots
    <3>2. ~Looping(g) /\ ~Finishing(g)
      <4> SUFFICES ASSUME Looping(g) \/ Finishing(g)
                   PROVE  FALSE
        OBVIOUS
      <4>1. FlushFails(g) /\ g \in InCall
        BY <2>6, <3>1, LeavesFlushFailing DEF Looping, Finishing, InCall
      <4>2. Held \subseteq retried'
        BY <4>1 DEF Overlap
      <4> QED
        BY <2>6, <3>1, <4>2, TheBufferIsHeld
    <3>3. n \in DOMAIN files /\ e \in files[n].events
      BY <2>4, <2>6, <3>2 DEF Looping
    <3> QED
      BY <1>0, <2>2, <2>6, <3>1, <3>2, <3>3 DEF BufferIsBehind, Behind
  <2> QED
    BY <2>2, <2>5, <2>6 DEF BufferIsBehind, Behind
<1> QED
  BY <1>1, <1>2, <1>3

LEMMA StoreBehind ==
  ASSUME BufferOK, BufferOK', CallsProgress, BufferIsBehind, Overlap, NEW h \in Goroutines, Store(h)
  PROVE  BufferIsBehind'
<1>0. /\ overlapped \subseteq overlapped' /\ retried \subseteq retried' /\ files' = files
      /\ h \in InCall /\ h \in InCall'
  BY StoreHolds DEF Overlap, InCall, Store, sink
<1>1. CASE Held' \subseteq overlapped'
  <2>1. (Held \subseteq overlapped)'
    BY <1>1
  <2> QED
    BY <2>1, MarkedBehind, PTL
<1>2. CASE ~(Held' \subseteq overlapped')
  <2>1. ~Together(h)
    BY <1>0, <1>2, StoreHolds DEF Together, Reach, At
  <2>2. InCall = {h} /\ Progress(h)
    BY <1>0, <2>1 DEF CallsProgress
  <2>3. \A g \in Goroutines : ToCome(g)' = {}
    <3>1. \A g \in Goroutines \ {h} : call'[g].pc \in {"idle", "closed"}
      BY <2>2, StoreHolds DEF InCall
    <3> QED
      BY <3>1, StoreHolds DEF ToCome, Looping, At
  <2>4. call[h].at = len /\ ToCome(h) = {call[h].event} /\ len \in Nat
    BY <2>2, StoreHolds DEF Progress, ToCome, At
  <2>5. Slots(len)' \subseteq Slots(len) \cup ToCome(h)
    <3>1. ASSUME NEW i \in 1 .. len'
          PROVE  array'[i] \in Slots(len) \cup ToCome(h)
      <4>1. CASE i = len'
        BY <2>4, <4>1, StoreHolds
      <4>2. CASE i # len'
        <5>1. i \in 1 .. len /\ i \in Events \ {len'}
          <6>1. len' = len + 1 /\ len' \in Events
            BY <2>4, StoreHolds
          <6> QED
            BY <2>4, <4>2, <6>1, Bounds DEF Events
        <5> QED
          BY <5>1, StoreHolds DEF Slots
      <4> QED
        BY <4>1, <4>2
    <3> QED
      BY <3>1 DEF Slots
  <2>6. \A g \in Goroutines : ~Looping(g) /\ ~Finishing(g)
    BY <2>2, StoreHolds DEF InCall, Looping, Finishing
  <2>7. Behind(Slots(len)) /\ Behind(ToCome(h))
    BY <2>6 DEF BufferIsBehind
  <2> QED
    BY <1>0, <2>3, <2>5, <2>7 DEF BufferIsBehind, Behind
<1> QED
  BY <1>1, <1>2

LEMMA AddEventBehind ==
  ASSUME BufferOK, OnlyAdded, RotationInv, kind = "file", setbacks = 0, Overlap,
         NEW h \in Handlers, AddEvent(h)
  PROVE  BufferIsBehind'
<1>1. /\ added \in Nat /\ added' = added + 1 /\ h \in Goroutines
      /\ UNCHANGED <<array, len, files>>
      /\ overlapped \subseteq overlapped' /\ retried \subseteq retried'
  BY Bounds DEF AddEvent, BufferOK, Goroutines, buffer, sink, Overlap
<1>2. /\ call[h].pc = "idle" /\ call'[h].pc = "append" /\ call'[h].event = added'
      /\ \A g \in Goroutines \ {h} : call'[g] = call[g]
  BY <1>1 DEF AddEvent, BufferOK, At, No
<1>3. ToCome(h)' = {added'} /\ \A g \in Goroutines \ {h} : ToCome(g)' = ToCome(g)
  BY <1>1, <1>2 DEF ToCome, Looping, At
<1>4. \A n \in DOMAIN files : \A e \in files[n].events : e < added'
  <2>1. \A n \in DOMAIN files : files[n].events \subseteq 1 .. added
    BY DEF RotationInv, OnlyAdded
  <2> QED
    BY <1>1, <2>1
<1>5. /\ Slots(len)' = Slots(len)
      /\ (\A g \in Goroutines : ~Looping(g)' /\ ~Finishing(g)')
           => \A g \in Goroutines : ~Looping(g) /\ ~Finishing(g)
  BY <1>1, <1>2 DEF Slots, Looping, Finishing
<1>6. BufferIsBehind
  BY DEF RotationInv
<1>7. ASSUME NEW g \in Goroutines
      PROVE  Behind(ToCome(g))'
  <2>1. CASE g = h
    BY <1>1, <1>3, <1>4, <2>1 DEF Behind
  <2>2. CASE g # h
    BY <1>1, <1>3, <1>6, <2>2 DEF BufferIsBehind, Behind
  <2> QED
    BY <2>1, <2>2
<1> QED
  BY <1>1, <1>5, <1>6, <1>7 DEF BufferIsBehind, Behind

LEMMA QuietFilesInOrder ==
  ASSUME BufferOK, StreamOK, FileInv, RotationInv, kind = "file", setbacks = 0, Overlap,
         NEW g \in Goroutines, Quiet(g)
  PROVE  FilesInOrder'
<1>1. overlapped \subseteq overlapped' /\ retried \subseteq retried'
  BY DEF Overlap
<1>2. SUFFICES ASSUME NEW m \in DOMAIN files', NEW n \in DOMAIN files', m < n,
                      NEW e \in files'[m].events \ overlapped',
                      NEW f \in files'[n].events \ (overlapped' \cup retried')
               PROVE  e < f
  BY DEF FilesInOrder
<1>3. /\ m \in DOMAIN files /\ n \in DOMAIN files
      /\ e \in files[m].events \/ m = current
      /\ f \in files[n].events \/ (open /\ ~broken /\ f \in Messages(pending))
  BY QuietFiles
<1>4. e \in files[m].events
  <2>1. m \in Nat /\ n \in Nat /\ current \in Nat /\ n <= current
    BY <1>3 DEF FileInv, Directory
  <2> QED
    BY <1>2, <1>3, <2>1
<1> QED
  BY <1>1, <1>2, <1>3, <1>4 DEF RotationInv, FilesInOrder, Behind

(* What is pending comes after all that is in the files.                   *)
LEMMA QuietPending ==
  ASSUME BufferOK, StreamOK, CallsProgress, RotationInv, kind = "file", setbacks = 0, Overlap,
         NEW g \in Goroutines, Quiet(g), open', ~broken'
  PROVE  Behind(Messages(pending))'
<1>0. overlapped \subseteq overlapped' /\ retried \subseteq retried'
  BY DEF Overlap
<1>1. ASSUME files' = files, NEW S, Behind(S), Messages(pending)' \subseteq S
      PROVE  Behind(Messages(pending))'
  BY <1>0, <1>1 DEF Behind
<1>2. ASSUME Messages(pending)' = {}
      PROVE  Behind(Messages(pending))'
  BY <1>2 DEF Behind
<1>3. ASSUME UNCHANGED <<pending, files>>, open, ~broken
      PROVE  Behind(Messages(pending))'
  BY <1>1, <1>3 DEF RotationInv, Messages
<1>4. CASE WriteMessage(g)
  <2>1. call[g].pc = "writing" /\ ~LoopDone(g) /\ open /\ ~broken
    BY <1>4 DEF WriteMessage, Goto, At
  <2>2. Message(g) \in Events /\ Behind({Message(g)}) /\ Precede(Sent, {Message(g)})
    BY <2>1, MessageIsEvent, MessageBehind, MessageIsNext DEF RotationInv
  <2>3. CASE pending' = Append(pending, Message(g)) /\ UNCHANGED sink
    <3>1. Messages(pending)' = Messages(pending) \cup {Message(g)}
      BY <2>2, <2>3, MessagesOf DEF StreamOK, Messages
    <3>2. Behind(Messages(pending)) /\ files' = files
      BY <2>1, <2>3 DEF RotationInv, sink
    <3> QED
      BY <1>0, <2>2, <3>1, <3>2 DEF Behind
  <2>4. CASE pending' = <<Message(g)>> /\ WriteOut
    <3>1. Messages(pending)' = {Message(g)}
      BY <2>4, SingleMessage
    <3>2. \A n \in DOMAIN files' : \A e \in files'[n].events :
            n \in DOMAIN files /\ (e \in files[n].events \/ e \in Messages(pending))
      BY QuietFiles
    <3> QED
      BY <1>0, <2>2, <3>1, <3>2 DEF Behind, Precede, Sent
  <2> QED
    BY <1>4, <2>1, <2>3, <2>4 DEF WriteMessage
<1>5. CASE Reopened(g)
  <2>1. call[g].pc = "opening" /\ ~LoopDone(g)
    <3>1. call[g].pc = "opening"
      BY <1>5 DEF Reopened, At
    <3> QED
      BY <3>1, LoopIndex, Bounds DEF Looping, LoopDone
  <2>2. Behind({Message(g)}) /\ Messages(pending)' = {Message(g)}
    BY <1>5, <2>1, MessageBehind, SingleMessage DEF Reopened, RotationInv
  <2>3. \A n \in DOMAIN files' : \A e \in files'[n].events :
          n \in DOMAIN files /\ e \in files[n].events
    BY <2>1, QuietFiles
  <2> QED
    BY <1>0, <2>2, <2>3 DEF Behind
<1>6. CASE FlushWriter(g)
  <2>1. CASE pending' = <<>>
    BY <1>2, <2>1, MessagesOf DEF Messages
  <2>2. CASE UNCHANGED <<pending, broken, sink>>
    BY <1>3, <1>6, <2>2 DEF FlushWriter, sink
  <2> QED
    BY <1>6, <2>1, <2>2 DEF FlushWriter
<1>7. CASE Rotate(g)
  BY <1>2, <1>7, MessagesOf DEF Rotate, Messages
<1>8. CASE Cleanup(g)
  <2>1. /\ UNCHANGED <<pending, open, broken>>
        /\ \A n \in DOMAIN files' : n \in DOMAIN files /\ files'[n] = files[n]
    BY <1>8 DEF Cleanup, writer
  <2>2. Messages(pending)' = Messages(pending) /\ Behind(Messages(pending))
    BY <2>1 DEF Messages, RotationInv
  <2> QED
    BY <1>0, <2>1, <2>2 DEF Behind
<1>9. CASE BatchFull(g) \/ Reconnect(g) \/ ReopenFails(g) \/ Clear(g) \/ Flush(g) \/ Close
  BY <1>3, <1>9 DEF BatchFull, BeginFlush, Reconnect, ReopenFails, Clear, Flush, Close, writer, sink
<1> QED
  BY <1>4, <1>5, <1>6, <1>7, <1>8, <1>9 DEF Quiet, LoopStep, EndStep

LEMMA KindStays == [Next]_vars => kind' = kind
BY DEF Next, Step, Continue, AddEvent, Flush, BeginFlush, Store, BatchFull, WriteMessage,
   Reconnect, Reopened, ReopenFails, FlushWriter, Rotate, Cleanup, Clear, Close, Tick, vars

LEMMA RotationInvariant ==
  ASSUME BufferOK, BufferOK', Core, HistoryOK, FileInv, OnlyAdded, CallsProgress, RotationInv,
         [Next]_vars
  PROVE  RotationInv'
<1>0. /\ kind' = kind /\ StreamOK
      /\ overlapped \subseteq overlapped' /\ retried \subseteq retried'
      /\ setbacks' = 0 => setbacks = 0
  <2>1. setbacks' = 0 => setbacks = 0
    BY SetBack DEF Core
  <2> QED
    BY <2>1, KindStays DEF Core, Next, Overlap, vars
<1>1. ASSUME UNCHANGED <<files, pending, open, broken, out>>,
             kind = "file" /\ setbacks = 0 => BufferIsBehind'
      PROVE  RotationInv'
  BY <1>0, <1>1 DEF RotationInv, FilesInOrder, Behind, Messages
<1>2. ASSUME Overlap, NEW h \in Handlers, AddEvent(h)
      PROVE  RotationInv'
  <2>1. UNCHANGED <<files, pending, open, broken, out>>
    BY <1>2 DEF AddEvent, writer, sink
  <2> QED
    BY <1>1, <1>2, <2>1, AddEventBehind
<1>3. ASSUME Overlap, NEW h \in Goroutines, Store(h)
      PROVE  RotationInv'
  <2>1. UNCHANGED <<files, pending, open, broken, out>>
    BY <1>3 DEF Store, writer, sink
  <2> QED
    BY <1>1, <1>3, <2>1, StoreBehind DEF RotationInv
<1>4. ASSUME Overlap, NEW g \in Goroutines, Quiet(g)
      PROVE  RotationInv'
  <2>1. \A n \in DOMAIN files' : files'[n].events \subseteq out'
    BY <1>0, <1>4, QuietFiles, QuietStream DEF RotationInv
  <2>2. kind # "file" => \A n \in DOMAIN files' : files'[n].events = {}
    BY <1>0, <1>4, QuietFiles DEF RotationInv
  <2>3. kind = "file" /\ setbacks = 0 => FilesInOrder' /\ BufferIsBehind'
    BY <1>0, <1>4, QuietFilesInOrder, QuietBehind DEF RotationInv
  <2>4. kind = "file" /\ setbacks = 0 /\ open' /\ ~broken' => Behind(Messages(pending))'
    BY <1>0, <1>4, QuietPending
  <2> QED
    BY <1>0, <2>1, <2>2, <2>3, <2>4 DEF RotationInv
<1>5. CASE (Overlap /\ Tick) \/ UNCHANGED vars
  <2>1. UNCHANGED <<files, pending, open, broken, out, array, len, call>>
    BY <1>5 DEF Tick, vars, buffer, writer, sink
  <2>2. kind = "file" /\ setbacks = 0 => BufferIsBehind'
    BY <1>0, <2>1 DEF RotationInv, BufferIsBehind, Behind, ToCome, Slots, Looping, Finishing, At
  <2> QED
    BY <1>1, <2>1, <2>2
<1> QED
  BY <1>2, <1>3, <1>4, <1>5, Steps

LEMMA InitRotation == Init => RotationInv
<1> SUFFICES ASSUME Init PROVE RotationInv
  OBVIOUS
<1>1. DOMAIN files = {0} /\ files[0].events = {} /\ \A n \in DOMAIN files : files[n].events = {}
  BY DEF Init
<1> QED
  BY <1>1 DEF RotationInv, FilesInOrder, BufferIsBehind, Behind

(* The order of cleanupOldFiles is that of the names.                      *)
LEMMA OlderByName ==
  ASSUME Directory, NEW m \in DOMAIN files, NEW n \in DOMAIN files
  PROVE  Older(m, n) <=> m < n
<1>1. /\ m \in Nat /\ n \in Nat /\ files[m].mtime \in Nat /\ files[n].mtime \in Nat
      /\ m < n => files[m].mtime <= n
      /\ n < m => files[n].mtime <= m
      /\ n <= files[n].mtime /\ m <= files[m].mtime
  BY DEF Directory
<1> QED
  BY <1>1 DEF Older

LEMMA CleanupRemovesFirst ==
  ASSUME FilesOK, Directory, NEW g \in Goroutines, Cleanup(g),
         NEW m \in DOMAIN files \ DOMAIN files', NEW n \in DOMAIN files'
  PROVE  n \in DOMAIN files /\ files'[n] = files[n] /\ m < n
<1> DEFINE kept == {x \in DOMAIN files : Rank(x) < MaxFiles}
<1>1. files' = [x \in kept |-> files[x]] /\ kept \subseteq DOMAIN files
  BY DEF Cleanup
<1>2. n \in kept /\ m \notin kept /\ m \in DOMAIN files /\ n \in DOMAIN files /\ files'[n] = files[n]
  <2> HIDE DEF kept
  <2> QED
    BY <1>1
<1>3. m \in Nat /\ n \in Nat /\ m # n
  BY <1>2 DEF Directory
<1>4. ASSUME n < m
      PROVE  FALSE
  <2> DEFINE after(x) == {y \in DOMAIN files : Older(x, y)}
  <2>1. IsFiniteSet(DOMAIN files)
    <3>1. IsFiniteSet(0 .. LastSecond)
      BY FS_Interval, Bounds DEF FilesOK
    <3> QED
      BY <3>1, FS_Subset DEF FilesOK
  <2>2. after(m) \subseteq after(n)
    <3>1. \A y \in DOMAIN files : y \in Nat /\ (Older(m, y) => m < y) /\ (n < y => Older(n, y))
      BY <1>2, OlderByName DEF Directory
    <3> QED
      BY <1>3, <1>4, <3>1
  <2>3. IsFiniteSet(after(n)) /\ IsFiniteSet(after(m))
    BY <2>1, FS_Subset
  <2>4. Cardinality(after(m)) <= Cardinality(after(n))
    BY <2>2, <2>3, FS_Subset
  <2>5. /\ Cardinality(after(m)) \in Nat /\ Cardinality(after(n)) \in Nat
    BY <2>3, FS_CardinalityType
  <2>6. Cardinality(after(n)) < MaxFiles /\ ~(Cardinality(after(m)) < MaxFiles)
    BY <1>2 DEF Rank
  <2> QED
    BY <2>4, <2>5, <2>6, WriterAssumption
<1> QED
  BY <1>2, <1>3, <1>4

(* No other step removes a file.                                           *)
LEMMA OnlyCleanupRemoves ==
  ASSUME [Next]_vars, NEW m \in DOMAIN files \ DOMAIN files'
  PROVE  \E g \in Goroutines : Cleanup(g)
<1>1. files' # files
  OBVIOUS
<1>2. ~OpenFile /\ \A k : ~Take(k)
  BY DEF OpenFile, Take
<1>3. ~WriteOut /\ (WriteOutFails => UNCHANGED sink)
  BY <1>2 DEF WriteOut, WriteOutFails
<1>4. ASSUME NEW g \in Goroutines, Quiet(g), ~Cleanup(g)
      PROVE  FALSE
  BY <1>1, <1>2, <1>3, <1>4 DEF Quiet, LoopStep, EndStep, WriteMessage, Reopened, FlushWriter,
     Rotate, BatchFull, BeginFlush, Reconnect, ReopenFails, Clear, Flush, Close, sink
<1>5. ~UNCHANGED sink
  BY <1>1 DEF sink
<1> QED
  BY <1>4, <1>5, Steps DEF AddEvent, Store, Tick, vars

(* As long as the clock is not set back, rotation loses the oldest events: *)
(* what cleanup removes is older than what it keeps, but for events that a *)
(* failed flush left in the buffer to be sent again (file.go:52-85,        *)
(* 116-120, 148-188).                                                      *)
THEOREM RotationLosesTheOldest == Spec => RotationLosesOldest
<1> DEFINE IInv == Typed /\ OrderInv /\ FileInv /\ RotationInv
           Losing == LET removed == DOMAIN files \ DOMAIN files'
                     IN  setbacks = 0 => \A e \in EventsIn(removed), f \in EventsIn(DOMAIN files \ removed) :
                           e < f \/ f \in retried
<1>1. Init => IInv
  BY InitTyped, InitOrder, InitRotation DEF Init, FileInv, Directory
<1>2. IInv /\ [Next]_vars => IInv'
  BY BufferInvariant, CoreInvariant, HistoryInvariant, OrderInvariant, FileInvariant,
     RotationInvariant DEF Typed, Core, OrderInv
<1>3. IInv /\ [Next]_vars => Losing
  <2> SUFFICES ASSUME IInv, [Next]_vars, setbacks = 0,
                      NEW m \in DOMAIN files \ DOMAIN files',
                      NEW n \in DOMAIN files \ (DOMAIN files \ DOMAIN files'),
                      NEW e \in files[m].events \ overlapped, NEW f \in files[n].events \ overlapped
               PROVE  e < f \/ f \in retried
    BY DEF EventsIn
  <2>1. kind = "file" /\ Directory /\ FilesInOrder
    BY DEF RotationInv, FileInv
  <2>2. PICK g \in Goroutines : Cleanup(g)
    BY OnlyCleanupRemoves
  <2>3. m < n /\ m \in DOMAIN files /\ n \in DOMAIN files
    BY <2>1, <2>2, CleanupRemovesFirst DEF Typed
  <2> QED
    BY <2>1, <2>3 DEF FilesInOrder
<1> QED
  BY <1>1, <1>2, <1>3, PTL DEF Spec, RotationLosesOldest
=============================================================================
