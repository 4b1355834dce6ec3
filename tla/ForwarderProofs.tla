--------------------------- MODULE ForwarderProofs ---------------------------
(***************************************************************************)
(* Theorems about Forwarder, for any clients, any limits and any HEC       *)
(* configuration: the service in it is Service and the writer in it        *)
(* HECWriter, so that their theorems hold of the whole, and together with  *)
(* the order of calls they give that an orderly shutdown loses nothing     *)
(* but the ticker's batch.                                                 *)
(***************************************************************************)
EXTENDS Forwarder, ServiceProofs

HP == INSTANCE HECWriterProofs WITH
  Handlers <- Clients,
  Flusher  <- Ticker

(* What HECWriter assumes of its constants.                                *)
LEMMA WriterConstants ==
  /\ HP!ConfigAssumption /\ HP!GoroutineAssumption /\ HP!ThresholdAssumption
<1>1. HP!ConfigAssumption
  BY WriterAssumption DEF H!ConfigAssumption, H!Answer, HP!ConfigAssumption, HP!Answer
<1>2. HP!GoroutineAssumption
  BY CallerAssumption DEF HP!GoroutineAssumption, Ticker, Closer
<1>3. HP!ThresholdAssumption
  BY WriterAssumption DEF H!ThresholdAssumption, HP!ThresholdAssumption
<1> QED
  BY <1>1, <1>2, <1>3

(* The steps that are the service's alone.                                 *)
Lone(c) ==
  \/ Connect(c) \/ ClientLeaves(c) \/ Accept(c) \/ Dispatch(c) \/ Cleanup(c)
  \/ Count(c) \/ Track(c) \/ NewDecoder(c) \/ Select(c) \/ Decode(c)
  \/ ProcessMessage(c) \/ Untrack(c) \/ Finish(c) \/ Leave(c)

Alike ==
  \/ StartHealthServer \/ RunReturns \/ MainReturns \/ FlusherEnd
  \/ Signal \/ CloseShutdownChan \/ CloseListener \/ HandlersDone
  \/ WaitTimeout \/ Exit

(* The steps that are the writer's alone.                                  *)
InWriter ==
  \/ \E c \in Clients : HandOver(c)
  \/ \E c \in Clients : conn[c] = "adding" /\ H!Continue(c) /\ Calling
  \/ flusher = "flushing" /\ H!Continue(Ticker) /\ Calling
  \/ /\ shutdown = "closingWriter"
     /\ (H!Flush(Closer) \/ H!Continue(Closer) \/ H!CloseFiles)
     /\ Calling
  \/ H!TimePasses /\ Calling

TickReturns == Flushed /\ pc[Ticker] = "idle" /\ Alone

CloseReturns == CloseWriter /\ pc[Closer] = "closed" /\ Alone

LEMMA Steps ==
  ASSUME ForwarderNext
  PROVE  /\ up
         /\ \/ \E c \in Clients : Lone(c) /\ Alone
            \/ Alike /\ Alone
            \/ \E c \in Clients : AddEventReturns(c)
            \/ TickFlushes \/ TickReturns \/ CloseReturns
            \/ InWriter
BY DEF ForwarderNext, HandlerStep, TickerStep, CloseStep, Lone, Alike, InWriter,
       TickReturns, CloseReturns

-----------------------------------------------------------------------------
(* A step of the forwarder is one of the service or leaves it alone.       *)
LEMMA ServiceStep == [ForwarderNext]_allVars => [Next]_vars
<1> SUFFICES ASSUME [ForwarderNext]_allVars PROVE [Next]_vars
  OBVIOUS
<1>1. CASE UNCHANGED allVars
  BY <1>1 DEF allVars
<1>2. CASE ForwarderNext
  <2>0. up
    BY <1>2, Steps
  <2>1. ASSUME NEW c \in Clients, Lone(c)
        PROVE  Next
    BY <2>0, <2>1 DEF Lone, Next, Handler
  <2>2. CASE Alike
    BY <2>0, <2>2 DEF Alike, Next, ShutdownGoroutine
  <2>3. ASSUME NEW c \in Clients, AddEventReturns(c)
        PROVE  Next
    BY <2>0, <2>3 DEF AddEventReturns, Next, Handler
  <2>4. CASE TickFlushes \/ TickReturns
    BY <2>0, <2>4 DEF TickFlushes, TickReturns, Next
  <2>5. CASE CloseReturns
    BY <2>0, <2>5 DEF CloseReturns, Next, ShutdownGoroutine
  <2>6. CASE InWriter
    BY <2>6 DEF InWriter, HandOver, Calling
  <2> QED
    BY <1>2, Steps, <2>1, <2>2, <2>3, <2>4, <2>5, <2>6
<1> QED
  BY <1>1, <1>2

(* The forwarder's service is Service: its theorems hold of the forwarder. *)
THEOREM ForwarderIsService == ForwarderSpec => Spec
<1>1. ForwarderInit => Init
  BY DEF ForwarderInit
<1> QED
  BY <1>1, ServiceStep, PTL DEF ForwarderSpec, Spec

-----------------------------------------------------------------------------
(* The writer's actions under both of their names                          *)

LEMMA SameCardinality == \A S : H!Cardinality(S) = HP!Cardinality(S)
BY DEF H!Cardinality, HP!Cardinality

LEMMA SameBreaker ==
  \A b : /\ H!Permits(b) = HP!Permits(b)
         /\ H!AfterCanExecute(b) = HP!AfterCanExecute(b)
         /\ H!AfterSuccess(b) = HP!AfterSuccess(b)
         /\ H!AfterFailure(b) = HP!AfterFailure(b)
         /\ H!AfterTimeout(b) = HP!AfterTimeout(b)
BY DEF H!Permits, HP!Permits, H!AfterCanExecute, HP!AfterCanExecute,
       H!AfterSuccess, HP!AfterSuccess, H!AfterFailure, HP!AfterFailure,
       H!CountFailure, HP!CountFailure, H!AfterTimeout, HP!AfterTimeout

LEMMA ContinueIsContinue ==
  ASSUME NEW g, H!Continue(g)
  PROVE  HP!Continue(g)
<1> USE DEF H!Goto, HP!Goto, H!Return, HP!Return, H!Copies, HP!Copies,
            H!splunk, HP!splunk, H!disk, HP!disk
<1>1. H!Gate(g) => HP!Gate(g)
  BY SameBreaker DEF H!Gate, HP!Gate
<1>2. H!PostBatch(g) => HP!PostBatch(g)
  BY DEF H!PostBatch, HP!PostBatch, H!Indexed, HP!Indexed
<1>3. H!PostSucceeded(g) => HP!PostSucceeded(g)
  BY SameCardinality, SameBreaker DEF H!PostSucceeded, HP!PostSucceeded
<1>4. H!PostFailed(g) => HP!PostFailed(g)
  BY SameBreaker DEF H!PostFailed, HP!PostFailed
<1>5. H!DLQBatch(g) => HP!DLQBatch(g)
  BY DEF H!DLQBatch, HP!DLQBatch, H!WriteToDLQ, HP!WriteToDLQ
<1>6. H!SaveBatch(g) => HP!SaveBatch(g)
  BY DEF H!SaveBatch, HP!SaveBatch, H!SaveToPersistentBuffer, HP!SaveToPersistentBuffer
<1>7. H!SendSingly(g) => HP!SendSingly(g)
  BY DEF H!SendSingly, HP!SendSingly, H!SendSingle, HP!SendSingle
<1>8. H!SinglesDone(g) => HP!SinglesDone(g)
  BY DEF H!SinglesDone, HP!SinglesDone
<1>9. H!DLQFailed(g) => HP!DLQFailed(g)
  BY DEF H!DLQFailed, HP!DLQFailed, H!WriteToDLQ, HP!WriteToDLQ
<1>10. H!SaveFailed(g) => HP!SaveFailed(g)
  BY DEF H!SaveFailed, HP!SaveFailed, H!SaveToPersistentBuffer, HP!SaveToPersistentBuffer
<1> QED
  BY <1>1, <1>2, <1>3, <1>4, <1>5, <1>6, <1>7, <1>8, <1>9, <1>10
  DEF H!Continue, HP!Continue

LEMMA OthersAreOthers ==
  /\ \A g, e : H!AddEvent(g, e) => HP!AddEvent(g, e)
  /\ \A g : H!Flush(g) => HP!Flush(g)
  /\ H!CloseFiles => HP!CloseFiles
  /\ H!TimePasses => HP!TimePasses
<1> USE DEF H!Goto, HP!Goto, H!TakeBatch, HP!TakeBatch, H!progress, HP!progress,
            H!splunk, HP!splunk, H!disk, HP!disk
<1>1. ASSUME NEW g, NEW e, H!AddEvent(g, e)
      PROVE  HP!AddEvent(g, e)
  BY <1>1, SameCardinality DEF H!AddEvent, HP!AddEvent
<1>2. ASSUME NEW g, H!Flush(g)
      PROVE  HP!Flush(g)
  BY <1>2 DEF H!Flush, HP!Flush
<1>3. H!CloseFiles => HP!CloseFiles
  BY DEF H!CloseFiles, HP!CloseFiles
<1>4. H!TimePasses => HP!TimePasses
  BY SameBreaker DEF H!TimePasses, HP!TimePasses
<1> QED
  BY <1>1, <1>2, <1>3, <1>4

LEMMA AloneIsStutter == Alone => UNCHANGED HP!vars
BY DEF Alone, writerVars, HP!vars, HP!progress, HP!splunk, HP!disk

(* A step of the forwarder is one of the writer or leaves it alone.        *)
LEMMA WriterStep == [ForwarderNext]_allVars => [HP!Next]_(HP!vars)
<1> SUFFICES ASSUME [ForwarderNext]_allVars PROVE [HP!Next]_(HP!vars)
  OBVIOUS
<1>0. /\ Clients \subseteq HP!Goroutines
      /\ Ticker \in HP!Goroutines /\ Closer \in HP!Goroutines
  BY DEF HP!Goroutines
<1>1. CASE UNCHANGED allVars
  BY <1>1, AloneIsStutter DEF allVars, Alone
<1>2. ASSUME NEW c \in Clients, HandOver(c)
      PROVE  HP!Next
  BY <1>2, OthersAreOthers DEF HandOver, HP!Next
<1>3. ASSUME NEW g \in HP!Goroutines, H!Continue(g)
      PROVE  HP!Next
  BY <1>3, ContinueIsContinue DEF HP!Next
<1>4. CASE H!Flush(Ticker) \/ H!Flush(Closer)
  BY <1>4, OthersAreOthers DEF HP!Next
<1>5. CASE H!CloseFiles \/ H!TimePasses
  BY <1>5, OthersAreOthers DEF HP!Next
<1>6. CASE InWriter
  BY <1>0, <1>2, <1>3, <1>4, <1>5, <1>6 DEF InWriter
<1>7. CASE TickFlushes
  BY <1>4, <1>7, AloneIsStutter DEF TickFlushes
<1>8. CASE Alone
  BY <1>8, AloneIsStutter
<1>9. CASE ForwarderNext
  BY <1>6, <1>7, <1>8, <1>9, Steps DEF AddEventReturns, TickReturns, CloseReturns
<1> QED
  BY <1>1, <1>9

(* The forwarder's writer is HECWriter: so do its theorems.                *)
THEOREM ForwarderIsWriter == ForwarderSpec => HP!Spec
<1>1. ForwarderInit => HP!Init
  BY DEF ForwarderInit, H!Init, HP!Init, H!NewCircuitBreaker, HP!NewCircuitBreaker,
         H!Goroutines, HP!Goroutines
<1> QED
  BY <1>1, WriterStep, PTL DEF ForwarderSpec, HP!Spec

LEMMA WriterInvariant == ForwarderSpec => [](HP!IInv /\ HP!NoSilentLoss)
BY ForwarderIsWriter, WriterConstants, HP!Invariant, HP!NothingIsLostSilently, PTL

-----------------------------------------------------------------------------
(* What the writer's steps change, by the caller's place                   *)

Inside(g) ==
  \/ g \in Clients /\ conn[g] = "adding"
  \/ g = Ticker /\ flusher = "flushing"
  \/ g = Closer /\ shutdown = "closingWriter"

(* g goes on in the writer; the buffer stays as it is, but for a handler's *)
(* event.                                                                  *)
Advances(g) ==
  /\ \A h \in HP!Goroutines \ {g} : pc'[h] = pc[h]
  /\ buffer' = buffer \/ buffer' = {} \/ g \in Clients
  /\ pc[g] = "idle" => buffer' = {} \/ g \in Clients

LEMMA ContinueAdvances ==
  ASSUME HP!TypeOK, NEW g \in HP!Goroutines, HP!Continue(g)
  PROVE  Advances(g)
<1>1. pc \in [HP!Goroutines -> HP!PC]
  BY DEF HP!TypeOK
<1>2. buffer' = buffer /\ pc[g] # "idle"
  BY DEF HP!Continue, HP!Gate, HP!PostBatch, HP!PostSucceeded, HP!PostFailed,
         HP!DLQBatch, HP!SaveBatch, HP!SendSingly, HP!SinglesDone, HP!DLQFailed,
         HP!SaveFailed, HP!Goto, HP!Return
<1>3. \A h \in HP!Goroutines \ {g} : pc'[h] = pc[h]
  BY <1>1
  DEF HP!Continue, HP!Gate, HP!PostBatch, HP!PostSucceeded, HP!PostFailed,
      HP!DLQBatch, HP!SaveBatch, HP!SendSingly, HP!SinglesDone, HP!DLQFailed,
      HP!SaveFailed, HP!Goto, HP!Return
<1> QED
  BY <1>2, <1>3 DEF Advances

LEMMA WriterMoves ==
  ASSUME HP!TypeOK, InWriter
  PROVE  /\ Calling
         /\ \/ \E g \in HP!Goroutines : Inside(g) /\ Advances(g)
            \/ UNCHANGED <<pc, buffer>>
<1>0. /\ Clients \subseteq HP!Goroutines
      /\ Ticker \in HP!Goroutines /\ Closer \in HP!Goroutines
      /\ pc \in [HP!Goroutines -> HP!PC]
  BY DEF HP!Goroutines, HP!TypeOK
<1>1. ASSUME NEW c \in Clients, HandOver(c)
      PROVE  Calling /\ Inside(c) /\ Advances(c)
  <2>1. HP!AddEvent(c, EventOf(c))
    BY <1>1, OthersAreOthers DEF HandOver
  <2>2. \A h \in HP!Goroutines \ {c} : pc'[h] = pc[h]
    BY <1>0, <2>1 DEF HP!AddEvent, HP!TakeBatch, HP!Goto, HP!progress
  <2> QED
    BY <1>1, <2>2 DEF HandOver, Inside, Advances
<1>2. ASSUME NEW g \in HP!Goroutines, Inside(g), H!Continue(g)
      PROVE  Advances(g)
  BY <1>2, ContinueIsContinue, ContinueAdvances
<1>3. ASSUME shutdown = "closingWriter", H!Flush(Closer)
      PROVE  Inside(Closer) /\ Advances(Closer)
  <2>1. HP!Flush(Closer)
    BY <1>3, OthersAreOthers
  <2>2. \A h \in HP!Goroutines \ {Closer} : pc'[h] = pc[h]
    BY <1>0, <2>1 DEF HP!Flush, HP!TakeBatch, HP!Goto
  <2> QED
    BY <1>3, <2>1, <2>2, <1>0 DEF HP!Flush, Inside, Advances
<1>4. ASSUME shutdown = "closingWriter", H!CloseFiles
      PROVE  Inside(Closer) /\ Advances(Closer)
  <2>1. HP!CloseFiles
    BY <1>4, OthersAreOthers
  <2>2. \A h \in HP!Goroutines \ {Closer} : pc'[h] = pc[h]
    BY <1>0, <2>1 DEF HP!CloseFiles, HP!Goto
  <2> QED
    BY <1>4, <2>1, <2>2, <1>0 DEF HP!CloseFiles, HP!Goto, Inside, Advances
<1>5. H!TimePasses => UNCHANGED <<pc, buffer>>
  <2> SUFFICES ASSUME HP!TimePasses PROVE UNCHANGED <<pc, buffer>>
    BY OthersAreOthers
  <2> QED
    BY DEF HP!TimePasses, HP!progress
<1>6. Calling
  BY DEF InWriter, HandOver
<1> DEFINE InTurn(g) == Inside(g) /\ Advances(g)
<1>7. ASSUME NEW c \in Clients, conn[c] = "adding", H!Continue(c)
      PROVE  InTurn(c)
  BY <1>0, <1>2, <1>7 DEF Inside
<1>8. ASSUME flusher = "flushing", H!Continue(Ticker)
      PROVE  InTurn(Ticker)
  BY <1>0, <1>2, <1>8 DEF Inside
<1>9. ASSUME shutdown = "closingWriter", H!Continue(Closer)
      PROVE  InTurn(Closer)
  BY <1>0, <1>2, <1>9 DEF Inside
<1>10. (\E g \in HP!Goroutines : InTurn(g)) \/ UNCHANGED <<pc, buffer>>
  <2> HIDE DEF InTurn
  <2>1. \A c \in Clients : HandOver(c) => InTurn(c)
    BY <1>1 DEF InTurn
  <2>2. shutdown = "closingWriter" /\ (H!Flush(Closer) \/ H!CloseFiles) => InTurn(Closer)
    BY <1>3, <1>4 DEF InTurn
  <2>3. \A c \in Clients : conn[c] = "adding" /\ H!Continue(c) => InTurn(c)
    BY <1>7 DEF InTurn
  <2>4. flusher = "flushing" /\ H!Continue(Ticker) => InTurn(Ticker)
    BY <1>8 DEF InTurn
  <2>5. shutdown = "closingWriter" /\ H!Continue(Closer) => InTurn(Closer)
    BY <1>9 DEF InTurn
  <2> QED
    BY <1>0, <2>1, <2>2, <1>5, <2>3, <2>4, <2>5 DEF InWriter
<1> QED
  BY <1>6, <1>10

(* While it is the service's turn, no handler leaves AddEvent unnoticed.   *)
LEMMA AddingStays ==
  ASSUME IInv, NEW d \in Clients, conn[d] = "adding",
         Alike \/ TickFlushes \/ TickReturns \/ CloseReturns
           \/ \E c \in Clients : Lone(c)
  PROVE  conn'[d] = "adding"
<1>1. conn \in [Clients -> ConnState] /\ AcceptedWaits
  BY DEF IInv, TypeOK
<1>2. CASE Alike \/ TickFlushes \/ TickReturns \/ CloseReturns
  BY <1>2 DEF Alike, TickFlushes, TickReturns, CloseReturns, StartHealthServer,
    RunReturns, MainReturns, Tick, Flushed, FlusherEnd, FlusherStep, Signal,
    CloseShutdownChan, CloseListener, HandlersDone, WaitTimeout, CloseWriter,
    Exit, ShutdownStep
<1>3. ASSUME NEW c \in Clients, Lone(c)
      PROVE  conn'[d] = "adding"
  <2>1. CASE Dispatch(c)
    BY <1>1, <2>1, ServiceAssumption DEF Dispatch, AcceptedWaits
  <2>2. CASE Connect(c) \/ Count(c) \/ Track(c) \/ NewDecoder(c) \/ Select(c)
               \/ Decode(c) \/ ProcessMessage(c) \/ Untrack(c) \/ Finish(c)
               \/ Leave(c)
    BY <1>1, <2>2 DEF Connect, Count, Track, NewDecoder, Select, Decode,
      ProcessMessage, Untrack, Finish, Leave, Goto
  <2>3. CASE ClientLeaves(c) \/ Accept(c) \/ Cleanup(c)
    BY <2>3 DEF ClientLeaves, Accept, Cleanup, CleanupFinds, CleanupCancels,
      CleanupDeletes
  <2> QED
    BY <1>3, <2>1, <2>2, <2>3 DEF Lone
<1> QED
  BY <1>2, <1>3

-----------------------------------------------------------------------------
(* The invariant of the composition                                        *)

LEMMA InCallsStep ==
  ASSUME IInv, HP!IInv, InCalls, [ForwarderNext]_allVars
  PROVE  InCalls'
<1> USE DEF InCalls
<1>0. /\ HP!TypeOK /\ Ticker # Closer
      /\ Ticker \notin Clients /\ Closer \notin Clients
      /\ Clients \subseteq HP!Goroutines
      /\ Ticker \in HP!Goroutines /\ Closer \in HP!Goroutines
  BY CallerAssumption DEF HP!IInv, Ticker, Closer, HP!Goroutines
<1>1. CASE InWriter
  <2>1. Calling
    BY <1>0, <1>1, WriterMoves
  <2>2. UNCHANGED <<conn, flusher, shutdown, writerClosed>>
    BY <2>1 DEF Calling, vars, rest, shutdownVars
  <2>3. ASSUME NEW g \in HP!Goroutines, Inside(g), Advances(g)
        PROVE  InCalls'
    BY <1>0, <2>2, <2>3 DEF Inside, Advances
  <2>4. CASE UNCHANGED <<pc, buffer>>
    BY <2>2, <2>4
  <2> QED
    BY <1>0, <1>1, <2>3, <2>4, WriterMoves
<1>2. CASE TickFlushes
  <2>1. pc' = pc \/ HP!Flush(Ticker)
    BY <1>2, OthersAreOthers DEF TickFlushes, Alone, writerVars
  <2>2. \A h \in HP!Goroutines \ {Ticker} : pc'[h] = pc[h]
    BY <2>1, <1>0 DEF HP!Flush, HP!TakeBatch, HP!Goto, HP!TypeOK
  <2>3. flusher' = "flushing" /\ UNCHANGED <<conn, shutdown, writerClosed>>
    BY <1>2 DEF TickFlushes, Tick, FlusherStep, shutdownVars
  <2> QED
    BY <1>0, <2>2, <2>3
<1>3. ASSUME pc' = pc,
             Alike \/ TickReturns \/ CloseReturns \/ \E c \in Clients : Lone(c)
      PROVE  InCalls'
  <2>1. \A c \in Clients : conn'[c] # "adding" => pc'[c] = "idle"
    BY <1>3, AddingStays
  <2>2. flusher' # "flushing" => pc'[Ticker] = "idle"
    BY <1>3 DEF Alike, TickReturns, CloseReturns, Lone, Connect, ClientLeaves,
      Accept, Dispatch, Cleanup, CleanupFinds, CleanupCancels, CleanupDeletes,
      Count, Track, NewDecoder, Select, Decode, ProcessMessage, Untrack, Finish,
      Leave, StartHealthServer, RunReturns, MainReturns, Flushed, FlusherEnd,
      FlusherStep, Signal, CloseShutdownChan, CloseListener, HandlersDone,
      WaitTimeout, CloseWriter, Exit, ShutdownStep, rest
  <2>3. \/ UNCHANGED <<shutdown, writerClosed>>
        \/ shutdown # "closed" /\ shutdown' \in Shutdown \ {"closed"}
           /\ pc[Closer] = "idle" /\ UNCHANGED writerClosed
        \/ shutdown' = "closed" /\ pc[Closer] = "closed"
    BY <1>3 DEF Alike, TickReturns, CloseReturns, Lone, Connect, ClientLeaves,
      Accept, Dispatch, Cleanup, CleanupFinds, CleanupCancels, CleanupDeletes,
      Count, Track, NewDecoder, Select, Decode, ProcessMessage, Untrack, Finish,
      Leave, StartHealthServer, RunReturns, MainReturns, Flushed, FlusherEnd,
      FlusherStep, Signal, CloseShutdownChan, CloseListener, HandlersDone,
      WaitTimeout, CloseWriter, Exit, ShutdownStep, rest, shutdownVars, Shutdown
  <2> QED
    BY <1>3, <2>1, <2>2, <2>3
<1>4. ASSUME NEW c \in Clients, AddEventReturns(c)
      PROVE  InCalls'
  <2>1. UNCHANGED <<pc, flusher, shutdown, writerClosed>> /\ pc[c] = "idle"
    BY <1>4 DEF AddEventReturns, AddEvent, Alone, writerVars, rest, shutdownVars
  <2>2. \A d \in Clients \ {c} : conn'[d] = conn[d]
    BY <1>4 DEF AddEventReturns, AddEvent, Goto, IInv, TypeOK
  <2> QED
    BY <2>1, <2>2
<1>5. CASE UNCHANGED allVars
  BY <1>5 DEF allVars, vars, rest, shutdownVars, writerVars
<1>6. CASE ForwarderNext
  BY <1>1, <1>2, <1>3, <1>4, <1>6, Steps
  DEF TickReturns, CloseReturns, Alone, writerVars
<1> QED
  BY <1>5, <1>6

LEMMA BehindCloseStep ==
  ASSUME IInv, HP!IInv, InCalls, NothingBehindClose, [ForwarderNext]_allVars
  PROVE  NothingBehindClose'
<1> USE DEF NothingBehindClose
<1>0. /\ HP!TypeOK /\ Ticker # Closer /\ Closer \notin Clients
      /\ Closer \in HP!Goroutines
  BY CallerAssumption DEF HP!IInv, Ticker, Closer, HP!Goroutines
<1>1. timedOut => timedOut'
  <2>1. [Next]_vars
    BY ServiceStep
  <2> QED
    BY <2>1, OnlyShutdown DEF ShutdownGoroutine, Signal, CloseShutdownChan,
      CloseListener, HandlersDone, WaitTimeout, CloseWriter, Exit
<1>2. ASSUME pc[Closer] # "idle", ~timedOut, NEW c \in Clients
      PROVE  conn[c] # "adding"
  BY <1>2 DEF InCalls, IInv, NoAddAfterClose
<1>3. CASE InWriter
  <2>1. ASSUME NEW g \in HP!Goroutines, Inside(g), Advances(g)
        PROVE  NothingBehindClose'
    <3>1. CASE g \in Clients
      <4> SUFFICES ASSUME pc'[Closer] # "idle", ~timedOut' PROVE FALSE
        OBVIOUS
      <4>1. g # Closer /\ g # Ticker
        BY <3>1, CallerAssumption
      <4>2. conn[g] = "adding"
        BY <2>1, <4>1 DEF Inside
      <4>3. pc[Closer] # "idle"
        BY <1>0, <2>1, <4>1 DEF Advances
      <4>4. conn[g] # "adding"
        BY <1>1, <1>2, <3>1, <4>3
      <4> QED
        BY <4>2, <4>4
    <3>2. CASE g \notin Clients
      <4> SUFFICES ASSUME pc'[Closer] # "idle", ~timedOut', buffer' # {}
                   PROVE  FALSE
        OBVIOUS
      <4>1. buffer' = buffer /\ pc[g] # "idle"
        BY <2>1, <3>2 DEF Advances
      <4>2. pc[Closer] # "idle"
        BY <1>0, <2>1, <4>1 DEF Advances
      <4> QED
        BY <1>1, <4>1, <4>2
    <3> QED
      BY <3>1, <3>2
  <2>2. CASE UNCHANGED <<pc, buffer>>
    BY <1>1, <2>2
  <2> QED
    BY <1>0, <1>3, <2>1, <2>2, WriterMoves
<1>4. CASE TickFlushes
  <2>1. buffer' = {} \/ UNCHANGED <<pc, buffer>>
    BY <1>4, OthersAreOthers DEF TickFlushes, Alone, writerVars, HP!Flush
  <2> QED
    BY <1>1, <2>1
<1>5. CASE UNCHANGED <<pc, buffer>>
  BY <1>1, <1>5
<1>6. CASE ForwarderNext
  BY <1>3, <1>4, <1>5, <1>6, Steps
  DEF AddEventReturns, TickReturns, CloseReturns, Alone, writerVars
<1>7. CASE UNCHANGED allVars
  BY <1>5, <1>7 DEF allVars, writerVars
<1> QED
  BY <1>6, <1>7

THEOREM ForwarderInvariant == ForwarderSpec => []ForwarderInv
<1>1. ForwarderInit => ForwarderInv
  BY DEF ForwarderInit, Init, H!Init, H!Goroutines, ForwarderInv, InCalls,
         NothingBehindClose
<1>2. IInv /\ HP!IInv /\ ForwarderInv /\ [ForwarderNext]_allVars => ForwarderInv'
  BY InCallsStep, BehindCloseStep DEF ForwarderInv
<1> QED
  BY <1>1, <1>2, ForwarderIsService, Invariant, WriterInvariant, PTL DEF ForwarderSpec

(* An orderly Close leaves an empty buffer behind.                         *)
THEOREM CloseTakesAll == ForwarderSpec => []NothingBehindClose
<1>1. ForwarderInv => NothingBehindClose
  BY DEF ForwarderInv
<1> QED
  BY <1>1, ForwarderInvariant, PTL

(* At an orderly exit every event has reached Splunk or a file, or an      *)
(* excuse names it, or the ticker was sending it.                          *)
THEOREM OrderlyExit == ForwarderSpec => []ExitLosesNothing
<1>1. IInv /\ HP!IInv /\ HP!NoSilentLoss /\ ForwarderInv => ExitLosesNothing
  <2> SUFFICES ASSUME IInv, HP!IInv, HP!NoSilentLoss, ForwarderInv,
                      writerClosed, ~timedOut,
                      NEW e \in Events, e \notin fresh, e \notin batch[Ticker]
               PROVE  \/ H!Received(e) \/ H!Spilled(e) \/ e \in faults
                      \/ e \in givenUp /\ ~DLQ /\ ~PersistentBuf
    BY DEF ExitLosesNothing
  <2>1. shutdown = "closed" /\ pc[Closer] = "closed" /\ buffer = {}
    BY DEF ForwarderInv, InCalls, NothingBehindClose
  <2>2. \A c \in Clients : pc[c] = "idle"
    BY <2>1 DEF IInv, NoAddAfterClose, ForwarderInv, InCalls
  <2>3. \A g \in HP!Goroutines : g # Ticker => batch[g] = {}
    BY <2>1, <2>2 DEF HP!Goroutines, HP!IInv, HP!Local, HP!Carried
  <2>4. ~HP!Held(e)
    BY <2>1, <2>3 DEF HP!Held, HP!Goroutines
  <2> QED
    BY <2>4 DEF HP!NoSilentLoss, HP!Received, HP!Spilled, H!Received, H!Spilled
<1> QED
  BY <1>1, ForwarderIsService, Invariant, WriterInvariant, ForwarderInvariant, PTL
=============================================================================
