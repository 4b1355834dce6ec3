----------------------------- MODULE Forwarder -----------------------------
(***************************************************************************)
(* The forwarder with its HEC output: Service composed with HECWriter. A   *)
(* handler is inside AddEvent while it is at "adding", the ticker inside   *)
(* Flush while it is "flushing", the shutdown goroutine inside Close at    *)
(* "closingWriter"; the writer moves only inside these calls, and a call   *)
(* returns when the goroutine has nothing left to do in the writer.        *)
(*                                                                         *)
(* The pipe, socket and file writers (BaseWriter) are not composed here:   *)
(* their calls overlap without a lock and lose events by that, and a       *)
(* reconnect of the pipe or the socket may block for ever.                 *)
(***************************************************************************)
EXTENDS Service

CONSTANTS
  BatchSize, MaxRetries, Threshold, HECCircuitBreaker, DLQ, PersistentBuf,
  Answers, DiskFaults                                (* as in HECWriter    *)

VARIABLES
  fresh, buffer, breaker, pc, batch, attempt, todo, failed, received, acked,
  dlq, saved, faults, givenUp, filesOpen, eventCount (* as in HECWriter    *)

Ticker == "ticker"
Closer == "closer"

ASSUME CallerAssumption == Ticker \notin Clients /\ Closer \notin Clients

(* The event of a client's n-th frame is <<client, n>>.                    *)
EventOf(c) == <<c, frames[c]>>

Events == Clients \X (1 .. MaxMessages)

H == INSTANCE HECWriter WITH
  Handlers <- Clients,
  Flusher  <- Ticker

ASSUME WriterAssumption == H!ConfigAssumption /\ H!ThresholdAssumption

writerVars ==
  <<fresh, buffer, breaker, pc, batch, attempt, todo, failed, received, acked,
    dlq, saved, faults, givenUp, filesOpen, eventCount>>

Alone   == UNCHANGED writerVars
Calling == UNCHANGED vars

ForwarderInit == Init /\ H!Init

-----------------------------------------------------------------------------
(* A handler in AddEvent: the event is appended, a full batch is flushed,  *)
(* and the call returns.                                                   *)
HandOver(c) ==
  /\ conn[c] = "adding" /\ EventOf(c) \in fresh
  /\ H!AddEvent(c, EventOf(c))
  /\ Calling

AddEventReturnsEarly(c) ==
  /\ EventOf(c) \notin fresh
  /\ AddEvent(c) /\ Alone

AddEventReturns(c) ==
  /\ EventOf(c) \notin fresh /\ pc[c] = "idle"
  /\ AddEvent(c) /\ Alone

HandlerStep(c) ==
  \/ /\ \/ Count(c) \/ Track(c) \/ NewDecoder(c) \/ Select(c) \/ Decode(c)
        \/ ProcessMessage(c) \/ Untrack(c) \/ Finish(c) \/ Leave(c)
     /\ Alone
  \/ HandOver(c)
  \/ conn[c] = "adding" /\ H!Continue(c) /\ Calling
  \/ AddEventReturns(c)

(* A tick that finds nothing to flush is a call all the same.              *)
TickFlushes ==
  /\ Tick
  /\ \/ H!Flush(Ticker)
     \/ buffer = {} /\ Alone

TickerStep ==
  \/ TickFlushes
  \/ flusher = "flushing" /\ H!Continue(Ticker) /\ Calling
  \/ Flushed /\ pc[Ticker] = "idle" /\ Alone
  \/ FlusherEnd /\ Alone

(* Close: its Flush, to the end, and then the files.                       *)
CloseStep ==
  \/ /\ shutdown = "closingWriter"
     /\ (H!Flush(Closer) \/ H!Continue(Closer) \/ H!CloseFiles)
     /\ Calling
  \/ CloseWriter /\ pc[Closer] = "closed" /\ Alone

ForwarderNext ==
  /\ up
  /\ \/ \E c \in Clients : HandlerStep(c)
     \/ TickerStep
     \/ CloseStep
     \/ H!TimePasses /\ Calling
     \/ \E c \in Clients : (Connect(c) \/ ClientLeaves(c)) /\ Alone
     \/ \E c \in Clients : (Accept(c) \/ Dispatch(c)) /\ Alone
     \/ (StartHealthServer \/ RunReturns \/ MainReturns) /\ Alone
     \/ \E c \in Clients : Cleanup(c) /\ Alone
     \/ (Signal \/ CloseShutdownChan \/ CloseListener) /\ Alone
     \/ (HandlersDone \/ WaitTimeout \/ Exit) /\ Alone

allVars == <<vars, writerVars>>

ForwarderSpec == ForwarderInit /\ [][ForwarderNext]_allVars

(* Handlers run on: reads have deadlines, and inside AddEvent the HTTP     *)
(* client's timeout bounds a POST and MaxRetries their number. The ticker, *)
(* Close, clients and signals are free.                                    *)
ForwarderFairSpec ==
  ForwarderSpec /\ \A c \in Clients : WF_allVars(up /\ HandlerStep(c))

-----------------------------------------------------------------------------
(* What the forwarder promises with a HEC output                           *)

(* An orderly shutdown adds nothing behind Close's back: from the moment   *)
(* Close has copied the buffer it stays empty, although the ticker may     *)
(* still tick and connections still be accepted (service.go:173-213,       *)
(* hec.go:476-494).                                                        *)
NothingBehindClose == pc[Closer] # "idle" /\ ~timedOut => buffer = {}

(* Orderly shutdown, end to end: when the process ends with its writer     *)
(* closed and the handlers waited for, every event that a handler added    *)
(* reached Splunk or a file, or a file write of it failed, or it was given *)
(* up with no file configured - but for the batch that the ticker was      *)
(* sending: nobody waits for it (service.go:173-213).                      *)
ExitLosesNothing ==
  ~up /\ writerClosed /\ ~timedOut =>
    \A e \in Events \ fresh :
      \/ H!Received(e) \/ H!Spilled(e) \/ e \in faults
      \/ e \in givenUp /\ ~DLQ /\ ~PersistentBuf
      \/ e \in batch[Ticker]

-----------------------------------------------------------------------------
(* The inductive invariant behind it, next to those of the two parts       *)

(* The writer moves inside calls only.                                     *)
InCalls ==
  /\ \A c \in Clients : conn[c] # "adding" => pc[c] = "idle"
  /\ flusher # "flushing" => pc[Ticker] = "idle"
  /\ pc[Closer] # "idle" => shutdown \in {"closingWriter", "closed"}
  /\ shutdown = "closed" => pc[Closer] = "closed"
  /\ writerClosed => shutdown = "closed"

ForwarderInv == InCalls /\ NothingBehindClose
=============================================================================
