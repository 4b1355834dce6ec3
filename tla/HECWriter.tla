----------------------------- MODULE HECWriter -----------------------------
(***************************************************************************)
(* The Splunk HEC writer of output/hec.go while it runs: goroutines add    *)
(* events and flush concurrently, each carries its own copy of the buffer  *)
(* through POSTs, retries, the dead letter queue (DLQ) and the persistent  *)
(* buffer file, all against one circuit breaker and one HEC endpoint.      *)
(* Startup replay and what the files hold after a restart: see HECReplay.  *)
(*                                                                         *)
(* A batch is a set: which order its events have shows in no property.     *)
(* What runs under bufferMutex or fileMutex is one step.                   *)
(***************************************************************************)
EXTENDS CircuitBreaker, FiniteSets

CONSTANTS
  Events,                (* events the handlers will add, each added once  *)
  Handlers,              (* connection goroutines, they call AddEvent      *)
  Flusher,               (* the flush ticker's goroutine                   *)
  Closer,                (* the shutdown goroutine, it calls Close         *)
  BatchSize,
  MaxRetries,            (* HECMaxRetries                                  *)
  HECCircuitBreaker,     (* BOOLEAN: the breaker is configured             *)
  DLQ,                   (* BOOLEAN: HECDLQPath is set                     *)
  PersistentBuf,         (* BOOLEAN: HECPersistentBuf                      *)
  Answers,               (* what a POST can end with, a subset of Answer   *)
  DiskFaults             (* BOOLEAN: file writes may fail                  *)

(* "accepted": a 2xx; "retryable": 429, 5xx or no connection; "rejected":  *)
(* 400, 401, 403; "lost": the request went out and no answer came back in  *)
(* the client's 30 seconds, so the server may or may not have indexed it.  *)
Answer == {"accepted", "retryable", "rejected", "lost"}

ASSUME ConfigAssumption ==
  /\ BatchSize \in Nat \ {0}
  /\ MaxRetries \in Nat
  /\ {HECCircuitBreaker, DLQ, PersistentBuf, DiskFaults} \subseteq BOOLEAN
  /\ Answers \subseteq Answer

ASSUME GoroutineAssumption ==
  Flusher \notin Handlers /\ Closer \notin Handlers /\ Flusher # Closer

Goroutines == Handlers \cup {Flusher, Closer}

VARIABLES
  fresh,                 (* events not yet added                           *)
  buffer,                (* hw.buffer                                      *)
  breaker,               (* hw.circuitBreaker                              *)
  pc,                    (* per goroutine: where it is                     *)
  batch,                 (* per goroutine: its bufferCopy                  *)
  attempt,               (* per goroutine: attempt of the postToHEC loop   *)
  todo,                  (* per goroutine: events yet to be sent singly    *)
  failed,                (* per goroutine: failedEvents                    *)
  received,              (* per event: copies that reached Splunk          *)
  acked,                 (* events of a POST that was answered 2xx         *)
  dlq,                   (* per event: copies written to the DLQ           *)
  saved,                 (* per event: copies in the persistent buffer     *)
  faults,                (* events of a file write that failed             *)
  givenUp,               (* events a flush returned an error for           *)
  filesOpen,             (* FALSE once Close has closed the files          *)
  eventCount             (* hw.eventCount                                  *)

progress == <<pc, batch, attempt, todo, failed>>
splunk   == <<received, acked>>
disk     == <<dlq, saved, faults, givenUp, filesOpen>>
vars     == <<fresh, buffer, breaker, progress, splunk, disk, eventCount>>

PC == {"idle", "gate", "posting", "accepted", "exhausted", "dlq", "save",
       "singly", "dlqFailed", "saveFailed", "closing", "closed"}

TypeOK ==
  /\ fresh \subseteq Events
  /\ buffer \subseteq Events
  /\ breaker \in Breaker
  /\ pc \in [Goroutines -> PC]
  /\ batch \in [Goroutines -> SUBSET Events]
  /\ attempt \in [Goroutines -> 0 .. MaxRetries]
  /\ todo \in [Goroutines -> SUBSET Events]
  /\ failed \in [Goroutines -> SUBSET Events]
  /\ received \in [Events -> Nat]
  /\ acked \subseteq Events
  /\ dlq \in [Events -> Nat]
  /\ saved \in [Events -> Nat]
  /\ faults \subseteq Events
  /\ givenUp \subseteq Events
  /\ filesOpen \in BOOLEAN
  /\ eventCount \in Nat

Init ==
  /\ fresh = Events
  /\ buffer = {}
  /\ breaker = NewCircuitBreaker
  /\ pc = [g \in Goroutines |-> "idle"]
  /\ batch = [g \in Goroutines |-> {}]
  /\ attempt = [g \in Goroutines |-> 0]
  /\ todo = [g \in Goroutines |-> {}]
  /\ failed = [g \in Goroutines |-> {}]
  /\ received = [e \in Events |-> 0]
  /\ acked = {}
  /\ dlq = [e \in Events |-> 0]
  /\ saved = [e \in Events |-> 0]
  /\ faults = {}
  /\ givenUp = {}
  /\ filesOpen = TRUE
  /\ eventCount = 0

Goto(g, from, to) ==
  /\ pc[g] = from
  /\ pc' = [pc EXCEPT ![g] = to]

Copies(count, es, n) ==
  [e \in Events |-> count[e] + IF e \in es THEN n ELSE 0]

-----------------------------------------------------------------------------
(* AddEvent and Flush: the part under bufferMutex                          *)

(* g leaves the mutex with es as its copy and goes on to flushBufferCopy.  *)
TakeBatch(g, es, from) ==
  /\ Goto(g, from, "gate")
  /\ batch' = [batch EXCEPT ![g] = es]
  /\ UNCHANGED <<attempt, todo, failed>>

AddEventKeepingBuffer(g, e) ==
  /\ pc[g] = "idle"
  /\ fresh' = fresh \ {e}
  /\ buffer' = buffer \cup {e}
  /\ IF Cardinality(buffer') >= BatchSize
     THEN TakeBatch(g, buffer', "idle")
     ELSE UNCHANGED progress
  /\ UNCHANGED <<breaker, splunk, disk, eventCount>>

AddEventOffByOne(g, e) ==
  /\ pc[g] = "idle"
  /\ fresh' = fresh \ {e}
  /\ LET es == buffer \cup {e} IN
     IF Cardinality(es) > BatchSize
     THEN buffer' = {} /\ TakeBatch(g, es, "idle")
     ELSE buffer' = es /\ UNCHANGED progress
  /\ UNCHANGED <<breaker, splunk, disk, eventCount>>

AddEventCopyFirst(g, e) ==
  /\ pc[g] = "idle"
  /\ fresh' = fresh \ {e}
  /\ IF Cardinality(buffer) + 1 >= BatchSize
     THEN buffer' = {} /\ TakeBatch(g, buffer, "idle")
     ELSE buffer' = buffer \cup {e} /\ UNCHANGED progress
  /\ UNCHANGED <<breaker, splunk, disk, eventCount>>

AddEvent(g, e) ==
  /\ pc[g] = "idle"
  /\ fresh' = fresh \ {e}
  /\ LET es == buffer \cup {e} IN
     IF Cardinality(es) >= BatchSize
     THEN buffer' = {} /\ TakeBatch(g, es, "idle")
     ELSE buffer' = es /\ UNCHANGED progress
  /\ UNCHANGED <<breaker, splunk, disk, eventCount>>

FlushFullOnly(g) ==
  /\ \/ /\ Cardinality(buffer) >= BatchSize
        /\ TakeBatch(g, buffer, "idle") /\ buffer' = {}
     \/ buffer = {} /\ g = Closer /\ Goto(g, "idle", "closing")
        /\ UNCHANGED <<batch, attempt, todo, failed, buffer>>
  /\ UNCHANGED <<fresh, breaker, splunk, disk, eventCount>>

(* Flush of the ticker, or first thing in Close. An empty copy returns at  *)
(* once: nothing happens, or Close goes on.                                *)
Flush(g) ==
  /\ \/ buffer # {} /\ TakeBatch(g, buffer, "idle")
     \/ buffer = {} /\ g = Closer /\ Goto(g, "idle", "closing")
        /\ UNCHANGED <<batch, attempt, todo, failed>>
  /\ buffer' = {}
  /\ UNCHANGED <<fresh, breaker, splunk, disk, eventCount>>

(* flushBufferCopy returns; Close goes on to the files.                    *)
Return(g, from) ==
  /\ Goto(g, from, IF g = Closer THEN "closing" ELSE "idle")
  /\ batch' = [batch EXCEPT ![g] = {}]
  /\ attempt' = [attempt EXCEPT ![g] = 0]
  /\ todo' = [todo EXCEPT ![g] = {}]
  /\ failed' = [failed EXCEPT ![g] = {}]

-----------------------------------------------------------------------------
(* postToHEC: the breaker, then the batch with retries                     *)

GateDropping(g) ==
  /\ IF HECCircuitBreaker /\ ~Permits(breaker)
     THEN Return(g, "gate")
     ELSE Goto(g, "gate", "posting")
          /\ UNCHANGED <<batch, attempt, todo, failed>>
  /\ breaker' = IF HECCircuitBreaker THEN AfterCanExecute(breaker) ELSE breaker
  /\ UNCHANGED <<fresh, buffer, splunk, disk, eventCount>>

(* An open breaker sends the batch to the persistent buffer, not the DLQ.  *)
Gate(g) ==
  /\ Goto(g, "gate", IF HECCircuitBreaker /\ ~Permits(breaker)
                     THEN "save" ELSE "posting")
  /\ breaker' = IF HECCircuitBreaker THEN AfterCanExecute(breaker) ELSE breaker
  /\ UNCHANGED <<fresh, buffer, batch, attempt, todo, failed>>
  /\ UNCHANGED <<splunk, disk, eventCount>>

(* The copies of the payload the server indexed, by the answer the client  *)
(* got.                                                                    *)
Indexed(a) ==
  CASE a = "accepted" -> {1}
    [] a = "lost"     -> {0, 1}
    [] OTHER          -> {0}

PostBatchOffByOne(g) ==
  /\ pc[g] = "posting"
  /\ \E a \in Answers, n \in {0, 1} :
       /\ n \in Indexed(a)
       /\ received' = Copies(received, batch[g], n)
       /\ acked' = IF a = "accepted" THEN acked \cup batch[g] ELSE acked
       /\ IF a # "accepted" /\ attempt[g] <= MaxRetries
          THEN /\ attempt' = [attempt EXCEPT ![g] = @ + 1]
               /\ UNCHANGED pc
          ELSE /\ Goto(g, "posting", IF a = "accepted" THEN "accepted"
                                                      ELSE "exhausted")
               /\ attempt' = [attempt EXCEPT ![g] = 0]
  /\ UNCHANGED <<fresh, buffer, breaker, batch, todo, failed, disk, eventCount>>

(* doPost, then the retry loop: every error is retried alike, up to        *)
(* MaxRetries times.                                                       *)
PostBatch(g) ==
  /\ pc[g] = "posting"
  /\ \E a \in Answers, n \in {0, 1} :
       /\ n \in Indexed(a)
       /\ received' = Copies(received, batch[g], n)
       /\ acked' = IF a = "accepted" THEN acked \cup batch[g] ELSE acked
       /\ IF a # "accepted" /\ attempt[g] < MaxRetries
          THEN /\ attempt' = [attempt EXCEPT ![g] = @ + 1]
               /\ UNCHANGED pc
          ELSE /\ Goto(g, "posting", IF a = "accepted" THEN "accepted"
                                                      ELSE "exhausted")
               /\ attempt' = [attempt EXCEPT ![g] = 0]
  /\ UNCHANGED <<fresh, buffer, breaker, batch, todo, failed, disk, eventCount>>

(* OnSuccess, the statistics, and flushBufferCopy returns nil.             *)
PostSucceeded(g) ==
  /\ Return(g, "accepted")
  /\ breaker' = IF HECCircuitBreaker THEN AfterSuccess(breaker) ELSE breaker
  /\ eventCount' = eventCount + Cardinality(batch[g])
  /\ UNCHANGED <<fresh, buffer, splunk, disk>>

PostFailedCounting(g) ==
  /\ Goto(g, "exhausted", "dlq")
  /\ breaker' = IF HECCircuitBreaker THEN AfterFailure(breaker) ELSE breaker
  /\ eventCount' = eventCount + Cardinality(batch[g])
  /\ UNCHANGED <<fresh, buffer, batch, attempt, todo, failed>>
  /\ UNCHANGED <<splunk, disk>>

(* OnFailure; the batch goes to the DLQ and to the persistent buffer.      *)
PostFailed(g) ==
  /\ Goto(g, "exhausted", "dlq")
  /\ breaker' = IF HECCircuitBreaker THEN AfterFailure(breaker) ELSE breaker
  /\ UNCHANGED <<fresh, buffer, batch, attempt, todo, failed>>
  /\ UNCHANGED <<splunk, disk, eventCount>>

-----------------------------------------------------------------------------
(* The two files, each call under fileMutex                                *)

(* writeToDLQ writes one line: all of the events or none, and when it      *)
(* fails (Write, or Sync after a Write) the line may be there or not. With *)
(* no DLQ configured nothing is written, and that is no error.             *)
WriteToDLQ(es) ==
  \/ ~DLQ /\ UNCHANGED <<dlq, faults>>
  \/ DLQ /\ filesOpen /\ dlq' = Copies(dlq, es, 1) /\ UNCHANGED faults
  \/ /\ DLQ /\ (DiskFaults \/ ~filesOpen)
     /\ \E line \in {{}, es} :
          (filesOpen \/ line = {}) /\ dlq' = Copies(dlq, line, 1)
     /\ faults' = faults \cup es

(* saveToPersistentBuffer writes a line per event and gives up at the      *)
(* first error: a part of the events may have been written by then.        *)
SaveToPersistentBuffer(es) ==
  \/ ~PersistentBuf /\ UNCHANGED <<saved, faults>>
  \/ /\ PersistentBuf /\ filesOpen
     /\ saved' = Copies(saved, es, 1) /\ UNCHANGED faults
  \/ /\ PersistentBuf /\ (DiskFaults \/ ~filesOpen)
     /\ \E part \in SUBSET es :
          /\ filesOpen \/ part = {}
          /\ saved' = Copies(saved, part, 1)
     /\ faults' = faults \cup es

DLQBatch(g) ==
  /\ Goto(g, "dlq", "save")
  /\ WriteToDLQ(batch[g])
  /\ UNCHANGED <<fresh, buffer, breaker, batch, attempt, todo, failed>>
  /\ UNCHANGED <<splunk, saved, givenUp, filesOpen, eventCount>>

(* postToHEC returns an error, and flushBufferCopy turns to single events. *)
SaveBatch(g) ==
  /\ Goto(g, "save", "singly")
  /\ SaveToPersistentBuffer(batch[g])
  /\ todo' = [todo EXCEPT ![g] = batch[g]]
  /\ UNCHANGED <<fresh, buffer, breaker, batch, attempt, failed>>
  /\ UNCHANGED <<splunk, dlq, givenUp, filesOpen, eventCount>>

-----------------------------------------------------------------------------
(* The individual retries of flushBufferCopy                               *)

(* sendSingleEventWithRetry with all its attempts: nothing it reads is     *)
(* shared, and the breaker is neither asked nor told. n copies of e are    *)
(* indexed, the last of them is acknowledged if the call succeeds.         *)
SendSingle(e, ok, n) ==
  /\ ok => "accepted" \in Answers /\ n > 0
  /\ ~ok => Answers # {"accepted"}
  /\ n > (IF ok THEN 1 ELSE 0) => "lost" \in Answers
  /\ received' = Copies(received, {e}, n)
  /\ acked' = IF ok THEN acked \cup {e} ELSE acked

SendSinglyForgetting(g) ==
  /\ pc[g] = "singly"
  /\ \E e \in todo[g], ok \in BOOLEAN, n \in 0 .. MaxRetries + 1 :
       /\ SendSingle(e, ok, n)
       /\ todo' = [todo EXCEPT ![g] = @ \ {e}]
  /\ UNCHANGED <<fresh, buffer, breaker, pc, batch, attempt, failed>>
  /\ UNCHANGED <<disk, eventCount>>

SendSingly(g) ==
  /\ pc[g] = "singly"
  /\ \E e \in todo[g], ok \in BOOLEAN, n \in 0 .. MaxRetries + 1 :
       /\ SendSingle(e, ok, n)
       /\ todo' = [todo EXCEPT ![g] = @ \ {e}]
       /\ failed' = IF ok THEN failed ELSE [failed EXCEPT ![g] = @ \cup {e}]
  /\ UNCHANGED <<fresh, buffer, breaker, pc, batch, attempt>>
  /\ UNCHANGED <<disk, eventCount>>

(* The loop is over: return nil, or keep the events that failed.           *)
SinglesDone(g) ==
  /\ todo[g] = {}
  /\ IF failed[g] = {}
     THEN Return(g, "singly")
     ELSE Goto(g, "singly", "dlqFailed")
          /\ UNCHANGED <<batch, attempt, todo, failed>>
  /\ UNCHANGED <<fresh, buffer, breaker, splunk, disk, eventCount>>

DLQFailed(g) ==
  /\ Goto(g, "dlqFailed", "saveFailed")
  /\ WriteToDLQ(failed[g])
  /\ UNCHANGED <<fresh, buffer, breaker, batch, attempt, todo, failed>>
  /\ UNCHANGED <<splunk, saved, givenUp, filesOpen, eventCount>>

SaveFailed(g) ==
  /\ Return(g, "saveFailed")
  /\ SaveToPersistentBuffer(failed[g])
  /\ givenUp' = givenUp \cup failed[g]
  /\ UNCHANGED <<fresh, buffer, breaker, splunk, dlq, filesOpen, eventCount>>

-----------------------------------------------------------------------------
(* Close, after its Flush: the files are closed under fileMutex, whatever  *)
(* other goroutines are doing.                                             *)
CloseFiles ==
  /\ Goto(Closer, "closing", "closed")
  /\ filesOpen' = FALSE
  /\ UNCHANGED <<fresh, buffer, breaker, batch, attempt, todo, failed>>
  /\ UNCHANGED <<splunk, dlq, saved, faults, givenUp, eventCount>>

(* The breaker's timeout elapses.                                          *)
TimePasses ==
  /\ HECCircuitBreaker /\ ~breaker.expired
  /\ breaker' = AfterTimeout(breaker)
  /\ UNCHANGED <<fresh, buffer, progress, splunk, disk, eventCount>>

(* A goroutine goes on with flushBufferCopy.                               *)
Continue(g) ==
  \/ Gate(g) \/ PostBatch(g) \/ PostSucceeded(g) \/ PostFailed(g)
  \/ DLQBatch(g) \/ SaveBatch(g)
  \/ SendSingly(g) \/ SinglesDone(g) \/ DLQFailed(g) \/ SaveFailed(g)

Next ==
  \/ \E g \in Handlers, e \in fresh : AddEvent(g, e)
  \/ \E g \in {Flusher, Closer} : Flush(g)
  \/ \E g \in Goroutines : Continue(g)
  \/ CloseFiles
  \/ TimePasses

Spec == Init /\ [][Next]_vars

(* The ticker fires until the shutdown ends its loop, at the latest when   *)
(* Close has begun: select may still choose a last tick then, but nothing  *)
(* makes it. A goroutine that flushes goes on: sleeps and POSTs are        *)
(* bounded in time. Handlers need not add, nobody must Close.              *)
FairSpec ==
  /\ Spec
  /\ WF_vars(pc[Closer] = "idle" /\ Flush(Flusher))
  /\ \A g \in Goroutines : WF_vars(Continue(g))

-----------------------------------------------------------------------------
(* What the writer promises                                                *)

InFlight(e) == \E g \in Goroutines : e \in batch[g]
Held(e)     == e \in buffer \/ \E g \in Goroutines : e \in batch[g]
Received(e) == received[e] > 0
Spilled(e)  == dlq[e] > 0 \/ saved[e] > 0

(* No event is in two places: the buffer and the copies the goroutines     *)
(* carry are disjoint, so that AddEvent, the ticker and Close never flush  *)
(* the same event twice (hec.go:335-352, 476-487: copy, clear, unlock).    *)
OneOwner ==
  /\ buffer \cap fresh = {}
  /\ \A g \in Goroutines : batch[g] \cap (buffer \cup fresh) = {}
  /\ \A g, h \in Goroutines : g # h => batch[g] \cap batch[h] = {}

(* However many handlers add while POSTs hang, no batch is larger than     *)
(* BatchSize, and a full buffer is never left behind (hec.go:339).         *)
BatchBound ==
  /\ Cardinality(buffer) < BatchSize
  /\ \A g \in Goroutines : Cardinality(batch[g]) <= BatchSize

(* No silent loss: an event that was added and is no longer in memory      *)
(* reached Splunk or a file, or a write of it to a file failed, or it was  *)
(* given up with no file configured (hec.go:355-423, 280, 419).            *)
NoSilentLoss ==
  \A e \in Events :
    \/ e \in fresh \/ Held(e) \/ Received(e) \/ Spilled(e) \/ e \in faults
    \/ e \in givenUp /\ ~DLQ /\ ~PersistentBuf

(* Redelivery is bounded: whatever is lost or retried, an event goes out   *)
(* in at most two rounds of MaxRetries + 1 POSTs, and into each file at    *)
(* most twice (hec.go:235-284, 271-278, 404-418, 449-472).                 *)
BoundedRedelivery ==
  \A e \in Events :
    /\ received[e] <= 2 * (MaxRetries + 1)
    /\ dlq[e] <= 2
    /\ saved[e] <= 2

(* total_events never counts an event that Splunk did not acknowledge; the *)
(* individually sent ones it does not count at all (hec.go:393).           *)
EventCountHonest == eventCount <= Cardinality(acked)

(* A flush that ends without an error left nothing unacknowledged: the     *)
(* batch was answered 2xx, or each of its events was (hec.go:398, 422).    *)
(* AddEvent's caller counts such a batch as an output success.             *)
NilMeansAcknowledged ==
  [][\A g \in Goroutines :
       batch[g] # {} /\ batch'[g] = {} /\ givenUp' = givenUp
         => batch[g] \subseteq acked]_vars

(* Liveness: an event that was added leaves memory while the writer is in  *)
(* use. The ticker picks up what no full batch takes along, and no outcome *)
(* of a POST or of a file write keeps a goroutine for ever. Only an event  *)
(* that a late handler adds when Close has taken its copy may stay behind, *)
(* in the buffer, for the ticker has gone (hec.go:476-487,                 *)
(* service.go:202-213, 188-192).                                           *)
EventsLeaveMemory ==
  \A e \in Events :
    []<>(~InFlight(e) /\ (e \in buffer => pc[Closer] # "idle"))

-----------------------------------------------------------------------------
(* The inductive invariant behind the safety properties                    *)

Retrying == {"singly", "dlqFailed", "saveFailed"}

(* What a process ever holds is finite, however many events there are.     *)
FinitelyMany ==
  IsFiniteSet(buffer) /\ \A g \in Goroutines : IsFiniteSet(batch[g])

(* An event is in one place, and once given up it is in none.              *)
Owned ==
  /\ OneOwner
  /\ givenUp \cap (fresh \cup buffer) = {}
  /\ \A g \in Goroutines : givenUp \cap batch[g] = {}

(* No event was sent, written or failed to be before a goroutine took it.  *)
Untouched ==
  \A e \in fresh \cup buffer :
    received[e] = 0 /\ dlq[e] = 0 /\ saved[e] = 0 /\ e \notin faults

AcknowledgedArrived == \A e \in acked : Received(e)

(* Outside flushBufferCopy g carries nothing; the single events are some   *)
(* of its batch, and what it ends with are those that failed.              *)
Carried(g) ==
  /\ pc[g] \in {"idle", "closing", "closed"} => batch[g] = {}
  /\ todo[g] \subseteq batch[g]
  /\ failed[g] \subseteq batch[g]
  /\ pc[g] \in {"dlqFailed", "saveFailed"} => todo[g] = {} /\ failed[g] # {}

(* An accepted batch is acknowledged, and in the individual retries each   *)
(* event is to do, failed or acknowledged.                                 *)
Answered(g) ==
  /\ pc[g] = "accepted" => batch[g] \subseteq acked
  /\ pc[g] \in Retrying => batch[g] \subseteq todo[g] \cup failed[g] \cup acked

(* What failed for good is in the DLQ, or that write failed.               *)
FailedInDLQ(g) ==
  DLQ /\ pc[g] = "saveFailed"
    => \A e \in failed[g] : dlq[e] > 0 \/ e \in faults

(* How often the events of a batch can have gone out so far ...            *)
SentSoFar(g) ==
  \A e \in batch[g] :
    /\ pc[g] = "gate" => received[e] = 0
    /\ pc[g] = "posting" => received[e] <= attempt[g]
    /\ pc[g] \notin Retrying \/ e \in todo[g] => received[e] <= MaxRetries + 1

(* ... and been written.                                                   *)
WrittenSoFar(g) ==
  \A e \in batch[g] :
    /\ pc[g] \in {"gate", "posting", "accepted", "exhausted", "dlq"} => dlq[e] = 0
    /\ pc[g] # "saveFailed" => dlq[e] <= 1
    /\ pc[g] \notin Retrying => saved[e] = 0
    /\ saved[e] <= 1

Local(g) ==
  Carried(g) /\ Answered(g) /\ FailedInDLQ(g) /\ SentSoFar(g) /\ WrittenSoFar(g)

IInv ==
  /\ TypeOK /\ FinitelyMany
  /\ Owned
  /\ BatchBound
  /\ Untouched
  /\ AcknowledgedArrived
  /\ BoundedRedelivery
  /\ \A g \in Goroutines : Local(g)

-----------------------------------------------------------------------------
(* The writer implements the contract of OutputWriter.                     *)

Contract == INSTANCE OutputWriter WITH
  added   <- Events \ fresh,
  held    <- {e \in Events : Held(e)},
  out     <- {e \in Events : Received(e) \/ Spilled(e)},
  excused <- faults \cup (IF DLQ \/ PersistentBuf THEN {} ELSE givenUp)

ContractSpec == Contract!Spec

=============================================================================
