------------------------------ MODULE Metrics ------------------------------
(***************************************************************************)
(* The performance metrics of service/service.go: what a handler records   *)
(* once AddEvent has returned, and the pages of /metrics and /stats that   *)
(* report it while handlers record on. The counters are atomics without a  *)
(* lock; only the latency samples and what updateMetrics computes are      *)
(* behind the mutex, which /metrics holds for reading while it encodes and *)
(* /stats releases first. A page is put together field by field, in the    *)
(* order of PerformanceMetrics.                                            *)
(***************************************************************************)
EXTENDS Integers

CONSTANTS
  Handlers,
  Requests,          (* HTTP requests that may be under way together       *)
  MaxLatencySamples

VARIABLES
  recording,         (* per handler: what it records next, "none" if nothing*)
  outputSuccess, outputErrors, processingErrors, eventsProcessed,
  connectionErrors,  (* accepts that failed and connections refused        *)
  samples,           (* len(latencySamples)                                *)
  rate,              (* the events that EventsPerSecond counts             *)
  page               (* per request: the page being encoded                *)

counters == <<outputSuccess, outputErrors, processingErrors, eventsProcessed,
              connectionErrors>>
vars == <<recording, counters, samples, rate, page>>

Recording == {"none", "success", "error", "latency", "processed", "processingError"}
Kinds == {"/metrics", "/stats"}

Pages == [kind : Kinds, next : {"update", "processed", "rate", "success", "errors", "shown"},
          processed : Nat, rate : Nat, success : Nat, errors : Nat]

NoPage(kind) == [kind |-> kind, next |-> "update", processed |-> 0, rate |-> 0,
                 success |-> 0, errors |-> 0]

TypeOK ==
  /\ recording \in [Handlers -> Recording]
  /\ outputSuccess \in Nat /\ outputErrors \in Nat
  /\ processingErrors \in Nat /\ eventsProcessed \in Nat /\ connectionErrors \in Nat
  /\ samples \in 0 .. MaxLatencySamples
  /\ rate \in Nat
  /\ page \in [Requests -> Pages]

Init ==
  /\ recording = [h \in Handlers |-> "none"]
  /\ outputSuccess = 0 /\ outputErrors = 0
  /\ processingErrors = 0 /\ eventsProcessed = 0 /\ connectionErrors = 0
  /\ samples = 0 /\ rate = 0
  /\ page \in [Requests -> {NoPage(kind) : kind \in Kinds}]

(* metrics.mu held for reading: json.Encode of /metrics is under way.      *)
ReadLocked == \E r \in Requests : /\ page[r].kind = "/metrics"
                                  /\ page[r].next \in {"rate", "success", "errors"}

-----------------------------------------------------------------------------
(* The handler                                                             *)

(* ProcessMessage has failed, or AddEvent has returned: what follows.      *)
Begin(h, what) ==
  /\ recording[h] = "none"
  /\ recording' = [recording EXCEPT ![h] = what]
  /\ UNCHANGED <<counters, samples, rate, page>>

Goto(h, from, to) ==
  /\ recording[h] = from
  /\ recording' = [recording EXCEPT ![h] = to]

RecordProcessingError(h) ==
  /\ Goto(h, "processingError", "none")
  /\ processingErrors' = processingErrors + 1
  /\ UNCHANGED <<outputSuccess, outputErrors, eventsProcessed, connectionErrors,
                 samples, rate, page>>

RecordOutputSuccess(h) ==
  /\ Goto(h, "success", "latency")
  /\ outputSuccess' = outputSuccess + 1
  /\ UNCHANGED <<outputErrors, processingErrors, eventsProcessed, connectionErrors,
                 samples, rate, page>>

RecordOutputError(h) ==
  /\ Goto(h, "error", "latency")
  /\ outputErrors' = outputErrors + 1
  /\ UNCHANGED <<outputSuccess, processingErrors, eventsProcessed, connectionErrors,
                 samples, rate, page>>

(* The sample is appended, and the oldest goes when there are too many.    *)
RecordLatency(h) ==
  /\ Goto(h, "latency", "processed")
  /\ ~ReadLocked
  /\ samples' = IF samples < MaxLatencySamples THEN samples + 1 ELSE samples
  /\ UNCHANGED <<counters, rate, page>>

(* After an error of AddEvent as well.                                     *)
RecordEventProcessed(h) ==
  /\ Goto(h, "processed", "none")
  /\ eventsProcessed' = eventsProcessed + 1
  /\ UNCHANGED <<outputSuccess, outputErrors, processingErrors, connectionErrors,
                 samples, rate, page>>

Record(h) ==
  \/ RecordProcessingError(h) \/ RecordOutputSuccess(h) \/ RecordOutputError(h)
  \/ RecordLatency(h) \/ RecordEventProcessed(h)

(* The accept loop: Accept has failed, or the limit is reached.            *)
CountConnectionError ==
  /\ connectionErrors' = connectionErrors + 1
  /\ UNCHANGED <<recording, outputSuccess, outputErrors, processingErrors, eventsProcessed,
                 samples, rate, page>>

-----------------------------------------------------------------------------
(* handleMetrics and handleStats                                           *)

UpdateMetrics(r) ==
  /\ page[r].next = "update"
  /\ ~ReadLocked
  /\ rate' = eventsProcessed
  /\ page' = [page EXCEPT ![r].next = "processed"]
  /\ UNCHANGED <<recording, counters, samples>>

(* One field of the struct is read into the page.                          *)
Encode(r, field, then, value) ==
  /\ page[r].next = field
  /\ page' = [page EXCEPT ![r] = [@ EXCEPT ![field] = value, !.next = then]]
  /\ UNCHANGED <<recording, counters, samples, rate>>

(* The response is out; the slot serves another request.                   *)
Answered(r) ==
  /\ page[r].next = "shown"
  /\ \E kind \in Kinds : page' = [page EXCEPT ![r] = NoPage(kind)]
  /\ UNCHANGED <<recording, counters, samples, rate>>

Handle(r) ==
  \/ UpdateMetrics(r)
  \/ Encode(r, "processed", "rate", eventsProcessed)
  \/ Encode(r, "rate", "success", rate)
  \/ Encode(r, "success", "errors", outputSuccess)
  \/ Encode(r, "errors", "shown", outputErrors)
  \/ Answered(r)

Next ==
  \/ \E h \in Handlers, what \in {"success", "error", "processingError"} : Begin(h, what)
  \/ \E h \in Handlers : Record(h)
  \/ \E r \in Requests : Handle(r)
  \/ CountConnectionError

Spec == Init /\ [][Next]_vars

-----------------------------------------------------------------------------
(* A page never reports more events processed than outputs, successful or  *)
(* failed, though every number is read at a moment of its own:             *)
(* recordEventProcessed comes last in a handler (service.go:372-382) and   *)
(* EventsProcessed first in the page (31-43). A page of /metrics computes  *)
(* its rate from no event that it does not report, whatever other requests *)
(* update in between (488-494); /stats has lost the lock by then (504-508).*)
PageAddsUp ==
  \A r \in Requests : page[r].next = "shown" =>
    /\ page[r].processed <= page[r].success + page[r].errors
    /\ page[r].kind = "/metrics" => page[r].rate <= page[r].processed
=============================================================================
