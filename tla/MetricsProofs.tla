---------------------------- MODULE MetricsProofs ----------------------------
(***************************************************************************)
(* The pages of Metrics add up, for any number of handlers and of requests *)
(* under way together.                                                     *)
(***************************************************************************)
EXTENDS Metrics, FiniteSetTheorems, TLAPS

(* Handlers whose output is counted and whose event is not yet.            *)
Pending == {h \in Handlers : recording[h] \in {"latency", "processed"}}

Accounted ==
  /\ IsFiniteSet(Pending)
  /\ outputSuccess + outputErrors = eventsProcessed + Cardinality(Pending)

(* What a page holds so far, against the counters it has yet to read.      *)
Honest(p, successes, errs, latest) ==
  /\ p.next \in {"rate", "success"} => p.processed <= successes + errs
  /\ p.next = "errors" => p.processed <= p.success + errs
  /\ p.next = "shown" => p.processed <= p.success + p.errors
  /\ p.kind = "/metrics" =>
       /\ p.next = "rate" => latest <= p.processed
       /\ p.next \in {"success", "errors", "shown"} => p.rate <= p.processed

PagesHonest == \A r \in Requests : Honest(page[r], outputSuccess, outputErrors, rate)

IInv == TypeOK /\ Accounted /\ rate <= eventsProcessed /\ PagesHonest

-----------------------------------------------------------------------------
(* A handler that records nothing yet counted changes Pending by itself.   *)
LEMMA PendingMoves ==
  ASSUME TypeOK, IsFiniteSet(Pending), NEW h \in Handlers, NEW from, NEW to \in Recording,
         Goto(h, from, to)
  PROVE  /\ Cardinality(Pending) \in Nat
         /\ from \notin {"latency", "processed"} /\ to \notin {"latency", "processed"}
              => Pending' = Pending
         /\ from \in {"latency", "processed"} /\ to \in {"latency", "processed"}
              => Pending' = Pending
         /\ from \notin {"latency", "processed"} /\ to \in {"latency", "processed"}
              => IsFiniteSet(Pending') /\ Cardinality(Pending') = Cardinality(Pending) + 1
         /\ from \in {"latency", "processed"} /\ to \notin {"latency", "processed"}
              => IsFiniteSet(Pending') /\ Cardinality(Pending') = Cardinality(Pending) - 1
<1>1. /\ recording[h] = from /\ recording'[h] = to
      /\ \A i \in Handlers \ {h} : recording'[i] = recording[i]
  BY DEF Goto, TypeOK
<1>2. from \notin {"latency", "processed"} /\ to \in {"latency", "processed"}
        => h \notin Pending /\ Pending' = Pending \cup {h}
  BY <1>1 DEF Pending
<1>3. from \in {"latency", "processed"} /\ to \notin {"latency", "processed"}
        => h \in Pending /\ Pending' = Pending \ {h}
  BY <1>1 DEF Pending
<1>4. from \notin {"latency", "processed"} /\ to \notin {"latency", "processed"}
        => Pending' = Pending
  BY <1>1 DEF Pending
<1>5. from \in {"latency", "processed"} /\ to \in {"latency", "processed"}
        => Pending' = Pending
  BY <1>1 DEF Pending
<1>6. Cardinality(Pending) \in Nat
  BY FS_CardinalityType
<1>7. h \notin Pending => /\ IsFiniteSet(Pending \cup {h})
                          /\ Cardinality(Pending \cup {h}) = Cardinality(Pending) + 1
  BY FS_AddElement
<1>8. h \in Pending => /\ IsFiniteSet(Pending \ {h})
                       /\ Cardinality(Pending \ {h}) = Cardinality(Pending) - 1
  BY FS_RemoveElement
<1> QED
  BY <1>2, <1>3, <1>4, <1>5, <1>6, <1>7, <1>8

LEMMA TypeInvariant ==
  ASSUME MaxLatencySamples \in Nat, TypeOK, [Next]_vars
  PROVE  TypeOK'
<1> USE DEF TypeOK
<1>1. ASSUME NEW h \in Handlers, NEW what \in {"success", "error", "processingError"}, Begin(h, what)
      PROVE  TypeOK'
  BY <1>1 DEF Begin, counters, Recording
<1>2. ASSUME NEW h \in Handlers, Record(h)
      PROVE  TypeOK'
  BY <1>2, MaxLatencySamples \in Nat DEF Record, RecordProcessingError, RecordOutputSuccess, RecordOutputError,
     RecordLatency, RecordEventProcessed, Goto, counters, Recording
<1>3. ASSUME NEW r \in Requests, Handle(r)
      PROVE  TypeOK'
  <2>1. CASE UpdateMetrics(r)
    BY <2>1 DEF UpdateMetrics, counters, Pages
  <2>2. CASE Encode(r, "processed", "rate", eventsProcessed)
    BY <2>2 DEF Encode, counters, Pages
  <2>3. CASE Encode(r, "rate", "success", rate)
    BY <2>3 DEF Encode, counters, Pages
  <2>4. CASE Encode(r, "success", "errors", outputSuccess)
    BY <2>4 DEF Encode, counters, Pages
  <2>5. CASE Encode(r, "errors", "shown", outputErrors)
    BY <2>5 DEF Encode, counters, Pages
  <2>6. CASE Answered(r)
    BY <2>6 DEF Answered, NoPage, counters, Pages, Kinds
  <2> QED
    BY <1>3, <2>1, <2>2, <2>3, <2>4, <2>5, <2>6 DEF Handle
<1>4. CASE CountConnectionError
  BY <1>4 DEF CountConnectionError
<1>5. CASE UNCHANGED vars
  BY <1>5 DEF vars, counters
<1> QED
  BY <1>1, <1>2, <1>3, <1>4, <1>5 DEF Next

LEMMA AccountedInvariant ==
  ASSUME TypeOK, Accounted, [Next]_vars
  PROVE  Accounted'
<1>1. ASSUME NEW h \in Handlers, NEW what \in {"success", "error", "processingError"}, Begin(h, what)
      PROVE  Accounted'
  <2>1. Goto(h, "none", what) /\ what \in Recording
    BY <1>1 DEF Begin, Goto, Recording
  <2>2. Pending' = Pending
    BY <2>1, PendingMoves DEF Accounted
  <2> QED
    BY <1>1, <2>2 DEF Accounted, Begin, counters
<1>2. ASSUME NEW h \in Handlers, Record(h)
      PROVE  Accounted'
  <2> USE DEF Recording
  <2>0. Cardinality(Pending) \in Nat
    BY FS_CardinalityType DEF Accounted
  <2>1. CASE RecordProcessingError(h)
    <3>1. Goto(h, "processingError", "none")
      BY <2>1 DEF RecordProcessingError
    <3>2. Pending' = Pending
      BY <3>1, PendingMoves DEF Accounted
    <3> QED
      BY <2>1, <3>2 DEF Accounted, RecordProcessingError
  <2>2. CASE RecordOutputSuccess(h)
    <3>1. Goto(h, "success", "latency")
      BY <2>2 DEF RecordOutputSuccess
    <3>2. IsFiniteSet(Pending') /\ Cardinality(Pending') = Cardinality(Pending) + 1
      BY <3>1, PendingMoves DEF Accounted
    <3> QED
      BY <2>0, <2>2, <3>2 DEF Accounted, RecordOutputSuccess, TypeOK
  <2>3. CASE RecordOutputError(h)
    <3>1. Goto(h, "error", "latency")
      BY <2>3 DEF RecordOutputError
    <3>2. IsFiniteSet(Pending') /\ Cardinality(Pending') = Cardinality(Pending) + 1
      BY <3>1, PendingMoves DEF Accounted
    <3> QED
      BY <2>0, <2>3, <3>2 DEF Accounted, RecordOutputError, TypeOK
  <2>4. CASE RecordLatency(h)
    <3>1. Goto(h, "latency", "processed")
      BY <2>4 DEF RecordLatency
    <3>2. Pending' = Pending
      BY <3>1, PendingMoves DEF Accounted
    <3> QED
      BY <2>4, <3>2 DEF Accounted, RecordLatency, counters
  <2>5. CASE RecordEventProcessed(h)
    <3>1. Goto(h, "processed", "none")
      BY <2>5 DEF RecordEventProcessed
    <3>2. IsFiniteSet(Pending') /\ Cardinality(Pending') = Cardinality(Pending) - 1
      BY <3>1, PendingMoves DEF Accounted
    <3> QED
      BY <2>0, <2>5, <3>2 DEF Accounted, RecordEventProcessed, TypeOK
  <2> QED
    BY <1>2, <2>1, <2>2, <2>3, <2>4, <2>5 DEF Record
<1>3. ASSUME UNCHANGED <<recording, outputSuccess, outputErrors, eventsProcessed>>
      PROVE  Accounted'
  BY <1>3 DEF Accounted, Pending
<1>4. ASSUME NEW r \in Requests, Handle(r)
      PROVE  Accounted'
  BY <1>3, <1>4 DEF Handle, UpdateMetrics, Encode, Answered, counters
<1>5. CASE CountConnectionError \/ UNCHANGED vars
  BY <1>3, <1>5 DEF CountConnectionError, vars, counters
<1> QED
  BY <1>1, <1>2, <1>4, <1>5 DEF Next

-----------------------------------------------------------------------------
(* Counters only grow, so what a page holds stays honest while handlers    *)
(* record.                                                                 *)
LEMMA HonestStays ==
  ASSUME NEW p \in Pages, NEW s \in Nat, NEW e \in Nat, NEW l,
         NEW s1 \in Nat, NEW e1 \in Nat, s <= s1, e <= e1, Honest(p, s, e, l)
  PROVE  Honest(p, s1, e1, l)
BY DEF Honest, Pages

(* One more field; the other pages are left alone.                         *)
LEMMA OnePage ==
  ASSUME TypeOK, PagesHonest, NEW r \in Requests, NEW p,
         page' = [page EXCEPT ![r] = p],
         UNCHANGED <<outputSuccess, outputErrors, rate>>,
         Honest(p, outputSuccess, outputErrors, rate)
  PROVE  PagesHonest'
BY DEF PagesHonest, TypeOK

LEMMA PagesInvariant ==
  ASSUME IInv, [Next]_vars
  PROVE  PagesHonest' /\ (rate <= eventsProcessed)'
<1> USE DEF IInv
<1>1. ASSUME UNCHANGED <<page, rate>>, outputSuccess' \in Nat, outputErrors' \in Nat,
             eventsProcessed' \in Nat, outputSuccess <= outputSuccess',
             outputErrors <= outputErrors', eventsProcessed <= eventsProcessed'
      PROVE  PagesHonest' /\ (rate <= eventsProcessed)'
  <2>1. ASSUME NEW r \in Requests
        PROVE  Honest(page[r], outputSuccess', outputErrors', rate)
    <3>1. Honest(page[r], outputSuccess, outputErrors, rate) /\ page[r] \in Pages
      BY DEF PagesHonest, TypeOK
    <3> QED
      BY <1>1, <3>1, HonestStays DEF TypeOK
  <2>2. rate <= eventsProcessed'
    BY <1>1 DEF TypeOK
  <2> QED
    BY <1>1, <2>1, <2>2 DEF PagesHonest
<1>2. ASSUME NEW h \in Handlers, NEW what \in {"success", "error", "processingError"}, Begin(h, what)
      PROVE  PagesHonest' /\ (rate <= eventsProcessed)'
  BY <1>1, <1>2 DEF Begin, counters, TypeOK
<1>3. ASSUME NEW h \in Handlers, Record(h)
      PROVE  PagesHonest' /\ (rate <= eventsProcessed)'
  BY <1>1, <1>3 DEF Record, RecordProcessingError, RecordOutputSuccess, RecordOutputError,
     RecordLatency, RecordEventProcessed, counters, TypeOK
<1>4. ASSUME NEW r \in Requests, Handle(r)
      PROVE  PagesHonest' /\ (rate <= eventsProcessed)'
  <2>1. /\ page[r] \in Pages /\ Honest(page[r], outputSuccess, outputErrors, rate)
        /\ eventsProcessed <= outputSuccess + outputErrors
    <3>1. Cardinality(Pending) \in Nat
      BY FS_CardinalityType DEF Accounted
    <3> QED
      BY <3>1 DEF PagesHonest, TypeOK, Accounted
  <2>2. CASE UpdateMetrics(r)
    <3>1. rate' = eventsProcessed /\ UNCHANGED <<outputSuccess, outputErrors, eventsProcessed>>
      BY <2>2 DEF UpdateMetrics, counters
    <3>2. ASSUME NEW q \in Requests
          PROVE  Honest(page'[q], outputSuccess, outputErrors, eventsProcessed)
      <4>1. CASE q = r
        <5>1. page'[r].next = "processed" /\ page'[r].kind = page[r].kind
          BY <2>2 DEF UpdateMetrics, TypeOK, Pages
        <5> QED
          BY <4>1, <5>1 DEF Honest
      <4>2. CASE q # r
        <5>1. page'[q] = page[q] /\ Honest(page[q], outputSuccess, outputErrors, rate)
          BY <2>2, <4>2 DEF UpdateMetrics, TypeOK, PagesHonest
        <5>2. page[q].kind = "/metrics" => page[q].next # "rate"
          BY <2>2 DEF UpdateMetrics, ReadLocked
        <5> QED
          BY <5>1, <5>2 DEF Honest
      <4> QED
        BY <4>1, <4>2
    <3> QED
      BY <3>1, <3>2 DEF PagesHonest, TypeOK
  <2>3. ASSUME UNCHANGED <<outputSuccess, outputErrors, eventsProcessed, rate>>, NEW p,
               page' = [page EXCEPT ![r] = p],
               Honest(p, outputSuccess, outputErrors, rate)
        PROVE  PagesHonest' /\ (rate <= eventsProcessed)'
    BY <2>3, OnePage
  <2>4. CASE Encode(r, "processed", "rate", eventsProcessed)
    <3> DEFINE p == [page[r] EXCEPT !["processed"] = eventsProcessed, !.next = "rate"]
    <3>1. p.next = "rate" /\ p.processed = eventsProcessed
      BY <2>1 DEF Pages
    <3>2. Honest(p, outputSuccess, outputErrors, rate)
      BY <2>1, <3>1 DEF Honest
    <3> QED
      BY <2>3, <2>4, <3>2 DEF Encode, counters
  <2>5. CASE Encode(r, "rate", "success", rate)
    <3> DEFINE p == [page[r] EXCEPT !["rate"] = rate, !.next = "success"]
    <3>1. /\ p.next = "success" /\ p.rate = rate
          /\ p.processed = page[r].processed /\ p.kind = page[r].kind
      BY <2>1 DEF Pages
    <3>2. Honest(p, outputSuccess, outputErrors, rate)
      BY <2>1, <2>5, <3>1 DEF Honest, Encode
    <3> QED
      BY <2>3, <2>5, <3>2 DEF Encode, counters
  <2>6. CASE Encode(r, "success", "errors", outputSuccess)
    <3> DEFINE p == [page[r] EXCEPT !["success"] = outputSuccess, !.next = "errors"]
    <3>1. /\ p.next = "errors" /\ p.success = outputSuccess /\ p.rate = page[r].rate
          /\ p.processed = page[r].processed /\ p.kind = page[r].kind
      BY <2>1 DEF Pages
    <3>2. Honest(p, outputSuccess, outputErrors, rate)
      BY <2>1, <2>6, <3>1 DEF Honest, Encode
    <3> QED
      BY <2>3, <2>6, <3>2 DEF Encode, counters
  <2>7. CASE Encode(r, "errors", "shown", outputErrors)
    <3> DEFINE p == [page[r] EXCEPT !["errors"] = outputErrors, !.next = "shown"]
    <3>1. /\ p.next = "shown" /\ p.errors = outputErrors /\ p.rate = page[r].rate
          /\ p.success = page[r].success
          /\ p.processed = page[r].processed /\ p.kind = page[r].kind
      BY <2>1 DEF Pages
    <3>2. Honest(p, outputSuccess, outputErrors, rate)
      BY <2>1, <2>7, <3>1 DEF Honest, Encode
    <3> QED
      BY <2>3, <2>7, <3>2 DEF Encode, counters
  <2>8. CASE Answered(r)
    <3>1. ASSUME NEW kind
          PROVE  Honest(NoPage(kind), outputSuccess, outputErrors, rate)
      BY DEF Honest, NoPage
    <3> QED
      BY <2>3, <2>8, <3>1 DEF Answered, counters
  <2> QED
    BY <1>4, <2>2, <2>4, <2>5, <2>6, <2>7, <2>8 DEF Handle
<1>5. CASE CountConnectionError \/ UNCHANGED vars
  BY <1>1, <1>5 DEF CountConnectionError, vars, counters, TypeOK
<1> QED
  BY <1>2, <1>3, <1>4, <1>5 DEF Next

-----------------------------------------------------------------------------
LEMMA InitInvariant == ASSUME MaxLatencySamples \in Nat, Init PROVE IInv
<1>1. TypeOK
  BY DEF Init, TypeOK, Recording, Pages, NoPage, Kinds
<1>2. Pending = {}
  BY DEF Init, Pending
<1>3. Accounted
  BY <1>2, FS_EmptySet DEF Accounted, Init
<1>4. \A r \in Requests : page[r].next = "update"
  BY DEF Init, NoPage
<1>5. PagesHonest
  BY <1>4 DEF PagesHonest, Honest
<1> QED
  BY <1>1, <1>3, <1>5 DEF IInv, Init

(* Metrics keep their types; in particular no more latency samples are     *)
(* held than configured (service.go:547-558).                              *)
THEOREM TypeCorrect ==
  ASSUME MaxLatencySamples \in Nat
  PROVE  Spec => []TypeOK
<1>1. Init => TypeOK
  BY InitInvariant DEF IInv
<1>2. TypeOK /\ [Next]_vars => TypeOK'
  BY TypeInvariant
<1> QED
  BY <1>1, <1>2, PTL DEF Spec

(* However handlers and requests interleave, a page reports no more events *)
(* processed than outputs, and a page of /metrics no rate of events that it*)
(* does not report (service.go:372-382, 488-494).                          *)
THEOREM PagesAddUp ==
  ASSUME MaxLatencySamples \in Nat
  PROVE  Spec => []PageAddsUp
<1>1. Init => IInv
  BY InitInvariant
<1>2. IInv /\ [Next]_vars => IInv'
  BY TypeInvariant, AccountedInvariant, PagesInvariant DEF IInv
<1>3. IInv => PageAddsUp
  BY DEF IInv, PagesHonest, Honest, PageAddsUp
<1> QED
  BY <1>1, <1>2, <1>3, PTL DEF Spec
=============================================================================
