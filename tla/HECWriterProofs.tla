--------------------------- MODULE HECWriterProofs ---------------------------
(***************************************************************************)
(* Theorems about HECWriter, for any set of events (it need not be finite),*)
(* any set of handlers, and any configuration: batch size, retries,        *)
(* breaker, DLQ, persistent buffer, and whatever answers and disk faults   *)
(* the environment has.                                                    *)
(*                                                                         *)
(* The inductive invariant IInv is proved in layers: each lemma ...Step    *)
(* shows that a step keeps one of its conjuncts, given the earlier ones.   *)
(***************************************************************************)
EXTENDS HECWriter, FiniteSetTheorems, TLAPS

-----------------------------------------------------------------------------
(* The operators the actions are built from                                *)

(* Copies adds n to the counts of es and leaves the others alone.          *)
LEMMA CopiesCount ==
  ASSUME NEW count \in [Events -> Nat], NEW es, NEW n \in Nat
  PROVE  /\ Copies(count, es, n) \in [Events -> Nat]
         /\ \A e \in Events \cap es : Copies(count, es, n)[e] = count[e] + n
         /\ \A e \in Events \ es : Copies(count, es, n)[e] = count[e]
BY DEF Copies

(* A DLQ write adds at most one copy of each of the events and touches no  *)
(* other event; with a DLQ each of them is there afterwards or has a fault.*)
LEMMA DLQWrite ==
  ASSUME dlq \in [Events -> Nat], faults \subseteq Events,
         NEW es \in SUBSET Events, WriteToDLQ(es)
  PROVE  /\ dlq' \in [Events -> Nat]
         /\ \A e \in Events : dlq[e] <= dlq'[e] /\ dlq'[e] <= dlq[e] + 1
         /\ \A e \in Events \ es : dlq'[e] = dlq[e]
         /\ faults \subseteq faults' /\ faults' \subseteq faults \cup es
         /\ DLQ => \A e \in es : dlq'[e] > 0 \/ e \in faults'
<1>1. CASE ~DLQ /\ UNCHANGED <<dlq, faults>>
  BY <1>1
<1>2. CASE DLQ /\ filesOpen /\ dlq' = Copies(dlq, es, 1) /\ UNCHANGED faults
  BY <1>2, CopiesCount
<1>3. CASE /\ DLQ /\ (DiskFaults \/ ~filesOpen)
           /\ \E line \in {{}, es} :
                (filesOpen \/ line = {}) /\ dlq' = Copies(dlq, line, 1)
           /\ faults' = faults \cup es
  <2>1. PICK line \in {{}, es} : dlq' = Copies(dlq, line, 1)
    BY <1>3
  <2>2. /\ dlq' \in [Events -> Nat]
        /\ \A e \in Events \cap line : dlq'[e] = dlq[e] + 1
        /\ \A e \in Events \ line : dlq'[e] = dlq[e]
    BY <2>1, CopiesCount
  <2>3. line \subseteq es
    BY <2>1
  <2> QED
    BY <1>3, <2>2, <2>3
<1> QED
  BY <1>1, <1>2, <1>3 DEF WriteToDLQ

(* The same of the persistent buffer, where a part of the events may be    *)
(* written before the error.                                               *)
LEMMA BufferWrite ==
  ASSUME saved \in [Events -> Nat], faults \subseteq Events,
         NEW es \in SUBSET Events, SaveToPersistentBuffer(es)
  PROVE  /\ saved' \in [Events -> Nat]
         /\ \A e \in Events : saved[e] <= saved'[e] /\ saved'[e] <= saved[e] + 1
         /\ \A e \in Events \ es : saved'[e] = saved[e]
         /\ faults \subseteq faults' /\ faults' \subseteq faults \cup es
         /\ PersistentBuf => \A e \in es : saved'[e] > 0 \/ e \in faults'
<1>1. CASE ~PersistentBuf /\ UNCHANGED <<saved, faults>>
  BY <1>1
<1>2. CASE /\ PersistentBuf /\ filesOpen
           /\ saved' = Copies(saved, es, 1) /\ UNCHANGED faults
  BY <1>2, CopiesCount
<1>3. CASE /\ PersistentBuf /\ (DiskFaults \/ ~filesOpen)
           /\ \E part \in SUBSET es :
                /\ filesOpen \/ part = {}
                /\ saved' = Copies(saved, part, 1)
           /\ faults' = faults \cup es
  <2>1. PICK part \in SUBSET es : saved' = Copies(saved, part, 1)
    BY <1>3
  <2>2. /\ saved' \in [Events -> Nat]
        /\ \A e \in Events \cap part : saved'[e] = saved[e] + 1
        /\ \A e \in Events \ part : saved'[e] = saved[e]
    BY <2>1, CopiesCount
  <2> QED
    BY <1>3, <2>1, <2>2
<1> QED
  BY <1>1, <1>2, <1>3 DEF SaveToPersistentBuffer

(* A single event sent with all its attempts: other events keep their      *)
(* counts, and an acknowledged one arrived.                                *)
LEMMA SingleSent ==
  ASSUME received \in [Events -> Nat], acked \subseteq Events, MaxRetries \in Nat,
         NEW e \in Events, NEW ok \in BOOLEAN, NEW n \in 0 .. MaxRetries + 1,
         SendSingle(e, ok, n)
  PROVE  /\ received' \in [Events -> Nat]
         /\ received'[e] = received[e] + n
         /\ \A d \in Events \ {e} : received'[d] = received[d]
         /\ acked' \subseteq Events /\ acked \subseteq acked'
         /\ acked' \subseteq acked \cup {e}
         /\ ok => e \in acked' /\ received'[e] > 0
         /\ ~ok => acked' = acked
BY CopiesCount DEF SendSingle

-----------------------------------------------------------------------------
(* Types                                                                   *)

Typed == TypeOK /\ FinitelyMany

LEMMA FiniteAdd ==
  ASSUME NEW S, IsFiniteSet(S), NEW e
  PROVE  /\ IsFiniteSet(S \cup {e})
         /\ Cardinality(S) \in Nat
         /\ Cardinality(S \cup {e}) <= Cardinality(S) + 1
<1>1. /\ IsFiniteSet(S \cup {e})
      /\ Cardinality(S \cup {e}) = IF e \in S THEN Cardinality(S)
                                              ELSE Cardinality(S) + 1
  BY FS_AddElement
<1>2. Cardinality(S) \in Nat
  BY FS_CardinalityType
<1> QED
  BY <1>1, <1>2

LEMMA BreakerCalls ==
  ASSUME NEW b \in Breaker
  PROVE  /\ AfterCanExecute(b) \in Breaker /\ AfterSuccess(b) \in Breaker
         /\ AfterFailure(b) \in Breaker /\ AfterTimeout(b) \in Breaker
<1> USE ThresholdAssumption DEF Breaker, BreakerState
<1>1. AfterCanExecute(b) \in Breaker
  BY DEF AfterCanExecute
<1>2. AfterSuccess(b) \in Breaker
  <2>1. [b EXCEPT !.state = "closed"] \in Breaker
    OBVIOUS
  <2>2. \A c \in Breaker : [c EXCEPT !.failures = 0] \in Breaker
    OBVIOUS
  <2>3. AfterSuccess(b) = [[b EXCEPT !.state = "closed"] EXCEPT !.failures = 0]
    BY DEF AfterSuccess
  <2> QED
    BY <2>1, <2>2, <2>3
<1>3. CountFailure(b.failures) \in 0 .. Threshold
  BY DEF CountFailure
<1>4. AfterFailure(b) \in Breaker
  BY <1>3 DEF AfterFailure
<1>5. AfterTimeout(b) \in Breaker
  BY DEF AfterTimeout
<1> QED
  BY <1>1, <1>2, <1>4, <1>5

LEMMA TypedInit == Init => Typed
<1> SUFFICES ASSUME Init PROVE Typed
  OBVIOUS
<1>1. NewCircuitBreaker \in Breaker
  BY ThresholdAssumption DEF NewCircuitBreaker, Breaker, BreakerState
<1> QED
  BY <1>1, ConfigAssumption, FS_EmptySet DEF Init, Typed, TypeOK, FinitelyMany, PC

(* A step of a goroutine through postToHEC and flushBufferCopy keeps the   *)
(* types.                                                                  *)
LEMMA TypedContinue ==
  ASSUME Typed, NEW g \in Goroutines, Continue(g)
  PROVE  Typed'
<1> USE ConfigAssumption DEF Typed, TypeOK, FinitelyMany
<1>1. CASE Gate(g)
  BY <1>1, BreakerCalls DEF Gate, Goto, PC, splunk, disk
<1>2. CASE PostBatch(g)
  <2>1. PICK a \in Answers, n \in {0, 1} :
          /\ received' = Copies(received, batch[g], n)
          /\ acked' = IF a = "accepted" THEN acked \cup batch[g] ELSE acked
          /\ IF a # "accepted" /\ attempt[g] < MaxRetries
             THEN attempt' = [attempt EXCEPT ![g] = @ + 1] /\ UNCHANGED pc
             ELSE /\ Goto(g, "posting", IF a = "accepted" THEN "accepted"
                                                         ELSE "exhausted")
                  /\ attempt' = [attempt EXCEPT ![g] = 0]
    BY <1>2 DEF PostBatch
  <2>2. received' \in [Events -> Nat]
    BY <2>1, CopiesCount
  <2>3. attempt' \in [Goroutines -> 0 .. MaxRetries] /\ pc' \in [Goroutines -> PC]
    BY <2>1 DEF Goto, PC
  <2>4. acked' \subseteq Events
    BY <2>1
  <2> QED
    BY <1>2, <2>2, <2>3, <2>4 DEF PostBatch, disk
<1>3. CASE PostSucceeded(g)
  <2>1. eventCount' \in Nat
    BY <1>3, FS_CardinalityType DEF PostSucceeded
  <2>2. breaker' \in Breaker
    BY <1>3, BreakerCalls DEF PostSucceeded
  <2> QED
    BY <1>3, <2>1, <2>2, FS_EmptySet DEF PostSucceeded, Return, Goto, PC, splunk, disk
<1>4. CASE PostFailed(g)
  BY <1>4, BreakerCalls DEF PostFailed, Goto, PC, splunk, disk
<1>5. CASE DLQBatch(g)
  BY <1>5, DLQWrite DEF DLQBatch, Goto, PC, splunk
<1>6. CASE SaveBatch(g)
  BY <1>6, BufferWrite DEF SaveBatch, Goto, PC, splunk
<1>7. CASE SendSingly(g)
  <2>1. PICK e \in todo[g], ok \in BOOLEAN, n \in 0 .. MaxRetries + 1 :
          /\ SendSingle(e, ok, n)
          /\ todo' = [todo EXCEPT ![g] = @ \ {e}]
          /\ failed' = IF ok THEN failed ELSE [failed EXCEPT ![g] = @ \cup {e}]
    BY <1>7 DEF SendSingly
  <2>2. received' \in [Events -> Nat] /\ acked' \subseteq Events
    BY <2>1, SingleSent
  <2> QED
    BY <1>7, <2>1, <2>2 DEF SendSingly, disk
<1>8. CASE SinglesDone(g)
  <2>1. CASE Return(g, "singly")
    BY <1>8, <2>1, FS_EmptySet DEF SinglesDone, Return, Goto, PC, splunk, disk
  <2>2. CASE Goto(g, "singly", "dlqFailed") /\ UNCHANGED <<batch, attempt, todo, failed>>
    BY <1>8, <2>2 DEF SinglesDone, Goto, PC, splunk, disk
  <2> QED
    BY <1>8, <2>1, <2>2 DEF SinglesDone
<1>9. CASE DLQFailed(g)
  BY <1>9, DLQWrite DEF DLQFailed, Goto, PC, splunk
<1>10. CASE SaveFailed(g)
  <2>1. saved' \in [Events -> Nat] /\ faults' \subseteq Events
    BY <1>10, BufferWrite DEF SaveFailed
  <2> QED
    BY <1>10, <2>1, FS_EmptySet DEF SaveFailed, Return, Goto, PC, splunk
<1> QED
  BY <1>1, <1>2, <1>3, <1>4, <1>5, <1>6, <1>7, <1>8, <1>9, <1>10 DEF Continue

LEMMA TypedStep ==
  ASSUME Typed, [Next]_vars
  PROVE  Typed'
<1> USE ConfigAssumption DEF Typed, TypeOK, FinitelyMany
<1>1. ASSUME NEW g \in Handlers, NEW e \in fresh, AddEvent(g, e)
      PROVE  Typed'
  <2>1. g \in Goroutines
    BY DEF Goroutines
  <2>2. IsFiniteSet(buffer \cup {e})
    BY FiniteAdd
  <2>3. CASE buffer' = {} /\ TakeBatch(g, buffer \cup {e}, "idle")
    BY <1>1, <2>1, <2>2, <2>3, FS_EmptySet
    DEF AddEvent, TakeBatch, Goto, PC, splunk, disk
  <2>4. CASE buffer' = buffer \cup {e} /\ UNCHANGED progress
    BY <1>1, <2>2, <2>4 DEF AddEvent, progress, splunk, disk
  <2> QED
    BY <1>1, <2>3, <2>4 DEF AddEvent
<1>2. ASSUME NEW g \in {Flusher, Closer}, Flush(g)
      PROVE  Typed'
  <2>1. g \in Goroutines
    BY DEF Goroutines
  <2> QED
    BY <1>2, <2>1, FS_EmptySet DEF Flush, TakeBatch, Goto, PC, splunk, disk
<1>3. ASSUME NEW g \in Goroutines, Continue(g)
      PROVE  Typed'
  BY <1>3, TypedContinue
<1>4. CASE CloseFiles
  BY <1>4 DEF CloseFiles, Goto, PC, splunk
<1>5. CASE TimePasses
  BY <1>5, BreakerCalls DEF TimePasses, progress, splunk, disk
<1>6. CASE UNCHANGED vars
  BY <1>6 DEF vars, progress, splunk, disk
<1> QED
  BY <1>1, <1>2, <1>3, <1>4, <1>5, <1>6 DEF Next

-----------------------------------------------------------------------------
(* What a goroutine's step leaves alone                                    *)

OthersUntouched(g) ==
  /\ fresh' = fresh /\ buffer' = buffer
  /\ \A h \in Goroutines \ {g} :
       /\ pc'[h] = pc[h] /\ batch'[h] = batch[h] /\ attempt'[h] = attempt[h]
       /\ todo'[h] = todo[h] /\ failed'[h] = failed[h]

OnlyItsBatch(g) ==
  /\ \A e \in Events \ batch[g] :
       received'[e] = received[e] /\ dlq'[e] = dlq[e] /\ saved'[e] = saved[e]
  /\ \A e \in Events :
       received[e] <= received'[e] /\ dlq[e] <= dlq'[e] /\ saved[e] <= saved'[e]
  /\ acked \subseteq acked' /\ acked' \subseteq acked \cup batch[g]
  /\ faults \subseteq faults' /\ faults' \subseteq faults \cup batch[g]

KeepsOrReturns(g) ==
  \/ batch'[g] = batch[g] /\ givenUp' = givenUp
  \/ batch'[g] = {} /\ givenUp \subseteq givenUp' /\ givenUp' \subseteq givenUp \cup batch[g]

(* A POST of a batch: what it adds, and where the loop goes on.            *)
LEMMA PostBatchDoes ==
  ASSUME Typed, NEW g \in Goroutines, PostBatch(g)
  PROVE  /\ pc[g] = "posting" /\ UNCHANGED <<fresh, buffer, batch, todo, failed, disk>>
         /\ \A e \in Events : e \notin batch[g] => received'[e] = received[e]
         /\ \A e \in batch[g] :
              received[e] <= received'[e] /\ received'[e] <= received[e] + 1
         /\ acked' = acked \/ acked' = acked \cup batch[g]
         /\ \A e \in acked' \ acked : received'[e] > 0
         /\ \/ /\ attempt[g] < MaxRetries /\ UNCHANGED pc
               /\ attempt' = [attempt EXCEPT ![g] = @ + 1]
            \/ /\ pc' = [pc EXCEPT ![g] = "accepted"]
               /\ attempt' = [attempt EXCEPT ![g] = 0]
               /\ batch[g] \subseteq acked'
            \/ /\ pc' = [pc EXCEPT ![g] = "exhausted"]
               /\ attempt' = [attempt EXCEPT ![g] = 0]
<1>1. PICK a \in Answers, n \in {0, 1} :
        /\ n \in Indexed(a)
        /\ received' = Copies(received, batch[g], n)
        /\ acked' = IF a = "accepted" THEN acked \cup batch[g] ELSE acked
        /\ IF a # "accepted" /\ attempt[g] < MaxRetries
           THEN attempt' = [attempt EXCEPT ![g] = @ + 1] /\ UNCHANGED pc
           ELSE /\ Goto(g, "posting", IF a = "accepted" THEN "accepted"
                                                       ELSE "exhausted")
                /\ attempt' = [attempt EXCEPT ![g] = 0]
  BY DEF PostBatch
<1>2. /\ received \in [Events -> Nat] /\ batch[g] \subseteq Events
      /\ acked \subseteq Events
  BY DEF Typed, TypeOK
<1>3. /\ \A e \in batch[g] : received'[e] = received[e] + n
      /\ \A e \in Events : e \notin batch[g] => received'[e] = received[e]
  BY <1>1, <1>2, CopiesCount
<1>4. a = "accepted" => n = 1
  BY <1>1 DEF Indexed
<1>5. /\ pc[g] = "posting"
      /\ UNCHANGED <<fresh, buffer, batch, todo, failed, disk>>
  BY DEF PostBatch
<1>6. \A e \in acked' \ acked : received'[e] > 0
  BY <1>1, <1>2, <1>3, <1>4
<1>7. \A e \in batch[g] :
        received[e] <= received'[e] /\ received'[e] <= received[e] + 1
  BY <1>1, <1>2, <1>3
<1> QED
  BY <1>1, <1>3, <1>5, <1>6, <1>7 DEF Goto

(* A single event of the list is sent.                                     *)
LEMMA SendSinglyDoes ==
  ASSUME Typed, NEW g \in Goroutines, SendSingly(g)
  PROVE  /\ pc[g] = "singly" /\ UNCHANGED <<fresh, buffer, pc, batch, attempt, disk>>
         /\ \E e \in todo[g] :
              /\ \A d \in Events \ {e} : received'[d] = received[d]
              /\ received[e] <= received'[e]
              /\ received'[e] <= received[e] + MaxRetries + 1
              /\ acked \subseteq acked' /\ acked' \subseteq acked \cup {e}
              /\ \A d \in acked' \ acked : received'[d] > 0
              /\ todo' = [todo EXCEPT ![g] = @ \ {e}]
              /\ \/ e \in acked' /\ UNCHANGED failed
                 \/ failed' = [failed EXCEPT ![g] = @ \cup {e}]
<1>1. PICK e \in todo[g], ok \in BOOLEAN, n \in 0 .. MaxRetries + 1 :
        /\ SendSingle(e, ok, n)
        /\ todo' = [todo EXCEPT ![g] = @ \ {e}]
        /\ failed' = IF ok THEN failed ELSE [failed EXCEPT ![g] = @ \cup {e}]
  BY DEF SendSingly
<1>2. /\ received \in [Events -> Nat] /\ acked \subseteq Events
      /\ e \in Events /\ MaxRetries \in Nat
  BY ConfigAssumption DEF Typed, TypeOK
<1>3. /\ received'[e] = received[e] + n
      /\ \A d \in Events \ {e} : received'[d] = received[d]
      /\ acked \subseteq acked' /\ acked' \subseteq acked \cup {e}
      /\ ok => e \in acked' /\ received'[e] > 0
      /\ ~ok => acked' = acked
  BY <1>1, <1>2, SingleSent
<1>4. /\ received[e] <= received'[e]
      /\ received'[e] <= received[e] + MaxRetries + 1
  BY <1>2, <1>3
<1>5. \A d \in acked' \ acked : received'[d] > 0
  BY <1>3
<1>6. /\ pc[g] = "singly"
      /\ UNCHANGED <<fresh, buffer, pc, batch, attempt, disk>>
  BY DEF SendSingly
<1> QED
  BY <1>1, <1>3, <1>4, <1>5, <1>6

LEMMA Frame ==
  ASSUME Typed, NEW g \in Goroutines, Carried(g), Continue(g)
  PROVE  OthersUntouched(g) /\ OnlyItsBatch(g) /\ KeepsOrReturns(g)
<1> USE DEF OthersUntouched, OnlyItsBatch, KeepsOrReturns
<1>0. /\ batch \in [Goroutines -> SUBSET Events] /\ pc \in [Goroutines -> PC]
      /\ attempt \in [Goroutines -> 0 .. MaxRetries]
      /\ todo \in [Goroutines -> SUBSET Events]
      /\ failed \in [Goroutines -> SUBSET Events]
      /\ received \in [Events -> Nat] /\ dlq \in [Events -> Nat]
      /\ saved \in [Events -> Nat]
      /\ acked \subseteq Events /\ faults \subseteq Events
      /\ todo[g] \subseteq batch[g] /\ failed[g] \subseteq batch[g]
  BY DEF Typed, TypeOK, Carried
<1>1. CASE Gate(g)
  BY <1>0, <1>1 DEF Gate, Goto, splunk, disk
<1>2. CASE PostBatch(g)
  BY <1>0, <1>2, PostBatchDoes DEF disk
<1>3. CASE PostSucceeded(g)
  BY <1>0, <1>3 DEF PostSucceeded, Return, Goto, splunk, disk
<1>4. CASE PostFailed(g)
  BY <1>0, <1>4 DEF PostFailed, Goto, splunk, disk
<1>5. CASE DLQBatch(g)
  <2>1. /\ \A e \in Events : dlq[e] <= dlq'[e]
        /\ \A e \in Events \ batch[g] : dlq'[e] = dlq[e]
        /\ faults \subseteq faults' /\ faults' \subseteq faults \cup batch[g]
    BY <1>0, <1>5, DLQWrite DEF DLQBatch
  <2> QED
    BY <1>0, <1>5, <2>1 DEF DLQBatch, Goto, splunk
<1>6. CASE SaveBatch(g)
  <2>1. /\ \A e \in Events : saved[e] <= saved'[e]
        /\ \A e \in Events \ batch[g] : saved'[e] = saved[e]
        /\ faults \subseteq faults' /\ faults' \subseteq faults \cup batch[g]
    BY <1>0, <1>6, BufferWrite DEF SaveBatch
  <2> QED
    BY <1>0, <1>6, <2>1 DEF SaveBatch, Goto, splunk
<1>7. CASE SendSingly(g)
  BY <1>0, <1>7, SendSinglyDoes DEF disk
<1>8. CASE SinglesDone(g)
  BY <1>0, <1>8 DEF SinglesDone, Return, Goto, splunk, disk
<1>9. CASE DLQFailed(g)
  <2>1. /\ \A e \in Events : dlq[e] <= dlq'[e]
        /\ \A e \in Events \ failed[g] : dlq'[e] = dlq[e]
        /\ faults \subseteq faults' /\ faults' \subseteq faults \cup failed[g]
    BY <1>0, <1>9, DLQWrite DEF DLQFailed
  <2> QED
    BY <1>0, <1>9, <2>1 DEF DLQFailed, Goto, splunk
<1>10. CASE SaveFailed(g)
  <2>1. /\ \A e \in Events : saved[e] <= saved'[e]
        /\ \A e \in Events \ failed[g] : saved'[e] = saved[e]
        /\ faults \subseteq faults' /\ faults' \subseteq faults \cup failed[g]
    BY <1>0, <1>10, BufferWrite DEF SaveFailed
  <2> QED
    BY <1>0, <1>10, <2>1 DEF SaveFailed, Return, Goto, splunk
<1> QED
  BY <1>1, <1>2, <1>3, <1>4, <1>5, <1>6, <1>7, <1>8, <1>9, <1>10 DEF Continue

-----------------------------------------------------------------------------
(* A goroutine's own step keeps what is known of it                        *)

LEMMA CarriedStep ==
  ASSUME Typed, NEW g \in Goroutines, Local(g), Continue(g)
  PROVE  Carried(g)'
<1> USE DEF Carried
<1>0. /\ batch \in [Goroutines -> SUBSET Events] /\ pc \in [Goroutines -> PC]
      /\ todo \in [Goroutines -> SUBSET Events]
      /\ failed \in [Goroutines -> SUBSET Events]
      /\ Carried(g)
  BY DEF Typed, TypeOK, Local
<1>1. CASE Gate(g)
  BY <1>0, <1>1 DEF Gate, Goto
<1>2. CASE PostBatch(g)
  BY <1>0, <1>2, PostBatchDoes
<1>3. CASE PostSucceeded(g)
  BY <1>0, <1>3 DEF PostSucceeded, Return, Goto
<1>4. CASE PostFailed(g)
  BY <1>0, <1>4 DEF PostFailed, Goto
<1>5. CASE DLQBatch(g)
  BY <1>0, <1>5 DEF DLQBatch, Goto
<1>6. CASE SaveBatch(g)
  BY <1>0, <1>6 DEF SaveBatch, Goto
<1>7. CASE SendSingly(g)
  BY <1>0, <1>7, SendSinglyDoes
<1>8. CASE SinglesDone(g)
  BY <1>0, <1>8 DEF SinglesDone, Return, Goto
<1>9. CASE DLQFailed(g)
  BY <1>0, <1>9 DEF DLQFailed, Goto
<1>10. CASE SaveFailed(g)
  BY <1>0, <1>10 DEF SaveFailed, Return, Goto
<1> QED
  BY <1>1, <1>2, <1>3, <1>4, <1>5, <1>6, <1>7, <1>8, <1>9, <1>10 DEF Continue

LEMMA AnsweredStep ==
  ASSUME Typed, NEW g \in Goroutines, Local(g), Continue(g)
  PROVE  Answered(g)'
<1> USE DEF Answered, Retrying
<1>0. /\ batch \in [Goroutines -> SUBSET Events] /\ pc \in [Goroutines -> PC]
      /\ todo \in [Goroutines -> SUBSET Events]
      /\ failed \in [Goroutines -> SUBSET Events]
      /\ Answered(g)
  BY DEF Typed, TypeOK, Local
<1>1. CASE Gate(g)
  BY <1>0, <1>1 DEF Gate, Goto
<1>2. CASE PostBatch(g)
  BY <1>0, <1>2, PostBatchDoes
<1>3. CASE PostSucceeded(g)
  BY <1>0, <1>3 DEF PostSucceeded, Return, Goto
<1>4. CASE PostFailed(g)
  BY <1>0, <1>4 DEF PostFailed, Goto
<1>5. CASE DLQBatch(g)
  BY <1>0, <1>5 DEF DLQBatch, Goto
<1>6. CASE SaveBatch(g)
  BY <1>0, <1>6 DEF SaveBatch, Goto
<1>7. CASE SendSingly(g)
  BY <1>0, <1>7, SendSinglyDoes
<1>8. CASE SinglesDone(g)
  BY <1>0, <1>8 DEF SinglesDone, Return, Goto, splunk
<1>9. CASE DLQFailed(g)
  BY <1>0, <1>9 DEF DLQFailed, Goto, splunk
<1>10. CASE SaveFailed(g)
  BY <1>0, <1>10 DEF SaveFailed, Return, Goto, splunk
<1> QED
  BY <1>1, <1>2, <1>3, <1>4, <1>5, <1>6, <1>7, <1>8, <1>9, <1>10 DEF Continue

(* Only the write of the failed events leads to saveFailed.                *)
LEMMA FailedInDLQStep ==
  ASSUME Typed, NEW g \in Goroutines, Local(g), Continue(g)
  PROVE  FailedInDLQ(g)'
<1>0. /\ pc \in [Goroutines -> PC] /\ failed \in [Goroutines -> SUBSET Events]
      /\ dlq \in [Events -> Nat] /\ faults \subseteq Events
  BY DEF Typed, TypeOK
<1>1. CASE DLQFailed(g)
  <2>1. DLQ => \A e \in failed[g] : dlq'[e] > 0 \/ e \in faults'
    BY <1>0, <1>1, DLQWrite DEF DLQFailed
  <2> QED
    BY <1>1, <2>1 DEF DLQFailed, FailedInDLQ
<1>2. CASE ~DLQFailed(g)
  <2>1. pc'[g] # "saveFailed"
    <3>1. CASE PostBatch(g)
      BY <1>0, <3>1, PostBatchDoes
    <3>2. CASE SendSingly(g)
      BY <1>0, <3>2, SendSinglyDoes
    <3> QED
      BY <1>0, <1>2, <3>1, <3>2
      DEF Continue, Gate, PostSucceeded, PostFailed, DLQBatch, SaveBatch,
          SinglesDone, SaveFailed, Return, Goto
  <2> QED
    BY <2>1 DEF FailedInDLQ
<1> QED
  BY <1>1, <1>2

LEMMA SentSoFarStep ==
  ASSUME Typed, NEW g \in Goroutines, Local(g), Continue(g)
  PROVE  SentSoFar(g)'
<1> USE ConfigAssumption DEF SentSoFar, Retrying
<1>0. /\ batch \in [Goroutines -> SUBSET Events] /\ pc \in [Goroutines -> PC]
      /\ attempt \in [Goroutines -> 0 .. MaxRetries]
      /\ todo \in [Goroutines -> SUBSET Events]
      /\ received \in [Events -> Nat] /\ received' \in [Events -> Nat]
      /\ SentSoFar(g) /\ Carried(g)
  BY TypedContinue DEF Typed, TypeOK, Local
<1>1. CASE Gate(g)
  BY <1>0, <1>1 DEF Gate, Goto, splunk
<1>2. CASE PostBatch(g)
  <2>1. \A e \in batch[g] : received'[e] <= attempt[g] + 1
    BY <1>0, <1>2, PostBatchDoes
  <2> QED
    BY <1>0, <1>2, <2>1, PostBatchDoes
<1>3. CASE PostSucceeded(g)
  BY <1>0, <1>3 DEF PostSucceeded, Return, Goto, splunk
<1>4. CASE PostFailed(g)
  BY <1>0, <1>4 DEF PostFailed, Goto, splunk
<1>5. CASE DLQBatch(g)
  BY <1>0, <1>5 DEF DLQBatch, Goto, splunk
<1>6. CASE SaveBatch(g)
  BY <1>0, <1>6 DEF SaveBatch, Goto, splunk
<1>7. CASE SendSingly(g)
  <2>1. PICK e \in todo[g] :
          /\ \A d \in Events \ {e} : received'[d] = received[d]
          /\ todo' = [todo EXCEPT ![g] = @ \ {e}]
    BY <1>7, SendSinglyDoes
  <2>2. pc[g] = "singly" /\ UNCHANGED <<pc, batch>>
    BY <1>7, SendSinglyDoes
  <2> QED
    BY <1>0, <2>1, <2>2
<1>8. CASE SinglesDone(g)
  BY <1>0, <1>8 DEF SinglesDone, Return, Goto, splunk
<1>9. CASE DLQFailed(g)
  BY <1>0, <1>9 DEF DLQFailed, Goto, splunk
<1>10. CASE SaveFailed(g)
  BY <1>0, <1>10 DEF SaveFailed, Return, Goto, splunk
<1> QED
  BY <1>1, <1>2, <1>3, <1>4, <1>5, <1>6, <1>7, <1>8, <1>9, <1>10 DEF Continue

LEMMA WrittenSoFarStep ==
  ASSUME Typed, NEW g \in Goroutines, Local(g), Continue(g)
  PROVE  WrittenSoFar(g)'
<1> USE DEF WrittenSoFar, Retrying
<1>0. /\ batch \in [Goroutines -> SUBSET Events] /\ pc \in [Goroutines -> PC]
      /\ failed \in [Goroutines -> SUBSET Events]
      /\ dlq \in [Events -> Nat] /\ saved \in [Events -> Nat]
      /\ dlq' \in [Events -> Nat] /\ saved' \in [Events -> Nat]
      /\ faults \subseteq Events
      /\ WrittenSoFar(g)
  BY TypedContinue DEF Typed, TypeOK, Local
<1>1. CASE Gate(g)
  BY <1>0, <1>1 DEF Gate, Goto, disk
<1>2. CASE PostBatch(g)
  BY <1>0, <1>2, PostBatchDoes DEF disk
<1>3. CASE PostSucceeded(g)
  BY <1>0, <1>3 DEF PostSucceeded, Return, Goto, disk
<1>4. CASE PostFailed(g)
  BY <1>0, <1>4 DEF PostFailed, Goto, disk
<1>5. CASE DLQBatch(g)
  <2>1. \A e \in Events : dlq'[e] <= dlq[e] + 1
    BY <1>0, <1>5, DLQWrite DEF DLQBatch
  <2> QED
    BY <1>0, <1>5, <2>1 DEF DLQBatch, Goto
<1>6. CASE SaveBatch(g)
  <2>1. \A e \in Events : saved'[e] <= saved[e] + 1
    BY <1>0, <1>6, BufferWrite DEF SaveBatch
  <2> QED
    BY <1>0, <1>6, <2>1 DEF SaveBatch, Goto
<1>7. CASE SendSingly(g)
  BY <1>0, <1>7, SendSinglyDoes DEF disk
<1>8. CASE SinglesDone(g)
  BY <1>0, <1>8 DEF SinglesDone, Return, Goto, disk
<1>9. CASE DLQFailed(g)
  BY <1>0, <1>9 DEF DLQFailed, Goto
<1>10. CASE SaveFailed(g)
  BY <1>0, <1>10 DEF SaveFailed, Return, Goto
<1> QED
  BY <1>1, <1>2, <1>3, <1>4, <1>5, <1>6, <1>7, <1>8, <1>9, <1>10 DEF Continue

-----------------------------------------------------------------------------
(* The invariant over a step of flushBufferCopy                            *)

(* A goroutine's step disturbs nothing that is known of another one: their *)
(* batches are disjoint.                                                   *)
LEMMA LocalFrame ==
  ASSUME Typed, OneOwner, NEW g \in Goroutines, NEW h \in Goroutines \ {g},
         Local(h), OthersUntouched(g), OnlyItsBatch(g)
  PROVE  Local(h)'
<1>1. /\ batch[h] \subseteq Events /\ batch[h] \cap batch[g] = {}
      /\ todo[h] \subseteq batch[h] /\ failed[h] \subseteq batch[h]
  BY DEF Typed, TypeOK, OneOwner, Local, Carried
<1>2. /\ pc'[h] = pc[h] /\ batch'[h] = batch[h] /\ attempt'[h] = attempt[h]
      /\ todo'[h] = todo[h] /\ failed'[h] = failed[h]
  BY DEF OthersUntouched
<1>3. \A e \in batch[h] :
        received'[e] = received[e] /\ dlq'[e] = dlq[e] /\ saved'[e] = saved[e]
  BY <1>1 DEF OnlyItsBatch
<1>4. acked \subseteq acked' /\ faults \subseteq faults'
  BY DEF OnlyItsBatch
<1>5. Carried(h)'
  BY <1>2 DEF Local, Carried
<1>6. Answered(h)'
  BY <1>2, <1>4 DEF Local, Answered
<1>7. FailedInDLQ(h)'
  BY <1>1, <1>2, <1>3, <1>4 DEF Local, FailedInDLQ
<1>8. SentSoFar(h)'
  BY <1>2, <1>3 DEF Local, SentSoFar
<1>9. WrittenSoFar(h)'
  BY <1>2, <1>3 DEF Local, WrittenSoFar
<1> QED
  BY <1>5, <1>6, <1>7, <1>8, <1>9 DEF Local

(* No event of the batch goes out or is written more often than the bound. *)
LEMMA RedeliveryStep ==
  ASSUME Typed, NEW g \in Goroutines, Local(g), BoundedRedelivery, Continue(g)
  PROVE  BoundedRedelivery'
<1> USE ConfigAssumption DEF BoundedRedelivery
<1>0. /\ received \in [Events -> Nat] /\ dlq \in [Events -> Nat]
      /\ saved \in [Events -> Nat] /\ faults \subseteq Events
      /\ received' \in [Events -> Nat] /\ dlq' \in [Events -> Nat]
      /\ saved' \in [Events -> Nat]
      /\ attempt[g] \in 0 .. MaxRetries
      /\ batch[g] \subseteq Events /\ todo[g] \subseteq batch[g]
      /\ failed[g] \subseteq batch[g]
      /\ SentSoFar(g) /\ WrittenSoFar(g)
  BY TypedContinue DEF Typed, TypeOK, Local, Carried
<1>1. \A e \in Events : received'[e] <= 2 * (MaxRetries + 1)
  <2>1. CASE PostBatch(g)
    <3>1. \A e \in batch[g] : received'[e] <= MaxRetries + 1
      BY <1>0, <2>1, PostBatchDoes DEF SentSoFar
    <3>2. \A e \in Events : e \notin batch[g] => received'[e] = received[e]
      BY <2>1, PostBatchDoes
    <3> QED
      BY <1>0, <3>1, <3>2
  <2>2. CASE SendSingly(g)
    <3>1. PICK e \in todo[g] :
            /\ \A d \in Events \ {e} : received'[d] = received[d]
            /\ received'[e] <= received[e] + MaxRetries + 1
      BY <2>2, SendSinglyDoes
    <3>2. received[e] <= MaxRetries + 1
      BY <1>0 DEF SentSoFar
    <3> QED
      BY <1>0, <3>1, <3>2
  <2>3. CASE ~PostBatch(g) /\ ~SendSingly(g)
    <3>1. received' = received
      BY <2>3 DEF Continue, Gate, PostSucceeded, PostFailed, DLQBatch, SaveBatch,
                  SinglesDone, DLQFailed, SaveFailed, splunk
    <3> QED
      BY <3>1
  <2> QED
    BY <2>1, <2>2, <2>3
<1>2. \A e \in Events : dlq'[e] <= 2
  <2>1. CASE DLQBatch(g)
    <3>1. /\ \A e \in Events : dlq'[e] <= dlq[e] + 1
          /\ \A e \in Events \ batch[g] : dlq'[e] = dlq[e]
      BY <1>0, <2>1, DLQWrite DEF DLQBatch
    <3> QED
      BY <1>0, <2>1, <3>1 DEF DLQBatch, Goto, WrittenSoFar
  <2>2. CASE DLQFailed(g)
    <3>1. /\ \A e \in Events : dlq'[e] <= dlq[e] + 1
          /\ \A e \in Events \ failed[g] : dlq'[e] = dlq[e]
      BY <1>0, <2>2, DLQWrite DEF DLQFailed
    <3> QED
      BY <1>0, <2>2, <3>1 DEF DLQFailed, Goto, WrittenSoFar
  <2>3. CASE ~DLQBatch(g) /\ ~DLQFailed(g)
    <3>1. dlq' = dlq
      BY <2>3, PostBatchDoes, SendSinglyDoes
      DEF Continue, Gate, PostSucceeded, PostFailed, SaveBatch, SinglesDone,
          SaveFailed, disk
    <3> QED
      BY <3>1
  <2> QED
    BY <2>1, <2>2, <2>3
<1>3. \A e \in Events : saved'[e] <= 2
  <2>1. CASE SaveBatch(g)
    <3>1. /\ \A e \in Events : saved'[e] <= saved[e] + 1
          /\ \A e \in Events \ batch[g] : saved'[e] = saved[e]
      BY <1>0, <2>1, BufferWrite DEF SaveBatch
    <3> QED
      BY <1>0, <2>1, <3>1 DEF SaveBatch, Goto, WrittenSoFar
  <2>2. CASE SaveFailed(g)
    <3>1. /\ \A e \in Events : saved'[e] <= saved[e] + 1
          /\ \A e \in Events \ failed[g] : saved'[e] = saved[e]
      BY <1>0, <2>2, BufferWrite DEF SaveFailed
    <3> QED
      BY <1>0, <2>2, <3>1 DEF SaveFailed, Goto, WrittenSoFar
  <2>3. CASE ~SaveBatch(g) /\ ~SaveFailed(g)
    <3>1. saved' = saved
      BY <2>3, PostBatchDoes, SendSinglyDoes
      DEF Continue, Gate, PostSucceeded, PostFailed, DLQBatch, SinglesDone,
          DLQFailed, disk
    <3> QED
      BY <3>1
  <2> QED
    BY <2>1, <2>2, <2>3
<1> QED
  BY <1>1, <1>2, <1>3

(* Only the two kinds of POST acknowledge events.                          *)
LEMMA ArrivedStep ==
  ASSUME Typed, NEW g \in Goroutines, Carried(g), AcknowledgedArrived, Continue(g)
  PROVE  AcknowledgedArrived'
<1>1. /\ acked \subseteq Events /\ received \in [Events -> Nat]
      /\ received' \in [Events -> Nat]
  BY TypedContinue DEF Typed, TypeOK
<1>2. \A e \in acked : received'[e] > 0
  <2>1. \A e \in Events : received[e] <= received'[e]
    BY Frame DEF OnlyItsBatch
  <2> QED
    BY <1>1, <2>1 DEF AcknowledgedArrived, Received
<1>3. \A e \in acked' \ acked : received'[e] > 0
  <2>1. CASE PostBatch(g)
    BY <2>1, PostBatchDoes
  <2>2. CASE SendSingly(g)
    BY <2>2, SendSinglyDoes
  <2>3. CASE ~PostBatch(g) /\ ~SendSingly(g)
    BY <2>3 DEF Continue, Gate, PostSucceeded, PostFailed, DLQBatch, SaveBatch,
                SinglesDone, DLQFailed, SaveFailed, splunk
  <2> QED
    BY <2>1, <2>2, <2>3
<1> QED
  BY <1>2, <1>3 DEF AcknowledgedArrived, Received

LEMMA InvContinue ==
  ASSUME IInv, NEW g \in Goroutines, Continue(g)
  PROVE  IInv'
<1>0. /\ Typed /\ Owned /\ OneOwner /\ BatchBound /\ Untouched
      /\ AcknowledgedArrived /\ BoundedRedelivery
      /\ Local(g) /\ Carried(g)
  BY DEF IInv, Typed, Owned, Local
<1>1. OthersUntouched(g) /\ OnlyItsBatch(g) /\ KeepsOrReturns(g)
  BY <1>0, Frame
<1>2. TypeOK' /\ FinitelyMany'
  BY <1>0, TypedContinue DEF Typed
<1>3. batch'[g] \subseteq batch[g] /\ \A h \in Goroutines : batch'[h] \subseteq batch[h]
  BY <1>1 DEF OthersUntouched, KeepsOrReturns
<1>4. OneOwner'
  BY <1>0, <1>1, <1>3 DEF OneOwner, OthersUntouched
<1>5. Owned'
  <2>1. givenUp' \cap (fresh' \cup buffer') = {}
    BY <1>0, <1>1 DEF Owned, OneOwner, OthersUntouched, KeepsOrReturns
  <2>2. givenUp' \cap batch'[g] = {}
    BY <1>0, <1>1 DEF Owned, KeepsOrReturns
  <2>3. \A h \in Goroutines \ {g} : givenUp' \cap batch'[h] = {}
    BY <1>0, <1>1 DEF Owned, OneOwner, OthersUntouched, KeepsOrReturns
  <2> QED
    BY <1>4, <2>1, <2>2, <2>3 DEF Owned
<1>6. BatchBound'
  <2>1. \A h \in Goroutines : batch'[h] = batch[h] \/ batch'[h] = {}
    BY <1>1 DEF OthersUntouched, KeepsOrReturns
  <2>2. Cardinality({}) = 0
    BY FS_EmptySet
  <2> QED
    BY <1>0, <1>1, <2>1, <2>2, ConfigAssumption DEF BatchBound, OthersUntouched
<1>7. Untouched'
  <2>1. /\ fresh \subseteq Events /\ buffer \subseteq Events
        /\ batch[g] \cap (buffer \cup fresh) = {}
    BY <1>0 DEF Typed, TypeOK, OneOwner
  <2> QED
    BY <1>0, <1>1, <2>1 DEF Untouched, OthersUntouched, OnlyItsBatch
<1>8. AcknowledgedArrived' /\ BoundedRedelivery'
  BY <1>0, ArrivedStep, RedeliveryStep
<1>9. Local(g)'
  BY <1>0, CarriedStep, AnsweredStep, FailedInDLQStep, SentSoFarStep, WrittenSoFarStep
  DEF Local
<1>10. \A h \in Goroutines \ {g} : Local(h)'
  BY <1>0, <1>1, LocalFrame DEF IInv
<1> QED
  BY <1>2, <1>5, <1>6, <1>7, <1>8, <1>9, <1>10 DEF IInv

-----------------------------------------------------------------------------
(* The invariant over the other steps                                      *)

counts == <<received, acked, dlq, saved, faults, givenUp>>

(* A goroutine that stays where it is, or closes the files, with the       *)
(* counts unchanged.                                                       *)
LEMMA LocalStays ==
  ASSUME NEW h, Local(h), UNCHANGED counts,
         batch'[h] = batch[h] /\ attempt'[h] = attempt[h],
         todo'[h] = todo[h] /\ failed'[h] = failed[h],
         \/ pc'[h] = pc[h]
         \/ pc[h] \in {"idle", "closing"} /\ pc'[h] \in {"closing", "closed"}
  PROVE  Local(h)'
<1>1. CASE pc'[h] = pc[h]
  BY <1>1 DEF counts, Local, Carried, Answered, FailedInDLQ, SentSoFar, WrittenSoFar
<1>2. CASE pc[h] \in {"idle", "closing"} /\ pc'[h] \in {"closing", "closed"}
  <2>1. batch'[h] = {} /\ todo'[h] = {} /\ failed'[h] = {}
    BY <1>2 DEF Local, Carried
  <2> QED
    BY <1>2, <2>1
    DEF Local, Carried, Answered, FailedInDLQ, SentSoFar, WrittenSoFar, Retrying
<1> QED
  BY <1>1, <1>2

(* A goroutine leaves the mutex with the buffer, and perhaps a new event.  *)
LEMMA InvTake ==
  ASSUME IInv, Typed', NEW g \in Goroutines, NEW es \in SUBSET Events,
         buffer \subseteq es, es \subseteq buffer \cup fresh,
         Cardinality(es) <= BatchSize,
         TakeBatch(g, es, "idle"), fresh' = fresh \ es, buffer' = {},
         UNCHANGED counts
  PROVE  IInv'
<1>0. /\ batch \in [Goroutines -> SUBSET Events] /\ pc \in [Goroutines -> PC]
      /\ OneOwner /\ Owned /\ BatchBound /\ Untouched
      /\ AcknowledgedArrived /\ BoundedRedelivery
      /\ fresh \subseteq Events /\ Local(g)
  BY DEF IInv, TypeOK, Owned
<1>1. /\ pc[g] = "idle" /\ pc'[g] = "gate" /\ batch'[g] = es
      /\ batch[g] = {} /\ todo'[g] = {} /\ failed'[g] = {}
      /\ \A h \in Goroutines \ {g} : pc'[h] = pc[h] /\ batch'[h] = batch[h]
      /\ UNCHANGED <<attempt, todo, failed>>
  BY <1>0 DEF TakeBatch, Goto, Local, Carried
<1>2. OneOwner'
  BY <1>0, <1>1 DEF OneOwner
<1>3. Owned'
  <2>1. \A h \in Goroutines : givenUp' \cap batch'[h] = {}
    BY <1>0, <1>1 DEF Owned, counts
  <2> QED
    BY <1>0, <1>2, <2>1 DEF Owned, counts
<1>4. BatchBound'
  <2>1. Cardinality({}) = 0
    BY FS_EmptySet
  <2>2. \A h \in Goroutines : Cardinality(batch'[h]) <= BatchSize
    BY <1>0, <1>1 DEF BatchBound
  <2> QED
    BY <2>1, <2>2, ConfigAssumption DEF BatchBound
<1>5. Untouched'
  BY <1>0 DEF Untouched, counts
<1>6. AcknowledgedArrived' /\ BoundedRedelivery'
  BY <1>0 DEF AcknowledgedArrived, Received, BoundedRedelivery, counts
<1>7. Local(g)'
  <2>1. \A e \in es : received'[e] = 0 /\ dlq'[e] = 0 /\ saved'[e] = 0
    BY <1>0 DEF Untouched, counts
  <2> QED
    BY <1>1, <2>1, ConfigAssumption
    DEF Local, Carried, Answered, FailedInDLQ, SentSoFar, WrittenSoFar, Retrying
<1>8. \A h \in Goroutines \ {g} : Local(h)'
  <2> SUFFICES ASSUME NEW h \in Goroutines \ {g} PROVE Local(h)'
    OBVIOUS
  <2>1. Local(h)
    BY DEF IInv
  <2> QED
    BY <1>1, <2>1, LocalStays
<1> QED
  BY <1>3, <1>4, <1>5, <1>6, <1>7, <1>8 DEF IInv, Typed

(* Nothing moves but the buffer, which may take an event, and goroutines   *)
(* with an empty batch.                                                    *)
LEMMA InvStays ==
  ASSUME IInv, Typed', UNCHANGED <<counts, batch, attempt, todo, failed>>,
         fresh' \cup buffer' = fresh \cup buffer,
         fresh' \cap buffer' = {}, Cardinality(buffer') < BatchSize,
         \A h \in Goroutines :
           \/ pc'[h] = pc[h]
           \/ pc[h] \in {"idle", "closing"} /\ pc'[h] \in {"closing", "closed"}
  PROVE  IInv'
<1>0. /\ OneOwner /\ Owned /\ BatchBound /\ Untouched
      /\ AcknowledgedArrived /\ BoundedRedelivery
  BY DEF IInv, Owned
<1>1. OneOwner' /\ Owned'
  BY <1>0 DEF OneOwner, Owned, counts
<1>2. BatchBound'
  BY <1>0 DEF BatchBound
<1>3. Untouched' /\ AcknowledgedArrived' /\ BoundedRedelivery'
  BY <1>0 DEF Untouched, AcknowledgedArrived, Received, BoundedRedelivery, counts
<1>4. \A h \in Goroutines : Local(h)'
  <2> SUFFICES ASSUME NEW h \in Goroutines PROVE Local(h)'
    OBVIOUS
  <2>1. Local(h)
    BY DEF IInv
  <2> QED
    BY <2>1, LocalStays
<1> QED
  BY <1>1, <1>2, <1>3, <1>4 DEF IInv, Typed

LEMMA InvInit == Init => IInv
<1> SUFFICES ASSUME Init PROVE IInv
  OBVIOUS
<1>1. Typed
  BY TypedInit
<1>2. Owned
  BY DEF Init, Owned, OneOwner
<1>3. BatchBound
  BY ConfigAssumption, FS_EmptySet DEF Init, BatchBound
<1>4. Untouched /\ AcknowledgedArrived /\ BoundedRedelivery
  BY <1>1, ConfigAssumption
  DEF Init, Untouched, AcknowledgedArrived, BoundedRedelivery, Typed, TypeOK
<1>5. \A g \in Goroutines : Local(g)
  BY DEF Init, Local, Carried, Answered, FailedInDLQ, SentSoFar, WrittenSoFar, Retrying
<1> QED
  BY <1>1, <1>2, <1>3, <1>4, <1>5 DEF IInv, Typed

LEMMA InvStep ==
  ASSUME IInv, [Next]_vars
  PROVE  IInv'
<1>0. /\ Typed /\ OneOwner /\ BatchBound /\ IsFiniteSet(buffer)
      /\ pc \in [Goroutines -> PC]
      /\ fresh \subseteq Events /\ buffer \subseteq Events
  BY DEF IInv, Typed, TypeOK, FinitelyMany, Owned
<1>1. Typed'
  BY <1>0, TypedStep
<1>2. ASSUME NEW g \in Handlers, NEW e \in fresh, AddEvent(g, e)
      PROVE  IInv'
  <2>1. g \in Goroutines /\ e \in Events /\ e \notin buffer
    BY <1>0 DEF Goroutines, OneOwner
  <2>2. /\ Cardinality(buffer) \in Nat
        /\ Cardinality(buffer \cup {e}) <= Cardinality(buffer) + 1
        /\ IsFiniteSet(buffer \cup {e})
    BY <1>0, FiniteAdd
  <2>3. Cardinality(buffer \cup {e}) \in Nat
    BY <2>2, FS_CardinalityType
  <2>4. UNCHANGED counts /\ fresh' = fresh \ {e}
    BY <1>2 DEF AddEvent, splunk, disk, counts
  <2>5. CASE /\ Cardinality(buffer \cup {e}) >= BatchSize
             /\ buffer' = {} /\ TakeBatch(g, buffer \cup {e}, "idle")
    <3>1. Cardinality(buffer \cup {e}) <= BatchSize
      BY <1>0, <2>2, <2>3, ConfigAssumption DEF BatchBound
    <3>2. fresh' = fresh \ (buffer \cup {e})
      BY <1>0, <2>4 DEF OneOwner
    <3> QED
      BY <1>0, <1>1, <2>1, <2>4, <2>5, <3>1, <3>2, InvTake
  <2>6. CASE /\ ~(Cardinality(buffer \cup {e}) >= BatchSize)
             /\ buffer' = buffer \cup {e} /\ UNCHANGED progress
    <3>1. Cardinality(buffer') < BatchSize
      BY <2>3, <2>6, ConfigAssumption
    <3>2. /\ fresh' \cup buffer' = fresh \cup buffer
          /\ fresh' \cap buffer' = {}
      BY <1>0, <2>4, <2>6 DEF OneOwner
    <3> QED
      BY <1>1, <2>4, <2>6, <3>1, <3>2, InvStays DEF progress
  <2> QED
    BY <1>2, <2>5, <2>6 DEF AddEvent
<1>3. ASSUME NEW g \in {Flusher, Closer}, Flush(g)
      PROVE  IInv'
  <2>1. g \in Goroutines
    BY DEF Goroutines
  <2>2. UNCHANGED counts /\ fresh' = fresh /\ buffer' = {}
    BY <1>3 DEF Flush, splunk, disk, counts
  <2>3. CASE TakeBatch(g, buffer, "idle")
    <3>1. Cardinality(buffer) <= BatchSize
      BY <1>0, FS_CardinalityType, ConfigAssumption DEF BatchBound
    <3>2. fresh' = fresh \ buffer
      BY <1>0, <2>2 DEF OneOwner
    <3> QED
      BY <1>0, <1>1, <2>1, <2>2, <2>3, <3>1, <3>2, InvTake
  <2>4. CASE /\ buffer = {} /\ g = Closer /\ Goto(g, "idle", "closing")
             /\ UNCHANGED <<batch, attempt, todo, failed>>
    <3>1. \A h \in Goroutines :
            \/ pc'[h] = pc[h]
            \/ pc[h] \in {"idle", "closing"} /\ pc'[h] \in {"closing", "closed"}
      BY <1>0, <2>4 DEF Goto
    <3>2. Cardinality(buffer') < BatchSize
      BY <1>0, <2>2, <2>4 DEF BatchBound
    <3> QED
      BY <1>1, <2>2, <2>4, <3>1, <3>2, InvStays
  <2> QED
    BY <1>3, <2>3, <2>4 DEF Flush
<1>4. ASSUME NEW g \in Goroutines, Continue(g)
      PROVE  IInv'
  BY <1>4, InvContinue
<1>5. CASE CloseFiles
  <2>1. \A h \in Goroutines :
          \/ pc'[h] = pc[h]
          \/ pc[h] \in {"idle", "closing"} /\ pc'[h] \in {"closing", "closed"}
    BY <1>0, <1>5 DEF CloseFiles, Goto
  <2>2. /\ UNCHANGED <<counts, batch, attempt, todo, failed>>
        /\ fresh' = fresh /\ buffer' = buffer
    BY <1>5 DEF CloseFiles, splunk, counts
  <2> QED
    BY <1>0, <1>1, <2>1, <2>2, InvStays DEF OneOwner, BatchBound
<1>6. CASE TimePasses \/ UNCHANGED vars
  <2>1. /\ UNCHANGED <<counts, batch, attempt, todo, failed, pc>>
        /\ fresh' = fresh /\ buffer' = buffer
    BY <1>6 DEF TimePasses, vars, progress, splunk, disk, counts
  <2> QED
    BY <1>0, <1>1, <2>1, InvStays DEF OneOwner, BatchBound
<1> QED
  BY <1>2, <1>3, <1>4, <1>5, <1>6 DEF Next

(* The inductive invariant holds of every state.                           *)
THEOREM Invariant == Spec => []IInv
<1>1. Init => IInv
  BY InvInit
<1>2. IInv /\ [Next]_vars => IInv'
  BY InvStep
<1> QED
  BY <1>1, <1>2, PTL DEF Spec

-----------------------------------------------------------------------------
(* What the invariant gives                                                *)

(* The variables keep their types, whatever the configuration.             *)
THEOREM TypeCorrect == Spec => []TypeOK
<1>1. IInv => TypeOK
  BY DEF IInv
<1> QED
  BY <1>1, Invariant, PTL

(* However AddEvent, the ticker and Close interleave, no two of them ever  *)
(* carry the same event (bufferMutex: copy, clear, unlock).                *)
THEOREM EventsHaveOneOwner == Spec => []OneOwner
<1>1. IInv => OneOwner
  BY DEF IInv, Owned
<1> QED
  BY <1>1, Invariant, PTL

(* No batch is larger than BatchSize, and no full buffer is left behind.   *)
THEOREM BatchesAreBounded == Spec => []BatchBound
<1>1. IInv => BatchBound
  BY DEF IInv
<1> QED
  BY <1>1, Invariant, PTL

(* Retries, individual retries, DLQ and persistent buffer together repeat  *)
(* an event no more often than twice the attempts of one round.            *)
THEOREM RedeliveryIsBounded == Spec => []BoundedRedelivery
<1>1. IInv => BoundedRedelivery
  BY DEF IInv
<1> QED
  BY <1>1, Invariant, PTL

(* An event that a goroutine lets go was acknowledged, is in a file, had a *)
(* write to a file fail, or was given up with no file configured.          *)
LEMMA Released ==
  ASSUME IInv, NEW g \in Goroutines, Continue(g), batch'[g] # batch[g],
         NEW e \in batch[g]
  PROVE  \/ e \in acked
         \/ dlq'[e] > 0 \/ saved'[e] > 0 \/ e \in faults'
         \/ e \in givenUp' /\ ~DLQ /\ ~PersistentBuf
<1>0. /\ batch \in [Goroutines -> SUBSET Events] /\ failed[g] \subseteq Events
      /\ saved \in [Events -> Nat] /\ dlq \in [Events -> Nat]
      /\ faults \subseteq Events
      /\ Carried(g) /\ Answered(g) /\ FailedInDLQ(g)
      /\ {DLQ, PersistentBuf} \subseteq BOOLEAN
  BY ConfigAssumption DEF IInv, TypeOK, Local
<1>1. CASE PostSucceeded(g)
  BY <1>0, <1>1 DEF PostSucceeded, Return, Goto, Answered
<1>2. CASE SinglesDone(g)
  BY <1>0, <1>2 DEF SinglesDone, Return, Goto, Answered, Retrying
<1>3. CASE SaveFailed(g)
  <2>1. e \in failed[g] \cup acked
    BY <1>0, <1>3 DEF SaveFailed, Return, Goto, Carried, Answered, Retrying
  <2>2. CASE e \in failed[g] /\ PersistentBuf
    BY <1>0, <1>3, <2>2, BufferWrite DEF SaveFailed
  <2>3. CASE e \in failed[g] /\ DLQ
    <3>1. dlq[e] > 0 \/ e \in faults
      BY <1>0, <1>3, <2>3 DEF FailedInDLQ, SaveFailed, Return, Goto
    <3>2. dlq' = dlq /\ faults \subseteq faults'
      BY <1>0, <1>3, BufferWrite DEF SaveFailed
    <3> QED
      BY <3>1, <3>2
  <2>4. CASE e \in failed[g] /\ ~PersistentBuf /\ ~DLQ
    BY <1>3, <2>4 DEF SaveFailed
  <2> QED
    BY <1>0, <2>1, <2>2, <2>3, <2>4
<1>4. CASE ~PostSucceeded(g) /\ ~SinglesDone(g) /\ ~SaveFailed(g)
  BY <1>4, PostBatchDoes, SendSinglyDoes
  DEF Continue, Gate, PostFailed, DLQBatch, SaveBatch, DLQFailed, IInv, Typed
<1> QED
  BY <1>1, <1>2, <1>3, <1>4

(* A flush that ends without an error left nothing unacknowledged.         *)
THEOREM SuccessIsHonest == Spec => NilMeansAcknowledged
<1> DEFINE Nil(g) == batch[g] # {} /\ batch'[g] = {} /\ givenUp' = givenUp
                       => batch[g] \subseteq acked
<1>1. ASSUME IInv, [Next]_vars PROVE \A g \in Goroutines : Nil(g)
  <2> SUFFICES ASSUME NEW h \in Goroutines,
                      batch[h] # {}, batch'[h] = {}, givenUp' = givenUp
               PROVE  batch[h] \subseteq acked
    OBVIOUS
  <2>0. /\ batch \in [Goroutines -> SUBSET Events] /\ Typed /\ Local(h)
        /\ givenUp \cap batch[h] = {}
    BY <1>1 DEF IInv, TypeOK, Typed, Owned
  <2>1. ASSUME NEW g \in Goroutines, Continue(g)
        PROVE  batch[h] \subseteq acked
    <3>1. h = g
      BY <1>1, <2>1, Frame DEF IInv, Typed, Local, OthersUntouched
    <3>2. CASE PostSucceeded(g)
      BY <2>0, <3>1, <3>2 DEF PostSucceeded, Return, Goto, Local, Answered
    <3>3. CASE SinglesDone(g)
      BY <2>0, <3>1, <3>3
      DEF SinglesDone, Return, Goto, Local, Answered, Retrying
    <3>4. ~SaveFailed(g)
      <4> SUFFICES ASSUME SaveFailed(g) PROVE FALSE
        OBVIOUS
      <4>1. failed[g] # {} /\ failed[g] \subseteq batch[g]
        BY <2>0, <3>1 DEF SaveFailed, Return, Goto, Local, Carried
      <4> QED
        BY <2>0, <3>1, <4>1 DEF SaveFailed
    <3>5. CASE ~PostSucceeded(g) /\ ~SinglesDone(g)
      BY <2>0, <2>1, <3>1, <3>4, <3>5, PostBatchDoes, SendSinglyDoes
      DEF Continue, Gate, PostFailed, DLQBatch, SaveBatch, DLQFailed
    <3> QED
      BY <3>2, <3>3, <3>5
  <2>2. ASSUME NEW g \in Handlers, NEW e \in fresh, AddEvent(g, e)
        PROVE  batch[h] \subseteq acked
    BY <1>1, <2>0, <2>2 DEF AddEvent, TakeBatch, Goto, progress, IInv, Local, Carried,
       Goroutines
  <2>3. ASSUME NEW g \in {Flusher, Closer}, Flush(g)
        PROVE  batch[h] \subseteq acked
    BY <1>1, <2>0, <2>3 DEF Flush, TakeBatch, Goto, IInv, Local, Carried, Goroutines
  <2>4. CASE CloseFiles \/ TimePasses \/ UNCHANGED vars
    BY <2>4 DEF CloseFiles, TimePasses, vars, progress
  <2> QED
    BY <1>1, <2>1, <2>2, <2>3, <2>4 DEF Next
<1>2. IInv /\ [Next]_vars => [\A g \in Goroutines : Nil(g)]_vars
  BY <1>1
<1> QED
  BY <1>2, Invariant, PTL DEF Spec, NilMeansAcknowledged

-----------------------------------------------------------------------------
(* The writer implements OutputWriter                                      *)

added   == Events \ fresh
held    == {e \in Events : Held(e)}
out     == {e \in Events : Received(e) \/ Spilled(e)}
excused == faults \cup (IF DLQ \/ PersistentBuf THEN {} ELSE givenUp)

LEMMA ContractInit == Init => Contract!Init
BY DEF Init, Contract!Init, Held, Received, Spilled

(* What has an outcome was added before, and what is held as well.         *)
LEMMA AddedFirst ==
  IInv => held \subseteq added /\ out \subseteq added /\ excused \subseteq added
<1> SUFFICES ASSUME IInv
             PROVE  held \subseteq added /\ out \subseteq added /\ excused \subseteq added
  OBVIOUS
<1>1. /\ fresh \subseteq Events /\ faults \subseteq Events /\ givenUp \subseteq Events
      /\ buffer \cap fresh = {} /\ givenUp \cap fresh = {}
      /\ \A g \in Goroutines : batch[g] \cap fresh = {}
  BY DEF IInv, TypeOK, Owned, OneOwner
<1>2. \A e \in fresh : ~Received(e) /\ ~Spilled(e) /\ e \notin faults
  BY DEF IInv, Untouched, Received, Spilled
<1> QED
  BY <1>1, <1>2 DEF added, held, out, excused, Held

LEMMA AddedFirstNext ==
  IInv' => (held \subseteq added /\ out \subseteq added /\ excused \subseteq added)'
BY AddedFirst, PTL

(* Counts and history only grow.                                           *)
LEMMA OutcomesStay ==
  ASSUME IInv, [Next]_vars
  PROVE  out \subseteq out' /\ excused \subseteq excused'
<1>0. /\ received \in [Events -> Nat] /\ dlq \in [Events -> Nat]
      /\ saved \in [Events -> Nat]
      /\ received' \in [Events -> Nat] /\ dlq' \in [Events -> Nat]
      /\ saved' \in [Events -> Nat]
  BY TypedStep DEF IInv, Typed, TypeOK
<1>1. \/ \E g \in Goroutines : OnlyItsBatch(g) /\ KeepsOrReturns(g)
      \/ UNCHANGED counts
  <2>1. ASSUME NEW g \in Goroutines, Continue(g)
        PROVE  OnlyItsBatch(g) /\ KeepsOrReturns(g)
    BY <2>1, Frame DEF IInv, Typed, Local
  <2>2. CASE ~ \E g \in Goroutines : Continue(g)
    BY <2>2 DEF Next, AddEvent, Flush, CloseFiles, TimePasses, vars, splunk, disk, counts
  <2> QED
    BY <2>1, <2>2
<1>2. CASE UNCHANGED counts
  BY <1>2 DEF counts, out, excused, Received, Spilled
<1>3. ASSUME NEW g \in Goroutines, OnlyItsBatch(g), KeepsOrReturns(g)
      PROVE  out \subseteq out' /\ excused \subseteq excused'
  BY <1>0, <1>3 DEF OnlyItsBatch, KeepsOrReturns, out, excused, Received, Spilled
<1> QED
  BY <1>1, <1>2, <1>3

LEMMA ContractStep ==
  ASSUME IInv, [Next]_vars
  PROVE  [Contract!Next]_(Contract!vars)
<1>0. /\ IInv' /\ Typed /\ Typed'
      /\ fresh \subseteq Events /\ buffer \subseteq Events
      /\ batch \in [Goroutines -> SUBSET Events]
  BY InvStep DEF IInv, Typed, TypeOK
<1>1. /\ out \subseteq out' /\ excused \subseteq excused'
      /\ out' \subseteq added' /\ excused' \subseteq added'
  BY <1>0, OutcomesStay, AddedFirstNext
<1>2. ASSUME fresh' = fresh, held' \subseteq held, held \ held' \subseteq out' \cup excused'
      PROVE  Contract!Output
  <2>1. added' = added
    BY <1>2 DEF added
  <2> QED
    BY <1>1, <1>2, <2>1 DEF Contract!Output, added, held, out, excused
<1>3. ASSUME NEW g \in Handlers, NEW e \in fresh, AddEvent(g, e)
      PROVE  Contract!AddEvent(e)
  <2>1. g \in Goroutines /\ batch[g] = {}
    BY <1>3 DEF Goroutines, IInv, Local, Carried, AddEvent
  <2>2. UNCHANGED counts /\ fresh' = fresh \ {e}
    BY <1>3 DEF AddEvent, splunk, disk, counts
  <2>3. held' = held \cup {e}
    <3>1. CASE buffer' = {} /\ TakeBatch(g, buffer \cup {e}, "idle")
      BY <1>0, <2>1, <3>1 DEF TakeBatch, Goto, held, Held
    <3>2. CASE buffer' = buffer \cup {e} /\ UNCHANGED progress
      BY <1>0, <3>2 DEF progress, held, Held
    <3> QED
      BY <1>3, <3>1, <3>2 DEF AddEvent
  <2>4. added' = added \cup {e} /\ e \notin added
    BY <1>0, <2>2 DEF added
  <2>5. out' = out /\ excused' = excused
    BY <2>2 DEF counts, out, excused, Received, Spilled
  <2> QED
    BY <2>3, <2>4, <2>5 DEF Contract!AddEvent, added, held, out, excused
<1>4. ASSUME NEW g \in {Flusher, Closer}, Flush(g)
      PROVE  Contract!Output
  <2>1. g \in Goroutines /\ batch[g] = {} /\ fresh' = fresh /\ buffer' = {}
    BY <1>4 DEF Goroutines, IInv, Local, Carried, Flush, TakeBatch, Goto
  <2>2. held' = held
    <3>1. CASE TakeBatch(g, buffer, "idle")
      BY <1>0, <2>1, <3>1 DEF TakeBatch, held, Held
    <3>2. CASE buffer = {} /\ UNCHANGED batch
      BY <2>1, <3>2 DEF held, Held
    <3> QED
      BY <1>4, <3>1, <3>2 DEF Flush
  <2> QED
    BY <1>2, <2>1, <2>2
<1>5. ASSUME NEW g \in Goroutines, Continue(g)
      PROVE  Contract!Output
  <2>1. OthersUntouched(g) /\ OnlyItsBatch(g) /\ KeepsOrReturns(g)
    BY <1>5, Frame DEF IInv, Typed, Local
  <2>2. held' \subseteq held /\ held \ held' \subseteq batch[g]
    BY <2>1 DEF OthersUntouched, KeepsOrReturns, held, Held
  <2>3. CASE batch'[g] = batch[g]
    <3>1. held' = held
      BY <2>1, <2>3 DEF OthersUntouched, held, Held
    <3> QED
      BY <1>2, <2>1, <3>1 DEF OthersUntouched
  <2>4. CASE batch'[g] # batch[g]
    <3> SUFFICES held \ held' \subseteq out' \cup excused'
      BY <1>2, <2>1, <2>2 DEF OthersUntouched
    <3> SUFFICES ASSUME NEW e \in batch[g] PROVE e \in out' \cup excused'
      BY <2>2
    <3>1. e \in Events
      BY <1>0
    <3>2. \/ e \in acked
          \/ dlq'[e] > 0 \/ saved'[e] > 0 \/ e \in faults'
          \/ e \in givenUp' /\ ~DLQ /\ ~PersistentBuf
      BY <1>5, <2>4, Released
    <3>3. e \in acked => e \in out'
      BY <1>1, <3>1 DEF IInv, AcknowledgedArrived, out
    <3> QED
      BY <3>1, <3>2, <3>3 DEF out, excused, Spilled
  <2> QED
    BY <2>3, <2>4
<1>6. CASE CloseFiles \/ TimePasses \/ UNCHANGED vars
  <2>1. fresh' = fresh /\ held' = held
    BY <1>6 DEF CloseFiles, TimePasses, vars, progress, held, Held
  <2> QED
    BY <1>2, <2>1 DEF Contract!Next
<1>7. ASSUME NEW g \in Handlers, NEW e \in fresh, AddEvent(g, e)
      PROVE  Contract!Next
  BY <1>0, <1>3, <1>7 DEF Contract!Next
<1> QED
  BY <1>2, <1>4, <1>5, <1>6, <1>7 DEF Next, Contract!Next

(* HECWriter implements OutputWriter: whatever is lost, retried, refused   *)
(* by the breaker or by the disk, an event stays with the writer until it  *)
(* reached an output or an output failed for it.                           *)
THEOREM Refinement == Spec => ContractSpec
<1>1. Init => Contract!Init
  BY ContractInit
<1>2. IInv /\ [Next]_vars => [Contract!Next]_(Contract!vars)
  BY ContractStep
<1> QED
  BY <1>1, <1>2, Invariant, PTL DEF Spec, ContractSpec, Contract!Spec

(* No silent loss, by way of the contract: what the contract calls         *)
(* accounted for is what NoSilentLoss lists.                               *)
LEMMA AccountedIsNoSilentLoss ==
  TypeOK => (NoSilentLoss <=> added \ held \subseteq out \cup excused)
BY ConfigAssumption
DEF TypeOK, NoSilentLoss, added, held, out, excused

LEMMA AccountedIsNoSilentLossNext ==
  TypeOK' => (NoSilentLoss <=> added \ held \subseteq out \cup excused)'
BY AccountedIsNoSilentLoss, PTL

THEOREM NothingIsLostSilently == Spec => []NoSilentLoss
<1>1. Init => NoSilentLoss
  BY DEF Init, NoSilentLoss
<1>2. ASSUME IInv, NoSilentLoss, [Next]_vars
      PROVE  NoSilentLoss'
  <2>1. added \ held \subseteq out \cup excused
    BY <1>2, AccountedIsNoSilentLoss DEF IInv
  <2>2. out \subseteq out' /\ excused \subseteq excused'
    BY <1>2, OutcomesStay
  <2>3. [Contract!Next]_(Contract!vars)
    BY <1>2, ContractStep
  <2>4. (added \ held \subseteq out \cup excused)'
    <3>1. ASSUME NEW e \in Events, Contract!AddEvent(e)
          PROVE  added' \ held' \subseteq out' \cup excused'
      <4>1. added' = added \cup {e} /\ held' = held \cup {e}
        BY <3>1 DEF Contract!AddEvent, added, held
      <4> QED
        BY <2>1, <2>2, <4>1
    <3>2. CASE Contract!Output
      <4>1. added' = added /\ held \ held' \subseteq out' \cup excused'
        BY <3>2 DEF Contract!Output, added, held, out, excused
      <4> QED
        BY <2>1, <2>2, <4>1
    <3>3. CASE UNCHANGED Contract!vars
      <4>1. added' = added /\ held' = held
        BY <3>3 DEF Contract!vars, added, held
      <4> QED
        BY <2>1, <2>2, <4>1
    <3> QED
      BY <2>3, <3>1, <3>2, <3>3 DEF Contract!Next
  <2> QED
    BY <1>2, <2>4, AccountedIsNoSilentLossNext, InvStep DEF IInv
<1> QED
  BY <1>1, <1>2, Invariant, PTL DEF Spec

-----------------------------------------------------------------------------
(* total_events                                                            *)

(* The events counted so far are acknowledged, and no longer in memory: no *)
(* batch can count them again.                                             *)
CountedOnce ==
  /\ IsFiniteSet(acked)
  /\ \E counted \in SUBSET acked :
       /\ Cardinality(counted) = eventCount
       /\ counted \cap (fresh \cup buffer) = {}
       /\ \A g \in Goroutines : counted \cap batch[g] = {}

LEMMA CountedOnceStep ==
  ASSUME IInv, CountedOnce, [Next]_vars
  PROVE  CountedOnce'
<1>0. /\ Typed /\ OneOwner /\ IsFiniteSet(acked) /\ acked \subseteq Events
      /\ batch \in [Goroutines -> SUBSET Events]
      /\ \A g \in Goroutines : Local(g) /\ IsFiniteSet(batch[g])
  BY DEF IInv, Typed, TypeOK, FinitelyMany, Owned, CountedOnce
<1>1. PICK counted \in SUBSET acked :
        /\ Cardinality(counted) = eventCount
        /\ counted \cap (fresh \cup buffer) = {}
        /\ \A g \in Goroutines : counted \cap batch[g] = {}
  BY DEF CountedOnce
<1>2. ASSUME NEW g \in Goroutines, Continue(g)
      PROVE  CountedOnce'
  <2>1. OthersUntouched(g) /\ OnlyItsBatch(g) /\ KeepsOrReturns(g)
    BY <1>0, <1>2, Frame DEF Local
  <2>2. /\ fresh' = fresh /\ buffer' = buffer
        /\ \A h \in Goroutines : batch'[h] \subseteq batch[h]
    BY <2>1 DEF OthersUntouched, KeepsOrReturns
  <2>3. acked \subseteq acked' /\ acked' \subseteq acked \cup batch[g]
    BY <2>1 DEF OnlyItsBatch
  <2>4. IsFiniteSet(acked')
    <3>1. IsFiniteSet(acked \cup batch[g])
      BY <1>0, FS_Union
    <3> QED
      BY <2>3, <3>1, FS_Subset
  <2>5. CASE PostSucceeded(g)
    <3>1. /\ eventCount' = eventCount + Cardinality(batch[g])
          /\ batch[g] \subseteq acked /\ batch'[g] = {}
      BY <1>0, <2>5 DEF PostSucceeded, Return, Goto, Local, Answered
    <3>2. IsFiniteSet(counted) /\ counted \cap batch[g] = {}
      BY <1>0, <1>1, FS_Subset
    <3>3. Cardinality(counted \cup batch[g]) = eventCount'
      <4>1. Cardinality(counted \cup batch[g])
              = Cardinality(counted) + Cardinality(batch[g])
                  - Cardinality(counted \cap batch[g])
        BY <1>0, <3>2, FS_Union
      <4>2. Cardinality(counted \cap batch[g]) = 0
        BY <3>2, FS_EmptySet
      <4>3. Cardinality(counted) \in Nat /\ Cardinality(batch[g]) \in Nat
        BY <1>0, <3>2, FS_CardinalityType
      <4> QED
        BY <1>1, <3>1, <4>1, <4>2, <4>3
    <3>4. (counted \cup batch[g]) \cap (fresh' \cup buffer') = {}
      BY <1>0, <1>1, <2>2, <1>2 DEF OneOwner
    <3>5. \A h \in Goroutines : (counted \cup batch[g]) \cap batch'[h] = {}
      BY <1>0, <1>1, <2>1, <3>1 DEF OneOwner, OthersUntouched
    <3>6. counted \cup batch[g] \subseteq acked'
      BY <1>1, <2>3, <3>1
    <3> QED
      BY <2>4, <3>3, <3>4, <3>5, <3>6 DEF CountedOnce
  <2>6. CASE ~PostSucceeded(g)
    <3>1. eventCount' = eventCount
      BY <1>2, <2>6
      DEF Continue, Gate, PostBatch, PostFailed, DLQBatch, SaveBatch, SendSingly,
          SinglesDone, DLQFailed, SaveFailed
    <3> QED
      BY <1>1, <2>2, <2>3, <2>4, <3>1 DEF CountedOnce
  <2> QED
    BY <2>5, <2>6
<1>3. ASSUME NEW g \in Handlers, NEW e \in fresh, AddEvent(g, e)
      PROVE  CountedOnce'
  <2>1. /\ acked' = acked /\ eventCount' = eventCount
        /\ fresh' \subseteq fresh /\ buffer' \subseteq buffer \cup {e}
        /\ \A h \in Goroutines : batch'[h] \subseteq batch[h] \cup buffer \cup {e}
    BY <1>0, <1>3 DEF AddEvent, TakeBatch, Goto, progress, splunk, Goroutines
  <2> QED
    BY <1>0, <1>1, <2>1 DEF CountedOnce
<1>4. ASSUME NEW g \in {Flusher, Closer}, Flush(g)
      PROVE  CountedOnce'
  <2>1. /\ acked' = acked /\ eventCount' = eventCount
        /\ fresh' = fresh /\ buffer' = {}
        /\ \A h \in Goroutines : batch'[h] \subseteq batch[h] \cup buffer
    BY <1>0, <1>4 DEF Flush, TakeBatch, Goto, splunk, Goroutines
  <2> QED
    BY <1>0, <1>1, <2>1 DEF CountedOnce
<1>5. CASE CloseFiles \/ TimePasses \/ UNCHANGED vars
  BY <1>5 DEF CloseFiles, TimePasses, vars, progress, splunk, CountedOnce
<1> QED
  BY <1>2, <1>3, <1>4, <1>5 DEF Next

(* The reported number of events never exceeds the acknowledged ones.      *)
THEOREM CountIsHonest == Spec => []EventCountHonest
<1>1. Init => CountedOnce
  BY FS_EmptySet DEF Init, CountedOnce
<1>2. IInv /\ CountedOnce /\ [Next]_vars => CountedOnce'
  BY CountedOnceStep
<1>3. CountedOnce => EventCountHonest
  BY FS_Subset DEF CountedOnce, EventCountHonest
<1> QED
  BY <1>1, <1>2, <1>3, Invariant, PTL DEF Spec
=============================================================================
