--------------------------- MODULE HECReplayProofs ---------------------------
(***************************************************************************)
(* Theorems about HECReplay, for any events, batch size and scanner limit, *)
(* with or without the files: replay sends what it truncates, and saves    *)
(* do not overwrite each other - the latter two where the scanner takes    *)
(* every line.                                                             *)
(***************************************************************************)
EXTENDS HECReplay, FiniteSetTheorems, SequenceTheorems, TLAPS

-----------------------------------------------------------------------------
(* Greatest and smallest numbers                                           *)

(* The smallest member is the one with the least numbers below it: finite  *)
(* sets are well-founded under strict inclusion.                           *)
LEMMA MinOf ==
  ASSUME NEW S \in SUBSET Nat, S # {}
  PROVE  Min(S) \in S /\ \A m \in S : Min(S) <= m
<1> DEFINE Below == {0 .. n : n \in S}
<1>1. Below \subseteq FiniteSubsetsOf(Nat) /\ Below # {}
  <2>1. ASSUME NEW n \in S
        PROVE  0 .. n \in FiniteSubsetsOf(Nat)
    <3>1. IsFiniteSet(0 .. n)
      BY FS_Interval
    <3>2. 0 .. n \subseteq Nat
      OBVIOUS
    <3> QED
      BY <3>1, <3>2 DEF FiniteSubsetsOf
  <2> QED
    BY <2>1
<1>2. PICK low \in Below : \A T \in Below : <<T, low>> \notin StrictSubsetOrdering(Nat)
  BY <1>1, FS_StrictSubsetOrderingWellFounded, WFMin
<1>3. PICK n \in S : low = 0 .. n
  BY <1>2
<1>4. ASSUME NEW m \in S
      PROVE  n <= m
  <2> SUFFICES ASSUME m < n PROVE FALSE
    OBVIOUS
  <2>1. 0 .. m \subseteq 0 .. n /\ n \in 0 .. n /\ n \notin 0 .. m
    OBVIOUS
  <2>2. 0 .. m # 0 .. n
    BY <2>1
  <2>3. <<0 .. m, 0 .. n>> \in StrictSubsetOrdering(Nat)
    BY <2>1, <2>2 DEF StrictSubsetOrdering
  <2> QED
    BY <1>2, <1>3, <2>3
<1> QED
  BY <1>4 DEF Min

LEMMA MaxOf ==
  ASSUME NEW S \in SUBSET Nat, S # {}, NEW n \in Nat, \A m \in S : m <= n
  PROVE  Max(S) \in S /\ \A m \in S : m <= Max(S)
<1> DEFINE Above == {k \in Nat : \A m \in S : m <= k}
<1>1. Min(Above) \in Above /\ \A k \in Above : Min(Above) <= k
  BY MinOf
<1> HIDE DEF Above
<1> DEFINE top == Min(Above)
<1>2. top \in Nat /\ \A m \in S : m <= top
  BY <1>1 DEF Above
<1>3. top \in S
  <2> SUFFICES ASSUME top \notin S PROVE FALSE
    OBVIOUS
  <2>1. \A m \in S : m <= top - 1
    BY <1>2
  <2>2. top - 1 \in Nat
    <3>1. PICK m \in S : m <= top - 1
      BY <2>1
    <3> QED
      BY <1>2, <3>1
  <2>3. top - 1 \in Above
    BY <2>1, <2>2 DEF Above
  <2> QED
    BY <1>1, <1>2, <2>3
<1> HIDE DEF top
<1> QED
  BY <1>2, <1>3 DEF Max

LEMMA MaxOfTwo ==
  ASSUME NEW m \in Nat, NEW n \in Nat
  PROVE  /\ Max({m, n}) \in {m, n}
         /\ m <= Max({m, n}) /\ n <= Max({m, n})
BY DEF Max

-----------------------------------------------------------------------------
(* The events of a flush as a sequence                                     *)

LEMMA SequenceOf ==
  ASSUME NEW S, IsFiniteSet(S)
  PROVE  /\ SetToSeq(S) \in Seq(S)
         /\ Len(SetToSeq(S)) = Cardinality(S) /\ Cardinality(S) \in Nat
<1>1. /\ Cardinality(S) \in Nat
      /\ ExistsBijection(1 .. Cardinality(S), S)
  BY FS_CardinalityType
<1>2. \E f \in [1 .. Cardinality(S) -> S] : IsInjective(f)
  BY <1>1 DEF ExistsBijection, Bijection, Injection
<1>3. SetToSeq(S) \in [1 .. Cardinality(S) -> S]
  BY <1>2 DEF SetToSeq
<1> QED
  BY <1>1, <1>3

-----------------------------------------------------------------------------
(* The lines of the persistent buffer                                      *)

Cells == Events \cup {NUL}

LEMMA LinesAreCells ==
  ASSUME buf \in Seq(Cells)
  PROVE  /\ LineEnds \subseteq 1 .. Len(buf) /\ Len(buf) \in Nat
         /\ ReadableLines \subseteq LineEnds
         /\ \A i \in LineEnds : buf[i] \in Events
BY DEF LineEnds, ReadableLines, Cells

(* A line starts in the file and not after its end.                        *)
LEMMA LineStarts ==
  ASSUME buf \in Seq(Cells), NEW i \in LineEnds
  PROVE  LineStart(i) \in 1 .. i
<1> DEFINE before == {0} \cup {j \in LineEnds : j < i}
<1>1. i \in Nat /\ i >= 1 /\ LineEnds \subseteq Nat
  BY LinesAreCells
<1>2. before \in SUBSET Nat /\ before # {} /\ \A j \in before : j <= i - 1
  <2>1. \A j \in before : j \in Nat /\ j <= i - 1
    BY <1>1
  <2>2. 0 \in before
    OBVIOUS
  <2> HIDE DEF before
  <2> QED
    BY <2>1, <2>2
<1>3. Max(before) \in before
  <2>1. i - 1 \in Nat
    BY <1>1
  <2> HIDE DEF before
  <2> QED
    BY <1>2, <2>1, MaxOf
<1> QED
  BY <1>1, <1>2, <1>3 DEF LineStart

LEMMA Scans ==
  ASSUME buf \in Seq(Cells)
  PROVE  /\ ScanOffset \in Nat
         /\ TooLong = {} => ScanOffset = Len(buf)
<1>1. CASE TooLong = {}
  BY <1>1, LinesAreCells DEF ScanOffset
<1>2. CASE TooLong # {}
  <2>1. TooLong \subseteq LineEnds /\ TooLong \in SUBSET Nat
    BY LinesAreCells DEF TooLong
  <2>2. PICK i \in LineEnds : i = Min(TooLong)
    BY <1>2, <2>1, MinOf
  <2>3. LineStart(i) \in 1 .. i /\ i \in Nat
    BY <2>2, LineStarts, LinesAreCells
  <2>4. ScanOffset = LineStart(i) - 1 + ScanLimit
    BY <1>2, <2>2 DEF ScanOffset
  <2> QED
    BY <1>2, <2>3, <2>4, ReplayAssumption
<1> QED
  BY <1>1, <1>2

-----------------------------------------------------------------------------
(* The POSTs of a replay                                                   *)

(* The readable lines are numbered from 1 on.                              *)
LEMMA Ranks ==
  ASSUME buf \in Seq(Cells)
  PROVE  /\ Cardinality(ReadableLines) \in Nat
         /\ \A i \in ReadableLines : Rank(i) \in 1 .. Cardinality(ReadableLines)
<1>1. IsFiniteSet(ReadableLines) /\ ReadableLines \subseteq Nat
  <2>1. IsFiniteSet(1 .. Len(buf))
    BY LinesAreCells, FS_Interval
  <2>2. ReadableLines \in SUBSET (1 .. Len(buf))
    BY LinesAreCells
  <2>3. IsFiniteSet(ReadableLines)
    BY <2>1, <2>2, FS_Subset
  <2> QED
    BY <2>2, <2>3, LinesAreCells
<1>2. Cardinality(ReadableLines) \in Nat
  BY <1>1, FS_CardinalityType
<1>3. ASSUME NEW i \in ReadableLines
      PROVE  Rank(i) \in 1 .. Cardinality(ReadableLines)
  <2> DEFINE upto == {j \in ReadableLines : j <= i}
  <2>1. upto \in SUBSET ReadableLines /\ i \in upto
    BY <1>1
  <2> HIDE DEF upto
  <2>2. IsFiniteSet(upto) /\ Cardinality(upto) <= Cardinality(ReadableLines)
    BY <1>1, <2>1, FS_Subset
  <2>3. Cardinality(upto) \in Nat /\ Cardinality(upto) # 0
    BY <2>1, <2>2, FS_CardinalityType, FS_EmptySet
  <2>4. Rank(i) = Cardinality(upto)
    BY DEF Rank, upto
  <2> QED
    BY <1>2, <2>2, <2>3, <2>4
<1> QED
  BY <1>2, <1>3

(* The n-th of some things is in one of the groups of a given size.        *)
LEMMA Grouping ==
  ASSUME NEW n \in Nat, NEW r \in 1 .. n, NEW size \in Nat \ {0}
  PROVE  \E k \in 1 .. (n + size - 1) \div size :
           (k - 1) * size < r /\ r <= k * size
<1> DEFINE k == (r + size - 1) \div size
           m == (n + size - 1) \div size
<1>1. k \in Nat /\ k * size <= r + size - 1 /\ r + size - 1 < (k + 1) * size
  OBVIOUS
<1>2. m \in Nat /\ n + size - 1 < (m + 1) * size
  OBVIOUS
<1> HIDE DEF k, m
<1>3. (k - 1) * size = k * size - size /\ (k + 1) * size = k * size + size
  BY <1>1
<1>4. (k - 1) * size < r /\ r <= k * size
  <2>1. k * size \in Int
    BY <1>1
  <2> QED
    BY <1>1, <1>3, <2>1
<1>5. k >= 1
  <2> SUFFICES ASSUME k = 0 PROVE FALSE
    BY <1>1
  <2> QED
    BY <1>4
<1>6. k <= m
  <2> SUFFICES ASSUME k >= m + 1 PROVE FALSE
    BY <1>1, <1>2
  <2>1. k * size >= (m + 1) * size
    BY <1>1, <1>2
  <2>2. k * size \in Int /\ (m + 1) * size \in Int
    BY <1>1, <1>2
  <2> QED
    BY <1>1, <1>2, <2>1, <2>2
<1>7. k \in 1 .. m
  BY <1>1, <1>2, <1>5, <1>6
<1> QED
  BY <1>4, <1>7 DEF m

LEMMA BufferPostsType ==
  ASSUME buf \in Seq(Cells)
  PROVE  BufferPosts \in Seq(SUBSET Events)
<1> DEFINE m == (Cardinality(ReadableLines) + BatchSize - 1) \div BatchSize
<1>1. m \in Nat
  <2>1. Cardinality(ReadableLines) + BatchSize - 1 \in Nat
    BY Ranks, ReplayAssumption
  <2> QED
    BY <2>1, ReplayAssumption
<1>2. \A k \in 1 .. m : {buf[i] : i \in Group(k)} \in SUBSET Events
  BY LinesAreCells DEF Group
<1> HIDE DEF m
<1>3. Posts(m) \in [1 .. m -> SUBSET Events]
  BY <1>2 DEF Posts
<1>4. Posts(m) \in Seq(SUBSET Events)
  BY <1>1, <1>3
<1> QED
  BY <1>4 DEF BufferPosts, m

(* Every line that can be read is sent with one of the POSTs.              *)
LEMMA EveryLineIsPosted ==
  ASSUME buf \in Seq(Cells), NEW i \in ReadableLines
  PROVE  \E k \in DOMAIN BufferPosts : buf[i] \in BufferPosts[k]
<1> DEFINE n == Cardinality(ReadableLines)
<1>1. n \in Nat /\ Rank(i) \in 1 .. n
  BY Ranks
<1>2. PICK k \in 1 .. (n + BatchSize - 1) \div BatchSize :
        (k - 1) * BatchSize < Rank(i) /\ Rank(i) <= k * BatchSize
  BY <1>1, Grouping, ReplayAssumption
<1>3. i \in Group(k)
  BY <1>2 DEF Group
<1> QED
  BY <1>2, <1>3 DEF BufferPosts, Posts

-----------------------------------------------------------------------------
(* Writes at the file position                                             *)

LEMMA WrittenIs ==
  ASSUME buf \in Seq(Cells), offset \in Nat, NEW cells \in Seq(Events)
  PROVE  /\ Written(cells) \in Seq(Cells)
         /\ Len(buf) <= Len(Written(cells))
         /\ \A i \in DOMAIN buf :
              i \notin offset + 1 .. offset + Len(cells) =>
                i \in DOMAIN Written(cells) /\ Written(cells)[i] = buf[i]
         /\ \A i \in DOMAIN Written(cells) :
              /\ i \in offset + 1 .. offset + Len(cells)
                   => Written(cells)[i] \in Events
              /\ i \notin offset + 1 .. offset + Len(cells) /\ i \notin DOMAIN buf
                   => Written(cells)[i] = NUL
         /\ offset + 1 .. offset + Len(cells) \subseteq DOMAIN Written(cells)
<1> DEFINE length == Max({Len(buf), offset + Len(cells)})
           cell(i) == IF i > offset /\ i <= offset + Len(cells) THEN cells[i - offset]
                      ELSE IF i <= Len(buf) THEN buf[i] ELSE NUL
<1>1. Len(buf) \in Nat /\ Len(cells) \in Nat /\ offset + Len(cells) \in Nat
  OBVIOUS
<1>2. /\ length \in Nat /\ Len(buf) <= length /\ offset + Len(cells) <= length
      /\ length \in {Len(buf), offset + Len(cells)}
  BY <1>1, MaxOfTwo
<1> HIDE DEF length
<1>3. Written(cells) = [i \in 1 .. length |-> cell(i)]
  BY DEF Written, length
<1>4. ASSUME NEW i \in 1 .. length
      PROVE  cell(i) \in Cells
  <2>1. CASE i > offset /\ i <= offset + Len(cells)
    <3>1. cells[i - offset] \in Events
      BY <1>1, <1>2, <2>1
    <3> QED
      BY <2>1, <3>1 DEF Cells
  <2>2. CASE ~(i > offset /\ i <= offset + Len(cells)) /\ i <= Len(buf)
    BY <1>1, <1>2, <2>2
  <2>3. CASE ~(i > offset /\ i <= offset + Len(cells)) /\ ~(i <= Len(buf))
    BY <2>3 DEF Cells
  <2> QED
    BY <2>1, <2>2, <2>3
<1>5. Written(cells) \in Seq(Cells) /\ Len(Written(cells)) = length
  <2>1. [i \in 1 .. length |-> cell(i)] \in [1 .. length -> Cells]
    BY <1>4
  <2> HIDE DEF cell
  <2> QED
    BY <1>2, <1>3, <2>1
<1>6. DOMAIN Written(cells) = 1 .. length /\ DOMAIN buf = 1 .. Len(buf)
  BY <1>1, <1>2, <1>3
<1> DEFINE new == offset + 1 .. offset + Len(cells)
<1>7. /\ \A i \in Nat : i \in new <=> i > offset /\ i <= offset + Len(cells)
      /\ \A i \in new : i \in Nat /\ i - offset \in 1 .. Len(cells)
  BY <1>1
<1>8. new \subseteq 1 .. length
  BY <1>1, <1>2
<1> HIDE DEF new
<1>9. ASSUME NEW i \in DOMAIN buf, i \notin new
      PROVE  i \in DOMAIN Written(cells) /\ Written(cells)[i] = buf[i]
  <2>0. i \in 1 .. Len(buf)
    BY <1>6, <1>9
  <2>1. i \in 1 .. length /\ i \in Nat /\ i <= Len(buf)
    BY <1>1, <1>2, <2>0
  <2>2. ~(i > offset /\ i <= offset + Len(cells))
    BY <1>7, <1>9, <2>1
  <2>3. cell(i) = buf[i]
    BY <2>1, <2>2
  <2> HIDE DEF cell
  <2> QED
    BY <1>3, <1>6, <2>1, <2>3
<1>10. ASSUME NEW i \in 1 .. length
       PROVE  /\ i \in new => Written(cells)[i] \in Events
              /\ i \notin new /\ i \notin DOMAIN buf => Written(cells)[i] = NUL
  <2>1. Written(cells)[i] = cell(i) /\ i \in Nat /\ i >= 1
    BY <1>2, <1>3
  <2>2. i \in new => cells[i - offset] \in Events
    BY <1>7
  <2>3. i \in new => cell(i) = cells[i - offset]
    BY <1>7
  <2>4. ASSUME i \notin new, i \notin DOMAIN buf
        PROVE  cell(i) = NUL
    <3>1. ~(i > offset /\ i <= offset + Len(cells))
      BY <1>7, <2>1, <2>4
    <3>2. ~(i <= Len(buf))
      BY <1>1, <1>6, <2>1, <2>4
    <3> QED
      BY <3>1, <3>2
  <2> HIDE DEF cell
  <2> QED
    BY <2>1, <2>2, <2>3, <2>4
<1> QED
  BY <1>2, <1>5, <1>6, <1>8, <1>9, <1>10 DEF new

-----------------------------------------------------------------------------
(* Types                                                                   *)

(* What is true of every state, whatever the scanner takes.                *)
Sound == TypeOK /\ SmallFlush /\ SmallEntries

LEMMA NoFlush == IsFiniteSet({}) /\ Cardinality({}) <= BatchSize
BY FS_EmptySet, ReplayAssumption

LEMMA Appended ==
  ASSUME NEW S, NEW seq \in Seq(S), NEW e \in S
  PROVE  /\ Append(seq, e) \in Seq(S)
         /\ \A i \in DOMAIN Append(seq, e) :
              \/ Append(seq, e)[i] = e
              \/ i \in DOMAIN seq /\ Append(seq, e)[i] = seq[i]
OBVIOUS

LEMMA NoEntries ==
  ASSUME NEW S
  PROVE  <<>> \in Seq(S) /\ DOMAIN <<>> = {}
OBVIOUS

LEMMA SoundInit == Init => Sound
<1> SUFFICES ASSUME Init PROVE Sound
  OBVIOUS
<1>1. TypeOK
  <2>1. buf \in Seq(Events \cup {NUL}) /\ dlq \in Seq(SUBSET Events) /\ queue \in Seq(SUBSET Events)
    BY NoEntries DEF Init
  <2> QED
    BY <2>1 DEF Init, TypeOK, PC
<1>2. SmallFlush /\ SmallEntries
  BY NoFlush, NoEntries DEF Init, SmallFlush, SmallEntries
<1> QED
  BY <1>1, <1>2 DEF Sound

LEMMA SoundStartup ==
  ASSUME Sound, Startup
  PROVE  Sound'
<1> USE DEF Sound, TypeOK, PC, Goto, SmallFlush, SmallEntries, files, replay
<1>0. buf \in Seq(Cells)
  BY DEF Cells
<1>1. CASE Open
  BY <1>1 DEF Open
<1>2. CASE StartBufferReplay
  <2>1. queue' \in Seq(SUBSET Events)
    BY <1>0, <1>2, BufferPostsType DEF StartBufferReplay
  <2>2. offset' \in Nat
    BY <1>0, <1>2, Scans DEF StartBufferReplay
  <2>3. pc' \in PC
    BY <1>2 DEF StartBufferReplay
  <2> QED
    BY <1>2, <2>1, <2>2, <2>3 DEF StartBufferReplay
<1>3. CASE StartDLQReplay
  <2>1. DLQPosts \in Seq(SUBSET Events)
    <3> DEFINE long == {i \in DOMAIN dlq : Cardinality(dlq[i]) > ScanLimit}
    <3>1. CASE long = {}
      BY <3>1 DEF DLQPosts
    <3>2. CASE long # {}
      <4>1. long \subseteq 1 .. Len(dlq) /\ long \in SUBSET Nat
        OBVIOUS
      <4>2. PICK i \in 1 .. Len(dlq) : i = Min(long)
        BY <3>2, <4>1, MinOf
      <4>3. SubSeq(dlq, 1, i - 1) \in Seq(SUBSET Events)
        OBVIOUS
      <4> QED
        BY <3>2, <4>2, <4>3 DEF DLQPosts
    <3> QED
      BY <3>1, <3>2
  <2>2. queue' \in Seq(SUBSET Events)
    BY <1>3, <2>1 DEF StartDLQReplay
  <2>3. pc' \in PC
    BY <1>3 DEF StartDLQReplay
  <2> QED
    BY <1>3, <2>2, <2>3 DEF StartDLQReplay
<1>4. CASE ReplaySent
  BY <1>4 DEF ReplaySent
<1>5. CASE ReplayFailed
  BY <1>5 DEF ReplayFailed
<1>6. CASE EndBufferReplay
  <2>1. buf' \in {<<>>, buf} /\ pc' = "bufferDone" /\ anySent' = FALSE
    BY <1>6 DEF EndBufferReplay
  <2>2. UNCHANGED <<fresh, flush, round, offset, dlq, queue, received>>
    BY <1>6 DEF EndBufferReplay
  <2>3. buf' \in Seq(Events \cup {NUL})
    BY <2>1, NoEntries
  <2> QED
    BY <2>1, <2>2, <2>3
<1>7. CASE EndDLQReplay
  <2>1. dlq' \in {<<>>, dlq} /\ pc' = "running" /\ anySent' = FALSE
    BY <1>7 DEF EndDLQReplay
  <2>2. UNCHANGED <<fresh, flush, round, buf, offset, queue, received>>
    BY <1>7 DEF EndDLQReplay
  <2>3. dlq' \in Seq(SUBSET Events)
    BY <2>1, NoEntries
  <2>4. SmallEntries'
    BY <2>1, NoEntries
  <2> QED
    BY <2>1, <2>2, <2>3, <2>4
<1> QED
  BY <1>1, <1>2, <1>3, <1>4, <1>5, <1>6, <1>7 DEF Startup

LEMMA SoundRunning ==
  ASSUME Sound, Running
  PROVE  Sound'
<1> USE DEF Sound, TypeOK, PC, Goto, SmallFlush, SmallEntries, files, replay
<1>0. buf \in Seq(Cells)
  BY DEF Cells
<1>1. CASE FlushSent
  BY <1>1 DEF FlushSent
<1>2. CASE FlushFails
  <2>1. PICK es \in SUBSET fresh :
          /\ IsFiniteSet(es) /\ Cardinality(es) <= BatchSize
          /\ fresh' = fresh \ es /\ flush' = es
    <3> HIDE DEF Sound, TypeOK, PC, SmallFlush, SmallEntries
    <3> QED
      BY <1>2 DEF FlushFails
  <2>2. pc' \in {"dlq", "save"} /\ round' = 1 /\ UNCHANGED <<buf, offset, dlq, queue, anySent, received>>
    BY <1>2 DEF FlushFails
  <2>3. TypeOK'
    BY <2>1, <2>2
  <2>4. SmallFlush' /\ SmallEntries'
    BY <2>1, <2>2
  <2> QED
    BY <2>3, <2>4
<1>3. CASE WriteToDLQ
  <2>1. dlq' \in Seq(SUBSET Events) /\ SmallEntries'
    <3>1. CASE DLQ
      <4>1. dlq' = Append(dlq, flush) /\ dlq \in Seq(SUBSET Events) /\ flush \in SUBSET Events
        BY <1>3, <3>1 DEF WriteToDLQ
      <4>2. dlq' \in Seq(SUBSET Events)
        BY <4>1, Appended
      <4>3. \A i \in DOMAIN dlq' : dlq'[i] = flush \/ (i \in DOMAIN dlq /\ dlq'[i] = dlq[i])
        <5> HIDE DEF Sound, TypeOK, PC, SmallFlush, SmallEntries
        <5>1. \A i \in DOMAIN Append(dlq, flush) :
                 \/ Append(dlq, flush)[i] = flush
                 \/ i \in DOMAIN dlq /\ Append(dlq, flush)[i] = dlq[i]
          BY <4>1, Appended
        <5> QED
          BY <4>1, <5>1
      <4>4. SmallEntries'
        <5> SUFFICES ASSUME NEW i \in DOMAIN dlq'
                     PROVE  IsFiniteSet(dlq'[i]) /\ Cardinality(dlq'[i]) <= BatchSize
          OBVIOUS
        <5>1. CASE dlq'[i] = flush
          BY <5>1
        <5>2. CASE i \in DOMAIN dlq /\ dlq'[i] = dlq[i]
          BY <5>2
        <5> QED
          BY <4>3, <5>1, <5>2
      <4> QED
        BY <4>2, <4>4
    <3>2. CASE ~DLQ
      BY <1>3, <3>2 DEF WriteToDLQ
    <3> QED
      BY <3>1, <3>2
  <2> QED
    BY <1>3, <2>1 DEF WriteToDLQ
<1>4. CASE SaveToPersistentBuffer
  <2>1. /\ SetToSeq(flush) \in Seq(Events)
        /\ Len(SetToSeq(flush)) = Cardinality(flush) /\ Cardinality(flush) \in Nat
    BY SequenceOf
  <2>2. \A n \in 1 .. Cardinality(flush) : SubSeq(SetToSeq(flush), 1, n) \in Seq(Events)
    BY <2>1
  <2>3. /\ Written(SetToSeq(flush)) \in Seq(Cells)
        /\ \A n \in 1 .. Cardinality(flush) : Written(SubSeq(SetToSeq(flush), 1, n)) \in Seq(Cells)
    BY <1>0, <2>1, <2>2, WrittenIs
  <2>4. buf' \in Seq(Cells) /\ offset' \in Nat /\ pc' \in PC
    BY <1>0, <1>4, <2>1, <2>3 DEF SaveToPersistentBuffer
  <2>5. flush' \in {flush, {}}
    BY <1>4 DEF SaveToPersistentBuffer
  <2> QED
    BY <1>4, <2>4, <2>5, NoFlush DEF SaveToPersistentBuffer, Cells
<1>5. CASE RetrySingly
  <2>1. PICK bad \in SUBSET flush :
          /\ received' = received \cup (flush \ bad)
          /\ flush' = bad
          /\ pc' \in {"running", "dlq"}
    BY <1>5 DEF RetrySingly
  <2>2. SmallFlush'
    <3>1. IsFiniteSet(bad) /\ Cardinality(bad) <= Cardinality(flush)
      BY FS_Subset
    <3>2. Cardinality(bad) \in Nat /\ Cardinality(flush) \in Nat
      BY <3>1, FS_CardinalityType
    <3> QED
      BY <2>1, <3>1, <3>2, ReplayAssumption
  <2> QED
    BY <1>5, <2>1, <2>2 DEF RetrySingly
<1> QED
  BY <1>1, <1>2, <1>3, <1>4, <1>5 DEF Running

LEMMA SoundStep ==
  ASSUME Sound, [Next]_vars
  PROVE  Sound'
<1> USE DEF Sound, TypeOK, PC, SmallFlush, SmallEntries, files, replay
<1>1. CASE Crash
  <2>1. pc' = "down" /\ flush' = {} /\ queue' = <<>> /\ anySent' = FALSE
    BY <1>1 DEF Crash
  <2>2. UNCHANGED <<fresh, round, buf, offset, dlq, received>>
    BY <1>1 DEF Crash
  <2>3. TypeOK'
    BY <2>1, <2>2, NoEntries
  <2>4. SmallFlush'
    BY <2>1, NoFlush
  <2>5. SmallEntries'
    BY <2>2
  <2> QED
    BY <2>3, <2>4, <2>5
<1>2. CASE UNCHANGED vars
  BY <1>2 DEF vars
<1> QED
  BY <1>1, <1>2, SoundStartup, SoundRunning DEF Next

(* Types: no crash or restart leaves a file or a position that the replay  *)
(* cannot read.                                                            *)
THEOREM SoundAlways == Spec => []Sound
<1> QED
  BY SoundInit, SoundStep, PTL DEF Spec

THEOREM TypeCorrect == Spec => []TypeOK
<1>1. Sound => TypeOK
  BY DEF Sound
<1> QED
  BY <1>1, SoundAlways, PTL

-----------------------------------------------------------------------------
(* Truncating the persistent buffer                                        *)

LEMMA SameLines ==
  ASSUME buf' = buf
  PROVE  ReadableLines' = ReadableLines
BY DEF ReadableLines, LineEnds, ScanEnd, TooLong, LineStart

(* What is in the queue before a POST is its payload or is left in it.     *)
LEMMA HeadOrTail ==
  ASSUME NEW S, NEW seq \in Seq(S), seq # <<>>, NEW k \in DOMAIN seq
  PROVE  \/ seq[k] = Head(seq)
         \/ \E j \in DOMAIN Tail(seq) : Tail(seq)[j] = seq[k]
<1>1. CASE k = 1
  BY <1>1
<1>2. CASE k # 1
  <2>1. k - 1 \in DOMAIN Tail(seq) /\ Tail(seq)[k - 1] = seq[k]
    BY <1>2
  <2> QED
    BY <2>1
<1> QED
  BY <1>1, <1>2

LEMMA BufferQueuedKept ==
  ASSUME Sound, BufferQueued, [Next]_vars
  PROVE  BufferQueued'
<1> SUFFICES ASSUME pc' = "replayBuffer", NEW i \in ReadableLines'
             PROVE  \/ buf'[i] \in received'
                    \/ \E k \in DOMAIN queue' : buf'[i] \in queue'[k]
  BY DEF BufferQueued
<1>0. buf \in Seq(Cells) /\ queue \in Seq(SUBSET Events)
  BY DEF Sound, TypeOK, Cells
<1>1. CASE StartBufferReplay
  <2>1. buf' = buf /\ queue' = BufferPosts
    BY <1>1 DEF StartBufferReplay, Goto
  <2>2. i \in ReadableLines
    BY <2>1, SameLines
  <2> QED
    BY <1>0, <2>1, <2>2, EveryLineIsPosted
<1>2. CASE ReplaySent
  <2>1. /\ pc = "replayBuffer" /\ buf' = buf
        /\ queue # <<>> /\ queue' = Tail(queue) /\ received' = received \cup Head(queue)
    BY <1>2 DEF ReplaySent, files
  <2>2. i \in ReadableLines
    BY <2>1, SameLines
  <2>3. CASE buf[i] \in received
    BY <2>1, <2>3
  <2>4. CASE \E k \in DOMAIN queue : buf[i] \in queue[k]
    <3>1. PICK k \in DOMAIN queue : buf[i] \in queue[k]
      BY <2>4
    <3>2. \/ queue[k] = Head(queue)
          \/ \E j \in DOMAIN Tail(queue) : Tail(queue)[j] = queue[k]
      BY <1>0, <2>1, HeadOrTail
    <3> QED
      BY <2>1, <3>1, <3>2
  <2> QED
    BY <2>1, <2>2, <2>3, <2>4 DEF BufferQueued
<1>3. CASE UNCHANGED vars
  <2>1. buf' = buf /\ queue' = queue /\ received' = received /\ pc' = pc
    BY <1>3 DEF vars, files, replay
  <2>2. i \in ReadableLines
    BY <2>1, SameLines
  <2> QED
    BY <2>1, <2>2 DEF BufferQueued
<1>4. CASE \/ Open \/ StartDLQReplay \/ ReplayFailed \/ EndBufferReplay \/ EndDLQReplay
           \/ Running \/ Crash
  <2>1. CASE ReplayFailed \/ Crash
    BY <2>1 DEF ReplayFailed, Crash
  <2>2. CASE Open \/ StartDLQReplay \/ EndBufferReplay \/ EndDLQReplay
    BY <2>2 DEF Open, StartDLQReplay, EndBufferReplay, EndDLQReplay, Goto
  <2>3. CASE FlushSent
    BY <2>3 DEF FlushSent
  <2>4. CASE FlushFails \/ WriteToDLQ
    BY <2>4 DEF FlushFails, WriteToDLQ, Goto
  <2>5. CASE SaveToPersistentBuffer
    BY <2>5 DEF SaveToPersistentBuffer, Goto
  <2>6. CASE RetrySingly
    BY <2>6 DEF RetrySingly, Goto
  <2> QED
    BY <1>4, <2>1, <2>2, <2>3, <2>4, <2>5, <2>6 DEF Running
<1> QED
  BY <1>1, <1>2, <1>3, <1>4 DEF Next, Startup

(* Only a save and the truncation change the persistent buffer.            *)
LEMMA BufferChanges ==
  ASSUME [Next]_vars
  PROVE  EndBufferReplay \/ SaveToPersistentBuffer \/ buf' = buf
BY DEF Next, vars, Startup, Running, Open, StartBufferReplay, StartDLQReplay, ReplaySent,
       ReplayFailed, EndDLQReplay, FlushSent, FlushFails, WriteToDLQ, RetrySingly, Crash, files

LEMMA Saves ==
  ASSUME Sound, SaveToPersistentBuffer
  PROVE  \/ buf' = buf /\ ~PersistentBuf
         \/ /\ PersistentBuf
            /\ \E cells \in Seq(Events) :
                 /\ buf' = Written(cells)
                 /\ \/ pc' = "down"
                    \/ offset' = offset + Len(cells)
<1>1. /\ SetToSeq(flush) \in Seq(Events)
      /\ Len(SetToSeq(flush)) = Cardinality(flush) /\ Cardinality(flush) \in Nat
  BY SequenceOf DEF Sound, SmallFlush, TypeOK
<1>2. \A n \in 1 .. Cardinality(flush) : SubSeq(SetToSeq(flush), 1, n) \in Seq(Events)
  BY <1>1
<1>3. CASE ~PersistentBuf
  BY <1>3 DEF SaveToPersistentBuffer
<1>4. CASE PersistentBuf
  <2>1. CASE buf' = Written(SetToSeq(flush)) /\ offset' = offset + Cardinality(flush)
    BY <1>1, <1>4, <2>1
  <2>2. CASE /\ \E n \in 1 .. Cardinality(flush) :
                  buf' = Written(SubSeq(SetToSeq(flush), 1, n))
             /\ pc' = "down"
    BY <1>2, <1>4, <2>2
  <2> QED
    BY <1>4, <2>1, <2>2 DEF SaveToPersistentBuffer, Goto
<1> QED
  BY <1>3, <1>4, ReplayAssumption

LEMMA SavesNotEmpty ==
  ASSUME Sound, SaveToPersistentBuffer, buf # <<>>
  PROVE  buf' # <<>>
<1>0. buf \in Seq(Cells) /\ offset \in Nat
  BY DEF Sound, TypeOK, Cells
<1>1. CASE buf' = buf
  BY <1>1
<1>2. ASSUME NEW cells \in Seq(Events), buf' = Written(cells)
      PROVE  buf' # <<>>
  <2>1. Written(cells) \in Seq(Cells) /\ Len(buf) <= Len(Written(cells))
    BY <1>0, WrittenIs
  <2>2. Len(buf) \in Nat /\ Len(buf) # 0
    BY <1>0
  <2> QED
    BY <1>2, <2>1, <2>2
<1> QED
  BY <1>1, <1>2, Saves

(* Whatever was in the persistent buffer and could be read has been        *)
(* received by the time replay truncates the file: no crash, failing flush *)
(* or earlier replay makes it drop a line that it read.                    *)
THEOREM ReadableAreSent == Spec => ReadableSentBeforeTruncation
<1>1. Init => BufferQueued
  BY DEF Init, BufferQueued
<1>2. Sound /\ BufferQueued /\ [Next]_vars => BufferQueued'
  BY BufferQueuedKept
<1>3. Sound /\ BufferQueued /\ [Next]_vars
        => [buf # <<>> /\ buf' = <<>> => \A i \in ReadableLines : buf[i] \in received]_vars
  <2> SUFFICES ASSUME Sound, BufferQueued, [Next]_vars, buf # <<>>, buf' = <<>>
               PROVE  \A i \in ReadableLines : buf[i] \in received
    OBVIOUS
  <2>1. EndBufferReplay
    BY BufferChanges, SavesNotEmpty
  <2>2. pc = "replayBuffer" /\ DOMAIN queue = {}
    BY <2>1, NoEntries DEF EndBufferReplay, Goto
  <2> QED
    BY <2>2 DEF BufferQueued
<1> QED
  BY <1>1, <1>2, <1>3, SoundAlways, PTL DEF Spec, ReadableSentBeforeTruncation

-----------------------------------------------------------------------------
(* Truncating the DLQ                                                      *)

LEMMA EveryEntryIsPosted ==
  ASSUME Sound, BatchSize <= ScanLimit
  PROVE  DLQPosts = dlq
<1>1. \A i \in DOMAIN dlq : ~(Cardinality(dlq[i]) > ScanLimit)
  <2> TAKE i \in DOMAIN dlq
  <2>1. IsFiniteSet(dlq[i]) /\ Cardinality(dlq[i]) <= BatchSize
    BY DEF Sound, SmallEntries
  <2>2. Cardinality(dlq[i]) \in Nat
    BY <2>1, FS_CardinalityType
  <2> QED
    BY <2>1, <2>2, ReplayAssumption
<1> QED
  BY <1>1 DEF DLQPosts

LEMMA DLQQueuedKept ==
  ASSUME Sound, DLQQueued, [Next]_vars, BatchSize <= ScanLimit
  PROVE  DLQQueued'
<1> SUFFICES ASSUME pc' = "replayDLQ", NEW i \in DOMAIN dlq'
             PROVE  \/ dlq'[i] \subseteq received'
                    \/ \E k \in DOMAIN queue' : queue'[k] = dlq'[i]
  BY DEF DLQQueued
<1>0. queue \in Seq(SUBSET Events)
  BY DEF Sound, TypeOK
<1>1. CASE StartDLQReplay
  <2>1. dlq' = dlq /\ queue' = dlq
    BY <1>1, EveryEntryIsPosted DEF StartDLQReplay, Goto, files
  <2> QED
    BY <2>1
<1>2. CASE ReplaySent
  <2>1. /\ pc = "replayDLQ" /\ dlq' = dlq
        /\ queue # <<>> /\ queue' = Tail(queue) /\ received' = received \cup Head(queue)
    BY <1>2 DEF ReplaySent, files
  <2>2. CASE dlq[i] \subseteq received
    BY <2>1, <2>2
  <2>3. CASE \E k \in DOMAIN queue : queue[k] = dlq[i]
    <3>1. PICK k \in DOMAIN queue : queue[k] = dlq[i]
      BY <2>3
    <3>2. \/ queue[k] = Head(queue)
          \/ \E j \in DOMAIN Tail(queue) : Tail(queue)[j] = queue[k]
      BY <1>0, <2>1, HeadOrTail
    <3> QED
      BY <2>1, <3>1, <3>2
  <2> QED
    BY <2>1, <2>2, <2>3 DEF DLQQueued
<1>3. CASE UNCHANGED vars
  BY <1>3 DEF vars, files, replay, DLQQueued
<1>4. CASE \/ Open \/ StartBufferReplay \/ ReplayFailed \/ EndBufferReplay \/ EndDLQReplay
           \/ Running \/ Crash
  <2>1. CASE ReplayFailed \/ Crash
    BY <2>1 DEF ReplayFailed, Crash
  <2>2. CASE Open \/ StartBufferReplay \/ EndBufferReplay \/ EndDLQReplay
    BY <2>2 DEF Open, StartBufferReplay, EndBufferReplay, EndDLQReplay, Goto
  <2>3. CASE FlushSent
    BY <2>3 DEF FlushSent
  <2>4. CASE FlushFails \/ WriteToDLQ
    BY <2>4 DEF FlushFails, WriteToDLQ, Goto
  <2>5. CASE SaveToPersistentBuffer
    BY <2>5 DEF SaveToPersistentBuffer, Goto
  <2>6. CASE RetrySingly
    BY <2>6 DEF RetrySingly, Goto
  <2> QED
    BY <1>4, <2>1, <2>2, <2>3, <2>4, <2>5, <2>6 DEF Running
<1> QED
  BY <1>1, <1>2, <1>3, <1>4 DEF Next, Startup

(* Only an entry that is written and the truncation change the DLQ.        *)
LEMMA DLQChanges ==
  ASSUME [Next]_vars
  PROVE  EndDLQReplay \/ WriteToDLQ \/ dlq' = dlq
BY DEF Next, vars, Startup, Running, Open, StartBufferReplay, StartDLQReplay, ReplaySent,
       ReplayFailed, EndBufferReplay, FlushSent, FlushFails, SaveToPersistentBuffer,
       RetrySingly, Crash, files

(* Where the line of a full batch fits the scanner, all that the DLQ holds *)
(* has been received by the time replay truncates it, whatever crashed,    *)
(* failed or was retried before.                                           *)
THEOREM DLQIsSent ==
  ASSUME BatchSize <= ScanLimit
  PROVE  Spec => TruncatedDLQWasSent
<1>1. Init => DLQQueued
  BY DEF Init, DLQQueued
<1>2. Sound /\ DLQQueued /\ [Next]_vars => DLQQueued'
  BY DLQQueuedKept
<1>3. Sound /\ DLQQueued /\ [Next]_vars
        => [\A i \in DOMAIN dlq : dlq' = <<>> => dlq[i] \subseteq received]_vars
  <2> SUFFICES ASSUME Sound, DLQQueued, [Next]_vars, NEW i \in DOMAIN dlq, dlq' = <<>>
               PROVE  dlq[i] \subseteq received
    OBVIOUS
  <2>1. dlq' # dlq
    BY NoEntries
  <2>2. ~WriteToDLQ
    <3> SUFFICES ASSUME WriteToDLQ PROVE FALSE
      OBVIOUS
    <3>1. dlq' = Append(dlq, flush)
      BY <2>1 DEF WriteToDLQ
    <3> QED
      BY <3>1, AppendProperties DEF Sound, TypeOK
  <2>3. pc = "replayDLQ" /\ DOMAIN queue = {}
    BY <2>1, <2>2, DLQChanges, NoEntries DEF EndDLQReplay, Goto
  <2> QED
    BY <2>3 DEF DLQQueued
<1> QED
  BY <1>1, <1>2, <1>3, SoundAlways, PTL DEF Spec, TruncatedDLQWasSent

-----------------------------------------------------------------------------
(* Saving to the persistent buffer                                         *)

(* A line is too long when there is a gap before it.                       *)
LongAfterGap ==
  buf \in Seq(Cells) => \A i \in LineEnds : i \in TooLong <=> GapBefore(i - 1)

LEMMA LongLines == LongAfterGap
<1> SUFFICES ASSUME buf \in Seq(Cells), NEW i \in LineEnds
             PROVE  i \in TooLong <=> GapBefore(i - 1)
  BY DEF LongAfterGap
<1> DEFINE before == {0} \cup {j \in LineEnds : j < i}
<1>1. i \in Nat /\ i >= 1 /\ LineEnds \subseteq Nat
  BY LinesAreCells
<1>2. before \in SUBSET Nat /\ before # {} /\ \A j \in before : j <= i - 1
  <2>1. \A j \in before : j \in Nat /\ j <= i - 1
    BY <1>1
  <2>2. 0 \in before
    OBVIOUS
  <2> HIDE DEF before
  <2> QED
    BY <2>1, <2>2
<1>3. Max(before) \in before /\ \A j \in before : j <= Max(before)
  <2>1. i - 1 \in Nat
    BY <1>1
  <2> HIDE DEF before
  <2> QED
    BY <1>2, <2>1, MaxOf
<1>4. LineStart(i) = 1 + Max(before)
  BY DEF LineStart
<1>5. i \in TooLong <=> i - Max(before) > ScanLimit
  BY <1>1, <1>2, <1>3, <1>4, ReplayAssumption DEF TooLong
<1>6. GapBefore(i - 1) <=> \A j \in before : i - 1 - j >= ScanLimit
  BY <1>1 DEF GapBefore
<1> HIDE DEF before
<1>7. Max(before) \in Nat
  BY <1>2, <1>3
<1>8. ASSUME i - Max(before) > ScanLimit, NEW j \in before
      PROVE  i - 1 - j >= ScanLimit
  <2>1. j \in Nat /\ j <= Max(before)
    BY <1>2, <1>3
  <2> QED
    BY <1>1, <1>7, <1>8, <2>1, ReplayAssumption
<1>9. ASSUME i - 1 - Max(before) >= ScanLimit
      PROVE  i - Max(before) > ScanLimit
  BY <1>1, <1>7, <1>9, ReplayAssumption
<1> QED
  BY <1>3, <1>5, <1>6, <1>8, <1>9

LEMMA LongLinesNext == LongAfterGap'
BY LongLines, PTL

ReachableBeforeLong ==
  buf \in Seq(Cells) =>
    \A i \in LineEnds : i \in Reachable <=> \A j \in TooLong : i < j

LEMMA ReachableLines == ReachableBeforeLong
<1> SUFFICES ASSUME buf \in Seq(Cells), NEW i \in LineEnds
             PROVE  i \in Reachable <=> \A j \in TooLong : i < j
  BY DEF ReachableBeforeLong
<1>1. TooLong \in SUBSET Nat /\ i \in 1 .. Len(buf) /\ Len(buf) \in Nat
  BY LinesAreCells DEF TooLong
<1>2. CASE TooLong = {}
  BY <1>1, <1>2 DEF Reachable, ScanEnd
<1>3. CASE TooLong # {}
  <2>1. Min(TooLong) \in TooLong /\ \A j \in TooLong : Min(TooLong) <= j
    BY <1>1, <1>3, MinOf
  <2>2. i \in Reachable <=> i < Min(TooLong)
    BY <1>3 DEF Reachable, ScanEnd
  <2>3. \A j \in TooLong : j \in Nat
    BY <1>1
  <2>4. i \in Nat
    BY <1>1
  <2> QED
    BY <2>1, <2>2, <2>3, <2>4
<1> QED
  BY <1>2, <1>3

LEMMA ReachableLinesNext == ReachableBeforeLong'
BY ReachableLines, PTL

(* Behind a gap no line is reachable: the first one there is too long.     *)
LEMMA NothingBehindGap ==
  ASSUME buf \in Seq(Cells), offset \in Nat, GapBefore(offset),
         NEW i \in LineEnds, i > offset
  PROVE  \E j \in TooLong : j <= i
<1> DEFINE behind == {j \in LineEnds : j > offset}
<1>1. LineEnds \subseteq Nat
  BY LinesAreCells
<1>2. PICK k \in behind : \A j \in behind : k <= j
  BY <1>1, MinOf
<1>3. GapBefore(k - 1)
  <2> SUFFICES ASSUME NEW j \in LineEnds \cup {0}, j <= k - 1
               PROVE  k - 1 - j >= ScanLimit
    BY DEF GapBefore
  <2>1. j <= offset
    BY <1>1, <1>2
  <2>2. offset - j >= ScanLimit
    BY <2>1 DEF GapBefore
  <2> QED
    BY <1>1, <1>2, <2>2, ReplayAssumption
<1> QED
  BY <1>2, <1>3, LongLines DEF LongAfterGap

(* A scan that stops at a line too long stops with a gap before it.        *)
LEMMA ScanStopsInGap ==
  ASSUME buf \in Seq(Cells), TooLong # {}
  PROVE  GapBefore(ScanOffset)
<1> DEFINE i == Min(TooLong)
           before == {0} \cup {j \in LineEnds : j < i}
<1>1. TooLong \in SUBSET Nat /\ TooLong \subseteq LineEnds /\ LineEnds \subseteq Nat
  BY LinesAreCells DEF TooLong
<1>2. i \in TooLong
  BY <1>1, MinOf
<1> HIDE DEF i
<1>3. before \in SUBSET Nat /\ before # {} /\ \A j \in before : j <= i - 1
  <2>1. \A j \in before : j \in Nat /\ j <= i - 1
    BY <1>1, <1>2, LinesAreCells
  <2>2. 0 \in before
    OBVIOUS
  <2> HIDE DEF before
  <2> QED
    BY <2>1, <2>2
<1>4. Max(before) \in before /\ \A j \in before : j <= Max(before)
  <2>1. i - 1 \in Nat
    BY <1>1, <1>2, LinesAreCells
  <2> HIDE DEF before
  <2> QED
    BY <1>3, <2>1, MaxOf
<1>5. ScanOffset = Max(before) + ScanLimit /\ i - Max(before) > ScanLimit
  <2>1. LineStart(i) = 1 + Max(before)
    BY DEF LineStart
  <2>2. ScanOffset = LineStart(i) - 1 + ScanLimit
    BY DEF ScanOffset, i
  <2>3. i - LineStart(i) + 1 > ScanLimit
    BY <1>2 DEF TooLong
  <2>4. Max(before) \in Nat /\ i \in Nat
    BY <1>1, <1>2, <1>3, <1>4
  <2> HIDE DEF before
  <2> QED
    BY <2>1, <2>2, <2>3, <2>4, ReplayAssumption
<1> SUFFICES ASSUME NEW j \in LineEnds \cup {0}, j <= ScanOffset
             PROVE  ScanOffset - j >= ScanLimit
  BY DEF GapBefore
<1>6. Max(before) \in Nat /\ i \in Nat /\ j \in Nat
  BY <1>1, <1>2, <1>3, <1>4
<1>7. j < i
  BY <1>5, <1>6, ReplayAssumption
<1>8. j <= Max(before)
  BY <1>4, <1>7
<1> HIDE DEF before
<1> QED
  BY <1>5, <1>6, <1>8, ReplayAssumption

(* What a save at the offset does to the lines.                            *)
LEMMA LinesAfterSave ==
  ASSUME buf \in Seq(Cells), offset \in Nat,
         NEW cells \in Seq(Events), buf' = Written(cells)
  PROVE  /\ buf' \in Seq(Cells)
         /\ LineEnds' = LineEnds \cup (offset + 1 .. offset + Len(cells))
         /\ \A i \in LineEnds : i <= offset => buf'[i] = buf[i]
         /\ \A o \in Nat : o <= offset => (GapBefore(o)' <=> GapBefore(o))
         /\ \A i \in LineEnds : i <= offset => (i \in TooLong' <=> i \in TooLong)
<1> DEFINE new == offset + 1 .. offset + Len(cells)
<1>1. buf' \in Seq(Cells)
  BY WrittenIs
<1>2. LineEnds' = LineEnds \cup new
  <2>1. NUL \notin Events
    BY ReplayAssumption
  <2>2. \A i \in DOMAIN buf : i \notin new => i \in DOMAIN buf' /\ buf'[i] = buf[i]
    BY WrittenIs
  <2>3. \A i \in DOMAIN buf' :
          /\ i \in new => buf'[i] \in Events
          /\ i \notin new /\ i \notin DOMAIN buf => buf'[i] = NUL
    BY WrittenIs
  <2>4. new \subseteq DOMAIN buf'
    BY WrittenIs
  <2> HIDE DEF new
  <2> QED
    BY <2>1, <2>2, <2>3, <2>4 DEF LineEnds
<1>3. LineEnds \subseteq DOMAIN buf /\ LineEnds \subseteq Nat
  BY LinesAreCells DEF LineEnds
<1>4. ASSUME NEW i \in LineEnds, i <= offset
      PROVE  buf'[i] = buf[i]
  BY <1>3, <1>4, WrittenIs
<1>5. \A j \in Nat : j <= offset => (j \in LineEnds' <=> j \in LineEnds)
  BY <1>2
<1>6. ASSUME NEW o \in Nat, o <= offset
      PROVE  GapBefore(o)' <=> GapBefore(o)
  <2>1. LineEnds' \subseteq Nat
    BY <1>2, <1>3
  <2>2. \A j \in Nat : j <= o => (j \in LineEnds' <=> j \in LineEnds)
    BY <1>5, <1>6
  <2> QED
    BY <1>3, <2>1, <2>2 DEF GapBefore
<1>7. ASSUME NEW i \in LineEnds, i <= offset
      PROVE  i \in TooLong' <=> i \in TooLong
  <2>1. i - 1 \in Nat /\ i - 1 <= offset /\ i \in LineEnds'
    BY <1>2, <1>7, LinesAreCells
  <2>2. i \in TooLong <=> GapBefore(i - 1)
    BY LongLines DEF LongAfterGap
  <2>3. i \in TooLong' <=> GapBefore(i - 1)'
    BY <1>1, <2>1, LongLinesNext DEF LongAfterGap
  <2> QED
    BY <1>6, <2>1, <2>2, <2>3
<1> QED
  BY <1>1, <1>2, <1>4, <1>6, <1>7

LEMMA BehindReachKept ==
  ASSUME Sound, BehindReach, [Next]_vars
  PROVE  BehindReach'
<1>0. buf \in Seq(Cells) /\ offset \in Nat
  BY DEF Sound, TypeOK, Cells
<1>1. CASE StartBufferReplay
  <2>1. buf' = buf /\ (PersistentBuf => offset' = ScanOffset)
    BY <1>1 DEF StartBufferReplay
  <2>2. CASE TooLong = {}
    <3>1. ScanOffset = Len(buf) /\ LineEnds \subseteq 1 .. Len(buf)
      BY <1>0, <2>2, Scans, LinesAreCells
    <3> QED
      BY <2>1, <3>1 DEF BehindReach, LineEnds
  <2>3. CASE TooLong # {}
    <3>1. GapBefore(ScanOffset)
      BY <1>0, <2>3, ScanStopsInGap
    <3> QED
      BY <2>1, <3>1 DEF BehindReach, LineEnds, GapBefore
  <2> QED
    BY <2>2, <2>3
<1>2. CASE EndBufferReplay
  <2>1. buf' \in {<<>>, buf} /\ offset' = offset /\ pc = "replayBuffer"
    BY <1>2 DEF EndBufferReplay, Goto
  <2>2. CASE buf' = <<>>
    BY <2>2 DEF BehindReach, LineEnds
  <2>3. CASE buf' = buf
    BY <2>1, <2>3 DEF BehindReach, LineEnds, TooLong, LineStart, GapBefore
  <2> QED
    BY <2>1, <2>2, <2>3
<1>3. CASE SaveToPersistentBuffer
  <2>1. pc = "save"
    BY <1>3 DEF SaveToPersistentBuffer, Goto
  <2>2. CASE buf' = buf /\ ~PersistentBuf
    BY <2>2 DEF BehindReach
  <2>3. ASSUME PersistentBuf, NEW cells \in Seq(Events), buf' = Written(cells),
               offset' = offset + Len(cells)
        PROVE  BehindReach'
    <3>0. PICK o \in Nat : o = offset
      BY <1>0
    <3> SUFFICES ASSUME NEW i \in LineEnds', i > offset'
                 PROVE  \/ offset' = o /\ GapBefore(o)'
                        \/ \E j \in TooLong' : j <= offset'
      BY <2>3 DEF BehindReach, GapBefore
    <3>1. Len(cells) \in Nat /\ offset' = o + Len(cells)
      BY <2>3, <3>0
    <3>2. LineEnds' = LineEnds \cup (o + 1 .. o + Len(cells))
      BY <1>0, <2>3, <3>0, LinesAfterSave
    <3>3. i \in LineEnds /\ i > o
      BY <3>0, <3>1, <3>2, <1>0, LinesAreCells
    <3>4. CASE GapBefore(o)
      <4>1. GapBefore(o)'
        BY <1>0, <2>3, <3>0, <3>4, LinesAfterSave
      <4>2. CASE Len(cells) = 0
        BY <3>0, <3>1, <4>1, <4>2
      <4>3. CASE Len(cells) # 0
        <5>1. o + 1 \in LineEnds' /\ o + 1 <= offset'
          BY <3>0, <3>1, <3>2, <4>3
        <5>2. buf' \in Seq(Cells)
          BY <1>0, <2>3, LinesAfterSave
        <5>3. (o + 1) - 1 = o
          BY <3>0
        <5>4. \A k \in LineEnds' : k \in TooLong' <=> GapBefore(k - 1)'
          BY <5>2, LongLinesNext DEF LongAfterGap
        <5>5. GapBefore((o + 1) - 1)'
          BY <4>1, <5>3 DEF GapBefore
        <5> QED
          BY <5>1, <5>4, <5>5
      <4> QED
        BY <4>2, <4>3
    <3>5. CASE \E j \in TooLong : j <= o
      <4>1. PICK j \in TooLong : j <= o
        BY <3>5
      <4>2. j \in LineEnds /\ j \in Nat
        BY <1>0, LinesAreCells DEF TooLong
      <4>3. j \in TooLong'
        BY <1>0, <2>3, <3>0, <4>1, <4>2, LinesAfterSave
      <4> QED
        BY <3>0, <3>1, <4>1, <4>2, <4>3
    <3>6. GapBefore(offset) => GapBefore(o)
      BY <3>0
    <3> QED
      BY <2>1, <2>3, <3>0, <3>3, <3>4, <3>5, <3>6 DEF BehindReach
  <2>4. CASE PersistentBuf /\ pc' = "down"
    BY <2>4 DEF BehindReach
  <2> QED
    BY <1>3, <2>2, <2>3, <2>4, Saves
<1>4. CASE Open
  BY <1>4 DEF Open, Goto, BehindReach
<1>5. CASE \/ StartDLQReplay \/ ReplaySent \/ ReplayFailed \/ EndDLQReplay
           \/ FlushSent \/ FlushFails \/ WriteToDLQ \/ RetrySingly \/ Crash
           \/ UNCHANGED vars
  <2>1. buf' = buf /\ offset' = offset
    BY <1>5 DEF StartDLQReplay, ReplaySent, ReplayFailed, EndDLQReplay, FlushSent,
                FlushFails, WriteToDLQ, RetrySingly, Crash, vars, files
  <2>2. pc' \notin {"down", "opened"} => pc \notin {"down", "opened"}
    BY <1>5 DEF StartDLQReplay, ReplaySent, ReplayFailed, EndDLQReplay, FlushSent,
                FlushFails, WriteToDLQ, RetrySingly, Crash, vars, Goto
  <2> QED
    BY <2>1, <2>2 DEF BehindReach, LineEnds, TooLong, LineStart, GapBefore
<1> QED
  BY <1>1, <1>2, <1>3, <1>4, <1>5 DEF Next, Startup, Running

(* A save to the persistent buffer leaves every line that the scanner gets *)
(* to, of this process or an earlier one, and leaves it within reach,      *)
(* although the file is opened at its start and not to append.             *)
THEOREM SavesKeepReach == Spec => SavesKeepReachableLines
<1>1. Init => BehindReach
  BY DEF Init, BehindReach
<1>2. Sound /\ BehindReach /\ [Next]_vars => BehindReach'
  BY BehindReachKept
<1>3. Sound /\ BehindReach /\ [Next]_vars
        => [buf' # <<>> => \A i \in Reachable :
                             i \in Reachable' /\ buf'[i] = buf[i]]_vars
  <2> SUFFICES ASSUME Sound, BehindReach, [Next]_vars, buf' # <<>>,
                      NEW i \in Reachable
               PROVE  i \in Reachable' /\ buf'[i] = buf[i]
    OBVIOUS
  <2>0. buf \in Seq(Cells) /\ offset \in Nat /\ i \in LineEnds
    BY DEF Sound, TypeOK, Cells, Reachable
  <2>1. CASE buf' = buf
    BY <2>0, <2>1 DEF Reachable, ScanEnd, TooLong, LineStart, LineEnds
  <2>2. CASE buf' # buf
    <3>1. SaveToPersistentBuffer
      BY <2>2, BufferChanges DEF EndBufferReplay
    <3>2. PICK cells \in Seq(Events) : PersistentBuf /\ buf' = Written(cells)
      BY <2>2, <3>1, Saves
    <3>3. \A j \in TooLong : i < j
      BY <2>0, ReachableLines DEF ReachableBeforeLong
    <3>4. i \in Nat /\ TooLong \subseteq Nat /\ LineEnds \subseteq Nat
      BY <2>0, LinesAreCells DEF TooLong
    <3>5. i <= offset
      <4> SUFFICES ASSUME i > offset PROVE FALSE
        BY <2>0, <3>4
      <4>1. ~\E j \in TooLong : j <= offset
        BY <2>0, <3>3, <3>4
      <4>2. GapBefore(offset)
        BY <2>0, <3>1, <3>2, <4>1 DEF BehindReach, SaveToPersistentBuffer, Goto
      <4> QED
        BY <2>0, <3>3, <3>4, <4>2, NothingBehindGap
    <3>6. buf'[i] = buf[i] /\ i \in LineEnds' /\ buf' \in Seq(Cells)
      BY <2>0, <3>2, <3>5, LinesAfterSave
    <3>7. ASSUME NEW j \in TooLong'
          PROVE  i < j
      <4>1. j \in LineEnds' /\ j \in Nat
        <5>1. LineEnds' = LineEnds \cup (offset + 1 .. offset + Len(cells))
          BY <2>0, <3>2, LinesAfterSave
        <5>2. \A k \in offset + 1 .. offset + Len(cells) : k \in Nat
          BY <2>0
        <5>3. j \in LineEnds'
          BY DEF TooLong
        <5> QED
          BY <3>4, <5>1, <5>2, <5>3
      <4> SUFFICES ASSUME j <= i PROVE FALSE
        BY <3>4, <4>1
      <4>2. j <= offset
        BY <2>0, <3>4, <3>5, <4>1
      <4>3. j \in LineEnds
        BY <2>0, <3>2, <4>1, <4>2, LinesAfterSave
      <4>4. j \in TooLong
        BY <2>0, <3>2, <4>2, <4>3, LinesAfterSave
      <4> QED
        BY <3>3, <3>4, <4>1, <4>4
    <3> QED
      BY <3>6, <3>7, ReachableLinesNext DEF ReachableBeforeLong
  <2> QED
    BY <2>1, <2>2
<1> QED
  BY <1>1, <1>2, <1>3, SoundAlways, PTL DEF Spec, SavesKeepReachableLines

=============================================================================
