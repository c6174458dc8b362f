--------------------------- MODULE RouteStorageProofs ---------------------------
(***************************************************************************)
(* Theorems about the route files, for any sessions, interval, bound and   *)
(* faults: the layers always fit together (StoreInv), a record that an     *)
(* fsync covered stays where it is (DurableKept), and what a reader of a   *)
(* route file finds is whole records in order (FramingIntact), as many as  *)
(* the status screen says (CountAgrees).                                   *)
(*                                                                         *)
(* The second part rests on the first.  What is inductive there is a       *)
(* statement about the bytes the file would hold were the stdio buffer     *)
(* written out: they alternate between the two halves of records whose     *)
(* points increase and are no newer than the last one offered, and while   *)
(* the stream is open they end with a whole one.                           *)
(***************************************************************************)
EXTENDS RouteStorage, SequenceTheorems, TLAPS

\* d begins with all of c.
Begins(d, c) == Len(c) <= Len(d) /\ \A i \in 1..Len(c) : d[i] = c[i]

-----------------------------------------------------------------------------
(* Sequences of units.                                                      *)

\* A prefix of a file is a file, as long as asked for and equal unit by unit.
LEMMA PrefixFacts ==
  ASSUME NEW S, NEW u \in Seq(S), NEW k \in 0..Len(u)
  PROVE  /\ Prefix(u, k) \in Seq(S)
         /\ Len(Prefix(u, k)) = k
         /\ \A i \in 1..k : Prefix(u, k)[i] = u[i]
<1>1. \A i \in 1..k : u[i] \in S
  BY ElementOfSeq
<1> QED
  BY <1>1, SubSeqProperties DEF Prefix

\* What is left after a prefix, up to any later point, is a file too.
LEMMA MiddleType ==
  ASSUME NEW S, NEW u \in Seq(S), NEW k \in 0..Len(u), NEW n \in 0..Len(u)
  PROVE  SubSeq(u, k + 1, n) \in Seq(S)
<1>1. \A i \in k + 1..n : u[i] \in S
  BY ElementOfSeq
<1> QED
  BY <1>1, SubSeqProperties

\* Appending to a file keeps its beginning.
LEMMA ConcatBegins ==
  ASSUME NEW S, NEW c \in Seq(S), NEW d \in Seq(S)
  PROVE  c \o d \in Seq(S) /\ Begins(c \o d, c)
  BY ConcatProperties DEF Begins

\* The units of a record are units.
LEMMA RecordType ==
  ASSUME NEW p \in 1..MaxAppends
  PROVE  Record(p) \in Seq(Unit) /\ Len(Record(p)) = RecordUnits
  BY DEF Record, Unit, RecordUnits

-----------------------------------------------------------------------------
(* Whatever the C library does, the file only grows.                        *)

\* A write that stops short leaves a longer file and units in the buffer.
LEMMA ShortFacts ==
  ASSUME NEW data \in Seq(Unit), NEW u \in Seq(Unit), NEW end \in Nat, end <= Len(u),
         NEW w \in Short(data, u, end)
  PROVE  /\ w.data \in Seq(Unit) /\ Begins(w.data, data)
         /\ w.buf \in Seq(Unit) /\ w.res = "torn"
<1>1. PICK k \in StopsAt(u) :
        \/ w = [data |-> data \o Prefix(u, k), buf |-> <<>>, res |-> "torn"]
        \/ w = [data |-> data \o Prefix(u, k), buf |-> SubSeq(u, k + 1, end), res |-> "torn"]
  BY DEF Short
<1>2. k \in 0..Len(u) /\ end \in 0..Len(u)
  BY LenProperties DEF StopsAt
<1>3. Prefix(u, k) \in Seq(Unit) /\ SubSeq(u, k + 1, end) \in Seq(Unit)
  BY <1>2, PrefixFacts, MiddleType
<1>4. data \o Prefix(u, k) \in Seq(Unit) /\ Begins(data \o Prefix(u, k), data)
  BY <1>3, ConcatBegins
<1> DEFINE longer == data \o Prefix(u, k)
           kept == SubSeq(u, k + 1, end)
<1>5. /\ longer \in Seq(Unit) /\ Begins(longer, data)
      /\ kept \in Seq(Unit) /\ <<>> \in Seq(Unit)
  BY <1>3, <1>4, EmptySeq
<1>6. \/ w = [data |-> longer, buf |-> <<>>, res |-> "torn"]
      \/ w = [data |-> longer, buf |-> kept, res |-> "torn"]
  BY <1>1
<1> HIDE DEF longer, kept
<1>7. w.data = longer /\ w.buf \in {<<>>, kept} /\ w.res = "torn"
  BY <1>6
<1> QED
  BY <1>5, <1>7

\* fwrite(): the file grows, and what is left in the buffer are units.
LEMMA WriteFacts ==
  ASSUME NEW data \in Seq(Unit), NEW b \in Seq(Unit), NEW rec \in Seq(Unit), Len(rec) = RecordUnits,
         NEW w \in WriteOutcomes(data, b, rec)
  PROVE  /\ w.data \in Seq(Unit) /\ Begins(w.data, data)
         /\ w.buf \in Seq(Unit)
<1> DEFINE all == b \o rec
<1>1. all \in Seq(Unit) /\ Len(all) - 1 \in Nat /\ Len(all) - 1 <= Len(all)
  BY ConcatProperties, LenProperties DEF RecordUnits
<1>2. w \in Spilled(data, all) \/ w \in Short(data, all, Len(all) - 1)
  BY DEF WriteOutcomes
<1> HIDE DEF all
<1>3. CASE w \in Short(data, all, Len(all) - 1)
  BY <1>1, <1>3, ShortFacts
<1>4. CASE w \in Spilled(data, all)
  <2>1. PICK k \in 0..Len(all) :
          w = [data |-> data \o Prefix(all, k), buf |-> Rest(all, k), res |-> "ok"]
    BY <1>4 DEF Spilled
  <2>2. Prefix(all, k) \in Seq(Unit) /\ Rest(all, k) \in Seq(Unit)
    BY <1>1, PrefixFacts, MiddleType, LenProperties DEF Rest
  <2> QED
    BY <2>1, <2>2, ConcatBegins
<1> QED
  BY <1>2, <1>3, <1>4

\* Flushing everything.
LEMMA FlushedFacts ==
  ASSUME NEW data \in Seq(Unit), NEW b \in Seq(Unit)
  PROVE  /\ Flushed(data, b).data \in Seq(Unit) /\ Begins(Flushed(data, b).data, data)
         /\ Flushed(data, b).buf \in Seq(Unit)
  BY ConcatBegins, EmptySeq DEF Flushed

\* fflush(): the file grows.
LEMMA FlushFacts ==
  ASSUME NEW data \in Seq(Unit), NEW b \in Seq(Unit), NEW f \in FlushOutcomes(data, b)
  PROVE  /\ f.data \in Seq(Unit) /\ Begins(f.data, data)
         /\ f.buf \in Seq(Unit)
<1>1. Len(b) \in Nat /\ Len(b) <= Len(b)
  BY LenProperties
<1>2. f = Flushed(data, b) \/ f \in Short(data, b, Len(b))
  BY DEF FlushOutcomes
<1> QED
  BY <1>1, <1>2, ShortFacts, FlushedFacts

\* flush_and_sync_route_file(): the file grows, and what becomes durable is in it.
LEMMA SyncFacts ==
  ASSUME NEW data \in Seq(Unit), NEW b \in Seq(Unit), NEW y \in SyncOutcomes(data, b)
  PROVE  /\ y.data \in Seq(Unit) /\ Begins(y.data, data)
         /\ y.buf \in Seq(Unit)
         /\ \A dur \in Nat \cup {NoEntry} : dur <= Len(data) =>
              /\ DurableAfter(y, dur) \in Nat \cup {NoEntry}
              /\ DurableAfter(y, dur) <= Len(y.data)
              /\ dur <= DurableAfter(y, dur)
<1>1. /\ y.data \in Seq(Unit) /\ Begins(y.data, data)
      /\ y.buf \in Seq(Unit)
  <2>1. CASE y \in FlushOutcomes(data, b)
    BY <2>1, FlushFacts
  <2>2. CASE y = [Flushed(data, b) EXCEPT !.res = "unsynced"]
    <3>1. y.data = Flushed(data, b).data /\ y.buf = Flushed(data, b).buf
      BY <2>2 DEF Flushed
    <3> QED
      BY <3>1, FlushedFacts
  <2> QED
    BY <2>1, <2>2 DEF SyncOutcomes
<1>2. Len(y.data) \in Nat /\ Len(data) \in Nat
  BY <1>1, LenProperties
<1> QED
  BY <1>1, <1>2 DEF DurableAfter, Begins, NoEntry

\* fclose(): the file grows.
LEMMA CloseFacts ==
  ASSUME NEW data \in Seq(Unit), NEW b \in Seq(Unit), NEW d \in CloseOutcomes(data, b)
  PROVE  d \in Seq(Unit) /\ Begins(d, data)
  BY FlushFacts DEF CloseOutcomes

\* What is durable when a route is closed is in the file it leaves behind.
LEMMA CloseLoses ==
  ASSUME NEW data \in Seq(Unit), NEW b \in Seq(Unit), NEW y \in SyncOutcomes(data, b),
         NEW d \in CloseOutcomes(y.data, y.buf), NEW dur \in Nat \cup {NoEntry}, dur <= Len(data)
  PROVE  /\ d \in Seq(Unit) /\ Begins(d, data)
         /\ DurableAfter(y, dur) \in Nat \cup {NoEntry} /\ DurableAfter(y, dur) <= Len(d)
<1>1. /\ y.data \in Seq(Unit) /\ Begins(y.data, data) /\ y.buf \in Seq(Unit)
      /\ DurableAfter(y, dur) \in Nat \cup {NoEntry} /\ DurableAfter(y, dur) <= Len(y.data)
  BY SyncFacts
<1>2. d \in Seq(Unit) /\ Begins(d, y.data)
  BY <1>1, CloseFacts
<1>3. Len(d) \in Nat /\ Len(y.data) \in Nat /\ Len(data) \in Nat
  BY <1>1, <1>2, LenProperties
<1> QED
  BY <1>1, <1>2, <1>3 DEF Begins, NoEntry

-----------------------------------------------------------------------------
(* Records stay where they are when a file grows or loses its tail.         *)

\* Every whole record of the first dur units of c is the same record of d.
KeepsRecords(c, dur, d) ==
  \A i \in 1..(Smaller(dur, Len(c)) \div RecordUnits) :
    /\ i <= Len(d) \div RecordUnits
    /\ SubSeq(d, RecordUnits * (i - 1) + 1, RecordUnits * i)
         = SubSeq(c, RecordUnits * (i - 1) + 1, RecordUnits * i)

\* Halving an integer rounds down.
LEMMA Halves ==
  \A n \in Int : n \div 2 \in Int /\ 2 * (n \div 2) <= n /\ n <= 2 * (n \div 2) + 1
  OBVIOUS

\* Dropping the remainder leaves twice the half.
LEMMA DropOdd ==
  ASSUME NEW n \in Nat
  PROVE  n - (n % 2) = 2 * (n \div 2) /\ n - (n % 2) \in 0..n /\ n \div 2 \in Nat
<1>1. n % 2 = n - 2 * (n \div 2) /\ n % 2 \in 0..1
  OBVIOUS
<1> QED
  BY <1>1, Halves

\* Two contents that agree on their first n units, the durable records among them, agree
\* on every durable record.
LEMMA SameStartKeeps ==
  ASSUME NEW c \in Seq(Unit), NEW d \in Seq(Unit), NEW dur \in Nat \cup {NoEntry},
         NEW n \in Nat, n <= Len(c), n <= Len(d), \A i \in 1..n : d[i] = c[i],
         RecordUnits * (Smaller(dur, Len(c)) \div RecordUnits) <= n
  PROVE  KeepsRecords(c, dur, d)
<1>1. Len(c) \in Nat /\ Len(d) \in Nat
  BY LenProperties
<1> SUFFICES ASSUME NEW i \in 1..(Smaller(dur, Len(c)) \div RecordUnits)
             PROVE  /\ i <= Len(d) \div RecordUnits
                    /\ SubSeq(d, RecordUnits * (i - 1) + 1, RecordUnits * i)
                         = SubSeq(c, RecordUnits * (i - 1) + 1, RecordUnits * i)
  BY DEF KeepsRecords
<1>2. i \in Nat /\ i >= 1 /\ 2 * i <= n
  <2>1. Smaller(dur, Len(c)) \in Int
    BY <1>1 DEF Smaller, NoEntry
  <2>2. Smaller(dur, Len(c)) \div 2 \in Int /\ 2 * (Smaller(dur, Len(c)) \div 2) <= n
    BY <2>1, Halves DEF RecordUnits
  <2> QED
    BY <2>2 DEF RecordUnits
<1> DEFINE a == SubSeq(d, 2 * (i - 1) + 1, 2 * i)
           b == SubSeq(c, 2 * (i - 1) + 1, 2 * i)
<1>3. \A j \in 2 * (i - 1) + 1..2 * i : c[j] \in Unit /\ d[j] \in Unit /\ d[j] = c[j]
  BY <1>1, <1>2, ElementOfSeq
<1>4. /\ a \in Seq(Unit) /\ b \in Seq(Unit) /\ Len(a) = 2 /\ Len(b) = 2
      /\ \A j \in 1..2 : a[j] = d[2 * (i - 1) + j] /\ b[j] = c[2 * (i - 1) + j]
  <2>1. 2 * (i - 1) + 1 \in Int /\ 2 * i \in Int /\ 2 * i - (2 * (i - 1) + 1) + 1 = 2
    BY <1>2
  <2> QED
    BY <1>2, <1>3, <2>1, SubSeqProperties
<1>5. \A j \in 1..Len(a) : a[j] = b[j]
  <2> SUFFICES ASSUME NEW j \in 1..2 PROVE a[j] = b[j]
    BY <1>4
  <2>1. 2 * (i - 1) + j \in 2 * (i - 1) + 1..2 * i
    BY <1>2
  <2> HIDE DEF a, b
  <2> QED
    BY <1>3, <1>4, <2>1
<1>6. a = b
  <2> HIDE DEF a, b
  <2> QED
    BY <1>4, <1>5, SeqEqual
<1>7. i <= Len(d) \div 2
  BY <1>1, <1>2, Halves
<1> QED
  BY <1>6, <1>7 DEF RecordUnits

\* A file that grows keeps the records that were durable in it.
LEMMA GrownKeeps ==
  ASSUME NEW c \in Seq(Unit), NEW d \in Seq(Unit), NEW dur \in Nat \cup {NoEntry}, Begins(d, c)
  PROVE  KeepsRecords(c, dur, d)
<1>1. Len(c) \in Nat
  BY LenProperties
<1>2. Smaller(dur, Len(c)) \in Int /\ Smaller(dur, Len(c)) <= Len(c)
  BY <1>1 DEF Smaller, NoEntry
<1>3. Smaller(dur, Len(c)) \div 2 \in Int /\ RecordUnits * (Smaller(dur, Len(c)) \div RecordUnits) <= Len(c)
  BY <1>1, <1>2, Halves DEF RecordUnits
<1> QED
  <2>1. Len(c) <= Len(d) /\ \A i \in 1..Len(c) : d[i] = c[i]
    BY DEF Begins
  <2> QED
    BY <1>1, <1>3, <2>1, SameStartKeeps

\* So does a file cut behind its last durable record: a torn tail, a power cut.
LEMMA CutKeeps ==
  ASSUME NEW c \in Seq(Unit), NEW dur \in Nat \cup {NoEntry}, NEW k \in 0..Len(c),
         RecordUnits * (Smaller(dur, Len(c)) \div RecordUnits) <= k
  PROVE  KeepsRecords(c, dur, Prefix(c, k))
<1>1. /\ Prefix(c, k) \in Seq(Unit) /\ Len(Prefix(c, k)) = k
      /\ \A i \in 1..k : Prefix(c, k)[i] = c[i]
  BY PrefixFacts
<1>2. k \in Nat /\ k <= Len(c)
  BY LenProperties
<1> QED
  BY <1>1, <1>2, SameStartKeeps

\* DurableKept's step condition, file by file.
LEMMA KeepsEach ==
  ASSUME \A s \in exists \cap exists' : KeepsRecords(file[s], durable[s], file'[s])
  PROVE  KeepsDurableRecords
  BY DEF KeepsDurableRecords, KeepsRecords, DurableRecords, PointCount, ReadPoint


-----------------------------------------------------------------------------
(* Each operation keeps the invariant and the durable records.              *)

\* A step that replaces the contents of one file by d, which grew from it, makes
\* dur units of it durable and leaves the set of files alone.
LEMMA OneFileStep ==
  ASSUME StoreInv, NEW s \in exists, NEW d \in Seq(Unit), NEW dur \in Nat \cup {NoEntry},
         Begins(d, file[s]), dur <= Len(d),
         exists' = exists,
         file' = [file EXCEPT ![s] = d], durable' = [durable EXCEPT ![s] = dur]
  PROVE  /\ file' \in [Sessions -> Seq(Unit)] /\ durable' \in [Sessions -> Nat \cup {NoEntry}]
         /\ \A t \in Sessions : durable'[t] <= Len(file'[t])
         /\ \A t \in Sessions \ exists' : file'[t] = <<>> /\ durable'[t] = NoEntry
         /\ KeepsDurableRecords
<1> USE DEF StoreInv, TypeOK, StoreShape
<1>1. /\ file' \in [Sessions -> Seq(Unit)] /\ durable' \in [Sessions -> Nat \cup {NoEntry}]
      /\ \A t \in Sessions : durable'[t] <= Len(file'[t])
      /\ \A t \in Sessions \ exists' : file'[t] = <<>> /\ durable'[t] = NoEntry
  OBVIOUS
<1>2. ASSUME NEW t \in exists \cap exists'
      PROVE  KeepsRecords(file[t], durable[t], file'[t])
  <2>1. Begins(file'[t], file[t])
    <3>1. CASE t = s
      BY <3>1
    <3>2. CASE t # s
      <4>1. Len(file[t]) \in Nat
        BY LenProperties
      <4> QED
        BY <3>2, <4>1 DEF Begins
    <3> QED
      BY <3>1, <3>2
  <2> QED
    BY <1>1, <2>1, GrownKeeps
<1> QED
  BY <1>1, <1>2, KeepsEach

\* Files that do not change, or that are gone, keep their records.
LEMMA UntouchedKeeps ==
  ASSUME TypeOK, \A s \in exists \cap exists' : file'[s] = file[s]
  PROVE  KeepsDurableRecords
<1>1. ASSUME NEW s \in exists \cap exists'
      PROVE  KeepsRecords(file[s], durable[s], file'[s])
  <2>1. file[s] \in Seq(Unit) /\ durable[s] \in Nat \cup {NoEntry} /\ file'[s] = file[s]
    BY DEF TypeOK
  <2>2. Begins(file[s], file[s])
    BY <2>1, LenProperties DEF Begins
  <2> QED
    BY <2>1, <2>2, GrownKeeps
<1> QED
  BY <1>1, KeepsEach

\* create_route() keeps the invariant and the durable records.
LEMMA CreateStep ==
  ASSUME StoreInv, NEW s \in Sessions, NEW ok \in BOOLEAN, CreateRoute(s, ok)
  PROVE  StoreInv' /\ KeepsDurableRecords
<1> USE DEF StoreInv, TypeOK, StoreShape, CreateRoute, writer, NoEntry
<1>1. Interval \in 0..Interval
  BY BoundsAssumption
<1>2. file'[s] = <<>> /\ Len(<<>>) = 0 /\ <<>> \in Seq(Unit)
  BY EmptySeq
<1>3. TypeOK'
  <2>1. mounted' \in BOOLEAN
    BY Zenon
  <2>2. /\ file' \in [Sessions -> Seq(Unit)] /\ exists' \subseteq Sessions
        /\ appends' \in 0..MaxAppends /\ faulted' \subseteq Sessions
    BY <1>2
  <2>3. /\ durable' \in [Sessions -> Nat \cup {NoEntry}]
        /\ open' \in Sessions \cup {NoSession} /\ buf' \in Seq(Unit)
        /\ count' \in Nat /\ sinceSync' \in 0..Interval
    BY <1>1, <1>2
  <2> QED
    BY <2>1, <2>2, <2>3
<1>4. StoreShape'
  BY <1>2, SessionsAssumption
<1>5. \A t \in exists \cap exists' : file'[t] = file[t]
  OBVIOUS
<1> QED
  BY <1>3, <1>4, <1>5, UntouchedKeeps

\* So does resume_route(), which truncates a torn record.
LEMMA ResumeStep ==
  ASSUME StoreInv, NEW s \in Sessions, NEW ok \in BOOLEAN, ResumeRoute(s, ok)
  PROVE  StoreInv' /\ KeepsDurableRecords
<1> USE DEF StoreInv, TypeOK, StoreShape
<1> DEFINE k == Len(file[s]) - TornUnits(s)
<1>1. /\ Len(file[s]) \in Nat /\ k \in 0..Len(file[s])
      /\ k = RecordUnits * (Len(file[s]) \div RecordUnits)
  <2>1. Len(file[s]) \in Nat
    BY LenProperties
  <2> QED
    BY <2>1, DropOdd DEF TornUnits, RecordUnits
<1>2. /\ TruncatedFile(s) = Prefix(file[s], k)
      /\ TruncatedFile(s) \in Seq(Unit) /\ Len(TruncatedFile(s)) = k
  BY <1>1, PrefixFacts DEF TruncatedFile
<1>3. /\ s \in exists /\ exists' = exists
      /\ file' = [file EXCEPT ![s] = TruncatedFile(s)]
      /\ durable' = [durable EXCEPT ![s] = Smaller(durable[s], k)]
      /\ UNCHANGED <<mounted, appends, faulted>>
  BY <1>2 DEF ResumeRoute
<1> HIDE DEF k
<1>4. TypeOK'
  <2>1. k \div 2 \in Nat /\ Interval \in 0..Interval /\ <<>> \in Seq(Unit)
    BY <1>1, DropOdd, BoundsAssumption, EmptySeq
  <2>2. count' \in Nat /\ sinceSync' \in 0..Interval /\ buf' \in Seq(Unit)
        /\ open' \in Sessions \cup {NoSession}
    BY <1>2, <2>1 DEF ResumeRoute, writer, RecordUnits
  <2> QED
    BY <1>1, <1>2, <1>3, <2>2 DEF Smaller, NoEntry
<1>5. StoreShape'
  <2>1. open' # NoSession => open' \in exists'
    BY <1>3 DEF ResumeRoute, writer
  <2>2. open' = NoSession => buf' = <<>>
    BY DEF ResumeRoute, writer
  <2> QED
    BY <1>1, <1>2, <1>3, <2>1, <2>2 DEF Smaller, NoEntry
<1>6. ASSUME NEW t \in exists \cap exists'
      PROVE  KeepsRecords(file[t], durable[t], file'[t])
  <2>1. CASE t = s
    <3>1. /\ Smaller(durable[s], Len(file[s])) \in Int
          /\ Smaller(durable[s], Len(file[s])) <= Len(file[s])
      BY <1>1 DEF Smaller, NoEntry
    <3>2. RecordUnits * (Smaller(durable[s], Len(file[s])) \div RecordUnits) <= k
      BY <1>1, <3>1, Halves DEF RecordUnits
    <3> QED
      BY <1>1, <1>2, <1>3, <2>1, <3>2, CutKeeps
  <2>2. CASE t # s
    <3>1. file'[t] = file[t] /\ Begins(file[t], file[t])
      BY <1>3, <2>2, LenProperties DEF Begins
    <3> QED
      BY <3>1, GrownKeeps
  <2> QED
    BY <2>1, <2>2
<1> QED
  BY <1>4, <1>5, <1>6, KeepsEach

\* So does append_route_point(), whatever fwrite, fflush and fsync return.
LEMMA AppendStep ==
  ASSUME StoreInv, AppendRoutePoint
  PROVE  StoreInv' /\ KeepsDurableRecords
<1> USE DEF StoreInv, TypeOK, StoreShape
<1> DEFINE rec == Record(appends + 1)
<1>1. /\ open \in exists /\ open \in Sessions /\ file[open] \in Seq(Unit)
      /\ durable[open] \in Nat \cup {NoEntry} /\ durable[open] <= Len(file[open])
      /\ appends' \in 0..MaxAppends /\ 0 \in 0..Interval
      /\ UNCHANGED <<mounted, exists, open>>
  BY BoundsAssumption DEF AppendRoutePoint
<1>2. rec \in Seq(Unit) /\ Len(rec) = RecordUnits
  <2>1. appends + 1 \in 1..MaxAppends
    BY BoundsAssumption DEF AppendRoutePoint
  <2> QED
    BY <2>1, RecordType
<1> HIDE DEF rec
<1>3. PICK w \in WriteOutcomes(file[open], buf, rec) :
        /\ \/ /\ file' = [file EXCEPT ![open] = w.data] /\ buf' = w.buf
              /\ UNCHANGED <<durable, sinceSync>>
           \/ \E y \in SyncOutcomes(w.data, w.buf) :
                /\ file' = [file EXCEPT ![open] = y.data] /\ buf' = y.buf
                /\ durable' = [durable EXCEPT ![open] = DurableAfter(y, @)]
                /\ sinceSync' \in {0, sinceSync}
        /\ count' \in {count, count + 1}
        /\ faulted' \subseteq faulted \cup {open}
  BY DEF AppendRoutePoint, FaultedBy, rec
<1>4. w.data \in Seq(Unit) /\ Begins(w.data, file[open]) /\ w.buf \in Seq(Unit)
  BY <1>1, <1>2, WriteFacts
<1>5. Len(w.data) \in Nat /\ Len(file[open]) \in Nat /\ durable[open] <= Len(w.data)
  BY <1>1, <1>4, LenProperties DEF Begins, NoEntry
<1>6. \E d \in Seq(Unit), dur \in Nat \cup {NoEntry} :
        /\ Begins(d, file[open]) /\ dur <= Len(d)
        /\ file' = [file EXCEPT ![open] = d] /\ durable' = [durable EXCEPT ![open] = dur]
        /\ buf' \in Seq(Unit) /\ sinceSync' \in 0..Interval
  <2>1. CASE /\ file' = [file EXCEPT ![open] = w.data] /\ buf' = w.buf
             /\ UNCHANGED <<durable, sinceSync>>
    <3>1. durable' = [durable EXCEPT ![open] = durable[open]]
      BY <2>1
    <3> QED
      BY <1>1, <1>4, <1>5, <2>1, <3>1
  <2>2. CASE \E y \in SyncOutcomes(w.data, w.buf) :
               /\ file' = [file EXCEPT ![open] = y.data] /\ buf' = y.buf
               /\ durable' = [durable EXCEPT ![open] = DurableAfter(y, @)]
               /\ sinceSync' \in {0, sinceSync}
    <3>1. PICK y \in SyncOutcomes(w.data, w.buf) :
               /\ file' = [file EXCEPT ![open] = y.data] /\ buf' = y.buf
               /\ durable' = [durable EXCEPT ![open] = DurableAfter(y, durable[open])]
               /\ sinceSync' \in {0, sinceSync}
      BY <2>2
    <3>2. /\ y.data \in Seq(Unit) /\ Begins(y.data, w.data) /\ y.buf \in Seq(Unit)
          /\ DurableAfter(y, durable[open]) \in Nat \cup {NoEntry}
          /\ DurableAfter(y, durable[open]) <= Len(y.data)
      BY <1>1, <1>4, <1>5, SyncFacts
    <3>3. Begins(y.data, file[open])
      BY <1>4, <1>5, <3>2, LenProperties DEF Begins
    <3> QED
      BY <1>1, <3>1, <3>2, <3>3
  <2> QED
    BY <1>3, <2>1, <2>2
<1>7. count' \in Nat /\ faulted' \subseteq Sessions
  BY <1>1, <1>3
<1> QED
  BY <1>1, <1>6, <1>7, OneFileStep, SessionsAssumption

\* So does end_route(), flushed and synced or not.
LEMMA CloseStep ==
  ASSUME StoreInv, NEW saved \in BOOLEAN, CloseRoute(saved)
  PROVE  StoreInv' /\ KeepsDurableRecords
<1> USE DEF StoreInv, TypeOK, StoreShape
<1>1. /\ open \in exists /\ open \in Sessions /\ file[open] \in Seq(Unit)
      /\ durable[open] \in Nat \cup {NoEntry} /\ durable[open] <= Len(file[open])
      /\ Interval \in 0..Interval /\ <<>> \in Seq(Unit) /\ 0 \in Nat
      /\ UNCHANGED <<mounted, exists, appends>>
  BY BoundsAssumption, EmptySeq DEF CloseRoute
<1>2. PICK y \in SyncOutcomes(file[open], buf) :
      \E data \in CloseOutcomes(y.data, y.buf) :
        /\ file' = [file EXCEPT ![open] = data]
        /\ durable' = [durable EXCEPT ![open] = DurableAfter(y, durable[open])]
        /\ faulted' = faulted \cup FaultedBy(y)
  BY DEF CloseRoute
<1>3. PICK data \in CloseOutcomes(y.data, y.buf) :
        /\ file' = [file EXCEPT ![open] = data]
        /\ durable' = [durable EXCEPT ![open] = DurableAfter(y, durable[open])]
        /\ faulted' = faulted \cup FaultedBy(y)
  BY <1>2
<1>4. /\ data \in Seq(Unit) /\ Begins(data, file[open])
      /\ DurableAfter(y, durable[open]) \in Nat \cup {NoEntry}
      /\ DurableAfter(y, durable[open]) <= Len(data)
  BY <1>1, CloseLoses
<1>5. faulted' \subseteq Sessions
  BY <1>1, <1>3 DEF FaultedBy
<1>6. open' = NoSession /\ buf' = <<>> /\ count' = 0 /\ sinceSync' = Interval
  BY DEF CloseRoute, CloseWriter
<1> QED
  BY <1>1, <1>3, <1>4, <1>5, <1>6, OneFileStep, SessionsAssumption

\* So does delete_route(): the records of the other files stay.
LEMMA DeleteStep ==
  ASSUME StoreInv, NEW s \in Sessions \ {open}, DeleteRoute(s)
  PROVE  StoreInv' /\ KeepsDurableRecords
<1> USE DEF StoreInv, TypeOK, StoreShape, DeleteRoute, Unlinked, NoEntry
<1>1. <<>> \in Seq(Unit) /\ Len(<<>>) = 0
  BY EmptySeq
<1>2. TypeOK'
  <2>1. mounted' \in BOOLEAN
    BY Zenon
  <2> QED
    BY <1>1, <2>1
<1>3. StoreShape'
  BY <1>1
<1>4. \A t \in exists \cap exists' : file'[t] = file[t]
  OBVIOUS
<1> QED
  BY <1>2, <1>3, <1>4, UntouchedKeeps

\* So does clear_routes(), whichever files it manages to unlink.
LEMMA ClearStep ==
  ASSUME StoreInv, NEW gone \in SUBSET Sessions, ClearRoutes(gone)
  PROVE  StoreInv' /\ KeepsDurableRecords
<1> USE DEF StoreInv, TypeOK, StoreShape
<1>1. /\ <<>> \in Seq(Unit) /\ Len(<<>>) = 0 /\ Interval \in 0..Interval /\ 0 \in Nat
      /\ UNCHANGED <<mounted, appends>>
  BY EmptySeq, BoundsAssumption DEF ClearRoutes
<1>2. CASE open = NoSession
  <2>1. Unlinked(gone) /\ UNCHANGED writer
    BY <1>2 DEF ClearRoutes
  <2>2. TypeOK'
    BY <1>1, <2>1 DEF Unlinked, writer
  <2>3. StoreShape'
    BY <1>1, <1>2, <2>1 DEF Unlinked, writer, NoEntry
  <2>4. \A t \in exists \cap exists' : file'[t] = file[t]
    BY <2>1 DEF Unlinked
  <2> QED
    BY <2>2, <2>3, <2>4, UntouchedKeeps
<1>3. CASE open # NoSession
  <2>1. /\ open \in exists /\ open \in Sessions /\ file[open] \in Seq(Unit)
        /\ durable[open] \in Nat \cup {NoEntry} /\ durable[open] <= Len(file[open])
    BY <1>3
  <2> DEFINE Result(y, data) ==
          /\ file' = [s \in Sessions |-> IF s \in gone THEN <<>>
                                         ELSE IF s = open THEN data ELSE file[s]]
          /\ durable' = [s \in Sessions |-> IF s \in gone THEN NoEntry
                                         ELSE IF s = open THEN DurableAfter(y, durable[s])
                                         ELSE durable[s]]
          /\ faulted' = (faulted \cup FaultedBy(y)) \ gone
  <2>0. PICK y \in SyncOutcomes(file[open], buf) :
          \E data \in CloseOutcomes(y.data, y.buf) : Result(y, data)
    BY <1>3 DEF ClearRoutes
  <2>2. PICK data \in CloseOutcomes(y.data, y.buf) : Result(y, data)
    BY <2>0
  <2>3. /\ data \in Seq(Unit) /\ Begins(data, file[open])
        /\ DurableAfter(y, durable[open]) \in Nat \cup {NoEntry}
        /\ DurableAfter(y, durable[open]) <= Len(data)
    BY <2>1, CloseLoses
  <2>4. /\ open' = NoSession /\ buf' = <<>> /\ count' = 0 /\ sinceSync' = Interval
        /\ exists' = exists \ gone /\ faulted' \subseteq Sessions
    BY <1>3, <2>1, <2>2 DEF ClearRoutes, CloseWriter, FaultedBy
  <2>5. TypeOK'
    BY <1>1, <2>2, <2>3, <2>4
  <2>6. StoreShape'
    BY <1>1, <2>1, <2>2, <2>3, <2>4 DEF NoEntry
  <2>7. ASSUME NEW t \in exists \cap exists'
        PROVE  KeepsRecords(file[t], durable[t], file'[t])
    <3>1. file'[t] = IF t = open THEN data ELSE file[t]
      BY <2>2, <2>4
    <3>2. Begins(file'[t], file[t])
      BY <2>3, <3>1, LenProperties DEF Begins
    <3> QED
      BY <2>5, <3>2, GrownKeeps
  <2> QED
    BY <2>5, <2>6, <2>7, KeepsEach
<1> QED
  BY <1>2, <1>3

\* So does a power cut, which leaves at least the durable prefix of each file.
LEMMA PowerCutStep ==
  ASSUME StoreInv, PowerCut
  PROVE  StoreInv' /\ KeepsDurableRecords
<1> USE DEF StoreInv, TypeOK, StoreShape
<1>1. PICK gone \in SUBSET {s \in exists : durable[s] = NoEntry} :
      \E keep \in [Sessions -> 0..(MaxAppends * RecordUnits)] :
       /\ \A s \in Sessions : durable[s] <= keep[s] /\ keep[s] <= Len(file[s])
       /\ exists' = exists \ gone
       /\ faulted' = faulted \ gone
       /\ file' = [s \in Sessions |-> IF s \in gone THEN <<>> ELSE Prefix(file[s], keep[s])]
       /\ durable' = [s \in Sessions |-> IF s \in exists \ gone THEN keep[s] ELSE NoEntry]
  BY DEF PowerCut
<1>2. PICK keep \in [Sessions -> 0..(MaxAppends * RecordUnits)] :
       /\ \A s \in Sessions : durable[s] <= keep[s] /\ keep[s] <= Len(file[s])
       /\ exists' = exists \ gone
       /\ faulted' = faulted \ gone
       /\ file' = [s \in Sessions |-> IF s \in gone THEN <<>> ELSE Prefix(file[s], keep[s])]
       /\ durable' = [s \in Sessions |-> IF s \in exists \ gone THEN keep[s] ELSE NoEntry]
  BY <1>1
<1>3. \A s \in Sessions : keep[s] \in 0..Len(file[s]) /\ Len(file[s]) \in Nat /\ keep[s] \in Nat
  <2>1. MaxAppends * RecordUnits \in Nat
    BY BoundsAssumption DEF RecordUnits
  <2> QED
    BY <1>2, <2>1, LenProperties
<1>4. \A s \in Sessions : /\ Prefix(file[s], keep[s]) \in Seq(Unit)
                          /\ Len(Prefix(file[s], keep[s])) = keep[s]
  BY <1>3, PrefixFacts
<1>5. /\ <<>> \in Seq(Unit) /\ Len(<<>>) = 0 /\ Interval \in 0..Interval /\ 0 \in Nat
      /\ open' = NoSession /\ buf' = <<>> /\ count' = 0 /\ sinceSync' = Interval
      /\ appends' = appends
  BY EmptySeq, BoundsAssumption, SessionsAssumption DEF PowerCut, CloseWriter
<1>6. TypeOK'
  <2>1. mounted' \in BOOLEAN
    BY Zenon DEF PowerCut
  <2> QED
    BY <1>2, <1>3, <1>4, <1>5, <2>1
<1>7. StoreShape'
  <2>1. \A s \in Sessions : durable'[s] <= Len(file'[s])
    BY <1>2, <1>3, <1>4, <1>5 DEF NoEntry
  <2>2. ASSUME NEW s \in Sessions \ exists'
        PROVE  file'[s] = <<>> /\ durable'[s] = NoEntry
    <3>1. CASE s \in gone
      BY <1>2, <3>1
    <3>2. CASE s \notin exists
      <4>1. file[s] = <<>> /\ keep[s] = 0
        BY <1>3, <1>5, <3>2
      <4>2. Len(Prefix(file[s], keep[s])) = 0
        BY <1>4, <4>1
      <4> QED
        BY <1>2, <1>4, <3>2, <4>2, EmptySeq
    <3> QED
      BY <1>2, <3>1, <3>2
  <2> QED
    BY <1>5, <2>1, <2>2
<1>8. ASSUME NEW s \in exists \cap exists'
      PROVE  KeepsRecords(file[s], durable[s], file'[s])
  <2>1. file'[s] = Prefix(file[s], keep[s]) /\ durable[s] <= keep[s]
    BY <1>2
  <2>2. /\ Smaller(durable[s], Len(file[s])) \in Int
        /\ Smaller(durable[s], Len(file[s])) <= keep[s]
    BY <1>3, <2>1 DEF Smaller, NoEntry
  <2>3. RecordUnits * (Smaller(durable[s], Len(file[s])) \div RecordUnits) <= keep[s]
    BY <1>3, <2>2, Halves DEF RecordUnits
  <2> QED
    BY <1>3, <2>1, <2>3, CutKeeps
<1> QED
  BY <1>6, <1>7, <1>8, KeepsEach

-----------------------------------------------------------------------------
\* Every step of the specification, stuttering included.
LEMMA StoreStep ==
  ASSUME StoreInv, [StoreNext]_storeVars
  PROVE  StoreInv' /\ KeepsDurableRecords
<1>1. CASE \E s \in Sessions, ok \in BOOLEAN : CreateRoute(s, ok) \/ ResumeRoute(s, ok)
  BY <1>1, CreateStep, ResumeStep
<1>2. CASE AppendRoutePoint
  BY <1>2, AppendStep
<1>3. CASE \E saved \in BOOLEAN : CloseRoute(saved)
  BY <1>3, CloseStep
<1>4. CASE \E s \in Sessions \ {open} : DeleteRoute(s)
  BY <1>4, DeleteStep
<1>5. CASE \E gone \in SUBSET Sessions : ClearRoutes(gone)
  BY <1>5, ClearStep
<1>6. CASE Tick
  <2>1. sinceSync' \in 0..Interval
    BY <1>6, BoundsAssumption DEF Tick, Smaller, StoreInv, TypeOK
  <2>2. UNCHANGED <<mounted, exists, file, durable, open, buf, count, appends, faulted>>
    BY <1>6 DEF Tick
  <2>3. StoreInv'
    BY <2>1, <2>2 DEF StoreInv, TypeOK, StoreShape
  <2> QED
    BY <2>2, <2>3, UntouchedKeeps DEF StoreInv
<1>7. CASE PowerCut
  BY <1>7, PowerCutStep
<1>8. CASE UNCHANGED storeVars
  <2>1. StoreInv'
    BY <1>8 DEF StoreInv, TypeOK, StoreShape, storeVars
  <2> QED
    BY <1>8, <2>1, UntouchedKeeps DEF StoreInv, storeVars
<1> QED
  BY <1>1, <1>2, <1>3, <1>4, <1>5, <1>6, <1>7, <1>8 DEF StoreNext

\* init_route opens on an empty or a mounted store: the invariant holds at once.
LEMMA InitStore == StoreInit => StoreInv
<1> SUFFICES ASSUME StoreInit PROVE StoreInv
  OBVIOUS
<1>1. <<>> \in Seq(Unit) /\ Len(<<>>) = 0 /\ Interval \in 0..Interval /\ 0 \in 0..MaxAppends
  BY EmptySeq, BoundsAssumption
<1>2. mounted \in BOOLEAN
  BY Zenon DEF StoreInit
<1> QED
  BY <1>1, <1>2 DEF StoreInit, StoreInv, TypeOK, StoreShape, NoEntry

\* The three layers of a route always fit together: what is durable is in the file,
\* and bytes are held back only by the stream of a file that exists.
THEOREM StoreSafe == StoreSpec => []StoreInv
<1>1. StoreInv /\ [StoreNext]_storeVars => StoreInv'
  BY StoreStep
<1> QED
  BY InitStore, <1>1, PTL DEF StoreSpec

\* A record that an fsync covered is never lost, moved or changed while its file
\* exists, whatever fwrite, fflush, fsync, resume_route and power cuts do.
THEOREM DurableRecordsKept == StoreSpec => DurableKept
<1>1. StoreInv /\ [StoreNext]_storeVars => KeepsDurableRecords
  BY StoreStep
<1>2. KeepsDurableRecords => [KeepsDurableRecords]_storeVars
  OBVIOUS
<1> QED
  BY <1>1, <1>2, StoreSafe, PTL DEF StoreSpec, DurableKept

-----------------------------------------------------------------------------
(* What a reader of a route file finds.                                     *)

\* u is the beginning of a sequence of whole records, in increasing order.
Clean(u) ==
  \A k \in Nat :
    /\ 2 * k + 1 <= Len(u) =>
         /\ u[2 * k + 1][2] = 1
         /\ k > 0 => u[2 * k][1] < u[2 * k + 1][1]
    /\ 2 * k + 2 <= Len(u) => u[2 * k + 2] = <<u[2 * k + 1][1], 2>>

\* No point of u is newer than p.
NoNewer(u, p) == \A i \in 1..Len(u) : u[i][1] <= p

Written == file[open] \o buf
FramingInv ==
  \A s \in exists \ faulted :
    IF s = open
    THEN Clean(Written) /\ NoNewer(Written, appends) /\ Len(Written) = 2 * count
    ELSE Clean(file[s]) /\ NoNewer(file[s], appends)

-----------------------------------------------------------------------------
(* Sequences of records.                                                    *)

\* What Clean says of one record.
LEMMA CleanAt ==
  ASSUME NEW u, Clean(u), NEW k \in Nat
  PROVE  /\ 2 * k + 1 <= Len(u) =>
              /\ u[2 * k + 1][2] = 1
              /\ k > 0 => u[2 * k][1] < u[2 * k + 1][1]
         /\ 2 * k + 2 <= Len(u) => u[2 * k + 2] = <<u[2 * k + 1][1], 2>>
BY Zenon DEF Clean

\* The beginning of such a sequence is one.
LEMMA CleanBeginning ==
  ASSUME NEW c \in Seq(Unit), NEW d \in Seq(Unit), Begins(d, c), NEW p \in Nat,
         Clean(d), NoNewer(d, p)
  PROVE  Clean(c) /\ NoNewer(c, p)
<1>1. Len(c) \in Nat /\ Len(d) \in Nat /\ Len(c) <= Len(d)
  BY LenProperties DEF Begins
<1>2. \A i \in 1..Len(c) : d[i] = c[i]
  BY DEF Begins
<1>3. ASSUME NEW k \in Nat, 2 * k + 1 <= Len(c)
      PROVE  c[2 * k + 1][2] = 1 /\ (k > 0 => c[2 * k][1] < c[2 * k + 1][1])
  <2>1. d[2 * k + 1] = c[2 * k + 1] /\ (k > 0 => d[2 * k] = c[2 * k])
    BY <1>1, <1>2, <1>3
  <2>2. d[2 * k + 1][2] = 1 /\ (k > 0 => d[2 * k][1] < d[2 * k + 1][1])
    BY <1>1, <1>3 DEF Clean
  <2> QED
    BY <2>1, <2>2
<1>4. ASSUME NEW k \in Nat, 2 * k + 2 <= Len(c)
      PROVE  c[2 * k + 2] = <<c[2 * k + 1][1], 2>>
  <2>1. d[2 * k + 1] = c[2 * k + 1] /\ d[2 * k + 2] = c[2 * k + 2]
    BY <1>1, <1>2, <1>4
  <2>2. d[2 * k + 2] = <<d[2 * k + 1][1], 2>>
    <3>1. 2 * k + 2 <= Len(d)
      BY <1>1, <1>4
    <3> QED
      BY <3>1, CleanAt
  <2> QED
    BY <2>1, <2>2
<1>5. Clean(c)
  BY <1>3, <1>4 DEF Clean
<1>6. NoNewer(c, p)
  BY <1>1, <1>2 DEF NoNewer
<1> QED
  BY <1>5, <1>6

\* A newer record after whole ones continues it.
LEMMA CleanAppended ==
  ASSUME NEW u \in Seq(Unit), NEW n \in Nat, Len(u) = 2 * n, NEW p \in Nat,
         p + 1 \in 1..MaxAppends, Clean(u), NoNewer(u, p)
  PROVE  LET v == u \o Record(p + 1)
         IN  Clean(v) /\ NoNewer(v, p + 1) /\ Len(v) = 2 * (n + 1)
<1> DEFINE v == u \o Record(p + 1)
<1>1. Record(p + 1) \in Seq(Unit) /\ Len(Record(p + 1)) = 2
  BY RecordType DEF RecordUnits
<1>2. Record(p + 1)[1] = <<p + 1, 1>> /\ Record(p + 1)[2] = <<p + 1, 2>>
  BY DEF Record
<1>3. /\ v \in Seq(Unit) /\ Len(v) = 2 * n + 2
      /\ \A i \in 1..2 * n : v[i] = u[i]
      /\ v[2 * n + 1] = <<p + 1, 1>> /\ v[2 * n + 2] = <<p + 1, 2>>
  <2>1. /\ v \in Seq(Unit) /\ Len(v) = Len(u) + Len(Record(p + 1))
        /\ \A i \in 1..Len(u) + Len(Record(p + 1)) :
             v[i] = IF i <= Len(u) THEN u[i] ELSE Record(p + 1)[i - Len(u)]
    BY <1>1, ConcatProperties
  <2> HIDE DEF v
  <2>2. Len(v) = 2 * n + 2 /\ \A i \in 1..2 * n : v[i] = u[i]
    <3> DEFINE r == Record(p + 1)
    <3>1. Len(u) = 2 * n /\ Len(r) = 2
      BY <1>1
    <3>2. Len(v) = Len(u) + Len(r)
      BY <2>1
    <3>3. ASSUME NEW i \in 1..2 * n PROVE v[i] = u[i]
      <4>1. i \in 1..Len(u) + Len(r) /\ i <= Len(u)
        BY <3>1
      <4> QED
        BY <2>1, <4>1, Zenon
    <3> HIDE DEF r
    <3> QED
      BY <3>1, <3>2, <3>3
  <2>3. v[2 * n + 1] = Record(p + 1)[2 * n + 1 - 2 * n] /\ v[2 * n + 2] = Record(p + 1)[2 * n + 2 - 2 * n]
    BY <1>1, <2>1
  <2>4. 2 * n + 1 - 2 * n = 1 /\ 2 * n + 2 - 2 * n = 2
    OBVIOUS
  <2> QED
    BY <1>2, <2>1, <2>2, <2>3, <2>4
<1> HIDE DEF v
<1>4. \A i \in 1..2 * n : u[i] \in Unit /\ u[i][1] \in Int /\ u[i][1] <= p
  <2>1. \A i \in 1..2 * n : u[i] \in Unit
    BY ElementOfSeq
  <2> QED
    BY <2>1 DEF NoNewer, Unit
<1>5. ASSUME NEW k \in Nat, 2 * k + 1 <= Len(v)
      PROVE  v[2 * k + 1][2] = 1 /\ (k > 0 => v[2 * k][1] < v[2 * k + 1][1])
  <2>1. CASE k < n
    <3>1. v[2 * k + 1] = u[2 * k + 1] /\ (k > 0 => v[2 * k] = u[2 * k])
      BY <1>3, <2>1
    <3>2. u[2 * k + 1][2] = 1 /\ (k > 0 => u[2 * k][1] < u[2 * k + 1][1])
      BY <2>1 DEF Clean
    <3> QED
      BY <3>1, <3>2
  <2>2. CASE k = n
    <3>1. k > 0 => v[2 * k] = u[2 * k] /\ u[2 * k][1] \in Int /\ u[2 * k][1] <= p
      BY <1>3, <1>4, <2>2
    <3> QED
      BY <1>3, <2>2, <3>1
  <2> QED
    BY <1>3, <1>5, <2>1, <2>2
<1>6. ASSUME NEW k \in Nat, 2 * k + 2 <= Len(v)
      PROVE  v[2 * k + 2] = <<v[2 * k + 1][1], 2>>
  <2>1. CASE k < n
    <3>1. v[2 * k + 1] = u[2 * k + 1] /\ v[2 * k + 2] = u[2 * k + 2]
      BY <1>3, <2>1
    <3>2. u[2 * k + 2] = <<u[2 * k + 1][1], 2>>
      BY <2>1 DEF Clean
    <3> QED
      BY <3>1, <3>2
  <2>2. CASE k = n
    BY <1>3, <2>2
  <2> QED
    BY <1>3, <1>6, <2>1, <2>2
<1>7. Clean(v)
  BY <1>5, <1>6 DEF Clean
<1>8. NoNewer(v, p + 1)
  <2> SUFFICES ASSUME NEW i \in 1..2 * n + 2 PROVE v[i][1] <= p + 1
    BY <1>3 DEF NoNewer
  <2>1. CASE i <= 2 * n
    <3>1. i \in 1..2 * n
      BY <2>1
    <3>2. v[i] = u[i] /\ u[i][1] \in Int /\ u[i][1] <= p
      BY <1>3, <1>4, <3>1, Zenon
    <3>3. u[i][1] <= p + 1
      BY <3>2
    <3> QED
      BY <3>2, <3>3
  <2>2. CASE i = 2 * n + 1 \/ i = 2 * n + 2
    BY <1>3, <2>2
  <2> QED
    BY <2>1, <2>2
<1> QED
  BY <1>3, <1>7, <1>8 DEF v

\* A reader of such a file finds whole records in order.
LEMMA CleanIsFramed ==
  ASSUME NEW s \in Sessions, file[s] \in Seq(Unit), Clean(file[s])
  PROVE  Framed(s)
<1> DEFINE u == file[s]
<1>1. Len(u) \in Nat /\ u \in Seq(Unit)
  BY LenProperties
<1>2. ASSUME NEW i \in 1..PointCount(s)
      PROVE  /\ i \in Nat /\ i > 0 /\ 2 * i <= Len(u)
             /\ ReadPoint(s, i) = Record(u[2 * i - 1][1])
             /\ u[2 * i][1] = u[2 * i - 1][1]
  <2>1. i \in Nat /\ i > 0 /\ 2 * i <= Len(u)
    <3>1. PointCount(s) \in Int /\ 2 * PointCount(s) <= Len(u)
      <4>1. PointCount(s) = Len(u) \div 2
        BY DEF PointCount, RecordUnits
      <4> HIDE DEF u
      <4> QED
        BY <1>1, <4>1, Halves
    <3> HIDE DEF u
    <3> QED
      BY <1>1, <3>1
  <2>2. ReadPoint(s, i) = SubSeq(u, 2 * i - 1, 2 * i)
    <3>1. 2 * (i - 1) + 1 = 2 * i - 1
      BY <2>1
    <3> QED
      BY <3>1 DEF ReadPoint, RecordUnits
  <2>3. u[2 * i - 1] \in Unit /\ u[2 * i] \in Unit
    BY <1>1, <2>1, ElementOfSeq
  <2>4. i - 1 \in Nat /\ 2 * (i - 1) + 1 = 2 * i - 1 /\ 2 * (i - 1) + 2 = 2 * i
    BY <2>1
  <2>5. u[2 * i - 1][2] = 1 /\ u[2 * i] = <<u[2 * i - 1][1], 2>>
    <3>1. /\ 2 * (i - 1) + 1 <= Len(u) => u[2 * (i - 1) + 1][2] = 1
          /\ 2 * (i - 1) + 2 <= Len(u) => u[2 * (i - 1) + 2] = <<u[2 * (i - 1) + 1][1], 2>>
      BY <2>4, CleanAt
    <3>2. 2 * i - 1 <= Len(u) /\ 2 * i <= Len(u)
      BY <1>1, <2>1
    <3> HIDE DEF u
    <3> QED
      BY <2>4, <3>1, <3>2
  <2>6. u[2 * i - 1] = <<u[2 * i - 1][1], 1>> /\ u[2 * i - 1][1] \in 1..MaxAppends
    BY <2>3, <2>5 DEF Unit
  <2> DEFINE a == SubSeq(u, 2 * i - 1, 2 * i)
             b == Record(u[2 * i - 1][1])
  <2>7. b \in Seq(Unit) /\ Len(b) = 2 /\ b[1] = u[2 * i - 1] /\ b[2] = u[2 * i]
    <3>1. b \in Seq(Unit) /\ Len(b) = 2
      BY <2>6, RecordType DEF RecordUnits
    <3> QED
      BY <2>5, <2>6, <3>1 DEF Record
  <2>8. a \in Seq(Unit) /\ Len(a) = 2 /\ a[1] = u[2 * i - 1] /\ a[2] = u[2 * i]
    <3>1. /\ 2 * i - 1 \in Int /\ 2 * i \in Int /\ 2 * i - (2 * i - 1) + 1 = 2
          /\ \A j \in 2 * i - 1..2 * i : u[j] \in Unit
      BY <1>1, <2>1, <2>3
    <3>2. /\ a \in Seq(Unit) /\ Len(a) = 2
          /\ \A j \in 1..2 : a[j] = u[2 * i - 1 + j - 1]
      BY <2>1, <3>1, SubSeqProperties
    <3> HIDE DEF a, u
    <3>3. 2 * i - 1 + 1 - 1 = 2 * i - 1 /\ 2 * i - 1 + 2 - 1 = 2 * i
      BY <2>1
    <3> QED
      BY <3>2, <3>3
  <2>9. a = b
    <3> HIDE DEF a, b
    <3>1. \A j \in 1..Len(a) : a[j] = b[j]
      BY <2>7, <2>8
    <3> QED
      BY <2>7, <2>8, <3>1, SeqEqual
  <2> QED
    BY <2>1, <2>2, <2>5, <2>9
<1>3. ASSUME NEW i \in 1..PointCount(s)
      PROVE  IsRecord(ReadPoint(s, i)) /\ ReadPoint(s, i)[1][1] = u[2 * i - 1][1]
  <2>1. ReadPoint(s, i) = Record(u[2 * i - 1][1])
    BY <1>2
  <2>2. Record(u[2 * i - 1][1])[1][1] = u[2 * i - 1][1]
    BY DEF Record
  <2> QED
    BY <2>1, <2>2 DEF IsRecord
<1>4. ASSUME NEW i \in 1..PointCount(s), i > 1
      PROVE  ReadPoint(s, i - 1)[1][1] < ReadPoint(s, i)[1][1]
  <2>1. PointCount(s) \in Int
    BY <1>1, Halves DEF PointCount, RecordUnits
  <2>2. i - 1 \in 1..PointCount(s)
    BY <1>4, <2>1
  <2>3. /\ ReadPoint(s, i)[1][1] = u[2 * i - 1][1]
        /\ ReadPoint(s, i - 1)[1][1] = u[2 * (i - 1) - 1][1]
        /\ u[2 * (i - 1)][1] = u[2 * (i - 1) - 1][1]
    BY <1>2, <1>3, <2>2
  <2>4. u[2 * (i - 1)][1] < u[2 * (i - 1) + 1][1]
    <3>1. i - 1 \in Nat /\ i - 1 > 0 /\ 2 * (i - 1) + 1 <= Len(u)
      BY <1>1, <1>2, <1>4
    <3> QED
      BY <3>1 DEF Clean
  <2>5. 2 * (i - 1) + 1 = 2 * i - 1
    BY <1>2
  <2> QED
    BY <2>3, <2>4, <2>5
<1> QED
  BY <1>3, <1>4 DEF Framed

-----------------------------------------------------------------------------
(* Whatever the C library does, it loses nothing it does not report.        *)

\* A file cut in two is the whole of it.
LEMMA PrefixRest ==
  ASSUME NEW u \in Seq(Unit), NEW k \in 0..Len(u)
  PROVE  Prefix(u, k) \in Seq(Unit) /\ Rest(u, k) \in Seq(Unit) /\ Prefix(u, k) \o Rest(u, k) = u
<1> DEFINE a == Prefix(u, k)
           b == Rest(u, k)
<1>1. Len(u) \in Nat /\ k \in Nat /\ k <= Len(u)
  BY LenProperties
<1>2. a \in Seq(Unit) /\ Len(a) = k /\ \A i \in 1..k : a[i] = u[i]
  BY PrefixFacts
<1>3. /\ b \in Seq(Unit) /\ Len(b) = Len(u) - k
      /\ \A i \in 1..Len(u) - k : b[i] = u[k + i]
  <2>1. \A i \in k + 1..Len(u) : u[i] \in Unit
    BY <1>1, ElementOfSeq
  <2>2. /\ b \in Seq(Unit) /\ Len(b) = IF k + 1 <= Len(u) THEN Len(u) - (k + 1) + 1 ELSE 0
        /\ \A i \in 1..Len(u) - (k + 1) + 1 : b[i] = u[k + 1 + i - 1]
    BY <1>1, <2>1, SubSeqProperties DEF Rest
  <2> HIDE DEF b
  <2>3. Len(b) = Len(u) - k
    BY <1>1, <2>2
  <2>4. ASSUME NEW i \in 1..Len(u) - k PROVE b[i] = u[k + i]
    <3>1. i \in 1..Len(u) - (k + 1) + 1 /\ k + 1 + i - 1 = k + i
      BY <1>1
    <3> QED
      BY <2>2, <3>1
  <2> QED
    BY <2>2, <2>3, <2>4
<1> HIDE DEF a, b
<1>4. /\ a \o b \in Seq(Unit) /\ Len(a \o b) = Len(a) + Len(b)
      /\ \A i \in 1..Len(a) + Len(b) : (a \o b)[i] = IF i <= Len(a) THEN a[i] ELSE b[i - Len(a)]
  BY <1>2, <1>3, ConcatProperties
<1>5. Len(a \o b) = Len(u)
  BY <1>1, <1>2, <1>3, <1>4
<1>6. ASSUME NEW i \in 1..Len(u) PROVE (a \o b)[i] = u[i]
  <2>1. CASE i <= k
    BY <1>1, <1>2, <1>3, <1>4, <2>1
  <2>2. CASE i > k
    <3>1. i - k \in 1..Len(u) - k /\ k + (i - k) = i
      BY <1>1, <2>2
    <3>2. (a \o b)[i] = b[i - k] /\ b[i - k] = u[i]
      BY <1>1, <1>2, <1>3, <1>4, <2>2, <3>1
    <3> QED
      BY <3>2
  <2>3. i <= k \/ i > k
    BY <1>1
  <2> QED
    BY <2>1, <2>2, <2>3
<1>7. a \o b = u
  BY <1>4, <1>5, <1>6, SeqEqual
<1> QED
  BY <1>2, <1>3, <1>7 DEF a, b

LEMMA Associates ==
  ASSUME NEW u \in Seq(Unit), NEW v \in Seq(Unit), NEW w \in Seq(Unit)
  PROVE  (u \o v) \o w = u \o (v \o w)
BY ConcatAssociative

\* What a file would hold with its buffer written out.
Whole(data, b) == data \o b

\* A write that reports success: the record is in the file and the buffer, after
\* all that was in them.
LEMMA WriteWhole ==
  ASSUME NEW data \in Seq(Unit), NEW b \in Seq(Unit), NEW rec \in Seq(Unit),
         NEW w \in WriteOutcomes(data, b, rec), w.res = "ok"
  PROVE  /\ w.data \in Seq(Unit) /\ w.buf \in Seq(Unit)
         /\ Whole(w.data, w.buf) = Whole(Whole(data, b), rec)
<1> DEFINE all == b \o rec
<1>1. all \in Seq(Unit) /\ data \o all = (data \o b) \o rec
  BY ConcatProperties, ConcatAssociative
<1>2. w \notin Short(data, all, Len(all) - 1)
  BY DEF Short
<1>3. PICK k \in 0..Len(all) :
        w = [data |-> data \o Prefix(all, k), buf |-> Rest(all, k), res |-> "ok"]
  BY <1>2 DEF WriteOutcomes, Spilled
<1> HIDE DEF all
<1>4. /\ Prefix(all, k) \in Seq(Unit) /\ Rest(all, k) \in Seq(Unit)
      /\ Prefix(all, k) \o Rest(all, k) = all
  BY <1>1, PrefixRest
<1>5. (data \o Prefix(all, k)) \o Rest(all, k) = data \o all
  <2>1. (data \o Prefix(all, k)) \o Rest(all, k) = data \o (Prefix(all, k) \o Rest(all, k))
    BY <1>4, Associates
  <2> QED
    BY <1>4, <2>1
<1>6. w.data = data \o Prefix(all, k) /\ w.buf = Rest(all, k)
  BY <1>3
<1>7. data \o Prefix(all, k) \in Seq(Unit)
  BY <1>4, ConcatProperties
<1>8. w.data \o w.buf = (data \o b) \o rec
  BY <1>1, <1>5, <1>6
<1> QED
  BY <1>4, <1>6, <1>7, <1>8 DEF Whole

\* A flush that reports success, and a sync after it whatever it reports.
LEMMA SyncWhole ==
  ASSUME NEW data \in Seq(Unit), NEW b \in Seq(Unit),
         NEW y \in SyncOutcomes(data, b), y.res # "torn"
  PROVE  y.data = data \o b /\ y.buf = <<>>
<1>1. y \notin Short(data, b, Len(b))
  BY DEF Short
<1>2. y = Flushed(data, b) \/ y = [Flushed(data, b) EXCEPT !.res = "unsynced"]
  BY <1>1 DEF SyncOutcomes, FlushOutcomes
<1> QED
  BY <1>2 DEF Flushed

\* Closing a stream that holds nothing back changes nothing.
LEMMA CloseWhole ==
  ASSUME NEW data \in Seq(Unit), NEW d \in CloseOutcomes(data, <<>>)
  PROVE  d = data
<1>1. Short(data, <<>>, Len(<<>>)) = {}
  <2>1. Len(<<>>) = 0 /\ 0..(0 - 1) = {}
    BY EmptySeq
  <2>2. StopsAt(<<>>) = {}
    BY <2>1 DEF StopsAt
  <2> QED
    BY <2>2 DEF Short
<1>2. d = Flushed(data, <<>>).data
  BY <1>1 DEF CloseOutcomes, FlushOutcomes
<1>3. d = data \o <<>>
  BY <1>2 DEF Flushed
<1> QED
  BY <1>3, ConcatEmptySeq

-----------------------------------------------------------------------------
(* Each operation keeps the files clean.                                    *)

\* What is in the file alone, of the open route too, is clean.
LEMMA AtRest ==
  ASSUME StoreInv, FramingInv, NEW s \in exists \ faulted
  PROVE  /\ s \in Sessions /\ file[s] \in Seq(Unit) /\ appends \in Nat
         /\ Clean(file[s]) /\ NoNewer(file[s], appends)
<1>1. s \in Sessions /\ file[s] \in Seq(Unit) /\ buf \in Seq(Unit) /\ appends \in Nat
  BY BoundsAssumption DEF StoreInv, TypeOK
<1>2. CASE s = open
  <2>1. Written \in Seq(Unit) /\ Begins(Written, file[s])
    BY <1>1, <1>2, ConcatBegins DEF Written
  <2>2. Clean(Written) /\ NoNewer(Written, appends)
    BY <1>2 DEF FramingInv
  <2> QED
    BY <1>1, <2>1, <2>2, CleanBeginning
<1>3. CASE s # open
  BY <1>1, <1>3 DEF FramingInv
<1> QED
  BY <1>2, <1>3

\* A step that leaves no route open keeps the invariant if the files that count are clean.
LEMMA ClosedFraming ==
  ASSUME open' \notin exists', \A s \in exists' \ faulted' : Clean(file'[s]) /\ NoNewer(file'[s], appends')
  PROVE  FramingInv'
BY DEF FramingInv

LEMMA PrefixBegins ==
  ASSUME NEW u \in Seq(Unit), NEW k \in 0..Len(u)
  PROVE  Prefix(u, k) \in Seq(Unit) /\ Begins(u, Prefix(u, k))
<1>1. /\ Prefix(u, k) \in Seq(Unit) /\ Len(Prefix(u, k)) = k
      /\ \A i \in 1..k : Prefix(u, k)[i] = u[i]
  BY PrefixFacts
<1>2. k <= Len(u)
  BY LenProperties
<1> QED
  BY <1>1, <1>2 DEF Begins

LEMMA EmptyClean ==
  ASSUME NEW p
  PROVE  Clean(<<>>) /\ NoNewer(<<>>, p) /\ <<>> \o <<>> = <<>> /\ Len(<<>>) = 0
<1>1. Len(<<>>) = 0 /\ <<>> \in Seq(Unit)
  BY EmptySeq
<1>2. \A k \in Nat : ~(2 * k + 1 <= 0) /\ ~(2 * k + 2 <= 0)
  OBVIOUS
<1>3. 1..0 = {}
  OBVIOUS
<1> QED
  BY <1>1, <1>2, <1>3, ConcatEmptySeq DEF Clean, NoNewer

LEMMA NewerStill ==
  ASSUME NEW u \in Seq(Unit), NEW p \in Nat, NoNewer(u, p)
  PROVE  NoNewer(u, p + 1)
<1> SUFFICES ASSUME NEW i \in 1..Len(u) PROVE u[i][1] <= p + 1
  BY DEF NoNewer
<1>1. u[i] \in Unit
  BY ElementOfSeq
<1>2. u[i][1] \in Int /\ u[i][1] <= p
  BY <1>1 DEF Unit, NoNewer
<1> QED
  BY <1>2

\* create_route() starts an empty file.
LEMMA CreateFraming ==
  ASSUME StoreInv, FramingInv, NEW s \in Sessions, NEW ok \in BOOLEAN, CreateRoute(s, ok)
  PROVE  FramingInv'
<1>1. /\ open = NoSession /\ open' \in {s, NoSession} /\ exists' = exists \cup {s}
      /\ s \notin exists
      /\ faulted' = faulted \ {s} /\ appends' = appends /\ exists \subseteq Sessions
      /\ file'[s] = <<>> /\ \A t \in Sessions \ {s} : file'[t] = file[t]
      /\ open' = s => buf' = <<>> /\ count' = 0
  BY SessionsAssumption DEF CreateRoute, StoreInv, TypeOK, writer
<1> SUFFICES ASSUME NEW t \in exists' \ faulted'
             PROVE  IF t = open'
                    THEN Clean(Written') /\ NoNewer(Written', appends') /\ Len(Written') = 2 * count'
                    ELSE Clean(file'[t]) /\ NoNewer(file'[t], appends')
  BY DEF FramingInv
<1>2. CASE t = s
  <2>1. /\ Clean(<<>>) /\ NoNewer(<<>>, appends') /\ Len(<<>>) = 2 * 0
        /\ <<>> \o <<>> = <<>>
    BY EmptyClean
  <2>2. open' = s => Written' = <<>>
    BY <1>1, <2>1 DEF Written
  <2> QED
    BY <1>1, <1>2, <2>1, <2>2
<1>3. CASE t # s
  <2>1. t \in exists \ faulted /\ t # open' /\ file'[t] = file[t]
    BY <1>1, <1>3, SessionsAssumption
  <2> QED
    BY <1>1, <2>1, AtRest
<1> QED
  BY <1>2, <1>3

\* resume_route() cuts the torn end, so that what it appends to are whole records.
LEMMA ResumeFraming ==
  ASSUME StoreInv, FramingInv, NEW s \in Sessions, NEW ok \in BOOLEAN, ResumeRoute(s, ok)
  PROVE  FramingInv'
<1> DEFINE u == TruncatedFile(s)
           n == Len(file[s]) \div RecordUnits
<1>1. /\ file[s] \in Seq(Unit) /\ u \in Seq(Unit) /\ Len(u) = 2 * n /\ n \in Nat
      /\ Begins(file[s], u)
  <2>1. file[s] \in Seq(Unit) /\ Len(file[s]) \in Nat
    BY LenProperties DEF StoreInv, TypeOK
  <2> DEFINE k == Len(file[s]) - TornUnits(s)
  <2>2. k = 2 * n /\ k \in 0..Len(file[s]) /\ n \in Nat
    BY <2>1, DropOdd DEF TornUnits, RecordUnits
  <2>3. u = Prefix(file[s], k)
    BY DEF TruncatedFile
  <2>4. u \in Seq(Unit) /\ Len(u) = k /\ \A i \in 1..k : u[i] = file[s][i]
    <3> HIDE DEF k, u
    <3> QED
      BY <2>1, <2>2, <2>3, PrefixFacts
  <2> HIDE DEF k, u, n
  <2> QED
    BY <2>1, <2>2, <2>4 DEF Begins
<1>2. Len(u) \div RecordUnits = n
  <2> HIDE DEF u, n
  <2> QED
    BY <1>1 DEF RecordUnits
<1>3. /\ open = NoSession /\ open' \in {s, NoSession} /\ exists' = exists /\ faulted' = faulted
      /\ appends' = appends /\ exists \subseteq Sessions
      /\ file'[s] = u /\ \A t \in Sessions \ {s} : file'[t] = file[t]
      /\ open' = s => buf' = <<>> /\ count' = Len(u) \div RecordUnits
  BY SessionsAssumption DEF ResumeRoute, StoreInv, TypeOK, writer
<1> HIDE DEF u, n
<1> SUFFICES ASSUME NEW t \in exists' \ faulted'
             PROVE  IF t = open'
                    THEN Clean(Written') /\ NoNewer(Written', appends') /\ Len(Written') = 2 * count'
                    ELSE Clean(file'[t]) /\ NoNewer(file'[t], appends')
  BY DEF FramingInv
<1>4. /\ t \in exists \ faulted /\ Clean(file[t]) /\ NoNewer(file[t], appends) /\ appends \in Nat
  BY <1>3, AtRest
<1>5. CASE t = s
  <2>1. Clean(u) /\ NoNewer(u, appends)
    BY <1>1, <1>4, <1>5, CleanBeginning
  <2>2. u \o <<>> = u
    BY <1>1, ConcatEmptySeq
  <2>3. open' = s => Written' = u /\ count' = n
    BY <1>2, <1>3, <2>2 DEF Written
  <2> QED
    BY <1>1, <1>3, <1>5, <2>1, <2>3
<1>6. CASE t # s
  BY <1>3, <1>4, <1>6, SessionsAssumption
<1> QED
  BY <1>5, <1>6

\* append_route_point() adds a whole record to what was written, or marks the file.
LEMMA AppendWritten ==
  ASSUME StoreInv, AppendRoutePoint, open \notin faulted'
  PROVE  Written' = Written \o Record(appends + 1) /\ count' = count + 1
<1> DEFINE rec == Record(appends + 1)
<1>1. /\ open \in Sessions /\ open' = open /\ exists' = exists /\ appends' = appends + 1
      /\ appends \in Nat /\ appends + 1 \in 1..MaxAppends /\ count \in Nat
      /\ file \in [Sessions -> Seq(Unit)] /\ buf \in Seq(Unit) /\ exists \subseteq Sessions
      /\ faulted \subseteq faulted'
      /\ \A t \in Sessions \ {open} : file'[t] = file[t]
  BY BoundsAssumption DEF AppendRoutePoint, StoreInv, TypeOK
<1>2. rec \in Seq(Unit)
  BY <1>1, RecordType
<1>3. ASSUME NEW w \in WriteOutcomes(file[open], buf, rec), w.res = "ok"
      PROVE  w.data \in Seq(Unit) /\ w.buf \in Seq(Unit) /\ w.data \o w.buf = Written \o rec
  <2>1. file[open] \in Seq(Unit) /\ buf \in Seq(Unit)
    BY <1>1
  <2> DEFINE data == file[open]
  <2> HIDE DEF rec, data
  <2>2. w \in WriteOutcomes(data, buf, rec)
    BY DEF data
  <2>3. /\ w.data \in Seq(Unit) /\ w.buf \in Seq(Unit)
        /\ Whole(w.data, w.buf) = Whole(Whole(data, buf), rec)
    <3>1. data \in Seq(Unit) /\ rec \in Seq(Unit) /\ buf \in Seq(Unit)
      BY <1>2, <2>1 DEF data
    <3>2. w.res = "ok"
      BY <1>3
    <3> QED
      BY ONLY <2>2, <3>1, <3>2, WriteWhole
  <2> QED
    BY <2>3 DEF data, Written, Whole
<1>4. Written' = Written \o rec /\ count' = count + 1
  <2>1. PICK w \in WriteOutcomes(file[open], buf, rec) :
       \/ /\ w.res = "ok" /\ file'[open] = w.data /\ buf' = w.buf /\ count' = count + 1
       \/ /\ w.res = "ok" /\ count' = count + 1
          /\ \E y \in SyncOutcomes(w.data, w.buf) :
               y.res # "torn" /\ file'[open] = y.data /\ buf' = y.buf
    BY <1>1 DEF AppendRoutePoint, FaultedBy
  <2> HIDE DEF rec
  <2>2. /\ w.data \in Seq(Unit) /\ w.buf \in Seq(Unit)
        /\ w.data \o w.buf = Written \o rec
    BY <1>3, <2>1
  <2>3. CASE file'[open] = w.data /\ buf' = w.buf
    BY <1>1, <2>1, <2>2, <2>3 DEF Written
  <2>4. CASE \E y \in SyncOutcomes(w.data, w.buf) :
               y.res # "torn" /\ file'[open] = y.data /\ buf' = y.buf
    <3>1. file'[open] = w.data \o w.buf /\ buf' = <<>>
      BY <2>2, <2>4, SyncWhole
    <3>2. (w.data \o w.buf) \o <<>> = w.data \o w.buf
      BY <2>2, ConcatProperties, ConcatEmptySeq
    <3> QED
      BY <1>1, <2>1, <2>2, <3>1, <3>2 DEF Written
  <2> QED
    BY <2>1, <2>3, <2>4
<1> QED
  BY <1>4

\* The framing goes on: a whole record, or a marked file.
LEMMA AppendFraming ==
  ASSUME StoreInv, FramingInv, AppendRoutePoint
  PROVE  FramingInv'
<1>1. /\ open \in Sessions /\ open' = open /\ exists' = exists /\ appends' = appends + 1
      /\ appends \in Nat /\ appends + 1 \in 1..MaxAppends /\ count \in Nat
      /\ file \in [Sessions -> Seq(Unit)] /\ buf \in Seq(Unit) /\ exists \subseteq Sessions
      /\ faulted \subseteq faulted'
      /\ \A t \in Sessions \ {open} : file'[t] = file[t]
  BY BoundsAssumption DEF AppendRoutePoint, StoreInv, TypeOK
<1> DEFINE rec == Record(appends + 1)
<1> SUFFICES ASSUME NEW t \in exists' \ faulted'
             PROVE  IF t = open'
                    THEN Clean(Written') /\ NoNewer(Written', appends') /\ Len(Written') = 2 * count'
                    ELSE Clean(file'[t]) /\ NoNewer(file'[t], appends')
  BY DEF FramingInv
<1>5. CASE t = open
  <2>1. Written' = Written \o rec /\ count' = count + 1
    BY <1>1, <1>5, AppendWritten
  <2>2. Clean(Written) /\ NoNewer(Written, appends) /\ Len(Written) = 2 * count
    BY <1>1, <1>5 DEF FramingInv
  <2>3. Written \in Seq(Unit)
    BY <1>1, ConcatProperties DEF Written
  <2>4. /\ Clean(Written \o rec) /\ NoNewer(Written \o rec, appends + 1)
        /\ Len(Written \o rec) = 2 * (count + 1)
    BY <1>1, <2>2, <2>3, CleanAppended
  <2> QED
    BY <1>1, <1>5, <2>1, <2>4
<1>6. CASE t # open
  <2>1. t \in exists \ faulted /\ file'[t] = file[t]
    BY <1>1, <1>6
  <2>2. /\ file[t] \in Seq(Unit) /\ Clean(file[t]) /\ NoNewer(file[t], appends)
    BY <2>1, AtRest
  <2>3. NoNewer(file[t], appends + 1)
    BY <1>1, <2>2, NewerStill
  <2> QED
    BY <1>1, <1>6, <2>1, <2>2, <2>3
<1> QED
  BY <1>5, <1>6

\* What a closed route leaves behind, unless a write failed.
LEMMA ClosedWhole ==
  ASSUME StoreInv, NEW s \in Sessions,
         NEW y \in SyncOutcomes(file[s], buf), NEW data \in CloseOutcomes(y.data, y.buf), y.res # "torn"
  PROVE  data = file[s] \o buf
<1>1. file[s] \in Seq(Unit) /\ buf \in Seq(Unit)
  BY DEF StoreInv, TypeOK
<1>2. y.data = file[s] \o buf /\ y.buf = <<>>
  BY <1>1, SyncWhole
<1>3. y.data \in Seq(Unit)
  BY <1>1, <1>2, ConcatProperties
<1> QED
  BY <1>2, <1>3, CloseWhole

\* end_route() writes out what was buffered.
LEMMA CloseWritten ==
  ASSUME StoreInv, NEW saved \in BOOLEAN, CloseRoute(saved), open \notin faulted'
  PROVE  file'[open] = Written
<1>1. open \in Sessions
  BY DEF CloseRoute, StoreInv, TypeOK
<1>2. PICK y \in SyncOutcomes(file[open], buf) :
        \E data \in CloseOutcomes(y.data, y.buf) : file'[open] = data /\ y.res # "torn"
  BY <1>1 DEF CloseRoute, FaultedBy, StoreInv, TypeOK
<1> QED
  BY <1>1, <1>2, ClosedWhole DEF Written

\* So a closed file is as clean as its stream was.
LEMMA CloseFraming ==
  ASSUME StoreInv, FramingInv, NEW saved \in BOOLEAN, CloseRoute(saved)
  PROVE  FramingInv'
<1>1. /\ open \in Sessions /\ open' = NoSession /\ exists' = exists /\ appends' = appends
      /\ exists \subseteq Sessions /\ faulted \subseteq faulted'
      /\ \A t \in Sessions \ {open} : file'[t] = file[t]
  BY DEF CloseRoute, CloseWriter, StoreInv, TypeOK
<1>2. open \notin faulted' => file'[open] = Written
  BY CloseWritten
<1>3. ASSUME NEW t \in exists' \ faulted'
      PROVE  Clean(file'[t]) /\ NoNewer(file'[t], appends')
  <2>1. t \in exists \ faulted
    BY <1>1
  <2>2. CASE t = open
    BY <1>1, <1>2, <2>1, <2>2 DEF FramingInv
  <2>3. CASE t # open
    BY <1>1, <2>1, <2>3, AtRest
  <2> QED
    BY <2>2, <2>3
<1> QED
  BY <1>1, <1>3, ClosedFraming, SessionsAssumption

\* So does clear_routes(), of what it does not unlink.
LEMMA ClearFraming ==
  ASSUME StoreInv, FramingInv, NEW gone \in SUBSET Sessions, ClearRoutes(gone)
  PROVE  FramingInv'
<1>1. open' = NoSession /\ exists' = exists \ gone /\ appends' = appends /\ exists \subseteq Sessions
  BY DEF ClearRoutes, CloseWriter, Unlinked, writer, StoreInv, TypeOK
<1>2. ASSUME NEW t \in exists' \ faulted'
      PROVE  /\ t \in exists \ faulted
             /\ \/ t # open /\ file'[t] = file[t]
                \/ t = open /\ file'[t] = Written
  <2>1. CASE open = NoSession
    BY <1>1, <1>2, <2>1, SessionsAssumption DEF ClearRoutes, Unlinked
  <2>2. CASE open # NoSession
    <3>1. open \in Sessions
      BY <2>2 DEF StoreInv, TypeOK
    <3>2. PICK y \in SyncOutcomes(file[open], buf) :
            \E data \in CloseOutcomes(y.data, y.buf) :
              /\ file' = [s \in Sessions |-> IF s \in gone THEN <<>>
                                             ELSE IF s = open THEN data ELSE file[s]]
              /\ faulted' = (faulted \cup FaultedBy(y)) \ gone
      BY <2>2 DEF ClearRoutes
    <3>3. PICK data \in CloseOutcomes(y.data, y.buf) :
              /\ file' = [s \in Sessions |-> IF s \in gone THEN <<>>
                                             ELSE IF s = open THEN data ELSE file[s]]
              /\ faulted' = (faulted \cup FaultedBy(y)) \ gone
      BY <3>2
    <3>4. t \in Sessions /\ t \notin gone /\ t \in exists \ faulted
      BY <1>1, <1>2, <3>3
    <3>5. CASE t = open
      <4>1. y.res # "torn"
        BY <1>2, <3>3, <3>4, <3>5 DEF FaultedBy
      <4>2. data = Written
        BY <3>1, <4>1, ClosedWhole DEF Written
      <4> QED
        BY <3>3, <3>4, <3>5, <4>2
    <3>6. CASE t # open
      BY <3>3, <3>4, <3>6
    <3> QED
      BY <3>5, <3>6
  <2> QED
    BY <2>1, <2>2
<1>3. ASSUME NEW t \in exists' \ faulted'
      PROVE  Clean(file'[t]) /\ NoNewer(file'[t], appends')
  <2>1. CASE t = open /\ file'[t] = Written
    BY <1>1, <1>2, <2>1 DEF FramingInv
  <2>2. CASE t # open /\ file'[t] = file[t]
    BY <1>1, <1>2, <2>2, AtRest
  <2> QED
    BY <1>2, <2>1, <2>2
<1> QED
  BY <1>1, <1>3, ClosedFraming, SessionsAssumption

\* delete_route() touches no other file and not the stream.
LEMMA DeleteFraming ==
  ASSUME StoreInv, FramingInv, NEW s \in Sessions \ {open}, DeleteRoute(s)
  PROVE  FramingInv'
<1>1. /\ UNCHANGED <<open, buf, count, appends>> /\ exists' \ faulted' \subseteq exists \ faulted
      /\ \A t \in Sessions \ {s} : file'[t] = file[t]
      /\ exists' = exists \ {s} /\ exists \subseteq Sessions
  BY DEF DeleteRoute, Unlinked, StoreInv, TypeOK
<1>2. open \in exists => Written' = Written
  BY <1>1 DEF Written
<1> QED
  BY <1>1, <1>2 DEF FramingInv

\* A power cut leaves the beginning of each file.
LEMMA PowerCutFraming ==
  ASSUME StoreInv, FramingInv, PowerCut
  PROVE  FramingInv'
<1>1. open' = NoSession /\ appends' = appends /\ exists \subseteq Sessions
  BY DEF PowerCut, CloseWriter, StoreInv, TypeOK
<1>2. PICK gone \in SUBSET {s \in exists : durable[s] = NoEntry} :
      \E keep \in [Sessions -> 0..(MaxAppends * RecordUnits)] :
       /\ \A s \in Sessions : keep[s] <= Len(file[s])
       /\ exists' = exists \ gone /\ faulted' = faulted \ gone
       /\ file' = [s \in Sessions |-> IF s \in gone THEN <<>> ELSE Prefix(file[s], keep[s])]
  BY DEF PowerCut
<1>3. PICK keep \in [Sessions -> 0..(MaxAppends * RecordUnits)] :
       /\ \A s \in Sessions : keep[s] <= Len(file[s])
       /\ exists' = exists \ gone /\ faulted' = faulted \ gone
       /\ file' = [s \in Sessions |-> IF s \in gone THEN <<>> ELSE Prefix(file[s], keep[s])]
  BY <1>2
<1>4. ASSUME NEW t \in exists' \ faulted'
      PROVE  Clean(file'[t]) /\ NoNewer(file'[t], appends')
  <2>1. t \in exists \ faulted /\ t \in Sessions /\ file'[t] = Prefix(file[t], keep[t])
    BY <1>1, <1>3
  <2>2. /\ file[t] \in Seq(Unit) /\ appends \in Nat
        /\ Clean(file[t]) /\ NoNewer(file[t], appends)
    BY <2>1, AtRest
  <2>3. keep[t] \in 0..Len(file[t]) /\ Len(file[t]) \in Nat
    <3>1. MaxAppends * RecordUnits \in Nat
      BY BoundsAssumption DEF RecordUnits
    <3> QED
      BY <1>3, <2>1, <2>2, <3>1, LenProperties
  <2>4. /\ Prefix(file[t], keep[t]) \in Seq(Unit)
        /\ Begins(file[t], Prefix(file[t], keep[t]))
    BY <2>2, <2>3, PrefixBegins
  <2> QED
    BY <1>1, <2>1, <2>2, <2>4, CleanBeginning
<1> QED
  BY <1>1, <1>3, <1>4, ClosedFraming, SessionsAssumption

-----------------------------------------------------------------------------
\* Every step of the specification, stuttering included.
LEMMA FramingStep ==
  ASSUME StoreInv, FramingInv, [StoreNext]_storeVars
  PROVE  FramingInv'
<1>1. CASE \E s \in Sessions, ok \in BOOLEAN : CreateRoute(s, ok) \/ ResumeRoute(s, ok)
  BY <1>1, CreateFraming, ResumeFraming
<1>2. CASE AppendRoutePoint
  BY <1>2, AppendFraming
<1>3. CASE \E saved \in BOOLEAN : CloseRoute(saved)
  BY <1>3, CloseFraming
<1>4. CASE \E s \in Sessions \ {open} : DeleteRoute(s)
  BY <1>4, DeleteFraming
<1>5. CASE \E gone \in SUBSET Sessions : ClearRoutes(gone)
  BY <1>5, ClearFraming
<1>6. CASE Tick \/ UNCHANGED storeVars
  <2>1. UNCHANGED <<exists, file, open, buf, count, appends, faulted>>
    BY <1>6 DEF Tick, storeVars
  <2> QED
    BY <2>1 DEF FramingInv, Written
<1>7. CASE PowerCut
  BY <1>7, PowerCutFraming
<1> QED
  BY <1>1, <1>2, <1>3, <1>4, <1>5, <1>6, <1>7 DEF StoreNext

\* The bytes of every file no write of which failed are whole records in order, to the
\* last one the stream holds back.
THEOREM FilesClean == StoreSpec => []FramingInv
<1>1. StoreInit => FramingInv
  BY DEF StoreInit, FramingInv
<1> QED
  BY <1>1, FramingStep, StoreSafe, PTL DEF StoreSpec

\* As long as no write of a session failed part-way, a reader of its file finds whole
\* records, each once and in the order taken, through every power cut and resume.
THEOREM RecordsWhole == StoreSpec => []FramingIntact
<1>1. StoreInv /\ FramingInv => FramingIntact
  BY AtRest, CleanIsFramed DEF FramingIntact
<1> QED
  BY <1>1, FilesClean, StoreSafe, PTL

\* The count shown for the session being written is what a reader would find were the
\* buffer flushed now.
THEOREM CountShown == StoreSpec => []CountAgrees
<1>1. StoreInv /\ FramingInv => CountAgrees
  <2> SUFFICES ASSUME StoreInv, FramingInv, open # NoSession, open \notin faulted
               PROVE  /\ (Len(file[open]) + Len(buf)) % RecordUnits = 0
                      /\ TryPointCount(open) = (Len(file[open]) + Len(buf)) \div RecordUnits
    BY DEF CountAgrees
  <2>1. open \in exists /\ file[open] \in Seq(Unit) /\ buf \in Seq(Unit) /\ count \in Nat
    BY DEF StoreInv, TypeOK, StoreShape
  <2>2. Len(file[open]) + Len(buf) = 2 * count
    BY <2>1, ConcatProperties DEF FramingInv, Written
  <2>3. (2 * count) % 2 = 0 /\ (2 * count) \div 2 = count
    BY <2>1
  <2> QED
    BY <2>2, <2>3 DEF TryPointCount, RecordUnits
<1> QED
  BY <1>1, FilesClean, StoreSafe, PTL
=============================================================================
