------------------------------ MODULE RouteStorage ------------------------------
(***************************************************************************)
(* The route half of StorageService (products/go/main/go_storage.cpp): one *)
(* file of fixed-size RoutePoint records per tracking session on the NAND  *)
(* file system, written through one buffered stdio stream.                 *)
(*                                                                         *)
(* A file is a sequence of UNITS; a record is the two units                *)
(* <<p, 1>>, <<p, 2>> of its point p, so that a write torn inside a record *)
(* leaves <<p, 1>> alone.  Three layers hold data: the stdio buffer (buf), *)
(* the file as the file system sees it (file) and the prefix of it that an *)
(* fsync made safe against a power cut (durable).                          *)
(***************************************************************************)
EXTENDS Integers, Sequences, FiniteSets

CONSTANTS
  Sessions,     \* tracking session ids (5-digit numbers in the code)
  NoSession,    \* no route open: _route_file == nullptr, _current_session_id == 0
  Interval,     \* CONFIG_TRACKING_FSYNC_INTERVAL_MS, in clock ticks
  MaxAppends,   \* bound: append_route_point calls in a behaviour
  Faults        \* what the medium may do: "write" (fwrite and fflush stop part-way),
                \* "sync" (fsync fails)

ASSUME SessionsAssumption == NoSession \notin Sessions
ASSUME BoundsAssumption ==
  Interval \in Nat \ {0} /\ MaxAppends \in Nat /\ Faults \subseteq {"write", "sync"}

VARIABLES
  mounted,   \* _nand.is_mounted(), settled at boot
  exists,    \* the route files present on the NAND
  file,      \* their contents as stat() and other handles see them
  durable,   \* units of each file that survive a power cut; NoEntry: not even its name
  open,      \* the session of _route_file
  buf,       \* bytes fwrite has buffered in _route_file
  count,     \* _current_point_count
  sinceSync, \* now_ms - _last_fsync_ms, capped at Interval; FSYNC_ANCHOR_NONE is Interval
  appends,   \* number of the last point offered to append_route_point
  faulted    \* ghost: sessions in whose file an fwrite or fflush has failed part-way

writer == <<open, buf, count, sinceSync>>
disk == <<exists, file, durable>>
storeVars == <<mounted, exists, file, durable, open, buf, count, sinceSync, appends, faulted>>

RecordUnits == 2                       \* sizeof(RoutePoint)
NoEntry == -1
Unit == (1..MaxAppends) \X (1..RecordUnits)
Record(p) == <<<<p, 1>>, <<p, 2>>>>

Prefix(u, k) == SubSeq(u, 1, k)
Rest(u, k) == SubSeq(u, k + 1, Len(u))
Smaller(a, b) == IF a <= b THEN a ELSE b

-----------------------------------------------------------------------------
(* What the C library and the file system may do with the open stream.      *)

\* The outcomes of writing u to a file that holds data which stop short: a proper
\* prefix reached the file; what follows it is dropped, or stays buffered up to
\* the given end.
StopsAt(u) == IF "write" \in Faults THEN 0..(Len(u) - 1) ELSE {}
Short(data, u, end) ==
  {[data |-> data \o Prefix(u, k), buf |-> <<>>, res |-> "torn"] : k \in StopsAt(u)}
  \cup
  {[data |-> data \o Prefix(u, k), buf |-> SubSeq(u, k + 1, end), res |-> "torn"] : k \in StopsAt(u)}

\* fwrite() of the last record of u: buffered, with any part of u spilled to the
\* file when the buffer fills; or failed, the end of the record missing.
Spilled(data, u) ==
  {[data |-> data \o Prefix(u, k), buf |-> Rest(u, k), res |-> "ok"] : k \in 0..Len(u)}
WriteOutcomes(data, b, rec) ==
  Spilled(data, b \o rec) \cup Short(data, b \o rec, Len(b \o rec) - 1)

\* fflush(): everything buffered reaches the file, or it stops short.
Flushed(data, b) == [data |-> data \o b, buf |-> <<>>, res |-> "ok"]
FlushOutcomes(data, b) == {Flushed(data, b)} \cup Short(data, b, Len(b))

\* flush_and_sync_route_file(): fsync only after a good fflush; either may fail.
SyncOutcomes(data, b) ==
  FlushOutcomes(data, b)
  \cup IF "sync" \in Faults THEN {[Flushed(data, b) EXCEPT !.res = "unsynced"]} ELSE {}

\* What is durable after a sync that ended with y.
DurableAfter(y, dur) == IF y.res = "ok" THEN Len(y.data) ELSE dur

\* fclose() writes what is still buffered, as far as it gets.
CloseOutcomes(data, b) == {f.data : f \in FlushOutcomes(data, b)}

FaultedBy(y) == IF y.res = "torn" THEN {open} ELSE {}
CloseWriter ==
  /\ open' = NoSession
  /\ buf' = <<>>
  /\ count' = 0
  /\ sinceSync' = Interval

-----------------------------------------------------------------------------
(* The operations.  A call refused before it changes anything is a stutter. *)

\* Broken variant of create_route(): no stat() probe, so "wb" truncates the file.
CreateOverExisting(s, ok) ==
  /\ open = NoSession /\ mounted
  /\ exists' = exists \cup {s}
  /\ file' = [file EXCEPT ![s] = <<>>]
  /\ durable' = [durable EXCEPT ![s] = 0]
  /\ open' = s /\ buf' = <<>> /\ count' = 0 /\ sinceSync' = Interval
  /\ faulted' = faulted \ {s}
  /\ UNCHANGED <<mounted, appends>>

\* create_route(): refuses over an active route or an existing file.  The empty
\* file is synced before success; when that sync fails the handle is closed and
\* the file stays behind.
CreateRoute(s, ok) ==
  /\ open = NoSession /\ mounted /\ s \notin exists
  /\ exists' = exists \cup {s}
  /\ file' = [file EXCEPT ![s] = <<>>]
  /\ faulted' = faulted \ {s}
  /\ \/ /\ ok
        /\ durable' = [durable EXCEPT ![s] = 0]
        /\ open' = s /\ buf' = <<>> /\ count' = 0
        /\ sinceSync' = Interval
     \/ /\ ~ok
        /\ durable' = [durable EXCEPT ![s] = NoEntry]
        /\ UNCHANGED writer
  /\ UNCHANGED <<mounted, appends>>

TornUnits(s) == Len(file[s]) % RecordUnits
TruncatedFile(s) == Prefix(file[s], Len(file[s]) - TornUnits(s))

\* Broken variants of resume_route(): the torn record stays; the count restarts.
ResumeOverTornRecord(s, ok) ==
  /\ open = NoSession /\ mounted /\ s \in exists
  /\ open' = s /\ buf' = <<>> /\ count' = Len(file[s]) \div RecordUnits /\ sinceSync' = Interval
  /\ UNCHANGED <<mounted, exists, file, durable, appends, faulted>>
ResumeFromZero(s, ok) ==
  /\ open = NoSession /\ mounted /\ s \in exists
  /\ file' = [file EXCEPT ![s] = TruncatedFile(s)]
  /\ durable' = [durable EXCEPT ![s] = Smaller(@, Len(TruncatedFile(s)))]
  /\ open' = s /\ buf' = <<>> /\ count' = 0 /\ sinceSync' = Interval
  /\ UNCHANGED <<mounted, exists, appends, faulted>>
\* Broken variant of resume_route(): opens with "wb".
ResumeEmptied(s, ok) ==
  /\ open = NoSession /\ mounted /\ s \in exists
  /\ file' = [file EXCEPT ![s] = <<>>]
  /\ durable' = [durable EXCEPT ![s] = 0]
  /\ open' = s /\ buf' = <<>> /\ count' = 0 /\ sinceSync' = Interval
  /\ UNCHANGED <<mounted, exists, appends, faulted>>

\* resume_route(): drops a torn trailing record, then opens for append.  The
\* open may still fail after the truncation.
ResumeRoute(s, ok) ==
  /\ open = NoSession /\ mounted /\ s \in exists
  /\ file' = [file EXCEPT ![s] = TruncatedFile(s)]
  /\ durable' = [durable EXCEPT ![s] = Smaller(@, Len(TruncatedFile(s)))]
  /\ \/ /\ ok
        /\ open' = s /\ buf' = <<>>
        /\ count' = Len(TruncatedFile(s)) \div RecordUnits
        /\ sinceSync' = Interval
     \/ ~ok /\ UNCHANGED writer
  /\ UNCHANGED <<mounted, exists, appends, faulted>>

SyncDue == sinceSync >= Interval

\* append_route_point(): the point counts once fwrite took it whole; a due sync
\* follows, and a failed one keeps the anchor so that the next append retries.
AppendRoutePoint ==
  /\ open # NoSession
  /\ appends < MaxAppends
  /\ appends' = appends + 1
  /\ \E w \in WriteOutcomes(file[open], buf, Record(appends + 1)) :
       \/ /\ w.res = "torn"
          /\ file' = [file EXCEPT ![open] = w.data]
          /\ buf' = w.buf
          /\ faulted' = faulted \cup {open}
          /\ UNCHANGED <<durable, count, sinceSync>>
       \/ /\ w.res = "ok" /\ ~SyncDue
          /\ file' = [file EXCEPT ![open] = w.data]
          /\ buf' = w.buf
          /\ count' = count + 1
          /\ UNCHANGED <<durable, sinceSync, faulted>>
       \/ /\ w.res = "ok" /\ SyncDue
          /\ count' = count + 1
          /\ \E y \in SyncOutcomes(w.data, w.buf) :
               /\ file' = [file EXCEPT ![open] = y.data]
               /\ buf' = y.buf
               /\ durable' = [durable EXCEPT ![open] = DurableAfter(y, @)]
               /\ sinceSync' = IF y.res = "ok" THEN 0 ELSE sinceSync
               /\ faulted' = faulted \cup FaultedBy(y)
  /\ UNCHANGED <<mounted, exists, open>>

\* end_route() of an open route: sync and close; the handle is released either
\* way.  saved is the result the caller shows to the user.
CloseRoute(saved) ==
  /\ open # NoSession
  /\ \E y \in SyncOutcomes(file[open], buf) :
     \E data \in CloseOutcomes(y.data, y.buf) :
       /\ saved => y.res = "ok"
       /\ file' = [file EXCEPT ![open] = data]
       /\ durable' = [durable EXCEPT ![open] = DurableAfter(y, @)]
       /\ faulted' = faulted \cup FaultedBy(y)
  /\ CloseWriter
  /\ UNCHANGED <<mounted, exists, appends>>

EndRoute(saved) ==
  \/ CloseRoute(saved)
  \/ open = NoSession /\ saved /\ UNCHANGED storeVars

Unlinked(gone) ==
  /\ exists' = exists \ gone
  /\ file' = [s \in Sessions |-> IF s \in gone THEN <<>> ELSE file[s]]
  /\ durable' = [s \in Sessions |-> IF s \in gone THEN NoEntry ELSE durable[s]]
  /\ faulted' = faulted \ gone

\* delete_route(): does not look at the open route; its caller does.
DeleteRoute(s) ==
  /\ mounted /\ s \in exists
  /\ Unlinked({s})
  /\ UNCHANGED <<mounted, open, buf, count, sinceSync, appends>>

\* Broken variant of clear_routes(): the active route is not ended first.
ClearUnderWriter(gone) ==
  /\ gone \subseteq exists /\ mounted
  /\ Unlinked(gone)
  /\ UNCHANGED <<mounted, appends, writer>>

\* clear_routes(): ends the active route, then unlinks every file it can.
ClearRoutes(gone) ==
  /\ gone \subseteq exists
  /\ mounted \/ gone = {}
  /\ IF open = NoSession
       THEN Unlinked(gone) /\ UNCHANGED writer
       ELSE /\ CloseWriter
            /\ \E y \in SyncOutcomes(file[open], buf) :
               \E data \in CloseOutcomes(y.data, y.buf) :
                 /\ exists' = exists \ gone
                 /\ file' = [s \in Sessions |-> IF s \in gone THEN <<>>
                                                ELSE IF s = open THEN data ELSE file[s]]
                 /\ durable' = [s \in Sessions |-> IF s \in gone THEN NoEntry
                                                ELSE IF s = open THEN DurableAfter(y, durable[s])
                                                ELSE durable[s]]
                 /\ faulted' = (faulted \cup FaultedBy(y)) \ gone
  /\ UNCHANGED <<mounted, appends>>

\* The clock moves between two calls.
Tick ==
  /\ sinceSync' = Smaller(sinceSync + 1, Interval)
  /\ UNCHANGED <<mounted, exists, file, durable, open, buf, count, appends, faulted>>

\* A power cut and the next boot: of every file some prefix at least as long as
\* its durable part is left, a name that was never synced may be gone, and what
\* stdio had buffered is lost.
PowerCut ==
  /\ \E gone \in SUBSET {s \in exists : durable[s] = NoEntry} :
     \E keep \in [Sessions -> 0..(MaxAppends * RecordUnits)] :
       /\ \A s \in Sessions : durable[s] <= keep[s] /\ keep[s] <= Len(file[s])
       /\ exists' = exists \ gone
       /\ faulted' = faulted \ gone
       /\ file' = [s \in Sessions |-> IF s \in gone THEN <<>> ELSE Prefix(file[s], keep[s])]
       /\ durable' = [s \in Sessions |-> IF s \in exists \ gone THEN keep[s] ELSE NoEntry]
  /\ CloseWriter
  /\ mounted' \in BOOLEAN
  /\ UNCHANGED appends

-----------------------------------------------------------------------------
StoreInit ==
  /\ mounted \in BOOLEAN
  /\ exists = {}
  /\ file = [s \in Sessions |-> <<>>]
  /\ durable = [s \in Sessions |-> NoEntry]
  /\ open = NoSession /\ buf = <<>> /\ count = 0 /\ sinceSync = Interval
  /\ appends = 0
  /\ faulted = {}

\* A caller that only keeps the one rule the storage layer leaves to it: the
\* open route is not deleted.
StoreNext ==
  \/ \E s \in Sessions, ok \in BOOLEAN : CreateRoute(s, ok) \/ ResumeRoute(s, ok)
  \/ AppendRoutePoint
  \/ \E saved \in BOOLEAN : CloseRoute(saved)
  \/ \E s \in Sessions \ {open} : DeleteRoute(s)
  \/ \E gone \in SUBSET Sessions : ClearRoutes(gone)
  \/ Tick
  \/ PowerCut

StoreSpec == StoreInit /\ [][StoreNext]_storeVars

-----------------------------------------------------------------------------
(* What readers of a file see: BLE history export and the status screen.    *)

\* get_session_point_count(): whole records by file size.
PointCount(s) == Len(file[s]) \div RecordUnits
\* read_route_points(): the i-th fixed-size slot of the file, whatever is in it.
ReadPoint(s, i) == SubSeq(file[s], RecordUnits * (i - 1) + 1, RecordUnits * i)
\* try_get_session_point_count(): the writer's count for the open session.
TryPointCount(s) == IF open = s THEN count ELSE PointCount(s)

IsRecord(u) == u = Record(u[1][1])

TypeOK ==
  /\ mounted \in BOOLEAN
  /\ exists \subseteq Sessions
  /\ file \in [Sessions -> Seq(Unit)]
  /\ durable \in [Sessions -> Nat \cup {NoEntry}]
  /\ open \in Sessions \cup {NoSession}
  /\ buf \in Seq(Unit)
  /\ count \in Nat
  /\ sinceSync \in 0..Interval
  /\ appends \in 0..MaxAppends
  /\ faulted \subseteq Sessions

StoreShape ==
  /\ \A s \in Sessions : durable[s] <= Len(file[s])
  /\ \A s \in Sessions \ exists : file[s] = <<>> /\ durable[s] = NoEntry
  /\ IF open = NoSession THEN buf = <<>> ELSE open \in exists
\* Type invariant, and what the layers hold fits together: nothing is durable that is
\* not in the file, an absent file is empty, the stream is open on a file that exists
\* and holds bytes back only while it is open.
StoreInv == TypeOK /\ StoreShape

Framed(s) ==
  \A i \in 1..PointCount(s) :
    /\ IsRecord(ReadPoint(s, i))
    /\ i > 1 => ReadPoint(s, i - 1)[1][1] < ReadPoint(s, i)[1][1]
\* As long as no write of the session failed part-way, every slot a reader takes
\* from its file is one whole record, and records appear once each in the order
\* they were taken: power cuts, pauses and resumes leave no torn record in the
\* middle of the file (resume_route's truncation).
FramingIntact == \A s \in exists \ faulted : Framed(s)

\* The count shown for the session being written is the number of records its
\* reader would find were the buffer flushed now, again unless a write failed.
CountAgrees ==
  open # NoSession /\ open \notin faulted =>
    /\ (Len(file[open]) + Len(buf)) % RecordUnits = 0
    /\ TryPointCount(open) = (Len(file[open]) + Len(buf)) \div RecordUnits

DurableRecords(s) == Smaller(durable[s], Len(file[s])) \div RecordUnits
KeepsDurableRecords ==
  \A s \in exists \cap exists' :
    \A i \in 1..DurableRecords(s) : i <= PointCount(s)' /\ ReadPoint(s, i)' = ReadPoint(s, i)
\* A record that an fsync once covered is never lost, moved or changed while its
\* file exists: not by a power cut, not by the truncation of a torn tail, not by
\* a later failed write (create_route never opens an existing file for writing).
DurableKept == [][KeepsDurableRecords]_storeVars
=============================================================================
