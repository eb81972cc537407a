------------------------------ MODULE Timeseries ------------------------------
(***************************************************************************)
(* internal/api/timeseries.go and the table stats_ts of internal/store:    *)
(* the samples agents push, kept in ring buffers and flushed to SQLite.    *)
(*                                                                         *)
(* A request goroutine takes the time, asks Docker which node the agent    *)
(* runs on, and then appends under the lock.  The flush goroutine collects *)
(* under the read lock, saves and prunes without it, and takes the lock    *)
(* again to move lastFlush.  The process may die anywhere and reloads the  *)
(* table when it starts.                                                   *)
(***************************************************************************)
EXTENDS Naturals, Sequences

CONSTANTS
  Host,        \* keys of tsStore.hosts: node ids, and agent ids Docker did not resolve
  Other,       \* keys of tsStore.tasks and tsStore.services, which are only in memory
  Pusher,      \* goroutines in POST /events
  MaxPoints,   \* maxPoints: length of a ring buffer
  Day,         \* the 24 hours after which rows are pruned, in ticks of the clock
  SaveFails,   \* TRUE: statements on stats_ts may fail
  MaxClock, MaxSamples  \* bounds

ASSUME TimeseriesAssumption ==
  /\ Host \cap Other = {}
  /\ MaxPoints \in Nat \ {0}
  /\ Day \in Nat /\ MaxClock \in Nat /\ MaxSamples \in Nat
  /\ SaveFails \in BOOLEAN

Key    == Host \cup Other
Sample == 1..MaxSamples

VARIABLES
  clock,      \* time.Now().Unix()
  taken,      \* samples so far; a sample is its number
  ts,         \* [Sample -> its time]: tsPoint.Ts, TsRow.Ts
  buffers,    \* [Key -> sequence of samples]: tsStore.hosts, tasks, services
  lastFlush,  \* tsStore.lastFlush
  pusher,     \* [Pusher -> the sample it holds, or 0]
  flusher,    \* [phase, rows]: the flush goroutine
  copies      \* [Host -> [Sample -> rows of table stats_ts]]

vars == <<clock, taken, ts, buffers, lastFlush, pusher, flusher, copies>>

Flusher ==
  [phase : {"load", "idle", "save", "prune", "mark"}, rows : SUBSET (Host \X Sample)]

Stored == {r \in Host \X Sample : copies[r[1]][r[2]] > 0}

Buffered(k) == {buffers[k][i] : i \in 1..Len(buffers[k])}

-----------------------------------------------------------------------------
\* Seeded fault: the cut is one point short.
appendPointOffByOne(buf, n) ==
  LET b == Append(buf, n) IN IF Len(b) > MaxPoints + 1 THEN Tail(b) ELSE b

\* appendPoint: buf[len(buf)-maxPoints:]
appendPoint(buf, n) ==
  LET b == Append(buf, n)
  IN IF Len(b) > MaxPoints THEN SubSeq(b, Len(b) - MaxPoints + 1, Len(b)) ELSE b

-----------------------------------------------------------------------------
\* A request with an agent's event.

Serving == flusher.phase # "load"

\* EventPush, storeAgentStats and recordTimeseries as far as docker.Tasks.
TakeTime(p) ==
  /\ Serving /\ pusher[p] = 0 /\ taken < MaxSamples
  /\ taken' = taken + 1
  /\ ts' = [ts EXCEPT ![taken + 1] = clock]
  /\ pusher' = [pusher EXCEPT ![p] = taken + 1]
  /\ UNCHANGED <<clock, buffers, lastFlush, flusher, copies>>

\* recordTimeseries under the lock: one point for the host, and one for each
\* task and service of the event.
recordTimeseries(p, host, others) ==
  /\ Serving /\ pusher[p] # 0
  /\ buffers' = [k \in Key |-> IF k \in {host} \cup others
                               THEN appendPoint(buffers[k], pusher[p]) ELSE buffers[k]]
  /\ pusher' = [pusher EXCEPT ![p] = 0]
  /\ UNCHANGED <<clock, taken, ts, lastFlush, flusher, copies>>

-----------------------------------------------------------------------------
\* flushTimeseries.

\* Under the read lock.
Collect ==
  LET rows == {r \in Host \X Sample : r[2] \in Buffered(r[1]) /\ ts[r[2]] > lastFlush} IN
  /\ flusher.phase = "idle" /\ rows # {}
  /\ flusher' = [phase |-> "save", rows |-> rows]
  /\ UNCHANGED <<clock, taken, ts, buffers, lastFlush, pusher, copies>>

Insert(rows) ==
  copies' = [h \in Host |-> [n \in Sample |-> copies[h][n] + IF <<h, n>> \in rows THEN 1 ELSE 0]]

\* Seeded fault: a failed save is taken to have stored nothing and tried again.
SaveAgain ==
  /\ flusher.phase = "save"
  /\ \/ Insert(flusher.rows) /\ flusher' = [flusher EXCEPT !.phase = "prune"]
     \/ \E part \in SUBSET flusher.rows :
          SaveFails /\ Insert(part) /\ UNCHANGED flusher
  /\ UNCHANGED <<clock, taken, ts, buffers, lastFlush, pusher>>

\* store.SaveTimeseries: one transaction.  The errors of its inserts are
\* dropped, so that it may commit any part of the rows; an error of the
\* transaction ends the flush.
SaveTimeseries ==
  /\ flusher.phase = "save"
  /\ \/ Insert(flusher.rows) /\ flusher' = [flusher EXCEPT !.phase = "prune"]
     \/ \E part \in SUBSET flusher.rows :
          SaveFails /\ Insert(part) /\ flusher' = [flusher EXCEPT !.phase = "prune"]
     \/ /\ SaveFails /\ UNCHANGED copies
        /\ flusher' = [phase |-> "idle", rows |-> {}]
  /\ UNCHANGED <<clock, taken, ts, buffers, lastFlush, pusher>>

\* store.PruneTimeseries(now - 24h)
PruneTimeseries ==
  /\ flusher.phase = "prune"
  /\ \/ copies' = [h \in Host |-> [n \in Sample |->
                     IF ts[n] + Day < clock THEN 0 ELSE copies[h][n]]]
     \/ SaveFails /\ UNCHANGED copies
  /\ flusher' = [flusher EXCEPT !.phase = "mark"]
  /\ UNCHANGED <<clock, taken, ts, buffers, lastFlush, pusher>>

\* lastFlush = time.Now().Unix(), under the lock.
Mark ==
  /\ flusher.phase = "mark"
  /\ lastFlush' = clock
  /\ flusher' = [phase |-> "idle", rows |-> {}]
  /\ UNCHANGED <<clock, taken, ts, buffers, pusher, copies>>

-----------------------------------------------------------------------------
\* The process dies, and starts with InitTimeseries, before it serves requests.

Crash ==
  /\ flusher.phase # "load"
  /\ buffers' = [k \in Key |-> <<>>]
  /\ pusher' = [p \in Pusher |-> 0]
  /\ lastFlush' = 0
  /\ \/ flusher' = [phase |-> "load", rows |-> Stored]
     \/ SaveFails /\ flusher' = [phase |-> "idle", rows |-> {}]
  /\ UNCHANGED <<clock, taken, ts, copies>>

\* Seeded fault: LoadTimeseries without its ORDER BY.
LoadRowAnyOrder(h, n) ==
  /\ flusher.phase = "load" /\ <<h, n>> \in flusher.rows
  /\ buffers' = [buffers EXCEPT ![h] = appendPoint(@, n)]
  /\ lastFlush' = ts[n]
  /\ flusher' = [flusher EXCEPT !.rows = @ \ {<<h, n>>}]
  /\ UNCHANGED <<clock, taken, ts, pusher, copies>>

\* LoadTimeseries gives the rows ORDER BY ts; lastFlush ends as the time of the last.
LoadRow(h, n) ==
  /\ flusher.phase = "load" /\ <<h, n>> \in flusher.rows
  /\ \A r \in flusher.rows : ts[n] <= ts[r[2]]
  /\ buffers' = [buffers EXCEPT ![h] = appendPoint(@, n)]
  /\ lastFlush' = ts[n]
  /\ flusher' = [flusher EXCEPT !.rows = @ \ {<<h, n>>}]
  /\ UNCHANGED <<clock, taken, ts, pusher, copies>>

LoadEnds ==
  /\ flusher.phase = "load" /\ flusher.rows = {}
  /\ flusher' = [flusher EXCEPT !.phase = "idle"]
  /\ UNCHANGED <<clock, taken, ts, buffers, lastFlush, pusher, copies>>

Tick ==
  /\ clock < MaxClock /\ clock' = clock + 1
  /\ UNCHANGED <<taken, ts, buffers, lastFlush, pusher, flusher, copies>>

-----------------------------------------------------------------------------
Record == \E p \in Pusher :
  \/ TakeTime(p)
  \/ \E host \in Host, others \in SUBSET Other : recordTimeseries(p, host, others)

Flush == Collect \/ SaveTimeseries \/ PruneTimeseries \/ Mark

Restart == Crash \/ (\E h \in Host, n \in Sample : LoadRow(h, n)) \/ LoadEnds

Init ==
  /\ clock = 1 /\ taken = 0
  /\ ts = [n \in Sample |-> 0]
  /\ buffers = [k \in Key |-> <<>>]
  /\ lastFlush = 0
  /\ pusher = [p \in Pusher |-> 0]
  /\ flusher = [phase |-> "load", rows |-> {}]
  /\ copies = [h \in Host |-> [n \in Sample |-> 0]]

Next == Record \/ Flush \/ Restart \/ Tick

Spec == Init /\ [][Next]_vars

-----------------------------------------------------------------------------
\* Types; a ring buffer never holds more than maxPoints points.
TypeOK ==
  /\ clock \in Nat
  /\ taken \in 0..MaxSamples
  /\ ts \in [Sample -> Nat]
  /\ buffers \in [Key -> Seq(Sample)] /\ \A k \in Key : Len(buffers[k]) <= MaxPoints
  /\ lastFlush \in Nat
  /\ pusher \in [Pusher -> {0} \cup Sample]
  /\ flusher \in Flusher
  /\ copies \in [Host -> [Sample -> Nat]]

\* No sample is in the table twice, whatever requests, flushes, failures and
\* restarts do ("to avoid duplicates", timeseries.go:27).
NoDuplicates == \A h \in Host, n \in Sample : copies[h][n] <= 1

\* A restart gives every host's chart back as the newest points of the table, in
\* the order of their times, however the points got into the table.
RestartKeepsNewest ==
  flusher.phase = "load" /\ flusher.rows = {} =>
    \A h \in Host :
      /\ \A i \in 1..Len(buffers[h]) - 1 : ts[buffers[h][i]] <= ts[buffers[h][i + 1]]
      /\ \A n \in Sample : copies[h][n] > 0 /\ n \notin Buffered(h) =>
           Len(buffers[h]) = MaxPoints /\ ts[n] <= ts[buffers[h][1]]

\* When no flush is under way, a sample of the last 24 hours that the next
\* flush will leave out, because it is not newer than lastFlush, is in the table.
FlushedIsStored ==
  flusher.phase = "idle" =>
    \A h \in Host : \A n \in Buffered(h) :
      ts[n] <= lastFlush /\ ts[n] + Day >= clock => copies[h][n] > 0
=============================================================================
