---------------------------- MODULE TimeseriesProofs ----------------------------
(***************************************************************************)
(* Theorems about Timeseries, for any number of agents and samples.        *)
(***************************************************************************)
EXTENDS Timeseries, TLAPS

\* What was taken has a time that has come, and what was not is nowhere.
Fresh ==
  /\ lastFlush <= clock
  /\ \A n \in Sample : ts[n] <= clock
  /\ \A p \in Pusher : pusher[p] <= taken
  /\ \A h \in Host : \A n \in Buffered(h) : n <= taken
  /\ \A h \in Host, n \in Sample : copies[h][n] > 0 => n <= taken
  /\ \A r \in flusher.rows : r[2] <= taken

\* A sample a request still holds is in no chart, no flush and no table.
Apart ==
  /\ \A p, q \in Pusher : pusher[p] # 0 /\ pusher[p] = pusher[q] => p = q
  /\ \A p \in Pusher, h \in Host : pusher[p] # 0 =>
       /\ pusher[p] \notin Buffered(h)
       /\ <<h, pusher[p]>> \notin flusher.rows
       /\ copies[h][pusher[p]] = 0

\* lastFlush tells the samples of the charts that are in the table from the
\* others, except between the save and its mark.
Divided ==
  /\ flusher.phase \in {"load", "idle", "save"} =>
       \A h \in Host : \A n \in Buffered(h) : copies[h][n] > 0 => ts[n] <= lastFlush
  /\ flusher.phase = "save" => \A r \in flusher.rows : copies[r[1]][r[2]] = 0
  /\ flusher.phase = "load" =>
       \A r \in flusher.rows : lastFlush <= ts[r[2]]

TInv == TypeOK /\ Fresh /\ Apart /\ Divided /\ NoDuplicates

-----------------------------------------------------------------------------
\* What appendPoint returns: the points it was given, and no more than maxPoints.
LEMMA AppendPoint ==
  ASSUME NEW buf \in Seq(Sample), Len(buf) <= MaxPoints, NEW n \in Sample
  PROVE  /\ appendPoint(buf, n) \in Seq(Sample)
         /\ Len(appendPoint(buf, n)) <= MaxPoints
         /\ {appendPoint(buf, n)[i] : i \in 1..Len(appendPoint(buf, n))}
              \subseteq {buf[j] : j \in 1..Len(buf)} \cup {n}
<1> DEFINE b == Append(buf, n)
<1>1. /\ b \in Seq(Sample) /\ Len(b) = Len(buf) + 1 /\ Len(buf) \in Nat
      /\ b[Len(buf) + 1] = n /\ \A j \in 1..Len(buf) : b[j] = buf[j]
  OBVIOUS
<1>2. CASE Len(b) > MaxPoints
  <2>1. appendPoint(buf, n) = SubSeq(b, 2, Len(b)) /\ MaxPoints = Len(buf)
    BY <1>1, <1>2, TimeseriesAssumption DEF appendPoint
  <2>2. /\ SubSeq(b, 2, Len(b)) \in Seq(Sample)
        /\ Len(SubSeq(b, 2, Len(b))) = Len(buf)
        /\ \A i \in 1..Len(buf) : SubSeq(b, 2, Len(b))[i] = b[i + 1]
    BY <1>1
  <2>3. \A i \in 1..Len(buf) : SubSeq(b, 2, Len(b))[i] \in {buf[j] : j \in 1..Len(buf)} \cup {n}
    <3>1. \A j \in 1..Len(buf) + 1 : b[j] \in {buf[k] : k \in 1..Len(buf)} \cup {n}
      BY <1>1
    <3> HIDE DEF b
    <3> QED
      BY <1>1, <2>2, <3>1
  <2> QED
    BY <1>1, <2>1, <2>2, <2>3
<1>3. CASE ~(Len(b) > MaxPoints)
  <2>1. appendPoint(buf, n) = b
    BY <1>3 DEF appendPoint
  <2> QED
    BY <1>1, <1>3, <2>1, TimeseriesAssumption
<1> QED
  BY <1>2, <1>3

LEMMA TypeInit == Init => TypeOK
BY TimeseriesAssumption DEF Init, TypeOK, Flusher, Key, Sample

LEMMA TypeStep == TypeOK /\ [Next]_vars => TypeOK'
<1> SUFFICES ASSUME TypeOK, [Next]_vars PROVE TypeOK'
  OBVIOUS
<1> USE TimeseriesAssumption
<1>0. \A phase \in {"load", "idle", "save", "prune", "mark"} :
        [flusher EXCEPT !.phase = phase] \in Flusher
  BY DEF TypeOK, Flusher
<1>1. ASSUME NEW p \in Pusher, TakeTime(p) PROVE TypeOK'
  BY <1>1 DEF TakeTime, TypeOK, Sample
<1>2. ASSUME NEW p \in Pusher, NEW host \in Host, NEW others \in SUBSET Other,
             recordTimeseries(p, host, others)
      PROVE  TypeOK'
  <2>1. pusher[p] \in Sample
    BY <1>2 DEF recordTimeseries, TypeOK
  <2>2. ASSUME NEW k \in Key
        PROVE  /\ appendPoint(buffers[k], pusher[p]) \in Seq(Sample)
               /\ Len(appendPoint(buffers[k], pusher[p])) <= MaxPoints
    BY <2>1, AppendPoint DEF TypeOK
  <2>3. buffers' \in [Key -> Seq(Sample)] /\ \A k \in Key : Len(buffers'[k]) <= MaxPoints
    BY <1>2, <2>2 DEF recordTimeseries, TypeOK
  <2> QED
    BY <1>2, <2>3 DEF recordTimeseries, TypeOK
<1>3. CASE Collect
  BY <1>3 DEF Collect, TypeOK, Flusher
<1>4. CASE SaveTimeseries
  <2>1. ASSUME NEW rows, Insert(rows) PROVE copies' \in [Host -> [Sample -> Nat]]
    BY <2>1 DEF Insert, TypeOK
  <2>2. copies' \in [Host -> [Sample -> Nat]]
    BY <1>4, <2>1 DEF SaveTimeseries, TypeOK
  <2>3. flusher' \in Flusher
    BY <1>4, <1>0 DEF SaveTimeseries, Flusher
  <2> QED
    BY <1>4, <2>2, <2>3 DEF SaveTimeseries, TypeOK
<1>5. CASE PruneTimeseries
  <2>1. ASSUME NEW h \in Host, NEW n \in Sample
        PROVE  (IF ts[n] + Day < clock THEN 0 ELSE copies[h][n]) \in Nat
    BY DEF TypeOK
  <2> DEFINE pruned == [h \in Host |-> [n \in Sample |->
                          IF ts[n] + Day < clock THEN 0 ELSE copies[h][n]]]
  <2>4. pruned \in [Host -> [Sample -> Nat]]
    BY <2>1
  <2>5. copies' = pruned \/ copies' = copies
    BY <1>5 DEF PruneTimeseries
  <2>2. copies' \in [Host -> [Sample -> Nat]]
    BY <2>4, <2>5 DEF TypeOK
  <2>3. flusher' \in Flusher
    BY <1>0, <1>5 DEF PruneTimeseries
  <2> QED
    BY <1>5, <2>2, <2>3 DEF PruneTimeseries, TypeOK
<1>6. CASE Mark
  BY <1>6 DEF Mark, TypeOK, Flusher
<1>7. CASE Crash
  BY <1>7 DEF Crash, TypeOK, Flusher, Stored
<1>8. ASSUME NEW h \in Host, NEW n \in Sample, LoadRow(h, n) PROVE TypeOK'
  <2>1. /\ appendPoint(buffers[h], n) \in Seq(Sample)
        /\ Len(appendPoint(buffers[h], n)) <= MaxPoints
    BY AppendPoint DEF TypeOK, Key
  <2>2. buffers' \in [Key -> Seq(Sample)] /\ \A k \in Key : Len(buffers'[k]) <= MaxPoints
    BY <1>8, <2>1 DEF LoadRow, TypeOK, Key
  <2> QED
    BY <1>8, <2>2 DEF LoadRow, TypeOK, Flusher
<1>9. CASE LoadEnds
  BY <1>9 DEF LoadEnds, TypeOK, Flusher
<1>10. CASE Tick
  BY <1>10 DEF Tick, TypeOK
<1>11. CASE UNCHANGED vars
  BY <1>11 DEF vars, TypeOK
<1> QED
  BY <1>1, <1>2, <1>3, <1>4, <1>5, <1>6, <1>7, <1>8, <1>9, <1>10, <1>11
  DEF Next, Record, Flush, Restart

\* Types hold in every reachable state, and no ring buffer outgrows maxPoints.
THEOREM TypeCorrect == Spec => []TypeOK
  BY TypeInit, TypeStep, PTL DEF Spec

-----------------------------------------------------------------------------
\* What each step does to the charts, the table and the samples' times.

\* A delivered sample is the only one that is new in a chart.
LEMMA RecordBuffers ==
  ASSUME TypeOK, NEW p \in Pusher, NEW host \in Host, NEW others \in SUBSET Other,
         recordTimeseries(p, host, others), NEW h \in Host
  PROVE  Buffered(h)' \subseteq Buffered(h) \cup {pusher[p]}
<1>1. pusher[p] \in Sample /\ h \in Key
  BY DEF recordTimeseries, TypeOK, Key
<1>2. buffers[h] \in Seq(Sample) /\ Len(buffers[h]) <= MaxPoints
  BY <1>1 DEF TypeOK
<1>3. buffers'[h] \in {buffers[h], appendPoint(buffers[h], pusher[p])}
  BY <1>1 DEF recordTimeseries
<1>4. CASE buffers'[h] = buffers[h]
  BY <1>4 DEF Buffered
<1>5. CASE buffers'[h] = appendPoint(buffers[h], pusher[p])
  <2>1. {appendPoint(buffers[h], pusher[p])[i] : i \in 1..Len(appendPoint(buffers[h], pusher[p]))}
          \subseteq {buffers[h][j] : j \in 1..Len(buffers[h])} \cup {pusher[p]}
    BY <1>1, <1>2, AppendPoint
  <2> QED
    BY <1>5, <2>1 DEF Buffered
<1> QED
  BY <1>3, <1>4, <1>5

LEMMA LoadBuffers ==
  ASSUME TypeOK, NEW g \in Host, NEW n \in Sample, LoadRow(g, n), NEW h \in Host
  PROVE  Buffered(h)' \subseteq Buffered(h) \cup (IF h = g THEN {n} ELSE {})
<1>1. h \in Key /\ g \in Key
  BY DEF Key
<1>2. buffers[h] \in Seq(Sample) /\ Len(buffers[h]) <= MaxPoints
  BY <1>1 DEF TypeOK
<1>3. CASE h # g
  BY <1>1, <1>3 DEF LoadRow, Buffered, TypeOK
<1>4. CASE h = g
  <2>0. buffers'[h] = appendPoint(buffers[h], n)
    BY <1>1, <1>4 DEF LoadRow, TypeOK
  <2>1. {appendPoint(buffers[h], n)[i] : i \in 1..Len(appendPoint(buffers[h], n))}
          \subseteq {buffers[h][j] : j \in 1..Len(buffers[h])} \cup {n}
    BY <1>2, AppendPoint
  <2> QED
    BY <1>4, <2>0, <2>1 DEF Buffered
<1> QED
  BY <1>3, <1>4

LEMMA BufferedType ==
  ASSUME TypeOK, NEW h \in Host
  PROVE  Buffered(h) \subseteq Sample
<1>1. buffers[h] \in Seq(Sample)
  BY DEF TypeOK, Key
<1> QED
  BY <1>1 DEF Buffered

\* An insertion adds at most one row per sample, and only to those it names.
LEMMA InsertCopies ==
  ASSUME TypeOK, NEW rows, Insert(rows), NEW h \in Host, NEW n \in Sample
  PROVE  copies'[h][n] = IF <<h, n>> \in rows THEN copies[h][n] + 1 ELSE copies[h][n]
<1>1. copies[h][n] \in Nat
  BY DEF TypeOK
<1> QED
  BY <1>1 DEF Insert

LEMMA TInit == Init => TInv
<1> SUFFICES ASSUME Init PROVE TInv
  OBVIOUS
<1>1. TypeOK
  BY TypeInit
<1>2. \A h \in Host : Buffered(h) = {}
  <2> SUFFICES ASSUME NEW h \in Host PROVE Buffered(h) = {}
    OBVIOUS
  <2>1. buffers[h] = <<>>
    BY DEF Init, Key
  <2>2. Len(buffers[h]) = 0
    BY <2>1
  <2> QED
    BY <2>2 DEF Buffered
<1> QED
  BY <1>1, <1>2 DEF Init, TInv, Fresh, Apart, Divided, NoDuplicates

-----------------------------------------------------------------------------
\* TInv, action by action.

LEMMA KeepTakeTime ==
  ASSUME TInv, TypeOK', NEW p \in Pusher, TakeTime(p)
  PROVE  TInv'
<1> USE DEF TInv
<1> DEFINE new == taken + 1
<1>0. /\ new \in Sample /\ taken \in Nat /\ taken' = new /\ pusher[p] = 0
      /\ pusher' = [pusher EXCEPT ![p] = new] /\ ts' = [ts EXCEPT ![new] = clock]
      /\ UNCHANGED <<clock, buffers, lastFlush, flusher, copies>>
      /\ \A n \in Sample : n <= taken => n # new /\ ts'[n] = ts[n]
      /\ clock \in Nat /\ \A q \in Pusher : pusher[q] \in {0} \cup Sample
  BY DEF TakeTime, TypeOK, Sample
<1> HIDE DEF new
<1>1. \A h \in Host : Buffered(h)' = Buffered(h) /\ Buffered(h) \subseteq Sample
  BY <1>0, BufferedType DEF Buffered
<1>2. \A r \in flusher.rows : r[1] \in Host /\ r[2] \in Sample
  BY DEF TypeOK, Flusher
<1>3. Fresh'
  BY <1>0, <1>1, <1>2 DEF Fresh, TypeOK, Sample, new
<1>4. Apart'
  <2>1. /\ \A q \in Pusher : pusher[q] # new
        /\ \A h \in Host : new \notin Buffered(h) /\ <<h, new>> \notin flusher.rows
    BY <1>0, <1>1, <1>2 DEF Fresh, new
  <2>2. \A h \in Host : copies[h][new] = 0
    BY <1>0 DEF Fresh, TypeOK, new
  <2> QED
    BY <1>0, <1>1, <2>1, <2>2 DEF Apart, TypeOK
<1>5. Divided'
  <2>1. \A h \in Host : \A n \in Buffered(h) : n <= taken
    BY DEF Fresh
  <2>2. \A r \in flusher.rows : r[2] <= taken
    BY DEF Fresh
  <2> QED
    BY <1>0, <1>1, <1>2, <2>1, <2>2 DEF Divided
<1>6. NoDuplicates'
  BY <1>0 DEF NoDuplicates
<1> QED
  BY <1>3, <1>4, <1>5, <1>6

LEMMA KeepRecord ==
  ASSUME TInv, TypeOK', NEW p \in Pusher, NEW host \in Host, NEW others \in SUBSET Other,
         recordTimeseries(p, host, others)
  PROVE  TInv'
<1> USE DEF TInv
<1> PICK n \in Sample : n = pusher[p]
  BY DEF recordTimeseries, TypeOK
<1>0. /\ n # 0 /\ n \in Nat /\ pusher' = [pusher EXCEPT ![p] = 0]
      /\ flusher.phase # "load"
      /\ UNCHANGED <<clock, taken, ts, lastFlush, flusher, copies>>
  BY DEF recordTimeseries, Sample, Serving
<1>1. \A h \in Host : Buffered(h)' \subseteq Buffered(h) \cup {n}
  BY RecordBuffers
<1>2. n <= taken /\ \A h \in Host : copies[h][n] = 0
  BY <1>0 DEF Fresh, Apart
<1>3. Fresh'
  BY <1>0, <1>1, <1>2 DEF Fresh, TypeOK
<1>4. Apart'
  <2>1. \A q \in Pusher : pusher'[q] # 0 => q # p /\ pusher'[q] = pusher[q] /\ pusher[q] # n
    BY <1>0 DEF Apart, TypeOK
  <2> QED
    BY <1>0, <1>1, <2>1 DEF Apart
<1>5. Divided'
  BY <1>0, <1>1, <1>2 DEF Divided
<1>6. NoDuplicates'
  BY <1>0 DEF NoDuplicates
<1> QED
  BY <1>3, <1>4, <1>5, <1>6

LEMMA KeepCollect ==
  ASSUME TInv, TypeOK', Collect
  PROVE  TInv'
<1> USE DEF TInv
<1> DEFINE rows == {r \in Host \X Sample : r[2] \in Buffered(r[1]) /\ ts[r[2]] > lastFlush}
<1>0. /\ flusher.phase = "idle" /\ flusher'.phase = "save" /\ flusher'.rows = rows
      /\ UNCHANGED <<clock, taken, ts, buffers, lastFlush, pusher, copies>>
      /\ \A h \in Host : Buffered(h)' = Buffered(h)
  BY DEF Collect, Buffered
<1>1. Fresh'
  BY <1>0 DEF Fresh
<1>2. Apart'
  BY <1>0 DEF Apart
<1>3. \A r \in rows : copies[r[1]][r[2]] = 0
  <2>1. ASSUME NEW r \in rows PROVE ~(copies[r[1]][r[2]] > 0)
    BY <1>0 DEF Divided, TypeOK
  <2>2. ASSUME NEW r \in rows PROVE copies[r[1]][r[2]] \in Nat
    BY DEF TypeOK
  <2>3. ASSUME NEW r \in rows PROVE copies[r[1]][r[2]] = 0
    BY <2>1, <2>2
  <2> QED
    BY <2>3
<1>4. Divided'
  <2>1. flusher'.phase = "save" => \A r \in flusher'.rows : copies'[r[1]][r[2]] = 0
    BY <1>0, <1>3
  <2> QED
    BY <1>0, <2>1 DEF Divided
<1>5. NoDuplicates'
  BY <1>0 DEF NoDuplicates
<1> QED
  BY <1>1, <1>2, <1>4, <1>5

LEMMA KeepSave ==
  ASSUME TInv, TypeOK', SaveTimeseries
  PROVE  TInv'
<1> USE DEF TInv
<1>0. /\ flusher.phase = "save"
      /\ UNCHANGED <<clock, taken, ts, buffers, lastFlush, pusher>>
      /\ \A h \in Host : Buffered(h)' = Buffered(h)
  BY DEF SaveTimeseries, Buffered
<1>1. CASE UNCHANGED copies /\ flusher' = [phase |-> "idle", rows |-> {}]
  BY <1>0, <1>1 DEF Fresh, Apart, Divided, NoDuplicates
<1>2. ASSUME NEW part \in SUBSET flusher.rows, Insert(part),
             flusher' = [flusher EXCEPT !.phase = "prune"]
      PROVE  TInv'
  <2>0. flusher'.phase = "prune" /\ flusher'.rows = flusher.rows
    BY <1>2 DEF TypeOK, Flusher
  <2>1. ASSUME NEW h \in Host, NEW n \in Sample
        PROVE  copies'[h][n] = IF <<h, n>> \in part THEN 1 ELSE copies[h][n]
    <3>1. <<h, n>> \in part => copies[h][n] = 0
      BY <1>0 DEF Divided
    <3> QED
      BY <1>2, <3>1, InsertCopies
  <2>6. ASSUME NEW h \in Host, NEW n \in Sample, copies'[h][n] > 0 PROVE n <= taken
    <3>1. CASE <<h, n>> \in part
      BY <3>1 DEF Fresh
    <3>2. CASE <<h, n>> \notin part
      BY <2>1, <2>6, <3>2 DEF Fresh
    <3> QED
      BY <3>1, <3>2
  <2>2. Fresh'
    BY <1>0, <2>0, <2>6 DEF Fresh
  <2>3. Apart'
    BY <1>0, <2>0, <2>1 DEF Apart, TypeOK
  <2>4. Divided'
    BY <2>0 DEF Divided
  <2>7. ASSUME NEW h \in Host, NEW n \in Sample PROVE copies'[h][n] <= 1
    <3>1. copies[h][n] <= 1
      BY DEF NoDuplicates
    <3>2. copies'[h][n] = 1 \/ copies'[h][n] = copies[h][n]
      BY <2>1
    <3> QED
      BY <3>1, <3>2
  <2>5. NoDuplicates'
    BY <2>7 DEF NoDuplicates
  <2> QED
    BY <2>2, <2>3, <2>4, <2>5
<1> QED
  BY <1>1, <1>2 DEF SaveTimeseries

LEMMA KeepPrune ==
  ASSUME TInv, TypeOK', PruneTimeseries
  PROVE  TInv'
<1> USE DEF TInv
<1>0. /\ UNCHANGED <<clock, taken, ts, buffers, lastFlush, pusher>>
      /\ \A h \in Host : Buffered(h)' = Buffered(h)
      /\ flusher'.phase = "mark" /\ flusher'.rows = flusher.rows
  BY DEF PruneTimeseries, Buffered, TypeOK, Flusher
<1>1. \A h \in Host, n \in Sample : copies'[h][n] = copies[h][n] \/ copies'[h][n] = 0
  BY DEF PruneTimeseries
<1>6. ASSUME NEW h \in Host, NEW n \in Sample, copies'[h][n] > 0 PROVE n <= taken
  <2>1. copies[h][n] > 0
    BY <1>1, <1>6
  <2> QED
    BY <2>1 DEF Fresh
<1>2. Fresh'
  BY <1>0, <1>6 DEF Fresh
<1>3. Apart'
  BY <1>0, <1>1 DEF Apart, TypeOK
<1>4. Divided'
  BY <1>0 DEF Divided
<1>5. NoDuplicates'
  BY <1>1 DEF NoDuplicates
<1> QED
  BY <1>2, <1>3, <1>4, <1>5

LEMMA KeepMark ==
  ASSUME TInv, TypeOK', Mark
  PROVE  TInv'
<1> USE DEF TInv
<1>0. /\ UNCHANGED <<clock, taken, ts, buffers, pusher, copies>>
      /\ lastFlush' = clock
      /\ flusher'.phase = "idle" /\ flusher'.rows = {}
      /\ \A h \in Host : Buffered(h)' = Buffered(h) /\ Buffered(h) \subseteq Sample
  BY BufferedType DEF Mark, Buffered
<1>1. Fresh'
  BY <1>0 DEF Fresh, TypeOK
<1>2. Apart'
  BY <1>0 DEF Apart
<1>3. Divided'
  BY <1>0 DEF Divided, Fresh
<1>4. NoDuplicates'
  BY <1>0 DEF NoDuplicates
<1> QED
  BY <1>1, <1>2, <1>3, <1>4

LEMMA KeepCrash ==
  ASSUME TInv, TypeOK', Crash
  PROVE  TInv'
<1> USE DEF TInv
<1>0. /\ UNCHANGED <<clock, taken, ts, copies>>
      /\ lastFlush' = 0
      /\ flusher'.rows \subseteq Stored
      /\ \A p \in Pusher : pusher'[p] = 0
  BY DEF Crash
<1>1. ASSUME NEW h \in Host PROVE Buffered(h)' = {}
  <2>1. Len(buffers'[h]) = 0
    BY DEF Crash, Key
  <2> QED
    BY <2>1 DEF Buffered
<1>2. flusher'.phase # "save"
  BY DEF Crash
<1>3. \A r \in flusher'.rows : r[2] \in Sample /\ r[2] <= taken /\ ts[r[2]] \in Nat
  BY <1>0 DEF Stored, Fresh, TypeOK
<1>4. Fresh'
  BY <1>0, <1>1, <1>3 DEF Fresh, TypeOK
<1>5. Apart'
  BY <1>0 DEF Apart
<1>6. Divided'
  BY <1>0, <1>1, <1>2, <1>3 DEF Divided
<1>7. NoDuplicates'
  BY <1>0 DEF NoDuplicates
<1> QED
  BY <1>4, <1>5, <1>6, <1>7

LEMMA KeepLoad ==
  ASSUME TInv, TypeOK', NEW g \in Host, NEW n \in Sample, LoadRow(g, n)
  PROVE  TInv'
<1> USE DEF TInv
<1>0. /\ UNCHANGED <<clock, taken, ts, copies, pusher>>
      /\ <<g, n>> \in flusher.rows /\ flusher.phase = "load"
      /\ lastFlush' = ts[n] /\ lastFlush <= ts[n] /\ ts[n] <= clock /\ n <= taken
      /\ flusher'.phase = "load" /\ flusher'.rows \subseteq flusher.rows
      /\ \A r \in flusher.rows : ts[n] <= ts[r[2]]
  BY DEF LoadRow, TypeOK, Flusher, Divided, Fresh
<1>1. \A h \in Host : Buffered(h)' \subseteq Buffered(h) \cup (IF h = g THEN {n} ELSE {})
  BY LoadBuffers
<1>2. \A h \in Host : Buffered(h) \subseteq Sample
  BY BufferedType
<1>3. Fresh'
  BY <1>0, <1>1 DEF Fresh
<1>4. Apart'
  <2>1. \A p \in Pusher : pusher[p] # 0 => <<g, pusher[p]>> \notin flusher.rows
    BY DEF Apart
  <2>2. \A p \in Pusher : pusher[p] # 0 => \A h \in Host : pusher[p] \notin Buffered(h)'
    BY <1>0, <1>1, <2>1 DEF Apart
  <2> QED
    BY <1>0, <2>2 DEF Apart
<1>5. Divided'
  <2>1. ASSUME NEW h \in Host, NEW m \in Buffered(h)', copies[h][m] > 0
        PROVE  ts[m] <= ts[n]
    <3>1. CASE m \in Buffered(h)
      <4>1. ts[m] <= lastFlush /\ ts[m] \in Nat /\ lastFlush \in Nat /\ ts[n] \in Nat
        BY <1>0, <1>2, <2>1, <3>1 DEF Divided, TypeOK
      <4> QED
        BY <1>0, <4>1
    <3>2. CASE m = n
      BY <3>2 DEF TypeOK
    <3> QED
      BY <1>1, <3>1, <3>2
  <2> QED
    BY <1>0, <2>1 DEF Divided
<1>6. NoDuplicates'
  BY <1>0 DEF NoDuplicates
<1> QED
  BY <1>3, <1>4, <1>5, <1>6

LEMMA TStep == TInv /\ [Next]_vars => TInv'
<1> SUFFICES ASSUME TInv, [Next]_vars PROVE TInv'
  OBVIOUS
<1>1. TypeOK'
  BY TypeStep DEF TInv
<1>2. CASE LoadEnds
  <2>1. /\ flusher'.phase = "idle" /\ flusher'.rows = flusher.rows /\ flusher.phase = "load"
        /\ UNCHANGED <<clock, taken, ts, buffers, lastFlush, pusher, copies>>
    BY <1>2 DEF LoadEnds, TInv, TypeOK, Flusher
  <2> QED
    BY <1>1, <2>1 DEF TInv, Fresh, Apart, Divided, NoDuplicates, Buffered
<1>3. CASE Tick
  <2>1. clock' = clock + 1 /\ UNCHANGED <<taken, ts, buffers, lastFlush, pusher, flusher, copies>>
    BY <1>3 DEF Tick
  <2>2. Fresh'
    BY <2>1 DEF TInv, Fresh, TypeOK, Buffered
  <2> QED
    BY <1>1, <2>1, <2>2 DEF TInv, Apart, Divided, NoDuplicates, Buffered
<1>4. CASE UNCHANGED vars
  BY <1>1, <1>4 DEF vars, TInv, Fresh, Apart, Divided, NoDuplicates, Buffered
<1> QED
  BY <1>1, <1>2, <1>3, <1>4, KeepTakeTime, KeepRecord, KeepCollect, KeepSave, KeepPrune,
     KeepMark, KeepCrash, KeepLoad DEF Next, Record, Flush, Restart

\* No sample is stored twice, whatever requests, flushes, failing statements and
\* restarts do: lastFlush divides the samples of the charts as it should.
THEOREM NeverTwice == Spec => []NoDuplicates
<1>1. TInv => NoDuplicates
  BY DEF TInv
<1> QED
  BY <1>1, TInit, TStep, PTL DEF Spec

-----------------------------------------------------------------------------
\* What appendPoint does to the order of a buffer: it moves the points it keeps
\* by one place when the buffer was full, and by none when it was not.
LEMMA AppendShape ==
  ASSUME NEW buf \in Seq(Sample), Len(buf) <= MaxPoints, NEW n \in Sample
  PROVE  LET b == appendPoint(buf, n)
         IN /\ b \in Seq(Sample) /\ Len(b) > 0 /\ b[Len(b)] = n
            /\ \/ /\ Len(buf) < MaxPoints /\ Len(b) = Len(buf) + 1
                  /\ \A i \in 1..Len(buf) : b[i] = buf[i]
               \/ /\ Len(buf) = MaxPoints /\ Len(b) = MaxPoints
                  /\ \A i \in 1..MaxPoints - 1 : b[i] = buf[i + 1]
<1> DEFINE a == Append(buf, n)
<1>1. /\ a \in Seq(Sample) /\ Len(a) = Len(buf) + 1 /\ Len(buf) \in Nat
      /\ a[Len(buf) + 1] = n /\ \A j \in 1..Len(buf) : a[j] = buf[j]
      /\ MaxPoints \in Nat \ {0}
  BY TimeseriesAssumption
<1>2. CASE Len(buf) = MaxPoints
  <2>1. appendPoint(buf, n) = SubSeq(a, 2, Len(a))
    BY <1>1, <1>2 DEF appendPoint
  <2>2. /\ SubSeq(a, 2, Len(a)) \in Seq(Sample)
        /\ Len(SubSeq(a, 2, Len(a))) = MaxPoints
        /\ \A i \in 1..MaxPoints : SubSeq(a, 2, Len(a))[i] = a[i + 1]
    BY <1>1, <1>2
  <2> HIDE DEF a
  <2>3. \A i \in 1..MaxPoints - 1 : a[i + 1] = buf[i + 1]
    BY <1>1, <1>2
  <2> QED
    BY <1>1, <1>2, <2>1, <2>2, <2>3
<1>3. CASE Len(buf) < MaxPoints
  <2>1. appendPoint(buf, n) = a
    BY <1>1, <1>3 DEF appendPoint
  <2> HIDE DEF a
  <2> QED
    BY <1>1, <1>3, <2>1
<1> HIDE DEF a
<1> QED
  BY <1>1, <1>2, <1>3

-----------------------------------------------------------------------------
\* While rows are loaded, a chart is in the order of the times, nothing left to
\* load is older than what is in it, and what was loaded and is not in it is not
\* newer than any of a full chart.

Sorted(b) == \A i \in 1..Len(b) - 1 : ts[b[i]] <= ts[b[i + 1]]

LoadedInOrder(h) ==
  /\ Sorted(buffers[h])
  /\ \A i \in 1..Len(buffers[h]), r \in flusher.rows : ts[buffers[h][i]] <= ts[r[2]]
  /\ \A n \in Sample : copies[h][n] > 0 /\ n \notin Buffered(h) /\ <<h, n>> \notin flusher.rows =>
       Len(buffers[h]) = MaxPoints /\ ts[n] <= ts[buffers[h][1]]

LoadInv == TypeOK /\ (flusher.phase = "load" => \A h \in Host : LoadedInOrder(h))

LEMMA LoadRowKeepsOrder ==
  ASSUME LoadInv, NEW g \in Host, NEW n \in Sample, LoadRow(g, n), NEW h \in Host
  PROVE  LoadedInOrder(h)'
<1> DEFINE buf == buffers[h]
           new == buffers'[h]
<1>1. /\ flusher.phase = "load" /\ <<g, n>> \in flusher.rows
      /\ \A r \in flusher.rows : r[1] \in Host /\ r[2] \in Sample /\ ts[n] <= ts[r[2]]
      /\ flusher'.rows = flusher.rows \ {<<g, n>>}
      /\ UNCHANGED <<ts, copies>>
      /\ LoadedInOrder(h) /\ h \in Key
      /\ buf \in Seq(Sample) /\ Len(buf) <= MaxPoints /\ Len(buf) \in Nat
      /\ \A m \in Sample : ts[m] \in Nat
      /\ MaxPoints \in Nat \ {0}
  BY TimeseriesAssumption DEF LoadRow, LoadInv, TypeOK, Flusher, Key
<1>2. CASE h # g
  <2>1. new = buf /\ Buffered(h)' = Buffered(h)
    BY <1>1, <1>2 DEF LoadRow, LoadInv, TypeOK, Buffered
  <2>2. \A m \in Sample : <<h, m>> \notin flusher'.rows => <<h, m>> \notin flusher.rows
    BY <1>1, <1>2
  <2> QED
    BY <1>1, <2>1, <2>2 DEF LoadedInOrder, Sorted
<1>3. CASE h = g
  <2>1. new = appendPoint(buf, n)
    BY <1>1, <1>3 DEF LoadRow, LoadInv, TypeOK
  <2>2. /\ new \in Seq(Sample) /\ Len(new) > 0 /\ new[Len(new)] = n
        /\ \/ /\ Len(buf) < MaxPoints /\ Len(new) = Len(buf) + 1
              /\ \A i \in 1..Len(buf) : new[i] = buf[i]
           \/ /\ Len(buf) = MaxPoints /\ Len(new) = MaxPoints
              /\ \A i \in 1..MaxPoints - 1 : new[i] = buf[i + 1]
    <3>1. buf \in Seq(Sample) /\ Len(buf) <= MaxPoints
      BY <1>1
    <3> HIDE DEF buf, new
    <3> QED
      BY <2>1, <3>1, AppendShape
  <2>3. /\ \A i \in 1..Len(buf) - 1 : ts[buf[i]] <= ts[buf[i + 1]]
        /\ \A i \in 1..Len(buf) : ts[buf[i]] <= ts[n] /\ buf[i] \in Sample
    BY <1>1, <1>3 DEF LoadedInOrder, Sorted
  <2> HIDE DEF buf, new
  <2>4. \A i \in 1..Len(new) - 1 : ts[new[i]] <= ts[new[i + 1]]
    <3>1. CASE Len(new) = Len(buf) + 1 /\ \A i \in 1..Len(buf) : new[i] = buf[i]
      <4> SUFFICES ASSUME NEW i \in 1..Len(new) - 1 PROVE ts[new[i]] <= ts[new[i + 1]]
        OBVIOUS
      <4>1. CASE i = Len(buf)
        BY <1>1, <2>2, <2>3, <3>1, <4>1
      <4>2. CASE i < Len(buf)
        BY <1>1, <2>3, <3>1, <4>2
      <4> QED
        BY <1>1, <3>1, <4>1, <4>2
    <3>2. CASE Len(buf) = MaxPoints /\ Len(new) = MaxPoints
               /\ \A i \in 1..MaxPoints - 1 : new[i] = buf[i + 1]
      <4> SUFFICES ASSUME NEW i \in 1..MaxPoints - 1 PROVE ts[new[i]] <= ts[new[i + 1]]
        BY <3>2
      <4>1. CASE i = MaxPoints - 1
        BY <1>1, <2>2, <2>3, <3>2, <4>1
      <4>2. CASE i < MaxPoints - 1
        BY <1>1, <2>3, <3>2, <4>2
      <4> QED
        BY <1>1, <4>1, <4>2
    <3> QED
      BY <2>2, <3>1, <3>2
  <2>5. \A i \in 1..Len(new) : ts[new[i]] <= ts[n]
    <3> SUFFICES ASSUME NEW i \in 1..Len(new) PROVE ts[new[i]] <= ts[n]
      OBVIOUS
    <3>1. new[i] = n \/ \E j \in 1..Len(buf) : new[i] = buf[j]
      <4>1. CASE Len(new) = Len(buf) + 1 /\ \A j \in 1..Len(buf) : new[j] = buf[j]
        BY <1>1, <2>2, <4>1
      <4>2. CASE Len(buf) = MaxPoints /\ Len(new) = MaxPoints
                 /\ \A j \in 1..MaxPoints - 1 : new[j] = buf[j + 1]
        BY <1>1, <2>2, <4>2
      <4> QED
        BY <2>2, <4>1, <4>2
    <3> QED
      BY <1>1, <2>3, <3>1
  <2>6. \A i \in 1..Len(new), r \in flusher'.rows : ts[new[i]] <= ts[r[2]]
    <3> SUFFICES ASSUME NEW i \in 1..Len(new), NEW r \in flusher'.rows
                 PROVE  ts[new[i]] <= ts[r[2]]
      OBVIOUS
    <3>1. ts[n] <= ts[r[2]] /\ ts[r[2]] \in Nat
      BY <1>1
    <3>2. ts[new[i]] \in Nat
      BY <1>1, <2>2
    <3> QED
      BY <1>1, <2>5, <3>1, <3>2
  \* A point that is not in the chart any more, or never was.
  <2>7. ASSUME NEW m \in Sample, copies[h][m] > 0, m \notin Buffered(h)', <<h, m>> \notin flusher'.rows
        PROVE  Len(new) = MaxPoints /\ ts[m] <= ts[new[1]]
    <3>1. Buffered(h)' = {new[i] : i \in 1..Len(new)} /\ Buffered(h) = {buf[i] : i \in 1..Len(buf)}
      BY DEF Buffered, buf, new
    <3>5. \A i \in 1..Len(new) : m # new[i]
      BY <2>7, <3>1
    <3>2. m # n /\ <<h, m>> \notin flusher.rows
      BY <1>1, <1>3, <2>2, <2>7, <3>5
    <3>3. CASE m \in Buffered(h)
      <4>1. PICK i \in 1..Len(buf) : m = buf[i]
        BY <3>1, <3>3
      <4>2. /\ Len(buf) = MaxPoints /\ Len(new) = MaxPoints
            /\ \A j \in 1..MaxPoints - 1 : new[j] = buf[j + 1]
        <5>1. ~ \A j \in 1..Len(buf) : Len(new) = Len(buf) + 1 /\ new[j] = buf[j]
          BY <1>1, <3>5, <4>1
        <5> QED
          BY <2>2, <4>1, <5>1
      <4>3. i = 1
        <5> SUFFICES ASSUME i # 1 PROVE FALSE
          OBVIOUS
        <5>1. i - 1 \in 1..MaxPoints - 1 /\ new[i - 1] = buf[(i - 1) + 1]
          BY <1>1, <4>2
        <5> QED
          BY <1>1, <3>5, <4>1, <4>2, <5>1
      <4>4. CASE MaxPoints = 1
        BY <1>1, <2>2, <2>3, <4>1, <4>2, <4>4
      <4>5. CASE MaxPoints # 1
        BY <1>1, <2>3, <4>1, <4>2, <4>3, <4>5
      <4> QED
        BY <4>2, <4>4, <4>5
    <3>4. CASE m \notin Buffered(h)
      <4>1. Len(buf) = MaxPoints /\ ts[m] <= ts[buf[1]]
        BY <1>1, <2>7, <3>2, <3>4 DEF LoadedInOrder, buf
      <4>2. Len(new) = MaxPoints /\ \A j \in 1..MaxPoints - 1 : new[j] = buf[j + 1]
        BY <1>1, <2>2, <4>1
      <4>3. ts[buf[1]] <= ts[new[1]]
        <5>1. CASE MaxPoints = 1
          BY <1>1, <2>2, <2>3, <4>1, <4>2, <5>1
        <5>2. CASE MaxPoints # 1
          BY <1>1, <2>3, <4>1, <4>2, <5>2
        <5> QED
          BY <5>1, <5>2
      <4>4. ts[m] \in Nat /\ ts[buf[1]] \in Nat /\ ts[new[1]] \in Nat
        BY <1>1, <2>2, <2>3, <4>1
      <4> QED
        BY <4>1, <4>2, <4>3, <4>4
    <3> QED
      BY <3>3, <3>4
  <2> QED
    BY <1>1, <2>4, <2>6, <2>7 DEF LoadedInOrder, Sorted, new
<1> QED
  BY <1>2, <1>3

LEMMA LoadInit == Init => LoadInv
<1> SUFFICES ASSUME Init, NEW h \in Host PROVE LoadedInOrder(h)
  BY TypeInit DEF LoadInv
<1>1. buffers[h] = <<>> /\ flusher.rows = {} /\ \A n \in Sample : copies[h][n] = 0
  BY DEF Init, Key
<1> QED
  BY <1>1 DEF LoadedInOrder, Sorted

LEMMA LoadStep == LoadInv /\ [Next]_vars => LoadInv'
<1> SUFFICES ASSUME LoadInv, [Next]_vars, flusher'.phase = "load", NEW h \in Host
             PROVE  LoadedInOrder(h)'
  BY TypeStep DEF LoadInv
<1>1. ASSUME NEW g \in Host, NEW n \in Sample, LoadRow(g, n) PROVE LoadedInOrder(h)'
  BY <1>1, LoadRowKeepsOrder
<1>2. CASE Crash
  <2>1. buffers'[h] = <<>> /\ flusher'.rows = Stored /\ copies' = copies
    BY <1>2 DEF Crash, Key
  <2>2. Len(buffers'[h]) = 0
    BY <2>1
  <2> QED
    BY <2>1, <2>2 DEF LoadedInOrder, Sorted, Stored
<1>3. CASE UNCHANGED <<ts, buffers, flusher, copies>>
  BY <1>3 DEF LoadInv, LoadedInOrder, Sorted, Buffered
<1>4. CASE Record \/ Flush \/ LoadEnds
  <2>1. flusher'.phase # "load"
    BY <1>4 DEF Record, Flush, TakeTime, recordTimeseries, Serving, Collect, SaveTimeseries,
       PruneTimeseries, Mark, LoadEnds, LoadInv, TypeOK, Flusher
  <2> QED
    BY <2>1
<1> QED
  BY <1>1, <1>2, <1>3, <1>4 DEF Next, Restart, Tick, vars

\* A restart gives every chart back as the newest points of the table in the
\* order of their times, whatever was in the table and in whatever order it got there.
THEOREM RestartGivesNewest == Spec => []RestartKeepsNewest
<1>1. LoadInv => RestartKeepsNewest
  BY DEF LoadInv, LoadedInOrder, Sorted, RestartKeepsNewest
<1> QED
  BY <1>1, LoadInit, LoadStep, PTL DEF Spec

=============================================================================
