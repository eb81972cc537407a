------------------------------- MODULE Backups -------------------------------
(***************************************************************************)
(* Backups to an S3 bucket (internal/api/features.go): uploads on request  *)
(* and by the scheduler, pruning, and restoring over the database file.    *)
(*                                                                         *)
(* The file is copied and written without SQLite's locks, piece by piece:  *)
(* it has two halves here, each known by the transaction that wrote it.    *)
(* Keys are moments: the bucket is the sequence of its backups, oldest key *)
(* first.  A backup the pruning loop has yet to delete is marked doomed.   *)
(***************************************************************************)
EXTENDS Bounded, SequencesExt

CONSTANTS
  Manual,      \* requests for a backup (BackupToS3)
  Scheduler,   \* the goroutine of StartBackupScheduler
  Retention,   \* BACKUP_RETENTION_DAYS, which counts backups
  Page,        \* keys in one answer of the bucket; the code reads one answer
  BackupWork   \* bound: requests, transactions, failures, restores, crashes

ASSUME BackupsAssumption ==
  /\ Scheduler \notin Manual
  /\ Retention \in Nat
  /\ Page \in Nat \ {0}
  /\ BackupWork \in Nat

VARIABLES
  file,      \* the versions of the database file's halves; 0: cut off
  txn,       \* <<old, new>> while a transaction has written one half
  up,        \* [Uploader -> Upload]
  restore,   \* the request to restore: its phase and what it downloaded
  bucket,    \* Seq(Backup)
  disturbed  \* a copy, a restore or a transaction overlapped another, or a
             \* restore was cut short (history)

backupVars == <<file, txn, up, restore, bucket, disturbed, work>>

Uploader == Manual \cup {Scheduler}
Halves   == Nat \X Nat
Whole(d) == d[1] = d[2]

\* late: uploads that ended since this one took its key, which may be newer.
Upload == [phase : {"idle", "half", "put", "list", "prune"}, data : Halves, late : Nat]
Backup == [data : Halves, doomed : BOOLEAN]

NoUpload  == [phase |-> "idle", data |-> <<0, 0>>, late |-> 0]
NoRestore == [phase |-> "idle", data |-> <<0, 0>>]

Reading == \E u \in Uploader : up[u].phase = "half"
Writing == txn # <<>> \/ restore.phase = "half"

-----------------------------------------------------------------------------
\* uploadBackupToS3 begins: os.ReadFile has read the first half.
ReadFirst(u) ==
  /\ up[u].phase = "idle"
  /\ IF u = Scheduler THEN UNCHANGED work ELSE Budget(BackupWork)
  /\ up' = [up EXCEPT ![u] = [NoUpload EXCEPT !.phase = "half", !.data = <<file[1], 0>>]]
  /\ disturbed' = (disturbed \/ Writing)
  /\ UNCHANGED <<file, txn, restore, bucket>>

\* The file is read and the key is taken from the clock.
ReadSecond(u) ==
  /\ up[u].phase = "half"
  /\ up' = [up EXCEPT ![u].phase = "put", ![u].data = <<up[u].data[1], file[2]>>]
  /\ UNCHANGED <<file, txn, restore, bucket, disturbed, work>>

\* Seeded fault: a request does not end.
AfterUploadDone(u) == IF u = Scheduler THEN "list" ELSE "done"

\* Only the scheduler prunes.
AfterUpload(u) == IF u = Scheduler THEN "list" ELSE "idle"

\* s3Put: the object is stored where its key belongs.  Uploads that took their
\* keys later may have ended before; within a second two uploads have one key.
S3Put(u) ==
  /\ up[u].phase = "put"
  /\ LET b == [data |-> up[u].data, doomed |-> FALSE]
     IN \E p \in 0 .. Len(bucket) :
          /\ p + up[u].late >= Len(bucket)
          /\ \/ bucket' = InsertAt(bucket, p + 1, b)
             \/ p > 0 /\ bucket' = [bucket EXCEPT ![p].data = b.data]
  /\ up' = [v \in Uploader |->
       IF v = u THEN [NoUpload EXCEPT !.phase = AfterUpload(u)]
       ELSE IF up[v].phase = "put" /\ up[v].late < Len(bucket')
            THEN [up[v] EXCEPT !.late = @ + 1] ELSE up[v]]
  /\ UNCHANGED <<file, txn, restore, disturbed, work>>

\* s3Put fails: the request ends with 500, the scheduler sleeps on.
S3PutFails(u) ==
  /\ up[u].phase = "put" /\ Budget(BackupWork)
  /\ up' = [up EXCEPT ![u] = NoUpload]
  /\ UNCHANGED <<file, txn, restore, bucket, disturbed>>

\* Seeded fault: the newest keys are taken for the oldest.
DoomedNewest(n) == {p \in 1 .. n : p > Retention}

\* keys[:len(keys)-retention] of the n keys listed, after sort.Strings.
Doomed(n) == {p \in 1 .. n : p + Retention <= n}

\* listS3Backups and the first lines of pruneOldBackups.  An answer holds the
\* first Page keys; one that is an error is read as one without keys.
ListForPrune ==
  /\ up[Scheduler].phase = "list"
  /\ \E n \in {IF Len(bucket) < Page THEN Len(bucket) ELSE Page, 0} :
       /\ IF n = 0 /\ bucket # <<>> THEN Budget(BackupWork) ELSE UNCHANGED work
       /\ bucket' = [p \in 1 .. Len(bucket) |->
            [bucket[p] EXCEPT !.doomed = p \in Doomed(n)]]
  /\ up' = [up EXCEPT ![Scheduler].phase = "prune"]
  /\ UNCHANGED <<file, txn, restore, disturbed>>

Condemned == {p \in 1 .. Len(bucket) : bucket[p].doomed}

\* s3Delete of the next key: an error, or a status, is ignored.
S3Delete ==
  /\ up[Scheduler].phase = "prune"
  /\ \E p \in Condemned :
       /\ \A q \in Condemned : p <= q
       /\ \/ bucket' = RemoveAt(bucket, p) /\ UNCHANGED work
          \/ bucket' = [bucket EXCEPT ![p].doomed = FALSE] /\ Budget(BackupWork)
  /\ UNCHANGED <<file, txn, up, restore, disturbed>>

\* The loop is through; time.Sleep.
PruneEnds ==
  /\ up[Scheduler].phase = "prune" /\ Condemned = {}
  /\ up' = [up EXCEPT ![Scheduler] = NoUpload]
  /\ UNCHANGED <<file, txn, restore, bucket, disturbed, work>>

-----------------------------------------------------------------------------
\* Seeded fault: the error of io.ReadAll is dropped, and what came is used.
S3GetPartial ==
  /\ restore.phase = "idle" /\ Budget(BackupWork)
  /\ \E p \in 1 .. Len(bucket), d \in {0, 1} :
       restore' = [phase |-> "got",
                   data |-> IF d = 0 THEN <<bucket[p].data[1], 0>> ELSE bucket[p].data]
  /\ UNCHANGED <<file, txn, up, bucket, disturbed>>

\* RestoreFromS3: s3Get of one of the keys; a failed call changes nothing.
S3Get ==
  /\ restore.phase = "idle" /\ Budget(BackupWork)
  /\ \E p \in 1 .. Len(bucket) : restore' = [phase |-> "got", data |-> bucket[p].data]
  /\ UNCHANGED <<file, txn, up, bucket, disturbed>>

\* os.WriteFile truncates the file, which the process has open, and writes it.
WriteFirst ==
  /\ restore.phase = "got"
  /\ file' = <<restore.data[1], 0>>
  /\ restore' = [restore EXCEPT !.phase = "half"]
  /\ disturbed' = (disturbed \/ Reading \/ Writing)
  /\ UNCHANGED <<txn, up, bucket, work>>

\* The rest is written, or the disk is full.
WriteSecond ==
  /\ restore.phase = "half"
  /\ \/ file' = <<file[1], restore.data[2]>> /\ UNCHANGED <<disturbed, work>>
     \/ disturbed' = TRUE /\ Budget(BackupWork) /\ UNCHANGED file
  /\ restore' = NoRestore
  /\ UNCHANGED <<txn, up, bucket>>

\* SQLite writes the pages of a transaction one by one.
TxnFirst ==
  /\ txn = <<>> /\ Budget(BackupWork)
  /\ txn' = <<file[1], work + 2>>
  /\ file' = <<work + 2, file[2]>>
  /\ disturbed' = (disturbed \/ Reading \/ Writing)
  /\ UNCHANGED <<up, restore, bucket>>

TxnSecond ==
  /\ txn # <<>>
  /\ file' = <<file[1], txn[2]>>
  /\ txn' = <<>>
  /\ UNCHANGED <<up, restore, bucket, disturbed, work>>

\* The process dies.  SQLite rolls an open transaction back from its journal; a
\* restore stays half done; the scheduler sleeps again.
BackupCrash ==
  /\ Budget(BackupWork)
  /\ file' = IF txn = <<>> THEN file ELSE <<txn[1], file[2]>>
  /\ txn' = <<>> /\ restore' = NoRestore
  /\ up' = [u \in Uploader |-> NoUpload]
  /\ bucket' = [p \in 1 .. Len(bucket) |-> [bucket[p] EXCEPT !.doomed = FALSE]]
  /\ disturbed' = (disturbed \/ restore.phase = "half")

-----------------------------------------------------------------------------
BackupsInit ==
  /\ file = <<1, 1>> /\ txn = <<>>
  /\ up = [u \in Uploader |-> NoUpload] /\ restore = NoRestore
  /\ bucket = <<>> /\ disturbed = FALSE
  /\ work = 0

BackupsNext ==
  \/ \E u \in Uploader : ReadFirst(u) \/ ReadSecond(u) \/ S3Put(u) \/ S3PutFails(u)
  \/ ListForPrune \/ S3Delete \/ PruneEnds
  \/ S3Get \/ WriteFirst \/ WriteSecond
  \/ TxnFirst \/ TxnSecond \/ BackupCrash

BackupsSpec == BackupsInit /\ [][BackupsNext]_backupVars

-----------------------------------------------------------------------------
\* Types.
BackupsTypeOK ==
  /\ file \in Halves
  /\ txn \in {<<>>} \cup Halves
  /\ up \in [Uploader -> Upload]
  /\ restore \in [phase : {"idle", "got", "half"}, data : Halves]
  /\ bucket \in Seq(Backup)
  /\ disturbed \in BOOLEAN
  /\ work \in Nat

\* Pruning deletes no backup that is among the newest Retention of the bucket
\* at that moment, however uploads, answers cut off at a page, failed calls and
\* crashes fall between the list and the deletions (pruneOldBackups).
PruneKeepsNewest ==
  \A p \in Condemned : Len(bucket) - p >= Retention

\* As long as no copy of the database file, no restore and no transaction
\* overlapped another, every backup is the database as one transaction left it,
\* and so is the file, also after restores of such backups.
WholeUnlessOverlapped ==
  ~disturbed =>
    /\ \A p \in 1 .. Len(bucket) : Whole(bucket[p].data)
    /\ ~Writing => Whole(file)
=============================================================================
