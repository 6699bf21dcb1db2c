------------------------------ MODULE Backups ------------------------------
(***************************************************************************)
(* Backups of the three stores in files, and the archive of the operation  *)
(* log.  A backup writes a file for each store and, last, a manifest that  *)
(* names them; people restore and delete what the manifests list, while    *)
(* the loop makes the next backup and the application goes on writing.     *)
(*                                                                         *)
(* A key of Redis that cannot be dumped is left out of its file, and the   *)
(* manifest is written all the same.                                       *)
(*                                                                         *)
(* A file is named after the second it was begun in: two of one second are *)
(* one file.                                                               *)
(***************************************************************************)
EXTENDS Naturals, Sequences, FiniteSets

CONSTANTS
    Things,       \* what the stores hold: a row, a key or a vector of each
    Backers,      \* the loop and the people who back up, restore and delete
    NoFile,       \* where there is no file
    MaxSecond,    \* bound: seconds
    MaxBackups,   \* bound: backups, restores and deletions
    MaxWrites,    \* bound: changes by the application, failures included
    LogRows,      \* rows of the operation log, oldest first: 1..n
    MaxArchivings \* bound: archivings begun

ASSUME BackupAssumption ==
    /\ MaxSecond \in Nat \ {0} /\ MaxBackups \in Nat /\ MaxWrites \in Nat
    /\ LogRows \in Nat /\ MaxArchivings \in Nat
    /\ NoFile \notin [Things -> 0..2]           \* an empty store makes a file as well

VARIABLES
    second,
    inStore,      \* inStore[k][x]: how many copies of x store k holds
    dumps,        \* dumps[k][s]: the file of store k begun in second s
    manifests,    \* manifests[s]: the files named by the manifest of second s
    backer,       \* backer[b]: what b is doing
    backupsDone, writesDone,
    removedFiles, \* history: the files somebody deleted
    twice,        \* history: the files written more than once
    steady,       \* history: steady[b][k]: what k has held ever since b began its backup
    undumped,     \* history: undumped[s]: the keys left out of the file of Redis of second s
    logTable,     \* the operation log
    logFiles,     \* logFiles[s]: the rows in the archive of second s
    archiver,     \* archiver[b]: the rows b has read, exported and is about to delete
    archivings,
    logTwice      \* history: the archives written more than once

fileVars == <<second, inStore, dumps, manifests, backer, backupsDone, writesDone,
              removedFiles, twice, steady, undumped, logTable, logFiles, archiver, archivings, logTwice>>

storeVars == <<second, inStore, dumps, manifests, backer, backupsDone, writesDone, removedFiles,
               twice, steady, undumped>>
logVars == <<logTable, logFiles, archiver, archivings, logTwice>>

Stores == {"mysql", "redis", "milvus"}
BackupOrder == <<"mysql", "redis", "milvus">>
RestoreOrder == <<"milvus", "mysql", "redis">>
Seconds == 1..MaxSecond
Contents == [Things -> 0..2]
Empty == [x \in Things |-> 0]
Idle == [does |-> "nothing"]

LogEntries == 1..LogRows

BackupTypeOK ==
    /\ second \in Seconds /\ inStore \in [Stores -> Contents]
    /\ dumps \in [Stores -> [Seconds -> Contents \cup {NoFile}]]
    /\ \A s \in Seconds : manifests[s] # NoFile => manifests[s].files \in [Stores -> Seconds]
    /\ \A b \in Backers : backer[b].does \in {"nothing", "backup", "restore"}
    /\ backupsDone \in 0..MaxBackups /\ writesDone \in 0..MaxWrites
    /\ removedFiles \subseteq Stores \X Seconds /\ twice \subseteq Stores \X Seconds
    /\ steady \in [Backers -> [Stores -> SUBSET Things]]
    /\ undumped \in [Seconds -> SUBSET Things]
    /\ logTable \subseteq LogEntries /\ logFiles \in [Seconds -> SUBSET LogEntries]
    /\ archiver \in [Backers -> SUBSET LogEntries] /\ archivings \in 0..MaxArchivings
    /\ logTwice \subseteq Seconds

BackupInit ==
    /\ second = 1
    /\ \E n \in 0..1 : inStore = [k \in Stores |-> [x \in Things |-> n]]
    /\ dumps = [k \in Stores |-> [s \in Seconds |-> NoFile]]
    /\ manifests = [s \in Seconds |-> NoFile]
    /\ backer = [b \in Backers |-> Idle]
    /\ backupsDone = 0 /\ writesDone = 0 /\ removedFiles = {} /\ twice = {}
    /\ steady = [b \in Backers |-> [k \in Stores |-> {}]]
    /\ undumped = [s \in Seconds |-> {}]
    /\ logTable = LogEntries /\ logFiles = [s \in Seconds |-> {}]
    /\ archiver = [b \in Backers |-> {}] /\ archivings = 0 /\ logTwice = {}

\* Nothing has been put away, and there is nothing to put away.
backupAlone == inStore = [k \in Stores |-> Empty]

Clock ==
    /\ second < MaxSecond
    /\ second' = second + 1
    /\ UNCHANGED <<inStore, dumps, manifests, backer, backupsDone, writesDone, removedFiles,
                   twice, steady, undumped, logVars>>

-----------------------------------------------------------------------------
(* The stores.                                                              *)

Held(k) == {x \in Things : inStore[k][x] > 0}

\* The application, or a restore, changes what a store holds.
Put(k, content) ==
    /\ inStore' = [inStore EXCEPT ![k] = content]
    /\ steady' = [b \in Backers |->
                    [steady[b] EXCEPT ![k] = {x \in @ : content[x] > 0}]]

Write(k, x, n) ==
    /\ writesDone < MaxWrites /\ inStore[k][x] # n
    /\ writesDone' = writesDone + 1
    /\ Put(k, [inStore[k] EXCEPT ![x] = n])
    /\ UNCHANGED <<second, dumps, manifests, backer, backupsDone, removedFiles, twice, undumped,
                   logVars>>

Becomes(b, state) == backer' = [backer EXCEPT ![b] = state]

May(b) == backer[b] = Idle /\ backupsDone < MaxBackups

-----------------------------------------------------------------------------
(* Backing up.                                                             *)

\* backup_all: the manifest will have the name of this second.
BeginBackup(b) ==
    /\ May(b)
    /\ Becomes(b, [does |-> "backup", left |-> BackupOrder, read |-> NoFile, at |-> second,
                   of |-> second, files |-> [k \in Stores |-> second]])
    /\ steady' = [steady EXCEPT ![b] = [k \in Stores |-> Held(k)]]
    /\ backupsDone' = backupsDone + 1
    /\ UNCHANGED <<second, inStore, dumps, manifests, writesDone, removedFiles, twice, undumped,
                   logVars>>

\* A store is read: MySQL in one snapshot, the others while they change.
ReadStore(b) ==
    /\ backer[b].does = "backup" /\ backer[b].left # <<>> /\ backer[b].read = NoFile
    /\ Becomes(b, [backer[b] EXCEPT !.read = inStore[Head(backer[b].left)], !.of = second])
    /\ UNCHANGED <<second, inStore, dumps, manifests, backupsDone, writesDone, removedFiles,
                   twice, steady, undumped, logVars>>

\* What a scan that began with `before` and ended with `now` may have seen.
Scanned(k, before, now) ==
    IF k = "mysql" THEN {before}
    ELSE {seen \in Contents : \A x \in Things : seen[x] \in {before[x], now[x]}}

\* The keys of Redis are dumped one by one, and one that fails is passed over; a store of the
\* others is read as a whole or the backup ends.
MayFail(k) ==
    IF k = "redis" /\ writesDone < MaxWrites THEN SUBSET Things ELSE {{}}

WriteDump(b) ==
    /\ backer[b].does = "backup" /\ backer[b].read # NoFile
    /\ LET k == Head(backer[b].left)
           s == backer[b].of
       IN  /\ \E seen \in Scanned(k, backer[b].read, inStore[k]), failed \in MayFail(k) :
                /\ dumps' = [dumps EXCEPT ![k][s] =
                               [x \in Things |-> IF x \in failed THEN 0 ELSE seen[x]]]
                /\ undumped' = [undumped EXCEPT ![s] = @ \cup failed]
                /\ writesDone' = IF failed = {} THEN writesDone ELSE writesDone + 1
           /\ twice' = IF dumps[k][s] = NoFile /\ <<k, s>> \notin removedFiles THEN twice
                       ELSE twice \cup {<<k, s>>}
           /\ Becomes(b, [backer[b] EXCEPT !.files[k] = s, !.left = Tail(@), !.read = NoFile])
    /\ UNCHANGED <<second, inStore, manifests, backupsDone, removedFiles, steady, logVars>>


AllWritten(b) == backer[b].left = <<>>

WriteManifest(b) ==
    /\ backer[b].does = "backup" /\ AllWritten(b)
    /\ manifests' = [manifests EXCEPT ![backer[b].at] =
                        [files |-> backer[b].files, sure |-> steady[b]]]
    /\ Becomes(b, Idle)
    /\ steady' = [steady EXCEPT ![b] = [k \in Stores |-> {}]]
    /\ UNCHANGED <<second, inStore, dumps, backupsDone, writesDone, removedFiles, twice, undumped,
                   logVars>>

\* A store cannot be read, or the process stops: the files written so far stay, unlisted.
Abandon(b) ==
    /\ backer[b] # Idle /\ writesDone < MaxWrites
    /\ writesDone' = writesDone + 1
    /\ Becomes(b, Idle)
    /\ UNCHANGED <<second, inStore, dumps, manifests, backupsDone, removedFiles, twice, steady,
                   undumped, logVars>>

-----------------------------------------------------------------------------
(* Restoring and deleting.                                                 *)

BeginRestore(b, s) ==
    /\ May(b) /\ manifests[s] # NoFile
    /\ Becomes(b, [does |-> "restore", left |-> RestoreOrder, files |-> manifests[s].files])
    /\ backupsDone' = backupsDone + 1
    /\ UNCHANGED <<second, inStore, dumps, manifests, writesDone, removedFiles, twice, steady,
                   undumped, logVars>>

Doubled(now, file) == [x \in Things |-> IF now[x] + file[x] > 2 THEN 2 ELSE now[x] + file[x]]

\* The two collections are dropped, made anew and filled; a failure to drop them passes
\* unnoticed, and one to fill them is only reported.
IntoMilvus(now, file) == {file, Doubled(now, file), Empty}

\* The statement that drops the first table is joined to the heading and skipped with it, so
\* the first table cannot be created, and the transaction ends there: the tables are made at
\* every start, and nothing has been dropped.
IntoMySQL(now, file) == {now}

\* Key by key, over what is there; a key that fails is left out.
IntoRedis(now, file) ==
    {new \in Contents : \A x \in Things : new[x] \in {now[x]} \cup ({file[x]} \ {0})}

Restored(k, now, file) ==
    CASE k = "milvus" -> IntoMilvus(now, file)
      [] k = "mysql"  -> IntoMySQL(now, file)
      [] k = "redis"  -> IntoRedis(now, file)

\* restore_all: one store after the other, each failure reported and passed over.
RestoreStore(b) ==
    /\ backer[b].does = "restore"
    /\ LET k == Head(backer[b].left)
           file == dumps[k][backer[b].files[k]]
       IN  /\ IF file = NoFile THEN UNCHANGED <<inStore, steady>>
              ELSE \E new \in Restored(k, inStore[k], file) : Put(k, new)
           /\ Becomes(b, IF Len(backer[b].left) = 1 THEN Idle
                         ELSE [backer[b] EXCEPT !.left = Tail(@)])
    /\ UNCHANGED <<second, dumps, manifests, backupsDone, writesDone, removedFiles, twice,
                   undumped, logVars>>

\* The files are deleted in this order, then the manifest; the process may stop in between.
DeleteBackup(b, s) ==
    /\ May(b) /\ manifests[s] # NoFile
    /\ backupsDone' = backupsDone + 1
    /\ \E n \in 0..3, stops \in BOOLEAN :
          LET gone == {<<BackupOrder[i], manifests[s].files[BackupOrder[i]]>> : i \in 1..n} IN
          /\ ~stops => n = 3
          /\ dumps' = [k \in Stores |-> [t \in Seconds |->
                          IF <<k, t>> \in gone THEN NoFile ELSE dumps[k][t]]]
          /\ removedFiles' = removedFiles \cup gone
          /\ manifests' = IF stops THEN manifests ELSE [manifests EXCEPT ![s] = NoFile]
    /\ UNCHANGED <<second, inStore, backer, writesDone, twice, steady, undumped, logVars>>

\* delete_backup: one file, whatever lists it.
DeleteFile(b, k, s) ==
    /\ May(b) /\ dumps[k][s] # NoFile
    /\ backupsDone' = backupsDone + 1
    /\ dumps' = [dumps EXCEPT ![k][s] = NoFile]
    /\ removedFiles' = removedFiles \cup {<<k, s>>}
    /\ UNCHANGED <<second, inStore, manifests, backer, writesDone, twice, steady, undumped, logVars>>

-----------------------------------------------------------------------------
(* The archive of the log.                                                 *)

\* The rows older than the days asked for are read, and exported without giving way ...
ExportLog(b, oldest) ==
    /\ archiver[b] = {} /\ archivings < MaxArchivings
    /\ LET rows == logTable \cap oldest IN
       /\ rows # {}
       /\ archiver' = [archiver EXCEPT ![b] = rows]
       /\ logFiles' = [logFiles EXCEPT ![second] = rows]
       /\ logTwice' = IF logFiles[second] = {} THEN logTwice ELSE logTwice \cup {second}
    /\ archivings' = archivings + 1
    /\ UNCHANGED <<storeVars, logTable>>

\* ... and deleted in a second step, which may fail.
DeleteExported(b) ==
    /\ archiver[b] # {}
    /\ logTable' \in {logTable, logTable \ archiver[b]}
    /\ archiver' = [archiver EXCEPT ![b] = {}]
    /\ UNCHANGED <<storeVars, logFiles, archivings, logTwice>>

StoresNext ==
    \/ Clock
    \/ \E k \in Stores, x \in Things, n \in 0..1 : Write(k, x, n)
    \/ \E b \in Backers :
          \/ BeginBackup(b) \/ ReadStore(b) \/ WriteDump(b) \/ WriteManifest(b) \/ Abandon(b)
          \/ RestoreStore(b)
          \/ \E s \in Seconds : BeginRestore(b, s) \/ DeleteBackup(b, s)
          \/ \E k \in Stores, s \in Seconds : DeleteFile(b, k, s)

LogNext ==
    \/ Clock
    \/ \E b \in Backers : DeleteExported(b) \/ \E n \in LogEntries : ExportLog(b, 1..n)

BackupSpec == BackupInit /\ [][StoresNext \/ LogNext]_fileVars

-----------------------------------------------------------------------------
(* Properties.                                                             *)

Listed(s, k) == <<k, manifests[s].files[k]>>

\* A backup people are shown has its three files, unless somebody deleted one: a backup that
\* failed or was cut short is never listed.
ListedIsWritten ==
    \A s \in Seconds, k \in Stores :
        manifests[s] # NoFile =>
            dumps[k][manifests[s].files[k]] # NoFile \/ Listed(s, k) \in removedFiles

\* A listed backup holds whatever a store held from the begin of the backup to its end,
\* however the store changed meanwhile, unless its file was written a second time; of Redis it
\* lacks the keys that could not be dumped, and only those.
ListedIsComplete ==
    \A s \in Seconds, k \in Stores :
        LET file == dumps[k][manifests[s].files[k]] IN
        manifests[s] # NoFile /\ file # NoFile /\ Listed(s, k) \notin twice =>
            \A x \in manifests[s].sure[k] :
                file[x] > 0 \/ (k = "redis" /\ x \in undumped[manifests[s].files[k]])

\* A row of the log is in the table or in an archive, unless an archive was overwritten.
LogIsKept ==
    \A r \in LogEntries : r \in logTable \/ logTwice # {} \/ \E s \in Seconds : r \in logFiles[s]

\* What people are shown as put away has been put away.
BackupKept == ListedIsWritten /\ ListedIsComplete /\ LogIsKept

\* "SCAN 全 key + DUMP" (backup_service.py:109): a listed backup has every key.  TLC refutes it:
\* a key whose DUMP fails is passed over (line 123), and nothing tells.
SnapshotIsFull ==
    \A s \in Seconds :
        manifests[s] # NoFile /\ Listed(s, "redis") \notin twice \cup removedFiles =>
            \A x \in manifests[s].sure["redis"] : dumps["redis"][manifests[s].files["redis"]][x] > 0

\* "Restores everything": after a restoration MySQL holds what the backup held.
RestoreRestores ==
    [][\A b \in Backers :
          (backer[b].does = "restore" /\ backer'[b].does = "nothing" /\ writesDone = writesDone'
              /\ dumps["mysql"][backer[b].files["mysql"]] # NoFile) =>
                 \A x \in Things :
                    dumps["mysql"][backer[b].files["mysql"]][x] > 0 => inStore'["mysql"][x] > 0
      ]_fileVars
=============================================================================
