------------------------------- MODULE Backup -------------------------------
(***************************************************************************)
(* Backups: a job checkpoints the write-ahead log, copies the database     *)
(* file, then the OPRF key file, and puts both, encrypted with a key       *)
(* derived from the OPRF key, under a name made of the second; then all    *)
(* but the newest archives are deleted.  The scheduler and the endpoint    *)
(* each run such a job: the lock of the endpoint is not taken by the       *)
(* scheduler.  Restoring is a command run while the server is stopped.     *)
(* The OPRF key is rotated by such a command too, and by an endpoint while *)
(* the server runs, which goes on with the key it has loaded; a process    *)
(* may die at any step.                                                    *)
(*                                                                         *)
(* Abstracted: the tables (a database tells the key each user registered   *)
(* with), attachments, the format of an archive.  The clock only advances. *)
(***************************************************************************)
EXTENDS Integers, FiniteSets
LOCAL INSTANCE TLC

CONSTANTS Logins,      \* users
          Runners,     \* the scheduler and the endpoint: each runs one job at a time
          LastKey,     \* bound on the rotations of the key
          LastSecond,  \* bound on the time
          MaxJobs,     \* bound on the jobs started
          Retention    \* archives kept; 0: all

ASSUME BackupAssumption == {LastKey, LastSecond, MaxJobs, Retention} \subseteq Nat

VARIABLES up,         \* whether the server runs
          database,   \* the committed database
          dbFile,     \* its file: without what is only in the log
          wal,        \* whether the log holds anything
          oprfKey,    \* the key file
          loadedKey,  \* the key the server read at its start
          second,     \* the clock
          started,    \* jobs started so far
          backups,    \* archives under their final name, by second
          temps,      \* temporary files, by second
          tasks,      \* how far each job is
          cli,        \* the rotation under way, by the command or the endpoint
          made,       \* history: seconds of the archives that got their name
          shared,     \* history: seconds both jobs named an archive by
          hotSince    \* history: when the key first changed under a running server

dbVars == <<database, dbFile, wal>>
keyVars == <<oprfKey, loadedKey, cli, hotSince>>
counters == <<second, started>>
dirVars == <<backups, temps, made, shared>>
backup == <<up, dbVars, keyVars, counters, dirVars, tasks>>

Seconds == 0 .. LastSecond
OprfKeys == 0 .. LastKey

(* A user is unknown, flagged for re-registration, or registered with a    *)
(* key.  "torn" is a file put together of two states.                      *)
Databases ==
  [Logins -> {"unknown", "flagged"} \cup {ToString(k) : k \in OprfKeys}]
Torn == [u \in Logins |-> "torn"]
Copies == Databases \cup {Torn}

Partial == [db |-> Torn, key |-> -1]
Archives == {Partial} \cup [db : Copies, key : OprfKeys]

NoTask == [at |-> "idle"]
BackupTasks ==
  {NoTask} \cup [at : {"read"}, torn : BOOLEAN] \cup [at : {"key"}, db : Copies] \cup
  [at : {"open", "write", "rename"}, file : Archives, second : Seconds] \cup
  [at : {"list"}] \cup [at : {"prune"}, old : SUBSET Seconds]

BackupInit ==
  /\ up = TRUE /\ wal = FALSE
  /\ database = [u \in Logins |-> "unknown"] /\ dbFile = database
  /\ oprfKey = 0 /\ loadedKey = 0 /\ second = 0 /\ started = 0 /\ hotSince = LastSecond + 1
  /\ backups = <<>> /\ temps = <<>>
  /\ tasks = [j \in Runners |-> NoTask]
  /\ cli = "none"
  /\ made = {} /\ shared = {}

-----------------------------------------------------------------------------
(* The log is copied into the file: a job reading the file meanwhile has   *)
(* parts of both.                                                          *)
CopyLog(others) ==
  /\ dbFile' = database
  /\ tasks' = [j \in Runners |->
       IF j \notin others THEN [at |-> "read", torn |-> FALSE]
       ELSE IF tasks[j].at = "read" /\ dbFile # database THEN [tasks[j] EXCEPT !.torn = TRUE]
       ELSE tasks[j]]

(* A user registers with the key the server read at its start.             *)
Register(u) ==
  /\ up /\ database[u] = "unknown"
  /\ database' = [database EXCEPT ![u] = ToString(loadedKey)] /\ wal' = TRUE
  /\ UNCHANGED <<up, dbFile, keyVars, counters, dirVars, tasks>>

(* The log has grown long: a commit copies it.                             *)
AutoCheckpoint ==
  /\ up /\ dbFile # database /\ CopyLog(Runners)
  /\ UNCHANGED <<up, database, wal, keyVars, counters, dirVars>>

-----------------------------------------------------------------------------
(* run_once: the log is copied and emptied.                                *)
CheckpointWal(j) ==
  /\ up /\ tasks[j] = NoTask /\ started < MaxJobs /\ started' = started + 1
  /\ CopyLog(Runners \ {j}) /\ wal' = FALSE
  /\ UNCHANGED <<up, database, keyVars, second, dirVars>>

(* The jobs that hold or write an archive of second s.                     *)
Naming(s) == {j \in Runners :
  tasks[j].at \in {"open", "write", "rename"} /\ tasks[j].second = s}

(* A directory with an archive under the name s, and without it.           *)
Filed(dir, s, archive) ==
  [t \in DOMAIN dir \cup {s} |-> IF t = s THEN archive ELSE dir[t]]
Removed(dir, s) == [t \in DOMAIN dir \ {s} |-> dir[t]]

Become(j, task) == tasks' = [tasks EXCEPT ![j] = task]

(* The file of the database has been read; a rotation, or a checkpoint,    *)
(* may come before the key is.                                             *)
ReadDb(j) ==
  /\ tasks[j].at = "read"
  /\ Become(j, [at |-> "key", db |-> IF tasks[j].torn THEN Torn ELSE dbFile])
  /\ UNCHANGED <<up, dbVars, keyVars, counters, dirVars>>

(* The key is read, from its file; then the archive gets its name.         *)
ReadKey(j) ==
  /\ tasks[j].at = "key"
  /\ Become(j, [at |-> "open", second |-> second,
                file |-> [db |-> tasks[j].db, key |-> oprfKey]])
  /\ shared' = shared \cup
       IF second \in DOMAIN temps \cup made \/ Naming(second) # {} THEN {second} ELSE {}
  /\ UNCHANGED <<up, dbVars, keyVars, counters, backups, temps, made>>

(* Variant: without a temporary file.                                      *)
OpenFinal(j) ==
  /\ tasks[j].at = "open"
  /\ backups' = Filed(backups, tasks[j].second, Partial)
  /\ made' = made \cup {tasks[j].second}
  /\ Become(j, [tasks[j] EXCEPT !.at = "write"])
  /\ UNCHANGED <<up, dbVars, keyVars, counters, temps, shared>>

OpenTemp(j) ==
  /\ tasks[j].at = "open"
  /\ temps' = Filed(temps, tasks[j].second, Partial)
  /\ Become(j, [tasks[j] EXCEPT !.at = "write"])
  /\ UNCHANGED <<up, dbVars, keyVars, counters, backups, made, shared>>

(* The file is written, wherever the other job of the second moved it; a   *)
(* file both write at once is of no use.                                   *)
WriteArchive(j) ==
  LET s == tasks[j].second
      mixed == \E k \in Naming(s) \ {j} : tasks[k].at = "write"
      content == IF mixed THEN Partial ELSE tasks[j].file
  IN  /\ tasks[j].at = "write"
      /\ temps' = IF s \in DOMAIN temps THEN [temps EXCEPT ![s] = content] ELSE temps
      /\ backups' = IF s \in DOMAIN temps \/ s \notin DOMAIN backups THEN backups
                    ELSE [backups EXCEPT ![s] = content]
      /\ Become(j, [tasks[j] EXCEPT !.at = "rename"])
      /\ UNCHANGED <<up, dbVars, keyVars, counters, made, shared>>

(* No temporary file any more: the job fails.                              *)
RenameArchive(j) ==
  LET s == tasks[j].second
  IN  /\ tasks[j].at = "rename"
      /\ IF s \in DOMAIN temps
         THEN /\ backups' = Filed(backups, s, temps[s])
              /\ temps' = Removed(temps, s)
              /\ made' = made \cup {s}
              /\ Become(j, [at |-> "list"])
         ELSE Become(j, NoTask) /\ UNCHANGED <<backups, temps, made>>
      /\ UNCHANGED <<up, dbVars, keyVars, counters, shared>>

(* prune_old_backups: the archives beyond the newest, by their names.      *)
Newer(s) == {t \in DOMAIN backups : t > s}
Older(s) == {t \in DOMAIN backups : t < s}

BeyondRetention ==
  IF Retention = 0 THEN {}
  ELSE {s \in DOMAIN backups : Cardinality(Newer(s)) >= Retention}

ListOld(j) ==
  /\ tasks[j].at = "list"
  /\ Become(j, [at |-> "prune", old |-> BeyondRetention])
  /\ UNCHANGED <<up, dbVars, keyVars, counters, dirVars>>

(* One of them is deleted, or cannot be.                                   *)
PruneOld(j) ==
  /\ tasks[j].at = "prune"
  /\ IF tasks[j].old = {} THEN Become(j, NoTask) /\ UNCHANGED backups
     ELSE \E s \in tasks[j].old :
            /\ Become(j, [tasks[j] EXCEPT !.old = @ \ {s}])
            /\ backups' \in {backups, Removed(backups, s)}
  /\ UNCHANGED <<up, dbVars, keyVars, counters, temps, made, shared>>

-----------------------------------------------------------------------------
(* The server stops, or dies; the log may be left.  What is in a temporary *)
(* file that is left does not matter: nobody moves it, a job that finds it *)
(* overwrites it.                                                          *)
StopServer(clean) ==
  /\ up /\ up' = FALSE /\ cli' = "none"
  /\ tasks' = [j \in Runners |-> NoTask]
  /\ temps' = [s \in DOMAIN temps |-> Partial]
  /\ IF clean THEN dbFile' = database /\ wal' = FALSE ELSE UNCHANGED <<dbFile, wal>>
  /\ UNCHANGED <<database, oprfKey, loadedKey, hotSince, counters, backups, made, shared>>

StartServer ==
  /\ ~up /\ cli = "none" /\ up' = TRUE /\ loadedKey' = oprfKey
  /\ UNCHANGED <<dbVars, oprfKey, cli, hotSince, counters, dirVars, tasks>>

(* rotate_oprf_key: the users are flagged, then the new key is put in      *)
(* place.  The endpoint runs one rotation at a time; those who register    *)
(* after it has flagged the users are not flagged.  A crash in between, or *)
(* a client that hangs up, leaves the flags with the old key.              *)
Flagged == [u \in Logins |->
  IF database[u] \in {"unknown", "torn"} THEN database[u] ELSE "flagged"]

FlagUsers ==
  /\ cli = "none" /\ oprfKey < LastKey
  /\ database' = Flagged /\ wal' = TRUE /\ cli' = "rotate"
  /\ UNCHANGED <<up, dbFile, oprfKey, loadedKey, hotSince, counters, dirVars, tasks>>

WriteKey ==
  /\ cli = "rotate" /\ oprfKey < LastKey /\ oprfKey' = oprfKey + 1 /\ cli' = "none"
  /\ hotSince' = IF up /\ second < hotSince THEN second ELSE hotSince
  /\ UNCHANGED <<up, dbVars, loadedKey, counters, dirVars, tasks>>

KillCommand ==
  /\ cli = "rotate" /\ cli' = "none"
  /\ UNCHANGED <<up, dbVars, oprfKey, loadedKey, hotSince, counters, dirVars, tasks>>

(* restore_backup.  The archive opens with the key it was made with only;  *)
(* the key in it is that key.  What the log holds is replayed over the     *)
(* restored file.                                                          *)
RestoreBackup(s) ==
  /\ ~up /\ cli = "none" /\ s \in DOMAIN backups
  /\ backups[s].key = oprfKey
  /\ dbFile' = backups[s].db
  /\ database' = IF wal THEN Torn ELSE dbFile'
  /\ UNCHANGED <<up, wal, keyVars, counters, dirVars, tasks>>

SecondPasses ==
  /\ second < LastSecond /\ second' = second + 1
  /\ UNCHANGED <<started, up, dbVars, keyVars, dirVars, tasks>>

BackupNext ==
  \/ \E u \in Logins : Register(u)
  \/ AutoCheckpoint
  \/ \E j \in Runners :
       \/ CheckpointWal(j) \/ ReadDb(j) \/ ReadKey(j)
       \/ OpenTemp(j) \/ WriteArchive(j) \/ RenameArchive(j) \/ ListOld(j) \/ PruneOld(j)
  \/ \E clean \in BOOLEAN : StopServer(clean)
  \/ StartServer \/ FlagUsers \/ WriteKey \/ KillCommand
  \/ \E s \in Seconds : RestoreBackup(s)
  \/ SecondPasses

-----------------------------------------------------------------------------
BackupTypeOK ==
  /\ {up, wal} \subseteq BOOLEAN
  /\ {database, dbFile} \subseteq Copies
  /\ {oprfKey, loadedKey} \subseteq OprfKeys
  /\ second \in Seconds /\ started \in 0 .. MaxJobs
  /\ hotSince \in 0 .. LastSecond + 1
  /\ \A dir \in {backups, temps} :
       DOMAIN dir \subseteq Seconds /\ \A s \in DOMAIN dir : dir[s] \in Archives
  /\ tasks \in [Runners -> BackupTasks]
  /\ cli \in {"none", "rotate"}
  /\ made \subseteq Seconds /\ shared \subseteq Seconds

(* Every user of the database can log in with the key, or is flagged.      *)
KeyFits(db, key) ==
  \A u \in Logins : db[u] \in {"unknown", "flagged", "torn", ToString(key)}

(* The newest archives ever made -- as many as are to be kept -- are in    *)
(* the directory and complete, whatever jobs, crashes and rotations came   *)
(* between; and each holds a key that goes with its database -- nobody is  *)
(* locked out by a restore without being told to register again -- as long *)
(* as the key has changed only while the server was stopped.  Archives two *)
(* jobs wrote in the same second are excepted.                             *)
NewestKept ==
  \A s \in made :
    Retention = 0 \/ Cardinality({t \in made : t > s}) < Retention =>
      /\ s \in DOMAIN backups
      /\ s \in shared
         \/ /\ backups[s] # Partial
            /\ s < hotSince => KeyFits(backups[s].db, backups[s].key)

(* Not so: the endpoint changes the key between the two reads of a job, or *)
(* between the registration of a user and the next start, and the archive  *)
(* has a user whose registration its key does not go with, unflagged.      *)
ArchiveKeyFits ==
  \A s \in DOMAIN backups \ shared : KeyFits(backups[s].db, backups[s].key)

(* An archive holds one state of the database.                             *)
SnapshotConsistent == \A s \in DOMAIN backups : backups[s].db # Torn
=============================================================================
