-------------------------------- MODULE StateDB --------------------------------
(***************************************************************************)
(* StateDB of src/blockchain/state/storage/state_db.py: a LevelDB          *)
(* directory of JSON values, backed up into a tar.gz named for the second  *)
(* of int(time.time()), and restored by closing the handle, deleting the   *)
(* directory and unpacking the archive in its place.                       *)
(*                                                                         *)
(* dir is the database directory on disk (present, and its key -> stored   *)
(* value map), handle whether self.db is an open plyvel handle, archives   *)
(* the backup files by the second in their name.  restore's steps are      *)
(* separate actions, and the process may die between any two of them; a   *)
(* new process constructs StateDB() again (create_if_missing=True).  A     *)
(* value is a record whose keys field says what its dict is keyed by:      *)
(* json.dumps refuses tuple keys and turns int keys into strings.  backups *)
(* is the sequence of [at, data] of every backup made, a history variable  *)
(* read only by properties.                                                *)
(***************************************************************************)
EXTENDS Integers, Sequences

CONSTANTS
    Keys,       \* the keys set_value is called with
    Values,     \* the values it is called with
    None,       \* what get_value returns for a key the database does not hold
    MaxTime,    \* bound on the clock (seconds)
    MaxOps      \* bound on the calls made

VARIABLES dir, handle, archives, pc, target, now, backups, ops

vars == <<dir, handle, archives, pc, target, now, backups, ops>>

Seconds == 0 .. MaxTime

NoArchive == [present |-> FALSE, data |-> [k \in Keys |-> None]]

Empty == [k \in Keys |-> None]

\* json.dumps raises TypeError on a dict with tuple keys.
Encodable(v) == v.keys /= "tuple"

\* json.loads(json.dumps(v)): int keys come back as strings.
RoundTrip(v) == [v EXCEPT !.keys = IF @ = "int" THEN "str" ELSE @]

\* get_value(key): the stored value decoded, or None.
GetValue(k) == IF dir.data[k] = None THEN None ELSE RoundTrip(dir.data[k])

Init ==
    /\ dir = [present |-> TRUE, data |-> Empty]
    /\ handle = "open"
    /\ archives = [t \in Seconds |-> NoArchive]
    /\ pc = "idle"
    /\ target = 0
    /\ now = 0
    /\ backups = <<>>
    /\ ops = 0

Call == pc = "idle" /\ ops < MaxOps /\ ops' = ops + 1

\* set_value: json.dumps, then db.put (plyvel raises on a closed handle).
SetValue(k, v) ==
    /\ Call /\ handle = "open"
    /\ dir' = IF Encodable(v) THEN [dir EXCEPT !.data[k] = v] ELSE dir
    /\ UNCHANGED <<handle, archives, pc, target, now, backups>>

\* delete_value: db.delete.
DeleteValue(k) ==
    /\ Call /\ handle = "open"
    /\ dir' = [dir EXCEPT !.data[k] = None]
    /\ UNCHANGED <<handle, archives, pc, target, now, backups>>

\* backup: make_archive of the directory into state_backup_{now}.tar.gz,
\* replacing a backup made earlier in the same second.
Backup ==
    /\ Call /\ dir.present
    /\ archives' = [archives EXCEPT ![now] = [present |-> TRUE, data |-> dir.data]]
    /\ backups' = Append(backups, [at |-> now, data |-> dir.data])
    /\ UNCHANGED <<dir, handle, pc, target, now>>

\* restore(backup_file), up to the unpack: self.db.close() and
\* shutil.rmtree(self.db_path, ignore_errors=True).
RestoreRemove(t) ==
    /\ Call
    /\ handle' = "closed"
    /\ dir' = [present |-> FALSE, data |-> Empty]
    /\ pc' = "unpacking" /\ target' = t
    /\ UNCHANGED <<archives, now, backups>>

\* restore, the rest: unpack_archive raises on a missing file, leaving the
\* handle closed and the directory gone; otherwise the archive becomes the
\* directory and plyvel.DB(create_if_missing=False) opens it.
RestoreUnpack ==
    /\ pc = "unpacking"
    /\ pc' = "idle"
    /\ IF archives[target].present
       THEN /\ dir' = archives[target]
            /\ handle' = "open"
       ELSE UNCHANGED <<dir, handle>>
    /\ UNCHANGED <<archives, target, now, backups, ops>>

\* close.
Close ==
    /\ Call /\ handle = "open"
    /\ handle' = "closed"
    /\ UNCHANGED <<dir, archives, pc, target, now, backups>>

\* The process dies between two steps.
Crash ==
    /\ pc' = "idle" /\ handle' = "closed"
    /\ UNCHANGED <<dir, archives, target, now, backups, ops>>

\* StateDB() in a process: plyvel.DB(create_if_missing=True) opens the
\* directory, or an empty one where there is none.
Open ==
    /\ Call /\ handle = "closed"
    /\ handle' = "open"
    /\ dir' = IF dir.present THEN dir ELSE [present |-> TRUE, data |-> Empty]
    /\ UNCHANGED <<archives, pc, target, now, backups>>

Tick == now < MaxTime /\ now' = now + 1 /\ UNCHANGED <<dir, handle, archives, pc, target, backups, ops>>

Next ==
    \/ \E k \in Keys, v \in Values : SetValue(k, v)
    \/ \E k \in Keys : DeleteValue(k)
    \/ \E t \in Seconds : RestoreRemove(t)
    \/ Backup \/ RestoreUnpack \/ Close \/ Crash \/ Open \/ Tick

Spec == Init /\ [][Next]_vars

-----------------------------------------------------------------------------
(* Properties                                                              *)

TypeOK ==
    /\ dir.present \in BOOLEAN /\ dir.data \in [Keys -> Values \cup {None}]
    /\ handle \in {"open", "closed"}
    /\ pc \in {"idle", "unpacking"} /\ target \in Seconds
    /\ now \in Seconds /\ ops \in 0 .. MaxOps

\* A restore brings back the database of every backup whose file it names.
\* Two backups in one second write one state_backup_{second}.tar.gz, so
\* the earlier one is gone.
ArchiveRecoverable ==
    [][RestoreUnpack /\ archives[target].present =>
           \A i \in DOMAIN backups : backups[i].at = target => dir'.data = backups[i].data]_vars

\* Outside a restore the database directory exists: no call or failure
\* loses the stored state.  restore deletes the directory before it
\* unpacks, and the unpack of a missing file, or a death in between, leaves
\* none; the next StateDB() opens an empty database.
DataNotLost == pc = "idle" => dir.present
==============================================================================
