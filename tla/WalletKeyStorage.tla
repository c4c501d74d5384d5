--------------------------- MODULE WalletKeyStorage ---------------------------
(***************************************************************************)
(* Password-encrypted key files: KeyStorage of src/cryptocurrency/wallet/  *)
(* key_management/key_storage.py, and the backups of KeyRecovery in        *)
(* src/blockchain/cryptography/key_management/key_recovery.py, which       *)
(* encrypt and write the same way.                                         *)
(*                                                                         *)
(* encrypt_key derives the AES key from the password and a fresh salt; AES *)
(* in CFB mode is taken as a perfect cipher, so a file's text is <<key,    *)
(* password>>, and an empty file is <<>>.  With another password the       *)
(* decrypted bytes are noise: PKCS7 unpadding or the UTF-8 decoding of a   *)
(* key-sized text fails, short of odds no run can meet, so a wrong         *)
(* password raises ValueError.  The file is written as in KeyStorage.tla:  *)
(* open with "w" empties it, close writes the text, a crash in between     *)
(* leaves it empty.  stored holds <<key, password>> for the names whose    *)
(* store returned.                                                         *)
(***************************************************************************)
EXTENDS Integers, Sequences, TLC

CONSTANTS
    Names,        \* key or backup names
    PrivateKeys,  \* private keys
    Passwords,    \* passwords callers use
    MaxOps        \* bound on store calls

VARIABLES files, writing, stored, ops

vars == <<files, writing, stored, ops>>

Init ==
    /\ files = <<>> /\ writing = <<>> /\ stored = <<>> /\ ops = 0

\* store_key up to the write: the key encrypted, the file opened with "w".
StoreKeyOpen(n, k, pw) ==
    /\ writing = <<>>
    /\ ops < MaxOps
    /\ ops' = ops + 1
    /\ files' = (n :> <<>>) @@ files
    /\ writing' = <<n, <<k, pw>>>>
    /\ UNCHANGED stored

\* store_key, the rest: the JSON text written and the file closed.
StoreKeyWrite ==
    /\ writing /= <<>>
    /\ files' = [files EXCEPT ![writing[1]] = writing[2]]
    /\ stored' = (writing[1] :> writing[2]) @@ stored
    /\ writing' = <<>>
    /\ UNCHANGED ops

\* The process dies; the files stay as they are on disk.
Crash ==
    /\ writing /= <<>>
    /\ writing' = <<>>
    /\ UNCHANGED <<files, stored, ops>>

\* retrieve_key: FileNotFoundError for a missing file, JSONDecodeError for
\* an empty one, ValueError for a wrong password, else the key.
RetrieveKey(n, pw) ==
    IF n \notin DOMAIN files THEN "FileNotFoundError"
    ELSE IF files[n] = <<>> THEN "JSONDecodeError"
    ELSE IF files[n][2] /= pw THEN "ValueError"
    ELSE files[n][1]

\* KeyRecovery.backup_key and recover_key_from_backup: the same steps on
\* <backup_name>.json in recovery_path.
BackupKeyOpen(n, k, pw) == StoreKeyOpen(n, k, pw)
BackupKeyWrite == StoreKeyWrite
RecoverKeyFromBackup(n, pw) == RetrieveKey(n, pw)

Next ==
    \/ \E n \in Names, k \in PrivateKeys, pw \in Passwords : StoreKeyOpen(n, k, pw)
    \/ StoreKeyWrite
    \/ Crash

\* The same store driven through KeyRecovery's backups.
RecoveryNext ==
    \/ \E n \in Names, k \in PrivateKeys, pw \in Passwords : BackupKeyOpen(n, k, pw)
    \/ BackupKeyWrite
    \/ Crash

Spec == Init /\ [][Next]_vars

-----------------------------------------------------------------------------
(* Properties                                                              *)

TypeOK ==
    /\ DOMAIN files \subseteq Names
    /\ \A n \in DOMAIN files : files[n] \in {<<>>} \cup (PrivateKeys \X Passwords)
    /\ writing \in {<<>>} \cup (Names \X (PrivateKeys \X Passwords))
    /\ DOMAIN stored \subseteq Names
    /\ ops \in 0 .. MaxOps

\* A backup restores: for every backup whose backup_key returned,
\* recover_key_from_backup with its password gives back the key, unless a
\* backup of that name is being written.  A crash while a backup is
\* rewritten under the same name leaves an empty file, and the earlier
\* backup is gone with it.
BackupRecoverable ==
    \A n \in DOMAIN stored :
        (writing = <<>> \/ writing[1] /= n) =>
            RecoverKeyFromBackup(n, stored[n][2]) = stored[n][1]
==============================================================================
