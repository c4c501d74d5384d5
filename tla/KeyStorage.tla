------------------------------ MODULE KeyStorage ------------------------------
(***************************************************************************)
(* KeyStorage of src/blockchain/cryptography/key_management/               *)
(* key_storage.py: private keys encrypted under the instance's key and     *)
(* kept one file per name, across crashes of the process.                  *)
(*                                                                         *)
(* A key name is a model value and its file is files[name].  AES-CFB with  *)
(* a fresh iv is taken as a perfect cipher: the file's text is <<key>>,    *)
(* the key it decrypts to, and an empty file is <<>>.  store_key opens the *)
(* file with mode "w", which truncates it, and the text reaches the file   *)
(* when the with block closes it; writing holds <<name, key>> between the  *)
(* two.  A crash in that window leaves the file empty.  stored is what     *)
(* store_key and delete_key have returned having done: the key the caller  *)
(* was told is stored under each name.  list_keys changes nothing and is   *)
(* left out.                                                               *)
(***************************************************************************)
EXTENDS Integers, Sequences, TLC

CONSTANTS
    Names,        \* key names
    PrivateKeys,  \* private keys in PEM format
    MaxOps        \* bound on store_key and delete_key calls

VARIABLES files, writing, stored, ops

vars == <<files, writing, stored, ops>>

Init ==
    /\ files = <<>> /\ writing = <<>> /\ stored = <<>> /\ ops = 0

\* store_key, up to the write: open(path, "w") creates or empties the file.
StoreKeyOpen(n, k) ==
    /\ writing = <<>>
    /\ ops < MaxOps
    /\ ops' = ops + 1
    /\ files' = (n :> <<>>) @@ files
    /\ writing' = <<n, k>>
    /\ UNCHANGED stored

\* store_key, the rest: the encrypted key written and the file closed.
StoreKeyWrite ==
    /\ writing /= <<>>
    /\ files' = [files EXCEPT ![writing[1]] = <<writing[2]>>]
    /\ stored' = (writing[1] :> writing[2]) @@ stored
    /\ writing' = <<>>
    /\ UNCHANGED ops

\* The process dies; the files stay as they are on disk.
Crash ==
    /\ writing /= <<>>
    /\ writing' = <<>>
    /\ UNCHANGED <<files, stored, ops>>

\* delete_key: a missing file is reported and nothing changes.
DeleteKey(n) ==
    /\ writing = <<>>
    /\ ops < MaxOps
    /\ ops' = ops + 1
    /\ files' = [m \in DOMAIN files \ {n} |-> files[m]]
    /\ stored' = [m \in DOMAIN stored \ {n} |-> stored[m]]
    /\ UNCHANGED writing

\* retrieve_key: FileNotFoundError for a missing file; an empty file
\* decodes to no iv and no ciphertext and AES-CFB refuses the empty iv
\* with ValueError; otherwise the decrypted key.
RetrieveKey(n) ==
    IF n \notin DOMAIN files THEN "FileNotFoundError"
    ELSE IF files[n] = <<>> THEN "ValueError"
    ELSE files[n][1]

Next ==
    \/ \E n \in Names, k \in PrivateKeys : StoreKeyOpen(n, k)
    \/ StoreKeyWrite
    \/ Crash
    \/ \E n \in Names : DeleteKey(n)

Spec == Init /\ [][Next]_vars

-----------------------------------------------------------------------------
(* Properties                                                              *)

TypeOK ==
    /\ DOMAIN files \subseteq Names
    /\ \A n \in DOMAIN files : files[n] \in {<<>>} \cup {<<k>> : k \in PrivateKeys}
    /\ writing \in {<<>>} \cup (Names \X PrivateKeys)
    /\ DOMAIN stored \subseteq Names
    /\ ops \in 0 .. MaxOps

\* A stored key survives: for every name whose store_key returned, and no
\* delete_key since, retrieve_key gives back the key stored last, unless
\* a store_key of that name is under way.  Opening with "w" empties the
\* old file before the new text is written, so a crash in between loses
\* the old key as well as the new.
StoredKeyRecoverable ==
    \A n \in DOMAIN stored :
        (writing = <<>> \/ writing[1] /= n) => RetrieveKey(n) = stored[n]
==============================================================================
