------------------------------ MODULE Storage ------------------------------
(***************************************************************************)
(* LocalEncryptedStorage (app/providers/storage.py): where a process gets  *)
(* the data key from, and which blobs it can decrypt with it.  The key is  *)
(* KYC_STORAGE_KEY, or else that of a file beside the data, which the      *)
(* first process to find none creates: it opens the file, and that leaves  *)
(* it empty, and then writes.  A process keeps the key it has found.       *)
(***************************************************************************)
EXTENDS Naturals, FiniteSets

CONSTANTS
    Hosts,      \* processes that use the storage: API replicas, worker, CronJob
    Refs,       \* storage refs of blobs
    DataKeys,   \* data keys (bound)
    EnvKey,     \* the one KYC_STORAGE_KEY names, if it is set
    Missing,    \* no file, no blob, no key
    Torn        \* an empty file, or what is decoded from it

ASSUME StorageAssumption ==
    /\ EnvKey \notin DataKeys /\ Missing \notin DataKeys \cup {EnvKey}
    /\ Torn \notin DataKeys \cup {EnvKey, Missing}

VARIABLES
    env,         \* KYC_STORAGE_KEY
    storageKey,  \* the file .storage_key
    holder,      \* the _storage of each process, and its _key
    generated,   \* the keys generated so far
    blobKey,     \* each blob: the key it was encrypted with
    contended    \* has a process looked for the key while another one made it?

storageVars == <<env, storageKey, holder, generated, blobKey, contended>>

Unbuilt == [pc |-> "unbuilt", key |-> Missing]

StorageInit ==
    /\ env \in {EnvKey, Missing}
    /\ storageKey = Missing
    /\ holder = [p \in Hosts |-> Unbuilt]
    /\ generated = {}
    /\ blobKey = [r \in Refs |-> Missing]
    /\ contended = FALSE

Making == {p \in Hosts : holder[p].pc \in {"making", "writing"}}

\* registry.storage, at the first use in a process: from the environment, ...
BuildFromEnv(p) ==
    /\ holder[p] = Unbuilt /\ env # Missing
    /\ holder' = [holder EXCEPT ![p] = [pc |-> "built", key |-> env]]
    /\ UNCHANGED <<env, storageKey, generated, blobKey, contended>>

\* The file is not looked for.
BuildAnew(p) ==
    /\ holder[p] = Unbuilt /\ env = Missing
    /\ \E k \in DataKeys \ generated :
           /\ generated' = generated \cup {k}
           /\ holder' = [holder EXCEPT ![p] = [pc |-> "making", key |-> k]]
    /\ contended' = (contended \/ Making # {})
    /\ UNCHANGED <<env, storageKey, blobKey>>

\* ... from the file, whatever it has by now, or a new key if there is no file.
BuildFromFile(p) ==
    /\ holder[p] = Unbuilt /\ env = Missing
    /\ IF storageKey # Missing
       THEN /\ holder' = [holder EXCEPT ![p] = [pc |-> "built", key |-> storageKey]]
            /\ UNCHANGED generated
       ELSE \E k \in DataKeys \ generated :
                /\ generated' = generated \cup {k}
                /\ holder' = [holder EXCEPT ![p] = [pc |-> "making", key |-> k]]
    /\ contended' = (contended \/ Making # {})
    /\ UNCHANGED <<env, storageKey, blobKey>>

\* write_bytes: the file is opened and so emptied ...
OpenKeyFile(p) ==
    /\ holder[p].pc = "making"
    /\ storageKey' = Torn
    /\ holder' = [holder EXCEPT ![p].pc = "writing"]
    /\ UNCHANGED <<env, generated, blobKey, contended>>

\* ... and written.
WriteKeyFile(p) ==
    /\ holder[p].pc = "writing"
    /\ storageKey' = holder[p].key
    /\ holder' = [holder EXCEPT ![p].pc = "built"]
    /\ UNCHANGED <<env, generated, blobKey, contended>>

\* The process ends.  One that has emptied the file and not written it leaves it so.
EndHost(p) ==
    /\ holder[p] # Unbuilt
    /\ holder' = [holder EXCEPT ![p] = Unbuilt]
    /\ contended' = (contended \/ holder[p].pc = "writing")
    /\ UNCHANGED <<env, storageKey, generated, blobKey>>

\* put.  AES-GCM refuses an empty key.
PutBlob(p, r) ==
    /\ holder[p].pc = "built" /\ holder[p].key # Torn
    /\ blobKey' = [blobKey EXCEPT ![r] = holder[p].key]
    /\ UNCHANGED <<env, storageKey, holder, generated, contended>>

\* delete, idempotent: no key is needed.
RemoveBlob(p, r) ==
    /\ holder[p].pc = "built"
    /\ blobKey' = [blobKey EXCEPT ![r] = Missing]
    /\ UNCHANGED <<env, storageKey, holder, generated, contended>>

\* get: the bytes, no such file, or a decryption that fails.
GetBlob(p, r) ==
    CASE blobKey[r] = Missing       -> "missing"
      [] blobKey[r] = holder[p].key -> "bytes"
      [] OTHER                      -> "undecryptable"

StorageNext == \E p \in Hosts :
    \/ BuildFromEnv(p) \/ BuildFromFile(p) \/ OpenKeyFile(p) \/ WriteKeyFile(p) \/ EndHost(p)
    \/ \E r \in Refs : PutBlob(p, r) \/ RemoveBlob(p, r)

StorageSpec == StorageInit /\ [][StorageNext]_storageVars

-----------------------------------------------------------------------------

\* "persist a generated key so blobs remain decryptable across restarts"
\* (storage.py:56-57): with the key of the environment they are for every process at
\* all times; with that of the file they are as long as no process looked for it, or
\* ended, in the middle of another's or its own creation.
BlobsDecrypt ==
    \A p \in Hosts, r \in Refs :
        holder[p].pc = "built" /\ (env # Missing \/ ~contended) => GetBlob(p, r) # "undecryptable"
=============================================================================
