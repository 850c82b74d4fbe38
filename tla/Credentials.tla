---------------------------- MODULE Credentials ----------------------------
(***************************************************************************)
(* Credentials: how the API processes come by their signing key, issue     *)
(* tokens, verify them and revoke them (app/crypto.py,                     *)
(* app/providers/signer.py, app/services/credentials.py, revocation.py and *)
(* their routes).                                                          *)
(*                                                                         *)
(* A process reads its key file when it starts and keeps the key in memory *)
(* until it stops; the first one to find no file makes a key.  A token is  *)
(* signed with the key of the process that issues it, and verified with    *)
(* the key of the process that is asked.  Cryptography is perfect: a token *)
(* verifies exactly under the key whose kid it names.                      *)
(***************************************************************************)
EXTENDS Integers, FiniteSets

CONSTANTS
    Replicas,    \* API processes
    Disks,       \* places KYC_SIGNING_KEY_PATH may be on
    DiskOf,      \* the disk of a replica
    KeyIds,      \* signing keys, by their kid (bound)
    Hashes,      \* identity_hash values of approved users
    Jtis,        \* token ids (bound)
    Ttl,         \* CREDENTIAL_TTL_SECONDS
    EndOfTime,   \* the clock stops here (bound)
    NoKey

ASSUME CredentialAssumption ==
    /\ DiskOf \in [Replicas -> Disks]
    /\ Ttl \in Nat /\ EndOfTime \in Nat /\ NoKey \notin KeyIds

VARIABLES
    keyFile,   \* the key file of each disk
    signer,    \* the _PRIVATE_KEY of each replica
    minted,    \* the keys generated so far
    token,     \* the tokens issued
    revoked,   \* revoked_credentials: jtis and identity hashes
    clock,
    rotated,   \* has the operator ever replaced a key file?
    raced      \* have two replicas ever created a key file at once?

credVars == <<keyFile, signer, minted, token, revoked, clock, rotated, raced>>

Down == [pc |-> "down", key |-> NoKey]

CredInit ==
    /\ keyFile = [d \in Disks |-> NoKey]
    /\ signer = [p \in Replicas |-> Down]
    /\ minted = {} /\ token = {} /\ revoked = {}
    /\ clock = 0 /\ rotated = FALSE /\ raced = FALSE

-----------------------------------------------------------------------------
(* Keys.                                                                   *)

Generate(k) == k \in KeyIds \ minted /\ minted' = minted \cup {k}

\* _load_or_create_key, run when crypto is imported: os.path.exists, then read ...
LoadKey(p) ==
    /\ signer[p].pc = "down"
    /\ IF keyFile[DiskOf[p]] # NoKey
       THEN /\ signer' = [signer EXCEPT ![p] = [pc |-> "up", key |-> keyFile[DiskOf[p]]]]
            /\ UNCHANGED minted
       ELSE \E k \in KeyIds :
                Generate(k) /\ signer' = [signer EXCEPT ![p] = [pc |-> "creating", key |-> k]]
    /\ UNCHANGED <<keyFile, token, revoked, clock, rotated, raced>>

\* A key that is not saved.
CreateUnsaved(p) ==
    /\ signer[p].pc = "creating"
    /\ signer' = [signer EXCEPT ![p].pc = "up"]
    /\ UNCHANGED <<keyFile, minted, token, revoked, clock, rotated, raced>>

\* ... or generate and write, whatever the file has become in between.
CreateKey(p) ==
    /\ signer[p].pc = "creating"
    /\ keyFile' = [keyFile EXCEPT ![DiskOf[p]] = signer[p].key]
    /\ signer' = [signer EXCEPT ![p].pc = "up"]
    /\ raced' = (raced \/ keyFile[DiskOf[p]] # NoKey)
    /\ UNCHANGED <<minted, token, revoked, clock, rotated>>

Stop(p) ==
    /\ signer[p].pc # "down"
    /\ signer' = [signer EXCEPT ![p] = Down]
    /\ UNCHANGED <<keyFile, minted, token, revoked, clock, rotated, raced>>

\* The operator puts a new key on disk; a replica takes it when it next starts.
Rotate(d) ==
    /\ \E k \in KeyIds : Generate(k) /\ keyFile' = [keyFile EXCEPT ![d] = k]
    /\ rotated' = TRUE
    /\ UNCHANGED <<signer, token, revoked, clock, raced>>

-----------------------------------------------------------------------------
(* Tokens.                                                                 *)

\* POST /v1/sessions/{id}/credential for an approved session: credentials.issue.
Issue(p, h, j) ==
    /\ signer[p].pc = "up"
    /\ j \notin {t.jti : t \in token}
    /\ token' = token \cup {[jti |-> j, kid |-> signer[p].key, identity_hash |-> h,
                             exp |-> clock + Ttl]}
    /\ UNCHANGED <<keyFile, signer, minted, revoked, clock, rotated, raced>>

\* POST /v1/credentials/revoke: a row, by jti or by identity_hash.
Revoke(x) ==
    /\ x \notin revoked
    /\ revoked' = revoked \cup {x}
    /\ UNCHANGED <<keyFile, signer, minted, token, clock, rotated, raced>>

Elapse ==
    /\ clock < EndOfTime
    /\ clock' = clock + 1
    /\ UNCHANGED <<keyFile, signer, minted, token, revoked, rotated, raced>>

\* LocalEd25519Signer.jwks: the key in memory, and no other.
Jwks(p) == {signer[p].key}

Expired(t) == t.exp <= clock

\* Signer.verify_jwt: the key is looked up by kid, then signature and expiry.
VerifyJwt(p, t) == t.kid \in Jwks(p) /\ ~Expired(t)

\* revocation.is_revoked: the token's row, or its identity's.
IsRevoked(t) == t.jti \in revoked \/ t.identity_hash \in revoked

\* POST /v1/credentials/verify.
Verify(p, t) ==
    IF ~VerifyJwt(p, t) THEN "invalid" ELSE IF IsRevoked(t) THEN "revoked" ELSE "valid"

CredNext ==
    \/ \E p \in Replicas : LoadKey(p) \/ CreateKey(p) \/ Stop(p)
    \/ \E d \in Disks : Rotate(d)
    \/ \E p \in Replicas, h \in Hashes, j \in Jtis : Issue(p, h, j)
    \/ \E x \in Jtis \cup Hashes : Revoke(x)
    \/ Elapse

CredSpec == CredInit /\ [][CredNext]_credVars

-----------------------------------------------------------------------------

Live(t) == ~Expired(t) /\ ~IsRevoked(t)
Up == {p \in Replicas : signer[p].pc = "up"}

\* A token is good at every replica until it expires or is revoked, through restarts,
\* as long as no key is replaced and no two replicas make the first key at once
\* (crypto.py:26-43): what the file has is what every running replica signs with.
LiveTokensVerify ==
    ~rotated /\ ~raced => \A t \in token, p \in Up : Live(t) => Verify(p, t) = "valid"

\* "key rotation is non-breaking: [...] old tokens still verify against the old key
\* until they expire" (signer.py:11-13).
OldTokensVerify == \A t \in token, p \in Up : Live(t) => Verify(p, t) = "valid"
=============================================================================
