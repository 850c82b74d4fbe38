------------------------------ MODULE KeyProofs ------------------------------
(***************************************************************************)
(* The keys that processes find in a file or make: the signing key of      *)
(* Credentials and the data key of Storage.  For any number of processes,  *)
(* tokens and blobs, what one of them wrote stays readable by the others   *)
(* as long as no key is replaced and no two of them make one at once.      *)
(***************************************************************************)
EXTENDS Credentials, Storage, TLAPS

-----------------------------------------------------------------------------
(* The signing key.                                                        *)

\* The replicas share the file: KYC_SIGNING_KEY_PATH is on one volume.
OneDisk == \A p, q \in Replicas : DiskOf[p] = DiskOf[q]

SignerRecord == [pc : {"down", "creating", "up"}, key : KeyIds \cup {NoKey}]

CredTyped ==
    /\ keyFile \in [Disks -> KeyIds \cup {NoKey}]
    /\ signer \in [Replicas -> SignerRecord]

\* What a replica signs with is what its file has, ...
HoldsFile(p) ==
    /\ signer[p].pc = "creating" => signer[p].key # NoKey
    /\ signer[p].pc = "up" => keyFile[DiskOf[p]] # NoKey /\ signer[p].key = keyFile[DiskOf[p]]

\* ... and so is what any token was signed with.
SignedWithFile(t) == \A p \in Replicas : keyFile[DiskOf[p]] # NoKey /\ t.kid = keyFile[DiskOf[p]]

Undisturbed == ~rotated /\ ~raced

OneKey ==
    Undisturbed => /\ \A p \in Replicas : HoldsFile(p)
                   /\ \A t \in token : SignedWithFile(t)

CredInv == CredTyped /\ OneKey

LEMMA CredInitInv == CredInit => CredInv
<1> SUFFICES ASSUME CredInit PROVE CredInv
  OBVIOUS
<1>1. Down \in SignerRecord /\ Down.pc = "down"
  BY DEF Down, SignerRecord
<1>2. CredTyped
  BY <1>1 DEF CredInit, CredTyped
<1>3. \A p \in Replicas : HoldsFile(p)
  BY <1>1 DEF CredInit, HoldsFile
<1> QED
  BY <1>2, <1>3 DEF CredInit, CredInv, OneKey

LEMMA LoadKeyInv ==
    ASSUME CredInv, NEW p \in Replicas, LoadKey(p)
    PROVE  CredInv'
<1> USE DEF CredInv, CredTyped
<1>1. UNCHANGED <<keyFile, token, rotated, raced>> /\ DiskOf[p] \in Disks
  BY CredentialAssumption DEF LoadKey
<1>2. PICK new \in SignerRecord :
         /\ signer' = [signer EXCEPT ![p] = new]
         /\ new.key # NoKey
         /\ new.pc = "creating" \/ (new.pc = "up" /\ new.key = keyFile[DiskOf[p]])
  <2>1. CASE keyFile[DiskOf[p]] # NoKey
    <3> DEFINE new == [pc |-> "up", key |-> keyFile[DiskOf[p]]]
    <3>1. new \in SignerRecord /\ new.key = keyFile[DiskOf[p]] /\ new.pc = "up"
      BY <1>1 DEF SignerRecord
    <3>2. signer' = [signer EXCEPT ![p] = new]
      BY <2>1 DEF LoadKey
    <3> QED
      BY <2>1, <3>1, <3>2
  <2>2. CASE keyFile[DiskOf[p]] = NoKey
    <3>1. PICK k \in KeyIds : signer' = [signer EXCEPT ![p] = [pc |-> "creating", key |-> k]]
      BY <2>2 DEF LoadKey
    <3> DEFINE new == [pc |-> "creating", key |-> k]
    <3>2. new \in SignerRecord /\ new.key # NoKey /\ new.pc = "creating"
      BY CredentialAssumption DEF SignerRecord
    <3> QED
      BY <3>1, <3>2
  <2> QED
    BY <2>1, <2>2
<1>3. CredTyped'
  BY <1>1, <1>2
<1>4. ASSUME Undisturbed', NEW q \in Replicas PROVE HoldsFile(q)'
  BY <1>1, <1>2, <1>4 DEF OneKey, Undisturbed, HoldsFile
<1>5. ASSUME Undisturbed', NEW t \in token' PROVE SignedWithFile(t)'
  BY <1>1, <1>5 DEF OneKey, Undisturbed, SignedWithFile
<1> QED
  BY <1>3, <1>4, <1>5 DEF OneKey

LEMMA CreateKeyInv ==
    ASSUME OneDisk, CredInv, NEW p \in Replicas, CreateKey(p)
    PROVE  CredInv'
<1> USE DEF CredInv, CredTyped
<1>1. /\ UNCHANGED <<token, rotated>> /\ DiskOf[p] \in Disks
      /\ signer[p].pc = "creating" /\ signer[p].key \in KeyIds \cup {NoKey}
      /\ keyFile' = [keyFile EXCEPT ![DiskOf[p]] = signer[p].key]
  BY CredentialAssumption DEF CreateKey, SignerRecord
<1>2. /\ signer' \in [Replicas -> SignerRecord]
      /\ signer'[p].pc = "up" /\ signer'[p].key = signer[p].key
      /\ \A q \in Replicas \ {p} : signer'[q] = signer[q]
  BY DEF CreateKey, SignerRecord
<1>3. CredTyped'
  BY <1>1, <1>2
<1>4. ASSUME Undisturbed' PROVE OneKey'
  \* The file is still missing, so nobody is up and no token is out.
  <2>1. Undisturbed /\ keyFile[DiskOf[p]] = NoKey
    BY <1>4 DEF CreateKey, Undisturbed
  <2>2. \A q \in Replicas : signer[q].pc # "up" /\ DiskOf[q] = DiskOf[p]
    BY <2>1 DEF OneDisk, OneKey, HoldsFile
  <2>3. token = {}
    BY <2>1 DEF OneKey, SignedWithFile
  <2>4. keyFile'[DiskOf[p]] = signer[p].key /\ signer[p].key # NoKey
    BY <1>1, <2>1 DEF OneKey, HoldsFile
  <2>5. HoldsFile(p)'
    BY <1>2, <2>4 DEF HoldsFile
  <2>6. \A q \in Replicas \ {p} : HoldsFile(q)'
    BY <1>2, <2>1, <2>2 DEF OneKey, HoldsFile
  <2> QED
    BY <1>1, <2>3, <2>5, <2>6 DEF OneKey
<1> QED
  BY <1>3, <1>4 DEF OneKey

LEMMA StopInv ==
    ASSUME CredInv, NEW p \in Replicas, Stop(p)
    PROVE  CredInv'
<1> USE DEF CredInv, CredTyped
<1>1. Down \in SignerRecord /\ Down.pc = "down"
  BY DEF Down, SignerRecord
<1>2. /\ signer' = [signer EXCEPT ![p] = Down]
      /\ UNCHANGED <<keyFile, token, rotated, raced>>
  BY DEF Stop
<1>3. CredTyped'
  BY <1>1, <1>2
<1>4. ASSUME Undisturbed', NEW q \in Replicas PROVE HoldsFile(q)'
  BY <1>1, <1>2, <1>4 DEF OneKey, Undisturbed, HoldsFile
<1>5. ASSUME Undisturbed', NEW t \in token' PROVE SignedWithFile(t)'
  BY <1>2, <1>5 DEF OneKey, Undisturbed, SignedWithFile
<1> QED
  BY <1>3, <1>4, <1>5 DEF OneKey

LEMMA RotateInv ==
    ASSUME CredInv, NEW d \in Disks, Rotate(d)
    PROVE  CredInv'
BY DEF CredInv, CredTyped, OneKey, Undisturbed, Rotate, Generate

LEMMA IssueInv ==
    ASSUME OneDisk, CredInv, NEW p \in Replicas, NEW h \in Hashes, NEW j \in Jtis, Issue(p, h, j)
    PROVE  CredInv'
<1> USE DEF CredInv, CredTyped
<1> DEFINE new == [jti |-> j, kid |-> signer[p].key, identity_hash |-> h, exp |-> clock + Ttl]
<1>1. /\ UNCHANGED <<keyFile, signer, rotated, raced>> /\ signer[p].pc = "up"
      /\ token' = token \cup {new} /\ new.kid = signer[p].key
  BY DEF Issue
<1> HIDE DEF new
<1>2. ASSUME Undisturbed', NEW q \in Replicas PROVE HoldsFile(q)'
  BY <1>1, <1>2 DEF OneKey, Undisturbed, HoldsFile
<1>3. ASSUME Undisturbed', NEW t \in token' PROVE SignedWithFile(t)'
  <2>1. CASE t \in token
    BY <1>1, <1>3, <2>1 DEF OneKey, Undisturbed, SignedWithFile
  <2>2. CASE t = new
    <3>1. HoldsFile(p)
      BY <1>1, <1>3 DEF OneKey, Undisturbed
    <3> QED
      BY <1>1, <2>2, <3>1 DEF HoldsFile, SignedWithFile, OneDisk
  <2> QED
    BY <1>1, <2>1, <2>2
<1> QED
  BY <1>1, <1>2, <1>3 DEF OneKey

LEMMA CredNextInv ==
    ASSUME OneDisk, CredInv, [CredNext]_credVars
    PROVE  CredInv'
<1>1. CASE UNCHANGED <<keyFile, signer, token, rotated, raced>>
  BY <1>1 DEF CredInv, CredTyped, OneKey, Undisturbed, HoldsFile, SignedWithFile
<1>2. ASSUME NEW x, Revoke(x) PROVE CredInv'
  BY <1>1, <1>2 DEF Revoke
<1>3. CASE Elapse
  BY <1>1, <1>3 DEF Elapse
<1>4. CASE UNCHANGED credVars
  BY <1>1, <1>4 DEF credVars
<1> QED
  BY <1>2, <1>3, <1>4, LoadKeyInv, CreateKeyInv, StopInv, RotateInv, IssueInv DEF CredNext

\* Restarts lose no token: as long as the operator replaces no key and no two replicas
\* write the first one at once, one key is on disk, in memory and in every token.
THEOREM TokensStayGood == OneDisk => (CredSpec => []LiveTokensVerify)
<1> SUFFICES ASSUME OneDisk PROVE CredSpec => []LiveTokensVerify
  OBVIOUS
<1>1. CredInv => LiveTokensVerify
  <2> SUFFICES ASSUME CredInv, Undisturbed, NEW t \in token, NEW p \in Up, Live(t)
               PROVE  Verify(p, t) = "valid"
    BY DEF LiveTokensVerify, Undisturbed
  <2>1. p \in Replicas /\ signer[p].pc = "up"
    BY DEF Up
  <2>2. t.kid = signer[p].key
    BY <2>1 DEF CredInv, OneKey, HoldsFile, SignedWithFile
  <2> QED
    BY <2>2 DEF Verify, VerifyJwt, Jwks, Live
<1> QED
  BY <1>1, CredInitInv, CredNextInv, PTL DEF CredSpec

-----------------------------------------------------------------------------
(* The data key.                                                           *)

AnyKeyValue == DataKeys \cup {EnvKey, Missing, Torn}

HolderRecord == [pc : {"unbuilt", "making", "writing", "built"}, key : AnyKeyValue]

StorageTyped ==
    /\ env \in {EnvKey, Missing}
    /\ storageKey \in AnyKeyValue
    /\ holder \in [Hosts -> HolderRecord]
    /\ blobKey \in [Refs -> AnyKeyValue]

\* With a key in the environment no process makes one, and there is only that key.
EnvKeyOnly ==
    env # Missing =>
        /\ \A p \in Hosts : /\ holder[p].pc \in {"unbuilt", "built"}
                            /\ holder[p].pc = "built" => holder[p].key = env
        /\ \A r \in Refs : blobKey[r] \in {Missing, env}

\* With the file's key, nobody else has come by while one process makes it: there is
\* a key in the file, or there is none and nothing was built or encrypted yet.
MakerState(p) ==
    /\ holder[p].pc = "making"  => holder[p].key \in DataKeys /\ storageKey = Missing
    /\ holder[p].pc = "writing" => holder[p].key \in DataKeys /\ storageKey = Torn
    /\ holder[p].pc = "built"   => holder[p].key = storageKey /\ storageKey \in DataKeys

OneMaker == \A p, q \in Making : p = q

FileKeyOnly ==
    env = Missing /\ ~contended =>
        /\ OneMaker
        /\ \A p \in Hosts : MakerState(p)
        /\ storageKey = Torn => Making # {}
        /\ storageKey # EnvKey
        /\ \A r \in Refs : blobKey[r] # Missing => blobKey[r] = storageKey /\ storageKey \in DataKeys

StorageInv == StorageTyped /\ EnvKeyOnly /\ FileKeyOnly

LEMMA UnbuiltType == Unbuilt \in HolderRecord /\ Unbuilt.pc = "unbuilt"
BY DEF Unbuilt, HolderRecord, AnyKeyValue

LEMMA StorageInitInv == StorageInit => StorageInv
<1> SUFFICES ASSUME StorageInit PROVE StorageInv
  OBVIOUS
<1>1. StorageTyped
  BY UnbuiltType DEF StorageInit, StorageTyped, AnyKeyValue
<1>2. \A p \in Hosts : holder[p].pc = "unbuilt"
  BY UnbuiltType DEF StorageInit
<1>3. storageKey = Missing /\ \A r \in Refs : blobKey[r] = Missing
  BY DEF StorageInit
<1> QED
  BY <1>1, <1>2, <1>3, StorageAssumption
  DEF StorageInv, EnvKeyOnly, FileKeyOnly, MakerState, OneMaker, Making

LEMMA BuildFromEnvInv ==
    ASSUME StorageInv, NEW p \in Hosts, BuildFromEnv(p)
    PROVE  StorageInv'
<1> USE DEF StorageInv, StorageTyped
<1> DEFINE new == [pc |-> "built", key |-> env]
<1>1. /\ UNCHANGED <<env, storageKey, blobKey>> /\ env # Missing
      /\ holder' = [holder EXCEPT ![p] = new]
  BY DEF BuildFromEnv
<1>2. new \in HolderRecord /\ new.pc = "built" /\ new.key = env
  BY DEF HolderRecord, AnyKeyValue
<1> HIDE DEF new
<1>3. StorageTyped'
  BY <1>1, <1>2
<1>4. EnvKeyOnly'
  BY <1>1, <1>2 DEF EnvKeyOnly
<1> QED
  BY <1>1, <1>3, <1>4 DEF FileKeyOnly

LEMMA BuildFromFileInv ==
    ASSUME StorageInv, NEW p \in Hosts, BuildFromFile(p)
    PROVE  StorageInv'
<1> USE DEF StorageInv, StorageTyped
<1>1. /\ UNCHANGED <<env, storageKey, blobKey>> /\ env = Missing
      /\ holder[p].pc = "unbuilt"
      /\ ~contended' => ~contended /\ Making = {}
  BY UnbuiltType DEF BuildFromFile
<1>2. CASE storageKey # Missing
  <2> DEFINE new == [pc |-> "built", key |-> storageKey]
  <2>1. holder' = [holder EXCEPT ![p] = new]
    BY <1>2 DEF BuildFromFile
  <2>2. new \in HolderRecord /\ new.pc = "built" /\ new.key = storageKey
    BY DEF HolderRecord
  <2> HIDE DEF new
  <2>3. StorageTyped'
    BY <1>1, <2>1, <2>2
  <2>4. ASSUME ~contended' PROVE FileKeyOnly'
    <3>1. /\ Making = {} /\ storageKey # EnvKey /\ storageKey # Torn
          /\ \A q \in Hosts : MakerState(q)
          /\ \A r \in Refs : blobKey[r] # Missing => blobKey[r] = storageKey /\ storageKey \in DataKeys
      BY <1>1, <2>4 DEF FileKeyOnly
    <3>2. storageKey \in DataKeys
      BY <1>2, <3>1 DEF AnyKeyValue
    <3>3. Making' = {}
      BY <2>1, <2>2, <3>1 DEF Making
    <3>4. \A q \in Hosts : MakerState(q)'
      BY <1>1, <2>1, <2>2, <3>1, <3>2 DEF MakerState
    <3> QED
      BY <1>1, <3>1, <3>3, <3>4 DEF FileKeyOnly, OneMaker
  <2> QED
    BY <1>1, <2>3, <2>4 DEF EnvKeyOnly, FileKeyOnly
<1>3. CASE storageKey = Missing
  <2>1. PICK k \in DataKeys : holder' = [holder EXCEPT ![p] = [pc |-> "making", key |-> k]]
    BY <1>3 DEF BuildFromFile
  <2> DEFINE new == [pc |-> "making", key |-> k]
  <2>2. new \in HolderRecord /\ new.pc = "making" /\ new.key = k
    BY DEF HolderRecord, AnyKeyValue
  <2>3. holder' = [holder EXCEPT ![p] = new]
    BY <2>1
  <2> HIDE DEF new
  <2>4. StorageTyped'
    BY <1>1, <2>2, <2>3
  <2>5. ASSUME ~contended' PROVE FileKeyOnly'
    <3>1. /\ Making = {}
          /\ \A q \in Hosts : MakerState(q)
          /\ \A r \in Refs : blobKey[r] # Missing => blobKey[r] = storageKey /\ storageKey \in DataKeys
      BY <1>1, <2>5 DEF FileKeyOnly
    <3>2. Making' = {p}
      BY <2>2, <2>3, <3>1 DEF Making
    <3>3. \A q \in Hosts : MakerState(q)'
      BY <1>1, <1>3, <2>2, <2>3, <3>1 DEF MakerState
    <3> QED
      BY <1>1, <1>3, <3>1, <3>2, <3>3, StorageAssumption DEF FileKeyOnly, OneMaker
  <2> QED
    BY <1>1, <2>4, <2>5 DEF EnvKeyOnly, FileKeyOnly
<1> QED
  BY <1>2, <1>3

LEMMA OpenKeyFileInv ==
    ASSUME StorageInv, NEW p \in Hosts, OpenKeyFile(p)
    PROVE  StorageInv'
<1> USE DEF StorageInv, StorageTyped
<1>1. /\ UNCHANGED <<env, blobKey, contended>> /\ storageKey' = Torn
      /\ holder[p].pc = "making"
      /\ holder' = [holder EXCEPT ![p].pc = "writing"]
  BY DEF OpenKeyFile
<1>2. /\ holder' \in [Hosts -> HolderRecord]
      /\ holder'[p].pc = "writing" /\ holder'[p].key = holder[p].key
      /\ \A q \in Hosts \ {p} : holder'[q] = holder[q]
  BY <1>1 DEF HolderRecord
<1>3. StorageTyped'
  BY <1>1, <1>2 DEF AnyKeyValue
<1>4. env = Missing
  BY <1>1 DEF EnvKeyOnly
<1>5. ASSUME ~contended PROVE FileKeyOnly'
  <2>1. /\ \A q \in Making : q = p
        /\ \A q \in Hosts : MakerState(q)
        /\ \A r \in Refs : blobKey[r] # Missing => blobKey[r] = storageKey /\ storageKey \in DataKeys
    BY <1>1, <1>4, <1>5 DEF FileKeyOnly, OneMaker, Making
  <2>2. storageKey = Missing /\ holder[p].key \in DataKeys
    BY <1>1, <2>1 DEF MakerState
  <2>3. Making' = {p}
    BY <1>1, <1>2, <2>1 DEF Making
  <2>4. \A q \in Hosts : MakerState(q)'
    BY <1>1, <1>2, <2>1, <2>2, StorageAssumption DEF MakerState, Making
  <2> QED
    BY <1>1, <2>1, <2>2, <2>3, <2>4, StorageAssumption DEF FileKeyOnly, OneMaker
<1> QED
  BY <1>1, <1>3, <1>4, <1>5 DEF EnvKeyOnly, FileKeyOnly

LEMMA WriteKeyFileInv ==
    ASSUME StorageInv, NEW p \in Hosts, WriteKeyFile(p)
    PROVE  StorageInv'
<1> USE DEF StorageInv, StorageTyped
<1>1. /\ UNCHANGED <<env, blobKey, contended>> /\ storageKey' = holder[p].key
      /\ holder[p].pc = "writing"
      /\ holder' = [holder EXCEPT ![p].pc = "built"]
  BY DEF WriteKeyFile
<1>2. /\ holder' \in [Hosts -> HolderRecord] /\ holder[p].key \in AnyKeyValue
      /\ holder'[p].pc = "built" /\ holder'[p].key = holder[p].key
      /\ \A q \in Hosts \ {p} : holder'[q] = holder[q]
  BY <1>1 DEF HolderRecord
<1>3. StorageTyped'
  BY <1>1, <1>2
<1>4. env = Missing
  BY <1>1 DEF EnvKeyOnly
<1>5. ASSUME ~contended PROVE FileKeyOnly'
  <2>1. /\ \A q \in Making : q = p
        /\ \A q \in Hosts : MakerState(q)
        /\ \A r \in Refs : blobKey[r] # Missing => blobKey[r] = storageKey /\ storageKey \in DataKeys
    BY <1>1, <1>4, <1>5 DEF FileKeyOnly, OneMaker, Making
  <2>2. storageKey = Torn /\ holder[p].key \in DataKeys
    BY <1>1, <2>1 DEF MakerState
  <2>3. Making' = {}
    BY <1>1, <1>2, <2>1 DEF Making
  <2>4. \A q \in Hosts : MakerState(q)'
    BY <1>1, <1>2, <2>1, <2>2, StorageAssumption DEF MakerState, Making
  <2>5. \A r \in Refs : blobKey[r] = Missing
    BY <2>1, <2>2, StorageAssumption
  <2> QED
    BY <1>1, <2>2, <2>3, <2>4, <2>5, StorageAssumption DEF FileKeyOnly, OneMaker
<1> QED
  BY <1>1, <1>3, <1>4, <1>5 DEF EnvKeyOnly, FileKeyOnly

LEMMA EndHostInv ==
    ASSUME StorageInv, NEW p \in Hosts, EndHost(p)
    PROVE  StorageInv'
<1> USE DEF StorageInv, StorageTyped
<1>1. /\ UNCHANGED <<env, storageKey, blobKey>>
      /\ holder' = [holder EXCEPT ![p] = Unbuilt]
      /\ ~contended' => ~contended /\ holder[p].pc # "writing"
  BY DEF EndHost
<1>2. /\ holder' \in [Hosts -> HolderRecord] /\ holder'[p].pc = "unbuilt"
      /\ \A q \in Hosts \ {p} : holder'[q] = holder[q]
  BY <1>1, UnbuiltType
<1>3. StorageTyped' /\ EnvKeyOnly'
  BY <1>1, <1>2 DEF EnvKeyOnly
<1>4. ASSUME env = Missing, ~contended' PROVE FileKeyOnly'
  <2>1. /\ OneMaker
        /\ \A q \in Hosts : MakerState(q)
        /\ storageKey = Torn => Making # {}
        /\ storageKey # EnvKey
        /\ \A r \in Refs : blobKey[r] # Missing => blobKey[r] = storageKey /\ storageKey \in DataKeys
    BY <1>1, <1>4 DEF FileKeyOnly
  <2>2. Making' \subseteq Making /\ Making \ {p} \subseteq Making'
    BY <1>2 DEF Making
  <2>3. storageKey = Torn => p \notin Making
    BY <1>1, <1>4, <2>1, StorageAssumption DEF MakerState, Making
  <2>4. \A q \in Hosts : MakerState(q)'
    BY <1>1, <1>2, <2>1 DEF MakerState
  <2> QED
    BY <1>1, <2>1, <2>2, <2>3, <2>4 DEF FileKeyOnly, OneMaker
<1> QED
  BY <1>1, <1>3, <1>4 DEF FileKeyOnly

LEMMA BlobInv ==
    ASSUME StorageInv, NEW p \in Hosts, NEW r \in Refs, PutBlob(p, r) \/ RemoveBlob(p, r)
    PROVE  StorageInv'
<1> USE DEF StorageInv, StorageTyped
<1>1. UNCHANGED <<env, storageKey, holder, contended>> /\ holder[p].pc = "built"
  BY DEF PutBlob, RemoveBlob
<1>2. PICK k \in {Missing, holder[p].key} : blobKey' = [blobKey EXCEPT ![r] = k]
  BY DEF PutBlob, RemoveBlob
<1>3. k \in AnyKeyValue
  BY <1>2 DEF HolderRecord, AnyKeyValue
<1>4. StorageTyped'
  BY <1>1, <1>2, <1>3
<1>5. EnvKeyOnly'
  BY <1>1, <1>2 DEF EnvKeyOnly
<1>6. FileKeyOnly'
  <2>1. OneMaker' = OneMaker /\ Making' = Making /\ \A q \in Hosts : MakerState(q)' = MakerState(q)
    BY <1>1 DEF OneMaker, Making, MakerState
  <2>2. ASSUME FileKeyOnly, env = Missing, ~contended
        PROVE  k # Missing => k = storageKey /\ storageKey \in DataKeys
    BY <1>1, <1>2, <2>2 DEF FileKeyOnly, MakerState
  <2> QED
    BY <1>1, <1>2, <2>1, <2>2 DEF FileKeyOnly
<1> QED
  BY <1>4, <1>5, <1>6

LEMMA StorageNextInv == StorageInv /\ [StorageNext]_storageVars => StorageInv'
<1> SUFFICES ASSUME StorageInv, [StorageNext]_storageVars PROVE StorageInv'
  OBVIOUS
<1>1. CASE UNCHANGED storageVars
  BY <1>1 DEF storageVars, StorageInv, StorageTyped, EnvKeyOnly, FileKeyOnly, OneMaker, Making,
     MakerState
<1> QED
  BY <1>1, BuildFromEnvInv, BuildFromFileInv, OpenKeyFileInv, WriteKeyFileInv, EndHostInv, BlobInv
  DEF StorageNext

\* Every process reads what any of them has stored: always with the environment's key,
\* and with the file's while no process meets a key file in the making.
THEOREM BlobsStayReadable == StorageSpec => []BlobsDecrypt
<1>1. StorageInv => BlobsDecrypt
  <2> SUFFICES ASSUME StorageInv, NEW p \in Hosts, NEW r \in Refs, holder[p].pc = "built",
                      env # Missing \/ ~contended
               PROVE  blobKey[r] = Missing \/ blobKey[r] = holder[p].key
    BY DEF BlobsDecrypt, GetBlob
  <2>1. CASE env # Missing
    BY <2>1 DEF StorageInv, EnvKeyOnly
  <2>2. CASE env = Missing
    BY <2>2 DEF StorageInv, FileKeyOnly, MakerState
  <2> QED
    BY <2>1, <2>2
<1> QED
  BY <1>1, StorageInitInv, StorageNextInv, PTL DEF StorageSpec
=============================================================================
