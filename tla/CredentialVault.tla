-------------------------- MODULE CredentialVault ---------------------------
(***************************************************************************)
(* The credential vault (apps/api/credentials/vault.js) with its key       *)
(* versions and encrypted backups.  A record is live while it is neither   *)
(* revoked nor emptied.  What matters of the encryption is under which     *)
(* version of the key the data key of a record is wrapped, and which one   *)
(* the record names.                                                       *)
(***************************************************************************)
EXTENDS Naturals

CONSTANTS
  CredIds,
  Users,        \* tenants
  MaxVersion    \* bound on key rotations

VARIABLES
  creds,        \* the records by id, NoCred before store
  keyVersion,   \* version of the key new records are wrapped under
  backup        \* the last exported backup: records by id, NoCred for none

NoCred == [state |-> "none"]

\* wrapped: the version that really wraps the data key; version: record.keyVersion.
Cred ==
  [ state : {"live", "revoked", "emptied"}, tenantId : Users,
    wrapped : 1..MaxVersion, version : 1..MaxVersion ]

VaultInit ==
  /\ creds = [c \in CredIds |-> NoCred]
  /\ keyVersion = 1
  /\ backup = [c \in CredIds |-> NoCred]

Live(c) == creds[c].state = "live"
Owned(c, tenant) == creds[c] # NoCred /\ creds[c].tenantId = tenant

Stored(c, tenant) ==
  [creds EXCEPT ![c] = [ state |-> "live", tenantId |-> tenant,
                         wrapped |-> keyVersion, version |-> keyVersion ]]

\* store under a new id.
StoreCred(c, tenant) ==
  /\ creds[c] = NoCred
  /\ creds' = Stored(c, tenant)
  /\ UNCHANGED <<keyVersion, backup>>

Revoked(records, old) == [records EXCEPT ![old].state = IF @ = "live" THEN "revoked" ELSE @]

\* replace: the old record is revoked, but one that was deleted stays empty.
ReplaceCred(old, c, tenant) ==
  /\ Owned(old, tenant)
  /\ creds[c] = NoCred
  /\ creds' = Revoked(Stored(c, tenant), old)
  /\ UNCHANGED <<keyVersion, backup>>

\* replace with an id that store refuses: the old record is revoked all the same.
ReplaceFails(old, tenant) ==
  /\ Owned(old, tenant)
  /\ creds' = Revoked(creds, old)
  /\ UNCHANGED <<keyVersion, backup>>

DeleteCred(c, tenant) ==
  /\ Owned(c, tenant)
  /\ creds' = [creds EXCEPT ![c].state = "emptied"]
  /\ UNCHANGED <<keyVersion, backup>>

\* decryptForSubmission, for the worker that may ask, with the lease of tenant; a
\* data key opens with the key that wraps it.
Decrypts(c, tenant) ==
  Live(c) /\ creds[c].tenantId = tenant /\ creds[c].version = creds[c].wrapped

RewrapStale(r, v) == [r EXCEPT !.wrapped = v]    \* mutant: names the old key

Rewrap(r, v) == [r EXCEPT !.wrapped = v, !.version = v]

\* rotateKeys wraps the live records under the new key; the old keys stay.
RotateKeys ==
  /\ keyVersion < MaxVersion
  /\ keyVersion' = keyVersion + 1
  /\ creds' = [c \in CredIds |->
       IF Live(c) THEN Rewrap(creds[c], keyVersion') ELSE creds[c]]
  /\ UNCHANGED backup

\* exportEncryptedBackup wraps what is live under the first key.
ExportBackup ==
  /\ backup' = [c \in CredIds |-> IF Live(c) THEN Rewrap(creds[c], 1) ELSE NoCred]
  /\ UNCHANGED <<creds, keyVersion>>

\* importEncryptedBackup writes the records of the backup over those of the vault,
\* revoked and emptied ones included.
ImportBackup ==
  /\ creds' = [c \in CredIds |->
       IF backup[c] # NoCred THEN Rewrap(backup[c], keyVersion) ELSE creds[c]]
  /\ UNCHANGED <<keyVersion, backup>>

VaultTypeOK ==
  /\ creds \in [CredIds -> Cred \cup {NoCred}]
  /\ keyVersion \in 1..MaxVersion
  /\ backup \in [CredIds -> Cred \cup {NoCred}]
=============================================================================
