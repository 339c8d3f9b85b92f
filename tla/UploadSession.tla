---------------------------- MODULE UploadSession ----------------------------
(***************************************************************************)
(* One upload session of apps/api/uploads/sessions.js, with the cleanup    *)
(* call that the transfer manager makes of its API                         *)
(* (apps/api/uploads/transfer-manager.js).                                 *)
(*                                                                         *)
(* A key is a number: the i-th key of the session belongs to the i-th file *)
(* of the transfer.  putObject has ten guards.  Those that do not depend   *)
(* on earlier puts (owner, origin, expiry, form of the key, size, type and *)
(* checksum) are one condition, which the environment decides for each     *)
(* put.  No session is multipart: the manager never asks for one.          *)
(***************************************************************************)
EXTENDS Naturals, FiniteSets

CONSTANT FileCount              \* expected.count: the number of keys issued

ASSUME FileCountAssumption == FileCount \in Nat \ {0}

Files == 1 .. FileCount

VARIABLES
  session,    \* "none" before createSession, then "open", and "gone" once deleted
  objects,    \* the keys that the object store holds
  completed   \* session.completed.length

sessionVars == <<session, objects, completed>>

SessionTypes ==
  /\ session \in {"none", "open", "gone"}
  /\ objects \subseteq Files
  /\ completed \in 0 .. FileCount

SessionInit ==
  /\ session = "none"
  /\ objects = {}
  /\ completed = 0

CreateSession ==
  /\ session = "none"
  /\ session' = "open"
  /\ UNCHANGED <<objects, completed>>

ReplayedNever(key) == FALSE     \* mutant: the replay guard is dropped

\* An object of this key is in the store already.
Replayed(key) == key \in objects

\* "ok", or the refusal: "replay", or any other of the code's.
PutAnswer(key, valid) ==
  IF session # "open" \/ ~valid THEN "refused"
  ELSE IF Replayed(key) THEN "replay"
  ELSE IF completed < FileCount THEN "ok" ELSE "refused"

PutObject(key, valid) ==
  /\ IF PutAnswer(key, valid) = "ok"
     THEN objects' = objects \cup {key} /\ completed' = completed + 1
     ELSE UNCHANGED <<objects, completed>>
  /\ UNCHANGED session

\* completeSession hands out a record of the keys.
Completable == session = "open" /\ completed = FileCount

\* cleanupUploadSession.
CleanUp ==
  /\ session' = "gone"
  /\ objects' = {}
  /\ completed' = 0
=============================================================================
