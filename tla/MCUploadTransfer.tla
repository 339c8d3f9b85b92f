-------------------------- MODULE MCUploadTransfer --------------------------
(* Small instances of UploadTransfer for TLC. *)
EXTENDS UploadTransfer, TLC
=============================================================================
