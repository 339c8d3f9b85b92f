-------------------------- MODULE MCSubmitSession --------------------------
(* One submission of two files. *)
EXTENDS SubmitSession, TLC

MCLines ==
  [to : {"language", "query", "none"}, says : {"yes", "no", "url", "uncertain"}]
MCSignalOf == [r \in {1, 2} |-> NoSignal]
=============================================================================
