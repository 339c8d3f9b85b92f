---------------------------- MODULE OncePerStart ----------------------------
(***************************************************************************)
(* What a customer who presses Start is promised, whatever fails on the    *)
(* way: the files go to the provider at most once per start, the answer to *)
(* that submission is final, and a report is announced only for a start    *)
(* whose submission came back with one.                                    *)
(***************************************************************************)
CONSTANT Starts

VARIABLES
  fate,      \* what became of the submission of each start
  announced  \* the starts shown or stored as "report ready"

Init == fate = [s \in Starts |-> "unsent"] /\ announced = {}

\* The files of s leave for the provider, for the first and only time.
Send(s) ==
  /\ fate[s] = "unsent"
  /\ fate' = [fate EXCEPT ![s] = "inflight"]
  /\ UNCHANGED announced

\* The provider's answer arrives, with a report or without.
Answer(s, f) ==
  /\ fate[s] = "inflight"
  /\ fate' = [fate EXCEPT ![s] = f]
  /\ UNCHANGED announced

\* The answers of all submissions under way are lost together.
Lose ==
  /\ fate' = [s \in Starts |-> IF fate[s] = "inflight" THEN "lost" ELSE fate[s]]
  /\ UNCHANGED announced

\* Windows and records come and go; they only ever announce a real report.
Announce ==
  /\ UNCHANGED fate
  /\ announced' \subseteq {s \in Starts : fate[s] = "linked"}

Next ==
  \/ Announce
  \/ \E s \in Starts : Send(s) \/ \E f \in {"linked", "unlinked"} : Answer(s, f)
  \/ Lose

Spec == Init /\ [][Next]_<<fate, announced>>
=============================================================================
