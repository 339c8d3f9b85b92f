-------------------------- MODULE MCFinalizeOutbox --------------------------
(***************************************************************************)
(* Small instance of FinalizeOutbox for TLC.  Of the payloads, the first   *)
(* two become jobs, of one user each: two folders, and groups that name    *)
(* files by a path and by a name both have.  Each of the others fails one  *)
(* check.                                                                  *)
(***************************************************************************)
EXTENDS FinalizeOutbox, TLC

CONSTANTS u1, u2, a, b, x, composed, decomposed, dot, dots

MCSegments == {a, b, x, composed, decomposed, dot, dots}
MCSkipped == {dot}
MCEvil    == {dots}
MCNFC     == [s \in MCSegments |-> IF s = decomposed THEN composed ELSE s]
MCWidth   == [s \in MCSegments |-> 1]

Entry(segments) ==
  [path |-> [segments |-> segments, absolute |-> FALSE, control |-> FALSE],
   kind |-> "source", marked |-> FALSE, lost |-> FALSE, bytes |-> 1, hint |-> NoHint]

File(entry) == [archive |-> FALSE, compressed |-> 0, members |-> <<entry>>]
Zip(packed, members) == [archive |-> TRUE, compressed |-> packed, members |-> members]

Payload(objects, groups) ==
  [entitled |-> {u1}, consented |-> TRUE, language |-> TRUE,
   objects |-> objects, groups |-> groups]

Two      == <<File(Entry(<<a, x>>)), File(Entry(<<b, x>>))>>
Archived == <<Zip(1, <<Entry(<<a, x>>), Entry(<<dot, b, composed>>)>>)>>
Plain    == Entry(<<a, x>>)
Spoiled  ==
  { Entry(<<dot>>), Entry(<<a, dots, x>>), Entry(<<a, a, a, x>>),
    [Plain EXCEPT !.path.absolute = TRUE], [Plain EXCEPT !.path.control = TRUE],
    [Plain EXCEPT !.kind = "binary"], [Plain EXCEPT !.kind = "archive"],
    [Plain EXCEPT !.marked = TRUE], [Plain EXCEPT !.lost = TRUE],
    [Plain EXCEPT !.bytes = 9] }

MCPayloads ==
  { Payload(Two, <<>>), [Payload(Archived, <<<< <<a, x>> >>, << <<composed>>, <<x>> >> >>) EXCEPT
        !.entitled = {u2}],
    Payload(<<>>, <<>>), [Payload(Two, <<>>) EXCEPT !.entitled = {}],
    [Payload(Two, <<>>) EXCEPT !.consented = FALSE],
    [Payload(Two, <<>>) EXCEPT !.language = FALSE],
    Payload(<<Zip(1, <<Entry(<<a, x>>), [Entry(<<b, x>>) EXCEPT !.bytes = 4]>>)>>, <<>>),
    Payload(Two \o Two, <<>>), Payload(<<File(Plain)>>, <<>>),
    Payload(Two, << <<  <<b>> >> >>),
    Payload(<<File(Entry(<<a, composed>>)), File(Entry(<<a, decomposed>>))>>, << << >> >>) }
  \cup {Payload(Two \o <<File(e)>>, <<>>) : e \in Spoiled}

Symmetry == Permutations(Jobs) \cup Permutations(Users) \cup Permutations(Keys)
=============================================================================
