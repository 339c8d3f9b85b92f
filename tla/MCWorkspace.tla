----------------------------- MODULE MCWorkspace -----------------------------
(***************************************************************************)
(* TLC instance of Workspace: two files with one name and size below one   *)
(* folder, another file, and two archives, one with the folder's name.     *)
(***************************************************************************)
EXTENDS Workspace, TLC

CONSTANTS f1, f2, f3, f4, f5, k1, k2, k3, k4, folderA, other, l1

MCFiles  == {f1, f2, f3, f4, f5}
MCKeys   == {k1, k2, k3, k4}
MCLabels == {folderA, other}
MCKeyOf  == f1 :> k1 @@ f2 :> k1 @@ f3 :> k2 @@ f4 :> k3 @@ f5 :> k4
MCTop    == [f \in MCFiles |-> IF f = f5 THEN other ELSE folderA]
MCSort   == k1 :> "code" @@ k2 :> "code" @@ k3 :> "tgz" @@ k4 :> "zip"
MCNameOf == k1 :> "one" @@ k2 :> "one" @@ k3 :> "three" @@ k4 :> "four"
MCStem   == k1 :> other @@ k2 :> other @@ k3 :> folderA @@ k4 :> other
MCSpeaks == l1 :> {k1}
MCLists   == {MCKeys, {k1, k3}}

=============================================================================
