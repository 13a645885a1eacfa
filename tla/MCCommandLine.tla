---------------------------- MODULE MCCommandLine ----------------------------
(* Migrations after the last three of schema/: 0003 creates and then updates *)
(* rows, 0004 can be run twice because it drops and adds a key of the same   *)
(* name, and 0005 creates.                                                   *)
(* Uploads: two folders with a file each, two workers, and a saver that      *)
(* would like to have the key of the first file: its page was rendered anew. *)
(* Old decks: one site with a deck under its canonical URL and another form  *)
(* of it, and a URL that no loader knows.                                    *)
EXTENDS CommandLine, TLC

CONSTANTS p1, p2, f1, f2, cards, pages, r1, page, o1, o2, n1, n2, site, form, other

Lengths == <<2, 2, 1>>
CanRepeat == {<<1, 2>>, <<2, 1>>, <<2, 2>>}
SomeFolders == f1 :> pages @@ f2 :> cards
FirstName == [s \in Savers |-> f1]
Forms == site :> site @@ form :> site @@ other :> Null
=============================================================================
