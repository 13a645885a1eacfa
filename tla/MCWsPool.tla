------------------------------ MODULE MCWsPool -------------------------------
(* Two browsers that load their list and then import or delete a deck, and a *)
(* download: the smallest system in which a pool of two can be exhausted by  *)
(* lists, by renders and by a mixture of both.                               *)
EXTENDS WsPool, TLC

CONSTANTS c1, c2, list1, list2, import1, import2, delete2, download1

TwoBrowsers ==
  list1 :> c1 @@ import1 :> c1 @@ list2 :> c2 @@ import2 :> c2 @@ delete2 :> c2
AsNamed ==
  list1 :> "list" @@ import1 :> "import" @@ list2 :> "list" @@ import2 :> "import"
    @@ delete2 :> "delete"
SomeConns == [m \in Messages |-> TwoBrowsers[m]]
SomeKinds == [m \in Messages |-> AsNamed[m]]
=============================================================================
