------------------------------ MODULE UnderWay ------------------------------
(***************************************************************************)
(* A page keeps the asynchronous functions that run in a sequence, oldest  *)
(* first, each a record with its kind.                                     *)
(***************************************************************************)
EXTENDS SequencesExt, Naturals

(* The load of its kind under way is cancelled: one at most is.            *)
Cancel(work, kind) ==
    LET loads == {i \in DOMAIN work : work[i].kind = kind} IN
    IF loads = {} THEN work ELSE RemoveAt(work, CHOOSE i \in loads : TRUE)
=============================================================================
