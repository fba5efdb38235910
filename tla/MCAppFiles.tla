------------------------------ MODULE MCAppFiles ------------------------------
(***************************************************************************)
(* AppFiles on three kinds of card, one of them chosen at the start.  On a *)
(* rough one everything may fail, though in one way of losing records or   *)
(* the backup per behaviour, and the last data file stays the user's own.  *)
(* On the others all data files come and go: on a quiet one nothing loses  *)
(* records, on a small one only a manifest that is not read, as one with   *)
(* more than one record is.                                                *)
(***************************************************************************)
EXTENDS AppFiles, FiniteSets

VARIABLE kind

cardVars == <<kind, vars>>

RoomForAll == SUBSET (1 .. NData)
RoomForOne == {m \in RoomForAll : Cardinality(m) <= 1}

LastStays == files[NData] = "own"

Small == INSTANCE AppFiles WITH Readable <- RoomForOne

CardsInit == Init /\ kind \in {"rough", "quiet", "small"} /\ (kind = "rough" => LastStays)

CardsNext ==
  /\ IF kind = "small" THEN Small!Next ELSE Next
  /\ IF kind = "rough" THEN LastStays' /\ Cardinality(mishaps') <= 1
                       ELSE mishaps' \subseteq IF kind = "small" THEN {"unread"} ELSE {}
  /\ UNCHANGED kind

CardsSpec == CardsInit /\ [][CardsNext]_cardVars
=============================================================================
