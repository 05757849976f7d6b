----------------------------- MODULE MCEptTiles -----------------------------
(***************************************************************************)
(* A hierarchy of two pages: the first lists the odd tiles and refers to   *)
(* the second, which lists the even ones.                                  *)
(***************************************************************************)
EXTENDS EptTiles

MCPageTiles == [page \in {0, -1} |-> {t \in EptTileSet : t % 2 = 1 + page}]
MCSubPages  == [page \in {0, -1} |-> IF page = 0 THEN <<-1>> ELSE <<>>]

\* One tile cannot be read and is to be skipped.
SkipCases == {[streaming |-> FALSE, ignoreUnreadable |-> TRUE,
               count |-> TileTotal, unreadable |-> {2}, badPages |-> {}]}

\* The first tile read exceeds the limit.
LimitCases == {[streaming |-> FALSE, ignoreUnreadable |-> FALSE,
                count |-> 0, unreadable |-> {}, badPages |-> {}]}
=============================================================================
