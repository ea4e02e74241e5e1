----------------------------- MODULE MCSseParser -----------------------------
(***************************************************************************)
(* SseParser for TLC: single characters and some longer pieces, with a name*)
(* of two characters, so that a line may end within it.                    *)
(***************************************************************************)
EXTENDS SseParser

CONSTANTS d, x, colon

MCCharacters == {d, x, colon, space, cr, lf}

MCDataField == <<d, colon>>

MCPieces ==
    {<<c>> : c \in {d, colon, space, cr, lf}}
        \cup {<<>>, <<cr, lf>>, <<lf, cr>>, <<d, colon, x, lf>>, <<x, cr, d, colon>>}
=============================================================================
