--------------------------- MODULE MCTableScreens ---------------------------
(***************************************************************************)
(* TableScreens for TLC: three stations, two of them equally far, and      *)
(* three towns, one of which has its article in parentheses.               *)
(***************************************************************************)
EXTENDS TableScreens

CONSTANTS g1, g2, g3

MCDistance == g1 :> 1 @@ g2 :> 1 @@ g3 :> 2
MCPrice == g1 :> 2 @@ g2 :> 1 @@ g3 :> 1

MCFolded ==
  [c \in {"a", "b", "l", " ", "(", ")"} |-> c] @@ "A" :> "a" @@ "B" :> "b" @@ "á" :> "a" @@ "L" :> "l"

MCTownList == <<<<"A", "b">>, <<"B", "á", "l", " ", "(", "L", "a", ")">>, <<"L", "á">>>>

MCTexts == {<<>>, <<"A">>, <<"b", "a">>, <<"l", "a">>, <<"a", " ", "b">>}
=============================================================================
