-------------------------- MODULE MCGrammarBuilder --------------------------
(* GrammarBuilder with names that clash: "" may be of either kind. *)
EXTENDS GrammarBuilder

MCRightSides == {<<"a">>, <<"S", "A">>, <<"">>, <<"A">>, <<>>}
SmallRightSides == {<<"a", "S">>, <<"A">>}
=============================================================================
