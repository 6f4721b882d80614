--------------------------- MODULE MCCharacterSync --------------------------
(***************************************************************************)
(* CharacterSync for TLC: two item levels, three ratings of which two      *)
(* are stored alike, two expansions, and two syncs of the character.       *)
(***************************************************************************)
EXTENDS CharacterSync

=============================================================================
