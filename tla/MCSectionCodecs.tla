--------------------------- MODULE MCSectionCodecs ---------------------------
(***************************************************************************)
(* Strings and vectors for SectionCodecs: a string of two bytes that are   *)
(* one character, and one longer than a length field of four values tells. *)
(***************************************************************************)
EXTENDS SectionCodecs

SomeStrings == {<<>>, <<Ascii>>, <<Lead, Continuation>>, <<Ascii, Ascii, Ascii, Ascii>>}
SomeVectors == {<<>>, <<0>>, <<1>>, <<0, 1>>}
==============================================================================
