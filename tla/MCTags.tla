------------------------------- MODULE MCTags -------------------------------
(***************************************************************************)
(* Small strings for Tags: a word, its upper case, a word that begins with *)
(* it, tags with commas and with spaces in every place that matters.       *)
(***************************************************************************)
EXTENDS Tags

MCUpper == [c \in {"a", "A", "b", "x", ",", " "} |-> IF c = "a" THEN "A" ELSE c]

A  == <<"a">>
B  == <<"b">>
AB == <<"a", ",", "b">>

MCTagLists ==
  { <<B, AB>>,                               \* loses "a,b" to a rewrite
    << <<" ", "a">>, A >>,                   \* trimmed to a duplicate
    << <<"a", ",", " ", "b">> >>,            \* a space that a rewrite removes
    << <<"b">>, <<"a", "x">>, <<" ", " ">> >>,
    << <<"A">>, <<" ">> >> }                 \* cleanTag panics

MCNames == {A, <<" ", "b">>, <<" ">>}

MCFilters == {[tag |-> A, active |-> TRUE]}
=============================================================================
