------------------------------ MODULE MCFiles ------------------------------
(***************************************************************************)
(* Files with the names a program may pass: "a", "A", and, with room for   *)
(* one letter before the dot and one after it, "ab", "a.b", "a.ba" and     *)
(* "a.b.a".  The first three are stored alike, and so are the others.      *)
(***************************************************************************)
EXTENDS Files

a == <<"A", "lower">>
b == <<"B", "lower">>

MCInputs == {<< <<a>> >>, << << <<"A", "upper">> >> >>, << <<a, b>> >>,
             << <<a>>, <<b>> >>, << <<a>>, <<b, a>> >>, << <<a>>, <<b>>, <<a>> >>}
=============================================================================
