------------------------------ MODULE MCBigMath ------------------------------
(* Texts for BigMath: atoms of 7 bits, so that two decimal digits fit in one. *)
EXTENDS BigMath

Lit(text, value) == [text |-> text, value |-> value, ok |-> TRUE]
Bad(text) == [text |-> text, value |-> 0, ok |-> FALSE]

CExponents == {-7, 0, 1, 3}

CLiterals == {
  Lit(<<"0">>, 0), Lit(<<"-", "0">>, 0), Lit(<<" ", "3", " ">>, 3),
  Lit(<<"-", "7">>, -7), Lit(<<"0", "b", "1">>, 1), Lit(<<"1", "0", "0">>, 100),
  Lit(<<"-", "0", "2", "0", "0">>, -128), Lit(<<"0", "x", "4", "0", "0", "0">>, 16384),
  Bad(<<"0", "8">>)}

==============================================================================
