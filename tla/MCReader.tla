------------------------------- MODULE MCReader -------------------------------
(***************************************************************************)
(* Texts for the reader: all short ones over characters of every kind, and *)
(* longer ones in which keywords, numbers and == meet the ends of lines    *)
(* and of the buffer.                                                      *)
(***************************************************************************)
EXTENDS Reader

Over(characters, n) == UNION {[1 .. k -> characters] : k \in 0 .. n}

MCTexts ==
  Over({"a", "1", "=", "!", "\n", " ", "#", NUL}, 3)
    \union Over({"i", "f", "1", "\n"}, 5)
    \union Over({"=", "1", "\n"}, 6)
    \union {<<"{", "_", "1", "}">>, <<"e", "l", "s", "e", "(", ")">>,
            <<"f", "n", "=", "f", "n", "f", "n">>,
            <<"+", "-", "*", "/">>, <<"<", ">", ",", ";">>}
===============================================================================
