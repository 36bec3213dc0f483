----------------------------- MODULE MCNumerals ------------------------------
(***************************************************************************)
(* NumberCalls on all short texts of the chars that matter to a number,    *)
(* and on decimal numbers of up to 28 digits.                              *)
(***************************************************************************)
EXTENDS NumberCalls

\* All short numbers of few digits, and long ones made of groups of four digits.
Groups4 == {Chars("0000"), Chars("0001"), Chars("0010"), Chars("1000"), Chars("1110"), Chars("2101")}

MCNumberTexts ==
    SeqOf({Code["0"], Code["1"], Code["2"]}, 5)
    \cup {h \o FlattenSeq(g) : h \in {<<>>, Chars("1"), Chars("10"), Chars("300")}, g \in SeqOf(Groups4, 2)}
    \cup {FlattenSeq(g) : g \in [1 .. 3 -> Groups4]}
    \cup {h \o FlattenSeq([i \in 1 .. n |-> g]) : h \in {Chars("0"), Chars("1"), Chars("9000")},
                                                  g \in {Chars("0000"), Chars("1111"), Chars("9999")}, n \in 3 .. 6}
    \cup {Chars("2x"), Chars("-5"), Chars("x9"), Chars("1234567890")}

MCRooms == {-1, 0, 1}

MCScanTexts == {Code["+"], Code["-"], Code["."], Code["5"], Code["x"]}
=============================================================================
