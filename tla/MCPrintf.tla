----------------------------- MODULE MCPrintf -----------------------------
(* TLC instance of Printf, scaled down with the conversion buffer: 5 bits for *)
(* the 32 of int, so that a binary number just fits.                          *)
EXTENDS Printf

Args == {0, 1, 10, 15, 16, 31}
AllFlags == SUBSET {"zero", "left", "plus", "space", "hash"}
D(flags, widths, precisions, lengths, convs, arguments) ==
  [flags : flags, star : {FALSE}, width : widths, hasPrec : {TRUE}, prec : precisions,
   length : lengths, conv : convs, arg : arguments]
WithoutPrecision(S) == {[d EXCEPT !.hasPrec = FALSE, !.prec = 0] : d \in S}
Starred(S) == {[d EXCEPT !.star = TRUE] : d \in S}

\* Width and precision in the format, with every flag and conversion.
Written == D(AllFlags, {0, 4}, {0, 3, 7}, {"none"}, {"d", "x", "b", "p"}, {0, 10, 31})
           \cup WithoutPrecision(D(AllFlags, {0, 1, 2, 4, 12}, {0}, {"none"},
                                   {"i", "X", "o", "b"}, Args))
\* ... and among the arguments, where they may be negative.
InArguments == Starred(D(SUBSET {"zero", "left", "plus", "hash"}, {-3, 0, 5}, {-1, 0, 4}, {"none"},
                         {"d", "x"}, {0, 10, 31})
                       \cup WithoutPrecision(D(SUBSET {"zero", "plus"}, {-12, 3}, {0}, {"none"},
                                               {"i", "o"}, {1, 16})))
\* Lengths, of which ll and j, long long, take no argument.
Lengths == WithoutPrecision(D(SUBSET {"zero", "plus"}, {0, 3}, {0},
                              {"l", "ll", "h", "hh", "t", "j", "z"}, {"d", "u"}, Args))
Strings == D(SUBSET {"left"}, {0, 2, 4}, {0, 1, 3}, {"none"}, {"s"},
             {<<>>, <<"a">>, <<"a", "b", "a">>})
Texts == Strings \cup Starred(Strings) \cup WithoutPrecision(Strings)
         \cup WithoutPrecision(D(SUBSET {"left"}, {0, 2}, {0}, {"none"}, {"c"}, {"a", "NUL"}))
         \cup WithoutPrecision(D({{}}, {0, 2}, {0}, {"none"}, {"%", "q"}, {0}))

All == Written \cup InArguments \cup Lengths \cup Texts
Rooms == {0, 1, 3, 20}
=============================================================================
