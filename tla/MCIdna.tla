------------------------------- MODULE MCIdna -------------------------------
(***************************************************************************)
(* A small buffer, and domains that need more room than it has.            *)
(***************************************************************************)
EXTENDS Idna

Result(length, out, errors, failure) ==
    [length |-> length, out |-> out, errors |-> errors, failure |-> failure]

\* Nothing, a character, as much as there may be, one
\* that is not ASCII, and results that are refused; "b" is not ASCII.
IdnaDomains ==
    {Result(1, <<>>, FALSE, FALSE),
     Result(1, <<"a">>, FALSE, FALSE),
     Result(2, <<"a", "a", "a", "a", "a">>, FALSE, FALSE),
     Result(2, <<"a", "b">>, FALSE, FALSE),
     Result(2, <<"a", "a", "a", "a">>, TRUE, FALSE),
     Result(2, <<"a">>, FALSE, TRUE),
     Result(6, <<"a">>, FALSE, FALSE)}

IdnaPieces == {<<"a">>, <<"b", "a">>}
=============================================================================
