----------------------------- MODULE MCUrlMoves -----------------------------
(***************************************************************************)
(* The inputs with which TLC moves urls.                                   *)
(***************************************************************************)
EXTENDS UrlMoves

AllStrings == STRING

NoInput == [call \in Call |-> {}]

\* URLs that have different parts, so that what is left of one shows.
MoveInput ==
    [NoInput EXCEPT
        !["parse"] = {<<"http", ":", "/", "/", "h", "/", "x", "?", "q", "#", "f">>, <<"a", ":", "o">>},
        !["href"] = {<<"ws", ":", "/", "/", "u", "@", "h">>, <<"http", ":", "/", "/">>},
        !["port"] = {<<"8">>},
        !["hash"] = {<<>>}]
=============================================================================
