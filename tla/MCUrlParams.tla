---------------------------- MODULE MCUrlParams ----------------------------
(***************************************************************************)
(* The inputs with which TLC edits parameter lists and urls.               *)
(***************************************************************************)
EXTENDS UrlParams

AllStrings == STRING

NoInput == [call \in Call |-> {}]

\* A URL with an opaque path that ends in spaces and with two parameters
\* that are not in order, and one without a query.
ParamsInput ==
    [NoInput EXCEPT
        !["parse"] = {<<"a", ":", "p", " ", "?", "b", "&", "a", "=", "%FF">>},
        !["href"] = {<<"http", ":", "/", "/", "h", "/">>},
        !["parse_with_base"] = {<<"?", "b">>},
        !["search"] = {<<>>, <<"?", "b">>},
        !["pathname"] = {<<>>}]

\* Names "a" and "b"; the value 255 is no UTF-8.
ParamsPairs == {<<<<97>>, <<255>>>>, <<<<98>>, <<>>>>}

\* "?b"
ParamsTexts == {<<63, 98>>}

ParamsFree == {<<<<<<98>>, <<>>>>>>}

\* A call of the url reads neither the other url nor the list without a url,
\* and what is done to two of the three never reads the third.  So TLC starts
\* calls, and lets lists grow, where those two hold nothing; it lets only one
\* of them hold something otherwise, and no url with an opaque path then
\* meets a list.
Lean ==
    LET alone == /\ other = EmptyUrl /\ params["other"] = NoParams
                 /\ params["free"] = FreeParams(<<>>, FALSE)
        opaque == HasOpaquePath(url) \/ HasOpaquePath(other)
        linked == params["url"].made \/ params["other"].made
    IN /\ pc # "idle" => alone
       /\ other.norm = <<>> \/ params["free"].list = <<>>
       /\ ~alone => ~(opaque /\ linked) /\ \A o \in Object : Len(params[o].list) =< 1

LeanNext == ParamsNext /\ Lean'

LeanSpec == ParamsInit /\ [][LeanNext]_paramsVars
=============================================================================
