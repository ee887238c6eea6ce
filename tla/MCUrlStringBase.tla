-------------------------- MODULE MCUrlStringBase --------------------------
(***************************************************************************)
(* The urls and bases with which TLC calls can_parse() and parse().        *)
(***************************************************************************)
EXTENDS UrlStringBase, SequencesExt

AllStrings == STRING

\* Bases of each kind, those that fail included, with every short url.
StringInput ==
    [call \in Call |->
        CASE call = "parse" ->
               {<<"http", ":", "/", "/", "u", "@", "h", ":", "8", "/", "x">>,
                <<"http", ":", "/", "/", "h", ":", "y">>, <<"http", ":", "/", "/">>,
                <<"file", ":", "/", "/", "h", "/", "C", ":">>, <<"file", ":">>,
                <<"file", ":", "/", "/", "h", "[">>,
                <<"a", ":", "/", "/", "h">>, <<"a", ":", "/", "x">>, <<"a", ":", "o">>,
                <<"a", ":">>, <<"a", ":", "/", "/", "[">>, <<"x">>, <<>>}
          [] call = "parse_with_base" ->
               SeqOf({"/", "\\", "?", "x", ":"}, 3) \cup {<<"#">>, <<"?", "#">>, <<"x", "#">>}
                 \cup {<<"http", ":">> \o s : s \in SeqOf({"/", "x", "[", "?"}, 3)}
                 \cup {<<"file", ":">> \o s : s \in SeqOf({"/", "C", ":"}, 3)}
          [] OTHER -> {}]
=============================================================================
