------------------------------- MODULE MCUrl -------------------------------
(***************************************************************************)
(* The inputs with which TLC calls the url object, one definition per run. *)
(***************************************************************************)
EXTENDS UrlInvariant, SequencesExt

\* TLC takes every string for a character.
AllStrings == STRING

NoInput == [call \in Call |-> {}]

\* Special URLs: every part set, changed and removed.
SpecialInput ==
    [NoInput EXCEPT
        !["parse"] = {<<"http", ":", "/", "/", "h">>},
        !["href"] = {<<"ws", ":", "/", "/", "u", "@", "h", "?">>},
        !["protocol"] = {<<"http", "s">>, <<"ws">>, <<"a">>, <<"file">>},
        !["username"] = {<<>>, <<"u", "TAB">>},
        !["password"] = {<<>>, <<"p", "@">>},
        !["host"] = {<<>>, <<"h", "TAB", ":", "4", "4", "3">>},
        !["port"] = {<<>>, <<"8", "0">>, <<"8", "1">>},
        !["pathname"] = {<<"x">>},
        !["search"] = {<<>>, <<"TAB">>},
        !["hash"] = {<<>>, <<"f">>}]

\* URLs whose scheme is not special: with and without a host, with an
\* opaque path that ends in spaces, with a path that needs the "/." prefix.
NonSpecialInput ==
    [NoInput EXCEPT
        !["parse"] = {<<"a", ":", "p", " ", " ", "?", "q", "#", "f">>,
                      <<"a", ":", "/", ".", "/", "/", "p">>},
        !["href"] = {<<"a", ":", "/", "/", "u", ":", "p", "@", "h">>},
        !["protocol"] = {<<"a", "c", ":">>, <<"a">>, <<"http">>, <<":">>},
        !["username"] = {<<>>, <<"u", "v">>},
        !["password"] = {<<>>, <<"p">>},
        !["host"] = {<<>>, <<"h", ":", "9">>, <<"h", "/", "x">>, <<"[">>},
        !["hostname"] = {<<"H", "u8">>, <<"h", ":", "9">>},
        !["port"] = {<<>>, <<"9">>},
        !["pathname"] = {<<>>, <<"/", "/", "x">>},
        !["search"] = {<<>>, <<"TAB", "q">>},
        !["hash"] = {<<>>, <<"#">>}]

\* File URLs: drive letters, "localhost", hosts and scheme changes.
FileInput ==
    [NoInput EXCEPT
        !["parse"] = {<<"file", ":", "/", "C", "|", "/", "x">>, <<"file", ":", "/", "/", "h", "/">>,
                      <<"file", ":", "\\", "\\", "localhost", "/", ".", ".", "/", "C", ":">>},
        !["href"] = {<<"http", ":", "/", "/", "1", "/", "C", "|">>},
        !["parse_with_base"] = {<<>>, <<".", ".">>, <<"/", "x">>, <<"C", "|">>, <<"x">>,
                                <<"/", "/", "h">>, <<"?">>, <<"#">>, <<"/", "C", ":">>},
        !["protocol"] = {<<"file">>, <<"http">>, <<"a">>},
        !["username"] = {<<>>, <<"u">>},
        !["host"] = {<<>>, <<"localhost">>, <<"h">>, <<"C", ":">>},
        !["port"] = {<<"8">>, <<>>},
        !["pathname"] = {<<"C", "|">>, <<".", ".", "/", "x">>, <<>>},
        !["search"] = {<<>>, <<"'">>},
        !["hash"] = {<<>>, <<"f">>}]

-----------------------------------------------------------------------------
\* Every short text after a scheme.
After(scheme, alphabet, n) == {scheme \o <<":">> \o s : s \in SeqOf(alphabet, n)}

ParseTexts ==
    After(<<"http">>, {"/", "\\", ":", "@", "h", "?", "8"}, 5)
      \cup After(<<"http">>, {"/", "h", " ", "TAB", "?"}, 4)
      \cup {<<"ws", ":">> \o s : s \in SeqOf({"[", ":", "]", "1"}, 5)}
      \cup After(<<"a">>, {"/", ":", "@", "h", "?", "#", ".", " "}, 4)
      \cup {<<"a", ":", "/">> \o s : s \in SeqOf({"/", ".", "%2e", "x"}, 5)}
      \cup After(<<"file">>, {"/", "C", "|", ".", "localhost", "?"}, 4)
      \cup {<<"file", ":", "/">> \o s : s \in SeqOf({"/", "C", ":", ".", "\\"}, 5)}

\* Relative references of up to four characters, against bases of each kind.
Bases == {<<"http", ":", "/", "/", "u", ":", "p", "@", "h", ":", "8", "/", "x", "/", "y", "?", "q", "#", "f">>,
          <<"a", ":", "/", "/", "h">>,
          <<"a", ":", "/", ".", "/", "/", "p", "?">>,
          <<"a", ":", "o", " ", "#", "f">>,
          <<"file", ":", "/", "/", "/", "C", ":">>,
          <<"file", ":", "/", "/", "h", "/", "x", "/", "y", "?", "q">>}

SweepInput ==
    [NoInput EXCEPT
        !["parse"] = ParseTexts,
        !["href"] = Bases,
        !["parse_with_base"] =
            SeqOf({"/", "\\", "?", "#", ".", "x", "C", ":"}, 3)
              \cup SeqOf({"/", "."}, 5)
              \cup {<<"http", ":">> \o s : s \in SeqOf({"/", "\\", "x", "?"}, 3)}]

\* An object parses a text, or a base and then a reference; parses what it
\* holds, and is cleared for the next text.
SweepNext ==
    \/ pc = "idle" /\ url = EmptyUrl /\ \E text \in Input["parse"] : Parse(text)
    \/ pc = "idle" /\ url = EmptyUrl /\ \E text \in Input["href"] : SetHref(text)
    \/ /\ pc = "idle" /\ url.norm \in Input["href"]
       /\ \E text \in Input["parse_with_base"] : ParseWithBase(text)
    \/ pc = "idle" /\ url # EmptyUrl /\ (Reparse \/ Clear)
    \/ Step

SweepSpec == Init /\ [][SweepNext]_vars

\* A host with a port that is out of range.
HostFailureInput ==
    [NoInput EXCEPT !["parse"] = {<<"http", ":", "/", "/", "h">>},
                    !["host"] = {<<"g", ":", "9", "9", "9", "9", "9">>}]
=============================================================================
