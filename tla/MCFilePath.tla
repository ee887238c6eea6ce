----------------------------- MODULE MCFilePath -----------------------------
(***************************************************************************)
(* The paths and file URLs that TLC converts.                              *)
(***************************************************************************)
EXTENDS FilePath, SequencesExt

AllStrings == STRING

Behind(prefix, alphabet, n) == {prefix \o s : s \in SeqOf(alphabet, n)}

\* The second prefix is that of a URL without a host and with two slashes.
FileUrls ==
    LET start == <<"file", ":", "/", "/">>
    IN Behind(start \o <<"/">>, {"/", "C", "%3A", "%7C", "%5C", "h", "%2e"}, 4)
         \cup Behind(start \o <<"/">>, {"/", "C", "%5C", "h"}, 5)
         \cup Behind(start \o <<"/", "/", "h", "/">>, {"/", "%2F", "x", ".", "%00"}, 3)
         \cup Behind(start \o <<"h">>, {"/", "%2F", ".", "C", ":", "%00"}, 4)

\* What urls are edited to: a host "localhost", "." or none and a path
\* with a drive, a share or an escaped '\\' at its start, which protocol()
\* takes from one scheme to another.
Edits ==
    [call \in Call |->
       CASE call = "href" -> {<<"http", ":", "/", "/", "localhost", "/", "C", "|", "/", "x">>}
         [] call = "protocol" -> {<<"file">>, <<"http">>}
         [] call = "hostname" -> {<<>>, <<"h">>, <<".">>, <<"localhost">>}
         [] call = "pathname" -> {<<"C", "|">>, <<"/", "/", "h", "/", "x">>, <<"%5C", "h", "/", "x">>}
         [] OTHER -> {}]

FilePaths ==
    [f \in Format |->
        IF f = "posix"
        THEN SeqOf({"/", "."}, 7)
               \cup Behind(<<"/">>, {"/", ".", "x", ":", "\\", "C", "%2e"}, 4)
               \cup Behind(<<"/">>, {" ", "?", "#", "|", "u8", "NUL", "TAB"}, 2)
        ELSE SeqOf({"C", ":", "\\"}, 3)
               \cup Behind(<<"C", "|", "\\">>, {"/", "\\", ".", "x", ":"}, 4)
               \cup Behind(<<"C", ":", "/">>, {"\\", "?", "%2e", "C", "|", "NUL"}, 3)
               \cup Behind(<<"\\", "/">>, {"\\", "h", ".", "C", "|"}, 5)
               \cup Behind(<<"\\", "\\", "h", "\\">>, {"/", "\\", ".", "x", "NUL"}, 4)
               \cup Behind(<<"\\", "\\", "localhost", "\\", "x">>, {"\\", "."}, 2)
               \cup Behind(<<"\\", "\\", "?", "\\">>, {"C", ":", "\\", "UNC"}, 4)
               \cup Behind(<<"/", "\\", ".", "/", "UNC", "/", "h", "/">>, {"/", ".", "C", ":"}, 3)]
=============================================================================
