------------------------------ MODULE FilePath ------------------------------
(***************************************************************************)
(* File URLs and the paths of operating systems: url_from_file_path and    *)
(* path_from_file_url (include/upa/url.h), composed with the parser that   *)
(* reads what the first one writes.                                        *)
(*                                                                         *)
(* A path is a text in the characters of UrlText.  "NUL" is the null       *)
(* character, and "%2e" in a path is a file name of these three            *)
(* characters, which in a URL is the escape of ".".                        *)
(***************************************************************************)
EXTENDS UrlCorrect

CONSTANTS
    Paths,     \* Paths[format]: the paths that callers convert
    FileTexts  \* the texts from which they construct other urls

Format == {"posix", "windows"}

\* Characters that the conversions write; "%252e" is the escape of a '%'.
ASSUME PathsAssumption ==
    /\ Paths \in [Format -> SUBSET Text] /\ FileTexts \subseteq Text
    /\ {"%252e", "%2e", " ", "\\", "|", "TAB", "NUL", "u8"} \subseteq Char

VARIABLES
    path,      \* the path that was given to url_from_file_path, or <<>>
    format     \* and its format

fileVars == <<vars, path, format>>

-----------------------------------------------------------------------------
(* Percent encoding of paths.                                              *)

\* Mutant: '%' is kept.
PathEncodedOnce(c, f) ==
    CASE c \in PathSet -> PercentEncoded(c)
      [] c \in {":", "|", "\\"} /\ f = "posix" -> PercentEncoded(c)
      [] OTHER -> c

\* posix_path_no_encode_set and raw_path_no_encode_set encode '%', too.
PathEncoded(c, f) ==
    CASE c = "%2e" -> "%252e"
      [] c \in PathSet -> PercentEncoded(c)
      [] c \in {":", "|", "\\"} /\ f = "posix" -> PercentEncoded(c)
      [] OTHER -> c

EncodePath(s, f) == [i \in 1 .. Len(s) |-> PathEncoded(s[i], f)]

\* append_percent_decoded
Decoded(c) ==
    CASE c = "%20" -> " " [] c = "%23" -> "#" [] c = "%2F" -> "/" [] c = "%3A" -> ":"
      [] c = "%09" -> "TAB"
      [] c = "%3F" -> "?" [] c = "%5C" -> "\\" [] c = "%7C" -> "|" [] c = "%00" -> "NUL"
      [] c = "%C3%A9" -> "u8" [] c = "%2e" -> "." [] c = "%252e" -> "%2e"
      [] OTHER -> c

Decode(s) == [i \in 1 .. Len(s) |-> Decoded(s[i])]

-----------------------------------------------------------------------------
(* Checks of a path.                                                       *)

\* is_windows_drive_absolute_path, the position after it or 0
DriveAbsolute(s) ==
    IF Len(s) > 2 /\ IsWindowsDrive(SubSeq(s, 1, 2)) /\ s[3] \in Slash THEN 4 ELSE 0

\* The components of s between slashes; nothing follows a slash at the end.
Components(s) ==
    LET from[start \in 1 .. Len(s) + 2] ==
            IF start > Len(s) THEN <<>>
            ELSE LET rest == From(s, start)
                     pcend == FindFirst(rest, Slash)
                 IN <<Before(rest, pcend)>> \o from[start + pcend]
    IN from[1]

\* is_unc_path: the position after the share name, or 0
UncPath(s) ==
    LET c == Components(s)
    IN IF /\ Len(c) >= 2
          /\ \A i \in 1 .. Len(c) : c[i] # <<>> /\ ~ContainsAny(c[i], {"NUL"})
          /\ c[1] \notin {<<"?">>, <<".">>} /\ ~IsWindowsDrive(c[1])
          /\ c[2] \notin {<<".">>, <<".", ".">>}
       THEN Len(c[1]) + Len(c[2]) + 2
       ELSE 0

\* has_dot_dot_segment: how far to go on after a '.' that is none.
\* Mutant: over the slash after it.
SkipThree(dot) == dot + 3
SkipDot(dot) == dot + 2

HasDotDotSegment(s, slash) ==
    LET found[at \in 1 .. Len(s) + 3] ==
            LET dots == {i \in at .. Len(s) - 1 : s[i] = "."}
                dot == CHOOSE i \in dots : \A j \in dots : i =< j
            IN IF dots = {} THEN FALSE
               ELSE IF /\ s[dot + 1] = "."
                       /\ dot = 1 \/ s[dot - 1] \in slash
                       /\ dot + 1 = Len(s) \/ s[dot + 2] \in slash
                    THEN TRUE
                    ELSE found[SkipDot(dot)]
    IN found[1]

\* pathname_has_windows_drive
HasWindowsDrive(s) ==
    /\ Len(s) = 3 \/ (Len(s) > 3 /\ s[4] \in Slash)
    /\ s[1] \in Slash
    /\ IsWindowsDrive(SubSeq(s, 2, 3))

-----------------------------------------------------------------------------
(* url_from_file_path                                                      *)

StartsWithSlashes(s) == Len(s) >= 2 /\ s[1] \in Slash /\ s[2] \in Slash
IsNamespace(s) ==
    StartsWithSlashes(s) /\ Len(s) >= 4 /\ s[3] \in {"?", "."} /\ s[4] \in Slash
IsNamespaceUnc(s) == IsNamespace(s) /\ Len(s) >= 6 /\ s[5] = "UNC" /\ s[6] \in Slash

IsUnc(s) == IsNamespaceUnc(s) \/ (StartsWithSlashes(s) /\ ~IsNamespace(s))

\* What follows the prefix of a Windows path, and where its check starts.
WithoutPrefix(s) ==
    From(s, IF IsNamespaceUnc(s) THEN 7 ELSE IF IsNamespace(s) THEN 5
            ELSE IF StartsWithSlashes(s) THEN 3 ELSE 1)

StartOfCheck(s) ==
    IF IsUnc(s) THEN UncPath(WithoutPrefix(s)) ELSE DriveAbsolute(WithoutPrefix(s))

\* The error that is thrown before a URL is made, or "ok".
Refusal(s, f) ==
    LET rest == WithoutPrefix(s)
    IN CASE s = <<>> -> "file_empty_path"
         [] s # <<>> /\ f = "posix" ->
              IF s[1] # "/" \/ HasDotDotSegment(s, {"/"}) THEN "file_unsupported_path"
              ELSE IF ContainsAny(s, {"NUL"}) THEN "null_character" ELSE "ok"
         [] s # <<>> /\ f = "windows" ->
              IF StartOfCheck(s) = 0 THEN "file_unsupported_path"
              ELSE IF HasDotDotSegment(From(rest, StartOfCheck(s)), Slash)
              THEN "file_unsupported_path"
              ELSE IF ContainsAny(From(rest, StartOfCheck(s)), {"NUL"}) THEN "null_character"
              ELSE "ok"

UrlOfPath(s, f) ==
    LET start == <<"file", ":", "/", "/">>
    IN IF f = "posix" THEN start \o EncodePath(s, f)
       ELSE start \o (IF IsUnc(s) THEN <<>> ELSE <<"/">>) \o EncodePath(WithoutPrefix(s), f)

-----------------------------------------------------------------------------
(* path_from_file_url: an error, or a path.                                *)

PathError(err) == [err |-> err, path |-> <<>>]
PathFound(s) ==
    IF ContainsAny(s, {"NUL"}) THEN PathError("null_character") ELSE [err |-> "ok", path |-> s]

Backslashed(s) == [i \in 1 .. Len(s) |-> IF s[i] = "/" THEN "\\" ELSE s[i]]

UncFound(s) ==
    IF UncPath(From(s, 3)) = 0 THEN PathError("file_url_invalid_unc") ELSE PathFound(s)

LeadingBackslashes(s) ==
    LET four == SubSeq(s, 1, IF Len(s) < 4 THEN Len(s) ELSE 4)
    IN FindFirstNot(four, {"\\"}) - 1

\* The path of a URL without a host.
\* Mutant: a drive keeps no slash.
LocalWindowsPathBare(s) ==
    IF HasWindowsDrive(s) THEN PathFound(Tail(s))
    ELSE CASE LeadingBackslashes(s) = 3 -> UncFound(Tail(s))
           [] LeadingBackslashes(s) = 2 -> UncFound(s)
           [] OTHER -> PathError("file_url_not_windows_path")

LocalWindowsPath(s) ==
    IF HasWindowsDrive(s)
    THEN PathFound(IF Len(s) = 3 THEN Append(Tail(s), "\\") ELSE Tail(s))
    ELSE CASE LeadingBackslashes(s) = 3 -> UncFound(Tail(s))
           [] LeadingBackslashes(s) = 2 -> UncFound(s)
           [] OTHER -> PathError("file_url_not_windows_path")

PathFromFileUrl(u, f) ==
    LET host == View(u, HOST)
        decoded == Decode(View(u, PATH))
    IN CASE ~u.inf.file -> PathError("not_file_url")
         [] u.inf.file /\ f = "posix" ->
              IF host # <<>> THEN PathError("file_url_cannot_have_host") ELSE PathFound(decoded)
         [] u.inf.file /\ f = "windows" ->
              IF host = <<".">> THEN PathError("file_url_unsupported_host")
              ELSE IF host # <<>> THEN UncFound(<<"\\", "\\">> \o host \o Backslashed(decoded))
              ELSE LocalWindowsPath(Backslashed(decoded))

-----------------------------------------------------------------------------

FileInit == Init /\ path = <<>> /\ format = "posix"

\* A path that is refused is all that is seen of the call; otherwise a url
\* is constructed.
FromFilePath ==
    /\ pc = "idle" /\ url = EmptyUrl /\ path = <<>>
    /\ \E f \in Format : \E s \in Paths[f] :
         /\ path' = s /\ format' = f
         /\ IF Refusal(s, f) = "ok" THEN SetHref(UrlOfPath(s, f)) ELSE UNCHANGED vars

\* Other file URLs come from their text.
FromText ==
    /\ pc = "idle" /\ url = EmptyUrl /\ path = <<>>
    /\ \E text \in FileTexts : SetHref(text)
    /\ UNCHANGED <<path, format>>

\* A url, wherever it comes from, is edited, parsed to or cleared; the path
\* that it was made of is forgotten.  Setters make file URLs that no text is
\* parsed to.
Edit == MakeCall /\ path' = <<>> /\ UNCHANGED format

FileNext == FromFilePath \/ FromText \/ Edit \/ (Step /\ UNCHANGED <<path, format>>)

FileSpec == FileInit /\ [][FileNext]_fileVars

-----------------------------------------------------------------------------
(* Correctness.                                                            *)

\* The segments of s, which stand between slashes.
Split(s, slash) ==
    LET from[start \in 1 .. Len(s) + 1] ==
            LET rest == From(s, start)
                end == FindFirst(rest, slash)
            IN <<Before(rest, end)>> \o IF end > Len(rest) THEN <<>> ELSE from[start + end]
    IN from[1]

Joined(segments, slash) ==
    LET text[k \in 0 .. Len(segments)] ==
            IF k = 0 THEN <<>> ELSE text[k - 1] \o <<slash>> \o segments[k]
    IN text[Len(segments)]

\* What follows the root of an absolute path: '/', a drive, a share.
IsAbsolute(s, f) ==
    IF f = "posix" THEN StartsWith(s, "/") ELSE s # <<>> /\ StartOfCheck(s) # 0

AfterRoot(s, f) ==
    IF f = "posix" THEN Tail(s) ELSE From(WithoutPrefix(s), StartOfCheck(s))

Slashes(f) == IF f = "posix" THEN {"/"} ELSE Slash

\* "The file path must be absolute and must not contain any dot-dot (..)
\* segments": an absolute path is refused for such a segment, wherever the
\* search for dots that skips as it goes meets it, and for no other name.
DotDotIsRefused ==
    IsAbsolute(path, format) =>
        LET segments == Split(AfterRoot(path, format), Slashes(format))
        IN Refusal(path, format) = "file_unsupported_path"
             <=> \E i \in 1 .. Len(segments) : segments[i] = <<".", ".">>

\* The path that names the same file, without "." segments: what is left of
\* a path when it was a URL.
WithoutDots(segments) ==
    SelectSeq(segments, LAMBDA s : s # <<".">>)
      \o IF segments[Len(segments)] = <<".">> THEN <<<<>>>> ELSE <<>>

DriveNormal(s) == IF IsWindowsDrive(s) THEN <<s[1], ":">> ELSE s

NormalPath(s, f) ==
    LET segments == Split(IF f = "posix" THEN Tail(s) ELSE WithoutPrefix(s), Slashes(f))
        normal == WithoutDots(Tail(segments))
    IN IF f = "posix" THEN Joined(WithoutDots(segments), "/")
       ELSE IF ~IsUnc(s) THEN DriveNormal(segments[1]) \o Joined(normal, "\\")
       ELSE <<"\\", "\\">> \o HostOf(segments[1], FALSE).text
              \o Joined(<<DriveNormal(normal[1])>> \o Tail(normal), "\\")

\* A UNC path whose host is not one of a URL, or is this computer.
HostIsLost(s, f) ==
    /\ f = "windows" /\ IsUnc(s)
    /\ LET host == HostOf(Components(WithoutPrefix(s))[1], FALSE)
       IN host.res # "ok" \/ host.text = <<"localhost">>

\* A path that is accepted gives a file URL, and the URL gives the path
\* back: no character of it is taken for the start of a query, an escape, a
\* separator or a drive letter on the way through the parser.
FilePathRoundTrip ==
    pc = "done" /\ op = "href" /\ path # <<>> /\ ~HostIsLost(path, format) =>
        /\ res = "ok" /\ IsNull(url, QUERY) /\ IsNull(url, FRAGMENT)
        /\ PathFromFileUrl(url, format) = PathFound(NormalPath(path, format))

\* Whatever file URL it comes from, a path is absolute: it is decoded after
\* the URL was parsed, so that slashes, drive letters and null characters
\* may only then appear, and protocol() keeps hosts and drives that the
\* parser would not have left in a file URL.
PathsAreAbsolute ==
    AtRest /\ IsValid(url) =>
        \A f \in Format :
            LET found == PathFromFileUrl(url, f)
            IN found.err = "ok" => /\ IsAbsolute(found.path, f)
                                   /\ ~ContainsAny(found.path, {"NUL"})
=============================================================================
