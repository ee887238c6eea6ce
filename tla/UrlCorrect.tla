----------------------------- MODULE UrlCorrect -----------------------------
(***************************************************************************)
(* What makes a url object correct: its representation is well formed,     *)
(* its href is the serialization of its parts, and calls change what they  *)
(* promise to change.                                                      *)
(***************************************************************************)
EXTENDS UrlParser, FiniteSets

AtRest == pc \in {"idle", "done"}
Returned(calls) == pc = "done" /\ op \in calls

SetterCalls == {"protocol", "username", "password", "host", "hostname", "port",
                "pathname", "search", "hash"}

-----------------------------------------------------------------------------
(* Type invariant: every variable has its type, in every state.            *)

Serializer ==
    [u : Url, setter : BOOLEAN, save : BOOLEAN, last : Part, inBuf : BOOLEAN,
     buf : Text, part : Part, segEnd : Seq(Nat), sane : BOOLEAN]

TypeOK ==
    /\ urls \in Serializer
    /\ pc \in ParserState \cup {"idle", "return", "done"}
    /\ ptr \in Text /\ override \in BOOLEAN
    /\ base \in Url /\ hasBase \in BOOLEAN
    /\ res \in Result /\ can \in Result \cup {"none"}
    /\ op \in Call \cup {"reparse", "clear", "none"} /\ arg \in Text
    /\ old \in Url

-----------------------------------------------------------------------------
(* The URL record and its serialization.                                   *)

\* A part that may be null: <<>> when it is, <<text>> when it is not.
Optional(u, t) == IF IsNull(u, t) THEN <<>> ELSE <<View(u, t)>>

OptionalText(lead, part) == IF part = <<>> THEN <<>> ELSE lead \o part[1]

Credentials(u) ==
    IF ~HasCredentials(u) THEN <<>>
    ELSE View(u, USERNAME)
           \o (IF IsEmpty(u, PASSWORD) THEN <<>> ELSE <<":">> \o View(u, PASSWORD))
           \o <<"@">>

\* The URL serializer of the standard, on the parts that the getters give.
Serialization(u) ==
    View(u, SCHEME) \o <<":">>
      \o (IF IsNull(u, HOST)
          THEN IF ~HasOpaquePath(u) /\ u.segs > 1 /\ StartsWith2(View(u, PATH), "/", "/")
               THEN <<"/", ".">> ELSE <<>>
          ELSE <<"/", "/">> \o Credentials(u) \o View(u, HOST)
                 \o OptionalText(<<":">>, Optional(u, PORT)))
      \o View(u, PATH)
      \o OptionalText(<<"?">>, Optional(u, QUERY))
      \o OptionalText(<<"#">>, Optional(u, FRAGMENT))

-----------------------------------------------------------------------------
(* Invariants of the representation.                                       *)

\* The ends that are set are those of the parts SCHEME .. l, in order, and
\* the last of them is the end of the text (or its ':').
InOrder(ends, len, l) ==
    /\ \A t \in Part : ends[t] # 0 <=> t =< l
    /\ \A s, t \in Part : s =< t /\ t =< l => ends[s] =< ends[t]
    /\ len = IF l = SCHEME THEN ends[SCHEME] + 1 ELSE ends[l]

EndsUpTo(u, l) == InOrder(u.ends, Len(u.norm), l)

WellFormed(u) == u = EmptyUrl \/ \E l \in Part : EndsUpTo(u, l)

\* part_end_ stays ordered, without a gap, and ends where norm_url_ ends,
\* in every state of every call: what get_part_view, replace_part and the
\* rest of the offset arithmetic rely on.
EndsInOrder ==
    /\ WellFormed(url)
    /\ ~urls.setter /\ ~AtRest /\ url # EmptyUrl => EndsUpTo(url, urls.last)

\* Whatever sequence of calls made it, the href of a valid url is the
\* serialization of the parts that its getters return: no ':', '@', '?' or
\* "/." is left over or lost by an edit in place.
HrefIsSerialization ==
    AtRest /\ IsValid(url) => url.norm = Serialization(url)

\* The getters that take several parts at once, from the start of one to the
\* end of another, give what the getters of the single parts give.
GettersAgree ==
    LET LedText(lead, t) == IF View(url, t) = <<>> THEN <<>> ELSE lead \o View(url, t)
    IN AtRest /\ IsValid(url) =>
         /\ GetProtocol(url) = View(url, SCHEME) \o <<":">>
         /\ GetHost(url) = View(url, HOST) \o OptionalText(<<":">>, Optional(url, PORT))
         /\ GetPath(url) = View(url, PATH) \o OptionalText(<<"?">>, Optional(url, QUERY))
         /\ GetSearch(url) = LedText(<<"?">>, QUERY)
         /\ GetHash(url) = LedText(<<"#">>, FRAGMENT)
         /\ url.inf.special /\ ~url.inf.file =>
               GetOrigin(url) = View(url, SCHEME) \o <<":", "/", "/">> \o GetHost(url)
         /\ url.norm = SerializeWithoutFragment(url)
                         \o OptionalText(<<"#">>, Optional(url, FRAGMENT))

\* path_segment_count_, which shortening a path trusts, is the number of
\* segments of the path; an opaque path has none.
SegmentsAreCounted ==
    LET path == View(url, PATH)
    IN url.segs = IF HasOpaquePath(url) THEN 0
                  ELSE Cardinality({i \in 1 .. Len(path) : path[i] = "/"})

\* What the URL standard says of every URL record: credentials and a port
\* need a host, and a file URL has neither; a special URL has a host, not
\* empty unless it is a file URL; an opaque path has no host; the default
\* port of the scheme is not kept.
RecordIsConsistent ==
    AtRest /\ IsValid(url) =>
        /\ HasCredentials(url) \/ ~IsNull(url, PORT) =>
              ~IsEmpty(url, HOST) /\ ~url.inf.file
        /\ url.inf.special => ~IsNull(url, HOST) /\ (url.inf.file \/ ~IsEmpty(url, HOST))
        /\ HasOpaquePath(url) => IsNull(url, HOST) /\ ~url.inf.special
        /\ ~IsNull(url, PORT) => PortInt(url) # url.inf.port
        /\ url.inf.special => ~IsEmpty(url, PATH)

\* No assert() of url_serializer, url_setter and url_parse fails: parts are
\* started in order, a host is emptied right after it was written, the path
\* is shortened only before the query, opaque paths have no segments.
AssertsHold == urls.sane

-----------------------------------------------------------------------------
(* Calls.                                                                  *)

RecordParts == {SCHEME, USERNAME, PASSWORD, HOST, PORT, PATH, QUERY, FRAGMENT}

SamePart(u, v, t) == View(u, t) = View(v, t) /\ IsNull(u, t) = IsNull(v, t)

\* A setter, a constructor or href() that reports failure has not changed
\* the url, however far it had come.  host() is the exception: a bad port
\* after a good host fails when the new host is already in place.
FailureIsAtomic ==
    pc = "done" /\ res # "ok" /\ op \notin {"parse", "reparse"} =>
        url = old \/ (op = "host" /\ res = "port_out_of_range")

\* url.h says of host(): on failure the host and the port are unchanged.
HostFailureChangesNothing ==
    Returned({"host"}) /\ res # "ok" => SamePart(url, old, HOST) /\ SamePart(url, old, PORT)

\* The parts that a setter may change.  Removing the query or the fragment
\* may strip the trailing spaces of an opaque path.
MayChange(call) ==
    CASE call = "protocol" -> {SCHEME, PORT}
      [] call = "username" -> {USERNAME}
      [] call = "password" -> {PASSWORD}
      [] call = "host" -> IF res = "ok" THEN {HOST, PORT} ELSE {HOST}
      [] call = "hostname" -> {HOST}
      [] call = "port" -> {PORT}
      [] call = "pathname" -> {PATH}
      [] call = "search" -> {QUERY} \cup (IF HasOpaquePath(url) THEN {PATH} ELSE {})
      [] call = "hash" -> {FRAGMENT} \cup (IF HasOpaquePath(url) THEN {PATH} ELSE {})

\* A setter leaves every other part of the URL as it was, although all the
\* parts share one string and the edit moves them; when it fails, too.
OtherPartsAreKept ==
    Returned(SetterCalls) =>
        \A t \in RecordParts \ MayChange(op) : SamePart(url, old, t)

\* can_parse, which skips whatever need only be written, gives the answer
\* that parse gives.
CanParseAgrees ==
    Returned({"parse", "parse_with_base", "reparse"}) => (can = "ok") = (res = "ok")

\* Two url objects hold the same URL.  Ends of parts that are null may be
\* set in one and not in the other.
SameUrl(u, v) ==
    /\ u.norm = v.norm /\ u.inf = v.inf /\ u.flags = v.flags
    /\ u.htype = v.htype /\ u.segs = v.segs
    /\ \A t \in RecordParts : View(u, t) = View(v, t)

\* protocol("file:") keeps a host "localhost" and a path that starts with
\* "X|", which the parser would not leave in a file URL.
KeptFromOtherScheme(u) ==
    /\ u.inf.file
    /\ \/ View(u, HOST) = <<"localhost">>
       \/ IsWindowsDrive(PathFirst2(u)) /\ ~FirstSegmentIsDrive(u)

\* Parsing the href of a valid url gives the same url, whatever calls made
\* it (but for what only protocol() can do to a file URL).
RoundTrip ==
    Returned({"reparse"}) =>
        \/ res = "ok" /\ SameUrl(url, old)
        \/ KeptFromOtherScheme(old)

\* The order in which the blocks of url_parse stand in the code.
BlockOrder ==
    <<"scheme_start", "scheme", "no_scheme", "special_relative_or_authority",
      "path_or_authority", "relative", "relative_slash", "special_authority_slashes",
      "special_authority_ignore_slashes", "authority", "host", "hostname", "port",
      "file", "file_slash", "file_host", "path_start", "path", "path_end",
      "opaque_path", "query", "fragment">>

Block(state) == CHOOSE i \in 1 .. Len(BlockOrder) : BlockOrder[i] = state

GoesForward ==
    pc \in ParserState /\ pc' \in ParserState =>
        \/ Block(pc) < Block(pc')
        \/ pc = "path" /\ pc' = "path" /\ Len(ptr') < Len(ptr)

\* url_parse has no loop over its states: a block that chose a state whose
\* block stands before it would drop the rest of the input.  Each transition
\* goes to a later block, or takes one more segment of the path.
StatesGoForward == [][GoesForward]_vars

\* Every call returns: url_parse goes from state to state without a cycle
\* and the loop over path segments ends.
CallsReturn == pc \in ParserState ~> pc = "done"
=============================================================================
