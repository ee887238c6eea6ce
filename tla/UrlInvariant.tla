---------------------------- MODULE UrlInvariant ----------------------------
(***************************************************************************)
(* The inductive invariant of UrlParser: what holds of the url object and  *)
(* its serializer in every state of the parser, so that the ends of the    *)
(* parts stay in order (ShapeInv) and what stands between them is the      *)
(* serialization of a consistent URL record (RecordInv).                   *)
(***************************************************************************)
EXTENDS UrlCorrect

\* The ':' that ends the scheme is in place, and no part reaches behind it.
SchemeEnds(u, l) ==
    /\ u.norm[u.ends[SCHEME] + 1] = ":"
    /\ l > SCHEME => u.ends[SCHEME] < u.ends[SCHEME_SEP]

\* A null host takes no room; a URL with an opaque path has a null host, is
\* not special and has its path right after the scheme.
HostAgrees(u, l) ==
    /\ IsNull(u, HOST) => IsEmpty(u, HOST)
    /\ HasOpaquePath(u) =>
          /\ IsNull(u, HOST) /\ ~u.inf.special
          /\ l = SCHEME \/ l >= PATH_PREFIX
          /\ l >= PATH_PREFIX => u.ends[PATH_PREFIX] = u.ends[SCHEME] + 1

\* The ends are in order, and the cached scheme_inf_ is that of the scheme in
\* norm_url_, during and after every call that rewrites the scheme.
Ordered(u, l) ==
    /\ EndsUpTo(u, l)
    /\ SchemeEnds(u, l)
    /\ u.inf = GetSchemeInfo(View(u, SCHEME))

Sound(u, l) == Ordered(u, l) /\ HostAgrees(u, l)

\* A URL that was parsed: it has an authority or a path.
CompleteUpTo(u, l) ==
    /\ Sound(u, l)
    /\ l >= HOST
    /\ IsNull(u, HOST) => l >= PATH

Complete(u) == \E l \in Part : CompleteUpTo(u, l)

\* A url object that no call is working on.
Resting(u) ==
    \/ u = EmptyUrl
    \/ (\E l \in Part : Sound(u, l)) /\ (IsValid(u) => Complete(u))

-----------------------------------------------------------------------------
(* What url_serializer has written when a block of url_parse is entered.   *)

Fresh(x) == x.u = EmptyUrl /\ x.last = SCHEME
Appending(x) == Sound(x.u, x.last) /\ ~IsValid(x.u)
SchemeWritten(x) == Appending(x) /\ x.last = SCHEME /\ ~HasOpaquePath(x.u)
HostWritten(x) == x.last >= HOST /\ ~IsNull(x.u, HOST)
PathWritten(x) == x.last >= HOST /\ (IsNull(x.u, HOST) => x.last >= PATH)

AfterScheme == {"path_or_authority", "special_authority_slashes",
                "special_authority_ignore_slashes", "authority"}

ParsingOK(x) ==
    /\ ~override /\ ~x.inBuf
    /\ Fresh(x) \/ Appending(x)
    /\ pc \in {"scheme_start", "scheme", "no_scheme"} => Fresh(x)
    /\ pc = "scheme" => ptr # <<>> /\ ptr[1] \in Alpha
    /\ pc \in {"special_relative_or_authority", "relative", "relative_slash"} =>
          hasBase /\ ~HasOpaquePath(base)
    /\ pc = "relative" => Fresh(x) \/ SchemeWritten(x)
    /\ pc = "file" => Fresh(x) \/ (SchemeWritten(x) /\ x.u.inf.file)
    /\ pc \in AfterScheme \cup {"special_relative_or_authority", "relative_slash"} =>
          SchemeWritten(x)
    /\ pc = "opaque_path" => Appending(x) /\ x.last = SCHEME
    /\ pc \notin {"opaque_path", "query", "fragment"} => ~HasOpaquePath(x.u)
    /\ pc \in {"host", "hostname"} => Appending(x) /\ x.last =< PASSWORD
    /\ pc \in {"port", "path_start", "path", "path_end", "query", "fragment",
               "file_slash", "file_host"} => Appending(x)
    /\ pc = "port" /\ x.save => HostWritten(x) /\ x.last = HOST
    /\ pc \in {"file_slash", "file_host"} =>
          HostWritten(x) /\ x.last = HOST /\ IsEmpty(x.u, HOST)
    /\ pc = "path_start" /\ x.save => HostWritten(x) /\ x.last =< PORT
    /\ pc \notin {"path", "path_end", "query", "fragment"} => x.u.segs = 0
    /\ pc = "path" /\ x.save => x.last =< PATH /\ (x.u.segs > 0 => x.last = PATH)
    /\ pc = "path_end" => x.save /\ x.last = PATH
    /\ pc = "query" /\ x.save => PathWritten(x) /\ x.last < QUERY
    /\ pc = "fragment" /\ x.save => PathWritten(x) /\ x.last < FRAGMENT

\* The ends that url_setter keeps of the segments in its buffer.
SegEndsInOrder(x) ==
    \A i, j \in 1 .. Len(x.segEnd) :
        i =< j => x.segEnd[i] =< x.segEnd[j] /\ x.segEnd[j] =< Len(x.buf)

SettingOK(x) ==
    /\ override /\ x.save
    /\ IsValid(x.u) /\ Complete(x.u)
    /\ pc \in {"scheme_start", "scheme", "host", "hostname", "port", "file_host",
               "path_start", "path", "path_end", "query", "fragment"}
    /\ pc = "scheme" => ptr # <<>> /\ ptr[1] \in Alpha
    /\ pc \in {"host", "hostname", "file_host", "path_start", "path", "path_end"} =>
          ~HasOpaquePath(x.u)
    /\ pc = "port" => ~IsNull(x.u, HOST)
    /\ pc \in {"path_start", "path", "path_end"} => SegEndsInOrder(x)

ReturnOK(x) ==
    IF x.setter THEN x.save /\ IsValid(x.u) /\ Complete(x.u)
    ELSE /\ Fresh(x) \/ Appending(x)
         /\ res = "ok" /\ x.save => Appending(x) /\ PathWritten(x)

\* What a call works on, whatever url it began with.
WorkShape ==
    /\ TypeOK
    /\ Resting(base)
    /\ pc \in ParserState /\ hasBase => IsValid(base)
    /\ pc = "idle" => ~hasBase
    /\ AtRest => Resting(url) /\ ~urls.setter
    /\ pc = "return" => ReturnOK(urls)
    /\ pc \in ParserState => IF urls.setter THEN SettingOK(urls) ELSE ParsingOK(urls)

ShapeInv == WorkShape /\ Resting(old)

-----------------------------------------------------------------------------
(* The texts of the parts, with what delimits them.                        *)

Piece(u, t) == SubSeq(u.norm, PartPos(u, t) + 1, u.ends[t])

HasUserinfo(u) == Piece(u, USERNAME) # <<>> \/ Piece(u, PASSWORD) # <<>>

\* A part with a leading character is there if and only if it is not null.
Led(u, t, c) ==
    IF IsNull(u, t) THEN Piece(u, t) = <<>> ELSE StartsWith(Piece(u, t), c)

PasswordFramed(u) ==
    Piece(u, PASSWORD) # <<>> =>
        Len(Piece(u, PASSWORD)) > 1 /\ StartsWith(Piece(u, PASSWORD), ":")

PortFramed(u) ==
    /\ Led(u, PORT, ":")
    /\ ~IsNull(u, PORT) => AllDigits(Tail(Piece(u, PORT))) /\ Len(Piece(u, PORT)) < 7

NullHostFramed(u) ==
    /\ Piece(u, SCHEME_SEP) = <<":">>
    /\ ~HasUserinfo(u) /\ Piece(u, HOST) = <<>> /\ IsNull(u, PORT)

\* Every delimiter stands where the serialization of the URL has it; the
\* prefix of the path is as the path needs it, or was before the path changed.
Framed(u) ==
    /\ IF IsNull(u, HOST) THEN NullHostFramed(u)
       ELSE Piece(u, SCHEME_SEP) = <<":", "/", "/">>
    /\ PasswordFramed(u)
    /\ Piece(u, HOST_START) = IF HasUserinfo(u) THEN <<"@">> ELSE <<>>
    /\ PortFramed(u)
    /\ Piece(u, PATH_PREFIX) \in {<<>>, <<"/", ".">>}
    /\ ~IsNull(u, HOST) => Piece(u, PATH_PREFIX) = <<>>
    /\ Led(u, QUERY, "?") /\ Led(u, FRAGMENT, "#")

PrefixFits(u) ==
    Piece(u, PATH_PREFIX) = IF ~HasOpaquePath(u) /\ NeedsPathPrefix(u) THEN <<"/", ".">> ELSE <<>>

HostConsistent(u) ==
    /\ HasUserinfo(u) \/ ~IsNull(u, PORT) => Piece(u, HOST) # <<>> /\ ~u.inf.file
    /\ u.inf.special => ~IsNull(u, HOST) /\ (u.inf.file \/ Piece(u, HOST) # <<>>)
    /\ ~IsNull(u, PORT) => PortValue(Tail(Piece(u, PORT))) # u.inf.port

PathConsistent(u) ==
    u.inf.special \/ (IsNull(u, HOST) /\ ~HasOpaquePath(u)) => Piece(u, PATH) # <<>>

Record(u) == Framed(u) /\ PrefixFits(u) /\ HostConsistent(u) /\ PathConsistent(u)

-----------------------------------------------------------------------------
(* What stands in the url when a block of url_parse is entered.            *)

\* Nothing but the scheme and the credentials is written.
BeforeHost(x) ==
    /\ x.last \in {SCHEME, USERNAME, PASSWORD}
    /\ \A t \in {HOST, PORT, QUERY, FRAGMENT} : IsNull(x.u, t)
    /\ x.last # SCHEME => Piece(x.u, SCHEME_SEP) = <<":", "/", "/">> /\ HasUserinfo(x.u)
    /\ PasswordFramed(x.u)

ParsingRecord(x) ==
    /\ IF x.last < HOST THEN BeforeHost(x) ELSE Framed(x.u)
    /\ pc \in {"special_relative_or_authority", "special_authority_slashes",
               "special_authority_ignore_slashes", "authority", "host", "hostname"} =>
          ~x.u.inf.file
    /\ pc = "path_or_authority" => ~x.u.inf.special
    /\ pc \in {"special_relative_or_authority", "relative", "relative_slash"} =>
          ~base.inf.file
    /\ pc = "relative_slash" => x.u.inf = base.inf
    /\ pc \in {"host", "hostname"} /\ x.last # SCHEME =>
          ptr # <<>> /\ ptr[1] \notin IF x.u.inf.special THEN SpecialAuthorityEnd
                                     ELSE AuthorityEnd
    /\ pc = "opaque_path" => ~x.u.inf.special /\ HasOpaquePath(x.u)
    /\ pc \in {"file_slash", "file_host"} => x.u.inf.file
    /\ pc = "port" => Piece(x.u, HOST) # <<>> /\ ~x.u.inf.file
    /\ pc \in {"port", "file_slash", "file_host", "path_start", "path", "path_end",
               "query", "fragment"} => HostConsistent(x.u)
    /\ pc = "path_end" => Piece(x.u, PATH) # <<>>
    /\ pc \in {"query", "fragment"} => PrefixFits(x.u) /\ PathConsistent(x.u)

SettingRecord(x) ==
    /\ Record(x.u)
    /\ pc = "port" => Piece(x.u, HOST) # <<>> /\ ~x.u.inf.file
    /\ pc = "path_end" => x.buf # <<>>
    /\ pc = "file_host" => x.u.inf.file

WorkRecord ==
    /\ IsValid(base) => Record(base)
    /\ AtRest /\ IsValid(url) => Record(url)
    /\ pc = "return" /\ (urls.setter \/ (urls.save /\ res = "ok")) => Record(url)
    /\ pc \in ParserState =>
          IF urls.setter THEN SettingRecord(urls) ELSE urls.save => ParsingRecord(urls)

RecordInv == WorkRecord /\ (IsValid(old) => Record(old))

-----------------------------------------------------------------------------
(* The segments of the path.                                               *)

Separators(s) == Cardinality({i \in 1 .. Len(s) : s[i] = "/"})

\* A path is a sequence of segments, each behind a '/'; an opaque path has
\* none.
PathCounted(u) ==
    LET path == Piece(u, PATH)
    IN IF HasOpaquePath(u) THEN u.segs = 0
       ELSE u.segs = Separators(path) /\ (path # <<>> => StartsWith(path, "/"))

\* The segments in the buffer of a url_setter, and the ends that it keeps.
BufferCounted(x) ==
    /\ Len(x.segEnd) = Separators(x.buf)
    /\ x.buf # <<>> => StartsWith(x.buf, "/")
    /\ \A i \in 1 .. Len(x.segEnd) : Separators(SubSeq(x.buf, 1, x.segEnd[i])) = i

PathInv ==
    /\ PathCounted(old) /\ PathCounted(base) /\ PathCounted(url)
    /\ pc \in {"path_start", "path", "path_end"} /\ urls.setter => BufferCounted(urls)

IInv == ShapeInv /\ RecordInv /\ PathInv
=============================================================================
