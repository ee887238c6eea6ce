----------------------------- MODULE UrlParser -----------------------------
(***************************************************************************)
(* A url object of the library, its parser and its setters                 *)
(* (include/upa/url.h).                                                    *)
(*                                                                         *)
(* A call (parse, can_parse, the setters) either completes at once or      *)
(* starts url_parse, whose blocks "if (state == ..._state)" are the        *)
(* actions below: pc is the variable state of the code, one iteration of   *)
(* the loop of parse_path is one action.  When url_parse returns, the call *)
(* finishes what it does after it and its result can be looked at: pc is   *)
(* "done" until the caller goes on.                                        *)
(***************************************************************************)
EXTENDS UrlHost

CONSTANT Input     \* Input[call]: the texts that call is tried with

Call == {"parse", "parse_with_base", "href", "protocol", "username", "password",
         "host", "hostname", "port", "pathname", "search", "hash"}

ASSUME InputAssumption == Input \in [Call -> SUBSET Text]

VARIABLES
    urls,      \* the serializer, with the url object that it edits
    pc,        \* state of url_parse; outside it "idle", "return" and "done"
    ptr,       \* what is left of the input: [pointer, last)
    override,  \* is there a state_override?
    base,      \* the base url; EmptyUrl when there is none
    hasBase,   \* is there a base url?
    res,       \* the result of url_parse, or of the call
    op,        \* the call being made, "none" when idle
    arg,       \* and its argument
    old,       \* the url object before the call
    can        \* the result of can_parse on the same arguments, or "none"

vars == <<urls, pc, ptr, override, base, hasBase, res, op, arg, old, can>>
parserVars == <<ptr, override, base, hasBase>>
callVars == <<op, arg, old, can>>

url == urls.u

ParserState ==
    {"scheme_start", "scheme", "no_scheme", "special_relative_or_authority",
     "path_or_authority", "relative", "relative_slash",
     "special_authority_slashes", "special_authority_ignore_slashes",
     "authority", "host", "hostname", "port", "file", "file_slash",
     "file_host", "path_start", "path", "path_end", "opaque_path", "query",
     "fragment"}

\* The results (validation_errc), those of a host among them; "refused" is
\* that of a setter that does not even call url_parse.
Result ==
    HostResult \cup
    {"ignored", "refused", "invalid_base", "scheme_invalid_code_point",
     "missing_scheme_non_relative_url", "port_invalid", "port_out_of_range"}

Init ==
    /\ urls = NewSerializer(EmptyUrl, TRUE)
    /\ pc = "idle"
    /\ ptr = <<>> /\ override = FALSE
    /\ base = EmptyUrl /\ hasBase = FALSE
    /\ res = "ok"
    /\ op = "none" /\ arg = <<>> /\ old = EmptyUrl /\ can = "none"

-----------------------------------------------------------------------------
(* How a block ends: it goes on to another block, or it returns.           *)

Goto(state, x, rest) ==
    /\ pc' = state
    /\ urls' = x
    /\ ptr' = rest
    /\ UNCHANGED <<override, base, hasBase, res, callVars>>

Return(r, x) ==
    /\ pc' = "return"
    /\ urls' = x
    /\ res' = r
    /\ UNCHANGED <<parserVars, callVars>>

special == url.inf.special

-----------------------------------------------------------------------------
(* Scheme.                                                                 *)

SchemeStartState ==
    /\ pc = "scheme_start"
    /\ IF ptr # <<>> /\ ptr[1] \in Alpha THEN Goto("scheme", urls, ptr)
       ELSE IF ~override THEN Goto("no_scheme", urls, ptr)
       ELSE Return("scheme_invalid_code_point", urls)

\* Where the scheme ends in the input, and whether there is one.
EndOfScheme == FindFirstNot(ptr, SchemeChar)
InputHasScheme ==
    IF EndOfScheme =< Len(ptr) THEN ptr[EndOfScheme] = ":" ELSE override
InputScheme == Lower(Before(ptr, EndOfScheme))

\* protocol(): the cases in which the new scheme is ignored.
SchemeIgnored(new) ==
    \/ special # new.special
    \/ new.file /\ (HasCredentials(url) \/ ~IsNull(url, PORT))
    \/ url.inf.file /\ IsEmpty(url, HOST)

SchemeOverride ==
    /\ pc = "scheme" /\ override /\ InputHasScheme
    /\ LET new == GetSchemeInfo(InputScheme)
           x == ReplaceScheme(urls, InputScheme)
           isDefaultPort == new.port >= 0 /\ PortInt(x.u) = new.port
       IN IF SchemeIgnored(new) THEN Return("ignored", urls)
          ELSE Return("ok", IF isDefaultPort THEN ClearPart(x, PORT) ELSE x)

SchemeState ==
    /\ pc = "scheme" /\ ~override /\ InputHasScheme
    /\ LET x == AppendScheme(urls, InputScheme)
           rest == From(ptr, EndOfScheme + 1)
           sameScheme == hasBase /\ View(x.u, SCHEME) = View(base, SCHEME)
       IN IF x.u.inf.file THEN Goto("file", x, rest)
          ELSE IF x.u.inf.special
          THEN IF sameScheme
               THEN Goto("special_relative_or_authority",
                         Expect(x, base.inf.special), rest)
               ELSE Goto("special_authority_slashes", x, rest)
          ELSE IF StartsWith(rest, "/")
               THEN Goto("path_or_authority", x, Tail(rest))
               ELSE Goto("opaque_path", SetHasOpaquePath(x), rest)

\* Mutant: the text is looked at again from the first state.
StartAgain == pc = "scheme" /\ ~InputHasScheme /\ Goto("scheme_start", urls, ptr)

NotAScheme ==
    /\ pc = "scheme" /\ ~InputHasScheme
    /\ IF override THEN Return("scheme_invalid_code_point", urls)
       ELSE Goto("no_scheme", urls, ptr)

\* set_scheme(base)
BaseScheme == [AppendScheme(urls, View(base, SCHEME)) EXCEPT !.u.inf = base.inf]

NoSchemeState ==
    /\ pc = "no_scheme"
    /\ IF hasBase /\ HasOpaquePath(base) /\ StartsWith(ptr, "#")
       THEN Goto("fragment", AppendParts(BaseScheme, base, PATH, QUERY, "keep"), Tail(ptr))
       ELSE IF hasBase /\ ~HasOpaquePath(base)
       THEN Goto(IF base.inf.file THEN "file" ELSE "relative", urls, ptr)
       ELSE Return("missing_scheme_non_relative_url", urls)

-----------------------------------------------------------------------------
(* Relative references and the slashes before the authority.               *)

SpecialRelativeOrAuthorityState ==
    /\ pc = "special_relative_or_authority"
    /\ IF StartsWith2(ptr, "/", "/")
       THEN Goto("special_authority_ignore_slashes", urls, From(ptr, 3))
       ELSE Goto("relative", urls, ptr)

PathOrAuthorityState ==
    /\ pc = "path_or_authority"
    /\ IF StartsWith(ptr, "/") THEN Goto("authority", urls, Tail(ptr))
       ELSE Goto("path", urls, ptr)

RelativeState ==
    /\ pc = "relative"
    /\ LET x == BaseScheme
           Copied(t2, op_) == AppendParts(x, base, USERNAME, t2, op_)
       IN CASE ptr = <<>> -> Return("ok", Copied(QUERY, "keep"))
            [] StartsWith(ptr, "/") \/ (StartsWith(ptr, "\\") /\ x.u.inf.special) ->
                 Goto("relative_slash", x, Tail(ptr))
            [] StartsWith(ptr, "?") -> Goto("query", Copied(PATH, "keep"), Tail(ptr))
            [] StartsWith(ptr, "#") -> Goto("fragment", Copied(QUERY, "keep"), Tail(ptr))
            [] OTHER -> Goto("path", Copied(PATH, "remLast"), ptr)

RelativeSlashState ==
    /\ pc = "relative_slash"
    /\ IF special /\ ptr # <<>> /\ ptr[1] \in Slash
       THEN Goto("special_authority_ignore_slashes", urls, Tail(ptr))
       ELSE IF StartsWith(ptr, "/") THEN Goto("authority", urls, Tail(ptr))
       ELSE Goto("path", AppendParts(urls, base, USERNAME, PORT, "keep"), ptr)

SpecialAuthoritySlashesState ==
    /\ pc = "special_authority_slashes"
    /\ Goto("special_authority_ignore_slashes", urls,
            IF StartsWith2(ptr, "/", "/") THEN From(ptr, 3) ELSE ptr)

SpecialAuthorityIgnoreSlashesState ==
    /\ pc = "special_authority_ignore_slashes"
    /\ Goto("authority", urls, From(ptr, FindFirstNot(ptr, Slash)))

-----------------------------------------------------------------------------
(* Authority: credentials, host and port.                                  *)

EndOfAuthority == FindFirst(ptr, IF special THEN SpecialAuthorityEnd ELSE AuthorityEnd)

\* The credentials "user" or "user:password" are written.
\* Mutant: the password first.
PutPasswordFirst(x, userinfo) ==
    LET colon == FindFirst(userinfo, {":"})
    IN PutPart(PutPart(x, PASSWORD, Encode(From(userinfo, colon + 1), UserinfoSet)),
               USERNAME, Encode(Before(userinfo, colon), UserinfoSet))

PutCredentials(x, userinfo) ==
    LET colon == FindFirst(userinfo, {":"})
        password == From(userinfo, colon + 1)
        y == PutPart(x, USERNAME, Encode(Before(userinfo, colon), UserinfoSet))
    IN IF colon = 1 /\ password = <<>> THEN x
       ELSE IF password = <<>> THEN y
       ELSE PutPart(y, PASSWORD, Encode(password, UserinfoSet))

AuthorityState ==
    /\ pc = "authority"
    /\ LET authority == Before(ptr, EndOfAuthority)
           at == FindLast(authority, {"@"})
       IN IF at > Len(authority) THEN Goto("host", urls, ptr)
          ELSE IF at = Len(authority) THEN Return("host_missing", urls)
          ELSE Goto("host",
                    IF urls.save THEN PutCredentials(urls, Before(authority, at)) ELSE urls,
                    From(ptr, at + 1))

\* The ':' of a port is the first one that no '[' is open before.
InBrackets(s, i) ==
    \E j \in 1 .. i - 1 : s[j] = "[" /\ \A k \in j + 1 .. i - 1 : s[k] # "]"

PortColons(s) == {i \in 1 .. Len(s) : s[i] = ":" /\ ~InBrackets(s, i)}

EndOfHost(s) ==
    IF PortColons(s) = {} THEN Len(s) + 1
    ELSE CHOOSE i \in PortColons(s) : \A j \in PortColons(s) : i =< j

HostState ==
    /\ pc \in {"host", "hostname"} /\ ~(override /\ url.inf.file)
    /\ LET authority == Before(ptr, EndOfAuthority)
           end == EndOfHost(authority)
           isPort == end =< Len(authority)
           host == Before(authority, end)
           result == ParseHostResult(host, ~special)
           x == ParseHostOutput(urls, host, ~special)
       IN CASE host = <<>> /\ (isPort \/ special) -> Return("host_missing", urls)
            [] /\ host = <<>> /\ ~isPort /\ ~special /\ override
               /\ HasCredentials(url) \/ ~IsNull(url, PORT) -> Return("ignored", urls)
            [] host # <<>> /\ isPort /\ override /\ pc = "hostname" -> Return("ignored", urls)
            [] OTHER ->
                 IF result # "ok" THEN Return(result, x)
                 ELSE IF isPort THEN Goto("port", x, From(ptr, end + 1))
                 ELSE IF override THEN Return("ok", x)
                 ELSE Goto("path_start", x, From(ptr, end))

FileHostOverride ==
    /\ pc \in {"host", "hostname"} /\ override /\ url.inf.file
    /\ Goto("file_host", urls, ptr)

\* The digits of a port, without leading zeros.
PortDigits(s) ==
    LET nonZero == FindFirstNot(s, {"0"})
    IN From(s, IF nonZero < Len(s) THEN nonZero ELSE Len(s))

PutPort(x, digits) ==
    IF ~x.save THEN x
    ELSE IF x.u.inf.port = PortValue(digits) THEN ClearPart(x, PORT)
    ELSE [PutPart(x, PORT, digits) EXCEPT !.u.flags = @ \cup {PORT}]

PortState ==
    /\ pc = "port"
    /\ LET end == FindFirstNot(ptr, Digit)
           digits == PortDigits(Before(ptr, end))
           ended == \/ end > Len(ptr)
                    \/ ptr[end] \in AuthorityEnd
                    \/ ptr[end] = "\\" /\ special
           outOfRange == Len(digits) > 5 \/ PortValue(digits) > 65535
           Proceed(x) == IF override THEN Return("ok", x)
                         ELSE Goto("path_start", x, From(ptr, end))
       IN CASE ~ended /\ ~override -> Return("port_invalid", urls)
            [] (ended \/ override) /\ end = 1 -> Proceed(urls)
            [] OTHER ->
                 IF outOfRange THEN Return("port_out_of_range", urls)
                 ELSE Proceed(PutPort(urls, digits))

-----------------------------------------------------------------------------
(* File URLs.                                                              *)

FileState ==
    /\ pc = "file"
    /\ LET scheme == IF url.inf.file THEN urls ELSE AppendScheme(urls, <<"file">>)
           x == SetEmptyHost(scheme)
           Copied(t2, op_) == AppendParts(x, base, HOST, t2, op_)
       IN CASE ptr # <<>> /\ ptr[1] \in Slash -> Goto("file_slash", x, Tail(ptr))
            [] ~(ptr # <<>> /\ ptr[1] \in Slash) /\ ~(hasBase /\ base.inf.file) ->
                 Goto("path", x, ptr)
            [] OTHER ->
                 CASE ptr = <<>> -> Return("ok", Copied(QUERY, "keep"))
                   [] StartsWith(ptr, "?") -> Goto("query", Copied(PATH, "keep"), Tail(ptr))
                   [] StartsWith(ptr, "#") -> Goto("fragment", Copied(QUERY, "keep"), Tail(ptr))
                   [] OTHER -> Goto("path", IF StartsWithWindowsDrive(ptr)
                                            THEN Copied(HOST, "keep")
                                            ELSE Copied(PATH, "shorten"), ptr)

FileSlashState ==
    /\ pc = "file_slash"
    /\ LET x == AppendParts(urls, base, HOST, HOST, "keep")
           keepDrive == ~StartsWithWindowsDrive(ptr) /\ FirstSegmentIsDrive(base)
       IN IF ptr # <<>> /\ ptr[1] \in Slash THEN Goto("file_host", urls, Tail(ptr))
          ELSE Goto("path",
                    IF ~(hasBase /\ base.inf.file /\ urls.save) THEN urls
                    ELSE IF keepDrive THEN PutSegment(x, PathFirst2(base)) ELSE x,
                    ptr)

FileHostState ==
    /\ pc = "file_host"
    /\ LET end == FindFirst(ptr, SpecialAuthorityEnd)
           host == Before(ptr, end)
           result == ParseHostResult(host, ~special)
           parsed == ParseHostOutput(urls, host, ~special)
           x == IF host = <<>> THEN SetEmptyHost(urls)
                ELSE IF View(parsed.u, HOST) = <<"localhost">> THEN EmptyHost(parsed)
                ELSE parsed
       IN IF host # <<>> /\ ~override /\ IsWindowsDrive(host) THEN Goto("path", urls, ptr)
          ELSE IF host # <<>> /\ (result # "ok" \/ ~urls.save) THEN Return(result, parsed)
          ELSE IF override THEN Return("ok", x)
          ELSE Goto("path_start", x, From(ptr, end))

-----------------------------------------------------------------------------
(* Path, query and fragment.  can_parse is over when they are reached.     *)

\* Mutant: it stops when there is a host to parse.
HostOnward == {"host", "port", "file_host", "path_start", "path", "opaque_path",
               "query", "fragment"}

PathOnward == {"path_start", "path", "opaque_path", "query", "fragment"}

NothingToSave ==
    /\ pc \in PathOnward /\ ~urls.save
    /\ Return("ok", urls)

PathStartState ==
    /\ pc = "path_start" /\ urls.save
    /\ CASE special ->
              Goto("path", urls, IF ptr # <<>> /\ ptr[1] \in Slash THEN Tail(ptr) ELSE ptr)
         [] ~special /\ ptr = <<>> ->
              Return("ok", CommitPath(IF override /\ IsNull(url, HOST)
                                      THEN PutEmptySegment(urls) ELSE urls))
         [] ~special /\ ptr # <<>> ->
              IF ~override /\ ptr[1] = "?" THEN Goto("query", urls, Tail(ptr))
              ELSE IF ~override /\ ptr[1] = "#" THEN Goto("fragment", urls, Tail(ptr))
              ELSE Goto("path", urls, IF ptr[1] = "/" THEN Tail(ptr) ELSE ptr)

EndOfPath == IF override THEN Len(ptr) + 1 ELSE FindFirst(ptr, {"?", "#"})

\* One segment of parse_path.
PathState ==
    /\ pc = "path" /\ urls.save
    /\ LET path == Before(ptr, EndOfPath)
           end == FindFirst(path, IF special THEN Slash ELSE {"/"})
           segment == Before(path, end)
           isLast == end > Len(path)
           Ended(x) == IF isLast THEN PutEmptySegment(x) ELSE x
           isDrive == url.inf.file /\ PathIsEmpty(urls) /\ IsWindowsDrive(segment)
           x == IF IsDoubleDot(segment) THEN Ended(ShortenPath(urls))
                ELSE IF IsSingleDot(segment) THEN Ended(urls)
                ELSE PutSegment(urls, IF isDrive THEN <<segment[1], ":">>
                                      ELSE Encode(segment, PathSet))
       IN IF isLast THEN Goto("path_end", x, From(ptr, end))
          ELSE Goto("path", x, From(ptr, end + 1))

PathEndState ==
    /\ pc = "path_end"
    /\ LET x == CommitPath(urls)
       IN IF ptr = <<>> THEN Return("ok", x)
          ELSE Goto(IF ptr[1] = "?" THEN "query" ELSE "fragment", x, Tail(ptr))

OpaquePathState ==
    /\ pc = "opaque_path" /\ urls.save
    /\ LET end == FindFirst(ptr, {"?", "#"})
           x == PutPathString(urls, Encode(Before(ptr, end), C0ControlSet))
       IN IF end > Len(ptr) THEN Return("ok", x)
          ELSE Goto(IF ptr[end] = "?" THEN "query" ELSE "fragment", x, From(ptr, end + 1))

QueryState ==
    /\ pc = "query" /\ urls.save
    /\ LET end == IF override THEN Len(ptr) + 1 ELSE FindFirst(ptr, {"#"})
           text == Encode(Before(ptr, end), IF special THEN SpecialQuerySet ELSE QuerySet)
           x == [PutPart(urls, QUERY, text) EXCEPT !.u.flags = @ \cup {QUERY}]
       IN IF end > Len(ptr) THEN Return("ok", x)
          ELSE Goto("fragment", x, From(ptr, end + 1))

FragmentState ==
    /\ pc = "fragment" /\ urls.save
    /\ Return("ok", [PutPart(urls, FRAGMENT, Encode(ptr, FragmentSet))
                        EXCEPT !.u.flags = @ \cup {FRAGMENT}])

-----------------------------------------------------------------------------
(* Calls.  Each one records what the caller can compare its result with.   *)

Called(call, text) ==
    /\ op' = call /\ arg' = text /\ old' = url
    /\ can' = "none"

\* url_parse is entered in a state, with or without a state_override.
\* Setters that do not enter it keep tabs and newlines, and encode them.
Enter(state, x, text, isOverride) ==
    /\ pc' = state
    /\ urls' = x
    /\ ptr' = RemoveWhitespace(text)
    /\ override' = isOverride
    /\ UNCHANGED res

\* The call is over; u is the url object.
Done(r, u) ==
    /\ pc' = "done"
    /\ urls' = NewSerializer(u, TRUE)
    /\ res' = r

\* new_url(), as it is called on the object u.
Reset(u) == IF u.norm # <<>> THEN EmptyUrl ELSE u

\* do_parse and for_can_parse up to url_parse.
BeginParse(u, save, text, b, isBase) ==
    /\ base' = b /\ hasBase' = isBase
    /\ LET x == NewSerializer(Reset(u), save)
       IN IF isBase /\ ~IsValid(b)
          THEN /\ pc' = "return" /\ urls' = x /\ res' = "invalid_base"
               /\ ptr' = <<>> /\ override' = FALSE
          ELSE Enter("scheme_start", x, Trim(text), FALSE)

\* url::can_parse(text) and then parse(text), on the object itself.
Parse(text) ==
    Called("parse", text) /\ BeginParse(EmptyUrl, FALSE, text, EmptyUrl, FALSE)

\* url::can_parse(text, u) and then u = url(text, u).
ParseWithBase(text) ==
    Called("parse_with_base", text) /\ BeginParse(EmptyUrl, FALSE, text, url, TRUE)

\* u.parse(u.href()), after can_parse of the same text.
Reparse ==
    /\ IsValid(url)
    /\ Called("reparse", url.norm) /\ BeginParse(EmptyUrl, FALSE, url.norm, EmptyUrl, FALSE)

\* href(text) parses into a new object.
SetHref(text) ==
    Called("href", text) /\ BeginParse(EmptyUrl, TRUE, text, EmptyUrl, FALSE)

\* clear()
Clear == Called("clear", <<>>) /\ Done("ok", EmptyUrl) /\ UNCHANGED parserVars

\* A setter that calls url_parse with a state override, or does nothing.
EnterSetter(call, text, allowed, state, input) ==
    /\ Called(call, text)
    /\ IF allowed THEN Enter(state, NewSetter(url), input, TRUE) /\ UNCHANGED <<base, hasBase>>
       ELSE Done("refused", url) /\ UNCHANGED parserVars

\* A setter that is done at once.
Set(call, text, r, x) ==
    Called(call, text) /\ Done(r, x.u) /\ UNCHANGED parserVars

SetProtocol(text) == EnterSetter("protocol", text, IsValid(url), "scheme_start", text)

SetUserinfo(call, t, text) ==
    IF CanHaveUsernamePasswordPort(url)
    THEN Set(call, text, "ok", PutPart(NewSetter(url), t, Encode(text, UserinfoSet)))
    ELSE Set(call, text, "refused", urls)

SetUsername(text) == SetUserinfo("username", USERNAME, text)
SetPassword(text) == SetUserinfo("password", PASSWORD, text)

HasEditablePath == ~HasOpaquePath(url) /\ IsValid(url)

SetHost(text) == EnterSetter("host", text, HasEditablePath, "host", text)
SetHostname(text) == EnterSetter("hostname", text, HasEditablePath, "hostname", text)
SetPathname(text) == EnterSetter("pathname", text, HasEditablePath, "path_start", text)

SetPort(text) ==
    IF CanHaveUsernamePasswordPort(url) /\ text = <<>>
    THEN Set("port", text, "ok", ClearPart(NewSetter(url), PORT))
    ELSE EnterSetter("port", text, CanHaveUsernamePasswordPort(url), "port", text)

\* search() and hash(): the empty text removes the part.
Removed(t) == StripOpaquePath(ClearPart(NewSetter(url), t))

SetLast(call, t, lead, state, text) ==
    IF IsValid(url) /\ text = <<>> THEN Set(call, text, "ok", Removed(t))
    ELSE EnterSetter(call, text, IsValid(url), state,
                     IF StartsWith(text, lead) THEN Tail(text) ELSE text)

SetSearch(text) == SetLast("search", QUERY, "?", "query", text)
SetHash(text) == SetLast("hash", FRAGMENT, "#", "fragment", text)

-----------------------------------------------------------------------------
(* After url_parse.                                                        *)

Validated(u) == [u EXCEPT !.flags = @ \cup {VALID}]

\* can_parse is over; its answer is kept and the parse proper begins.
CanParseReturns ==
    /\ pc = "return" /\ ~urls.save
    /\ can' = res
    /\ BeginParse(IF op = "parse_with_base" THEN EmptyUrl ELSE old, TRUE, arg, base, hasBase)
    /\ UNCHANGED <<op, arg, old>>

\* parse() leaves what it could parse in the object; a constructor that
\* fails and href() leave the object of the caller as it was.
ParseReturns ==
    /\ pc = "return" /\ urls.save /\ ~urls.setter
    /\ Done(res, IF res = "ok" THEN Validated(url)
                 ELSE IF op \in {"parse", "reparse"} THEN url ELSE old)
    /\ UNCHANGED <<parserVars, callVars>>

SetterReturns ==
    /\ pc = "return" /\ urls.setter
    /\ Done(res, url)
    /\ UNCHANGED <<parserVars, callVars>>

\* The caller has seen the result and forgets it.
Resume ==
    /\ pc = "done"
    /\ pc' = "idle" /\ urls' = urls
    /\ ptr' = <<>> /\ override' = FALSE
    /\ base' = EmptyUrl /\ hasBase' = FALSE
    /\ res' = "ok"
    /\ op' = "none" /\ arg' = <<>> /\ old' = EmptyUrl /\ can' = "none"

-----------------------------------------------------------------------------

MakeCall ==
    /\ pc = "idle"
    /\ \/ \E text \in Input["parse"] : Parse(text)
       \/ \E text \in Input["parse_with_base"] : ParseWithBase(text)
       \/ Reparse \/ Clear
       \/ \E text \in Input["href"] : SetHref(text)
       \/ \E text \in Input["protocol"] : SetProtocol(text)
       \/ \E text \in Input["username"] : SetUsername(text)
       \/ \E text \in Input["password"] : SetPassword(text)
       \/ \E text \in Input["host"] : SetHost(text)
       \/ \E text \in Input["hostname"] : SetHostname(text)
       \/ \E text \in Input["port"] : SetPort(text)
       \/ \E text \in Input["pathname"] : SetPathname(text)
       \/ \E text \in Input["search"] : SetSearch(text)
       \/ \E text \in Input["hash"] : SetHash(text)

Step ==
    \/ SchemeStartState \/ SchemeOverride \/ SchemeState \/ NotAScheme
    \/ NoSchemeState \/ SpecialRelativeOrAuthorityState
    \/ PathOrAuthorityState \/ RelativeState \/ RelativeSlashState
    \/ SpecialAuthoritySlashesState \/ SpecialAuthorityIgnoreSlashesState
    \/ AuthorityState \/ HostState \/ FileHostOverride \/ PortState
    \/ FileState \/ FileSlashState \/ FileHostState
    \/ NothingToSave \/ PathStartState \/ PathState \/ PathEndState
    \/ OpaquePathState \/ QueryState \/ FragmentState
    \/ CanParseReturns \/ ParseReturns \/ SetterReturns \/ Resume

Next == MakeCall \/ Step

\* The library is single-threaded: a call that was made goes on by itself.
Fairness == WF_vars(Step)

Spec == Init /\ [][Next]_vars /\ Fairness
=============================================================================
