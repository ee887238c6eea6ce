------------------------- MODULE UrlRecordTheorems -------------------------
(***************************************************************************)
(* RecordInv holds in every state: what stands in norm_url_ is the         *)
(* serialization of a consistent URL record.  With it IInv is invariant,   *)
(* and what the getters promise of a valid URL follows.                    *)
(*                                                                         *)
(* EnterRecord says what stands in the url when a block is entered, and    *)
(* SetRecord the same for a setter.  The second part is about what a call  *)
(* leaves as it was.                                                       *)
(***************************************************************************)
EXTENDS UrlPieceTheorems

FullWork == WorkInv /\ WorkRecord
FullInv == ParserInv /\ RecordInv

EnterRecord(state, x, rest) ==
    /\ IF x.last < HOST THEN BeforeHost(x) ELSE Framed(x.u)
    /\ state \in {"special_relative_or_authority", "special_authority_slashes",
                  "special_authority_ignore_slashes", "authority", "host", "hostname"} =>
          ~x.u.inf.file
    /\ state = "path_or_authority" => ~x.u.inf.special
    /\ state \in {"special_relative_or_authority", "relative", "relative_slash"} =>
          ~base.inf.file
    /\ state = "relative_slash" => x.u.inf = base.inf
    /\ state \in {"host", "hostname"} /\ x.last # SCHEME =>
          rest # <<>> /\ rest[1] \notin IF x.u.inf.special THEN SpecialAuthorityEnd
                                       ELSE AuthorityEnd
    /\ state = "opaque_path" => ~x.u.inf.special /\ HasOpaquePath(x.u)
    /\ state \in {"file_slash", "file_host"} => x.u.inf.file
    /\ state = "port" => Piece(x.u, HOST) # <<>> /\ ~x.u.inf.file
    /\ state \in {"port", "file_slash", "file_host", "path_start", "path", "path_end",
                  "query", "fragment"} => HostConsistent(x.u)
    /\ state = "path_end" => Piece(x.u, PATH) # <<>>
    /\ state \in {"query", "fragment"} => PrefixFits(x.u) /\ PathConsistent(x.u)

SetRecord(state, x) ==
    /\ Record(x.u)
    /\ state = "port" => Piece(x.u, HOST) # <<>> /\ ~x.u.inf.file
    /\ state = "path_end" => x.buf # <<>>
    /\ state = "file_host" => x.u.inf.file

\* What the rest of the parser finds, in both cases.
NextRecord(state, x, rest) ==
    IF x.setter THEN SetRecord(state, x) ELSE x.save => EnterRecord(state, x, rest)

LEMMA BlockRecord ==
    ASSUME FullWork, pc \in ParserState
    PROVE  /\ NextRecord(pc, urls, ptr)
           /\ hasBase => Record(base)
<1>1. IF urls.setter THEN SettingRecord(urls) ELSE urls.save => ParsingRecord(urls)
  BY DEF FullWork, WorkRecord
<1>2. hasBase => IsValid(base)
  BY DEF FullWork, WorkInv, WorkShape
<1>3. hasBase => Record(base)
  BY <1>2 DEF FullWork, WorkRecord
<1>4. CASE urls.setter
  <2>1. SetRecord(pc, urls)
    BY <1>1, <1>4, Zenon DEF SettingRecord, SetRecord
  <2>. QED  BY <1>3, <1>4, <2>1 DEF NextRecord
<1>5. CASE ~urls.setter
  <2>1. urls.save => EnterRecord(pc, urls, ptr)
    BY <1>1, <1>5, Zenon DEF ParsingRecord, EnterRecord
  <2>. QED  BY <1>3, <1>5, <2>1 DEF NextRecord
<1>. QED  BY <1>4, <1>5

LEMMA GotoRecord ==
    ASSUME FullWork, pc \in ParserState, NEW state \in ParserState, NEW x, NEW rest,
           Goto(state, x, rest), NextRecord(state, x, rest)
    PROVE  WorkRecord'
<1>1. /\ pc' = state /\ urls' = x /\ ptr' = rest
      /\ UNCHANGED <<override, base, hasBase, res, op, arg, old, can>>
  BY DEF Goto, callVars
<1>2. state \notin {"idle", "return", "done"}
  BY DEF ParserState
<1>3. (IsValid(base) => Record(base))'
  BY <1>1 DEF FullWork, WorkRecord
<1>4. ~AtRest' /\ pc' # "return"
  BY <1>1, <1>2 DEF AtRest
<1>5. CASE x.setter
  <2>1. SetRecord(state, x)
    BY <1>5 DEF NextRecord
  <2>2. SettingRecord(urls)'
    BY <1>1, <2>1 DEF SettingRecord, SetRecord
  <2>. QED  BY <1>1, <1>3, <1>4, <1>5, <2>2 DEF WorkRecord
<1>6. CASE ~x.setter
  <2>1. x.save => EnterRecord(state, x, rest)
    BY <1>6 DEF NextRecord
  <2>2. urls'.save => ParsingRecord(urls)'
    BY <1>1, <2>1 DEF ParsingRecord, EnterRecord
  <2>. QED  BY <1>1, <1>3, <1>4, <1>6, <2>2 DEF WorkRecord
<1>. QED  BY <1>5, <1>6

LEMMA ReturnRecord ==
    ASSUME FullWork, pc \in ParserState, NEW r, NEW x, Return(r, x),
           x.setter \/ (x.save /\ r = "ok") => Record(x.u)
    PROVE  WorkRecord'
<1>1. /\ pc' = "return" /\ urls' = x /\ res' = r
      /\ UNCHANGED <<ptr, override, base, hasBase, op, arg, old, can>>
  BY DEF Return, parserVars, callVars
<1>2. (IsValid(base) => Record(base))'
  BY <1>1 DEF FullWork, WorkRecord
<1>3. ~AtRest' /\ pc' \notin ParserState
  BY <1>1 DEF AtRest, ParserState
<1>4. (pc = "return" /\ (urls.setter \/ (urls.save /\ res = "ok")) => Record(url))'
  BY <1>1 DEF url
<1>. QED  BY <1>2, <1>3, <1>4 DEF WorkRecord

LEMMA ParsingRecordBlock ==
    ASSUME FullWork, pc \in ParserState, ~override
    PROVE  /\ MayEnter(pc, urls, ptr) /\ ptr \in Text /\ Parser(urls) /\ ~urls.setter
           /\ urls.save => EnterRecord(pc, urls, ptr)
           /\ hasBase => UsableBase(base) /\ Record(base)
<1>1. /\ MayEnter(pc, urls, ptr) /\ ptr \in Text /\ (hasBase => UsableBase(base))
  BY ParsingBlock, BaseIsUsable DEF FullWork
<1>2. Parser(urls) /\ ~urls.setter
  BY <1>1 DEF MayEnter, Parser
<1>3. NextRecord(pc, urls, ptr) /\ (hasBase => Record(base))
  BY BlockRecord
<1>. QED  BY <1>1, <1>2, <1>3 DEF NextRecord

LEMMA SettingRecordBlock ==
    ASSUME FullWork, pc \in ParserState, override
    PROVE  /\ MaySet(pc, urls, ptr) /\ ptr \in Text /\ Editor(urls) /\ urls.setter
           /\ SetRecord(pc, urls)
<1>1. MaySet(pc, urls, ptr) /\ ptr \in Text
  BY SettingBlock DEF FullWork
<1>2. Editor(urls) /\ urls.setter
  BY <1>1 DEF MaySet, Editor
<1>3. NextRecord(pc, urls, ptr)
  BY BlockRecord
<1>. QED  BY <1>1, <1>2, <1>3 DEF NextRecord

\* Blocks that ask for little.
LEMMA EnterBeforeHost ==
    ASSUME NEW x, BeforeHost(x), NEW rest, NEW state,
           state \in {"scheme_start", "scheme", "no_scheme", "file"}
    PROVE  EnterRecord(state, x, rest)
<1>1. x.last < HOST
  BY PartNumbers DEF BeforeHost
<1>. QED  BY <1>1 DEF EnterRecord

LEMMA EnterWithScheme ==
    ASSUME NEW x, BeforeHost(x), x.last = SCHEME, NEW rest, NEW state,
           \/ /\ state \in {"special_authority_slashes", "special_authority_ignore_slashes",
                            "authority", "host", "hostname"}
              /\ ~x.u.inf.file
           \/ state = "path_or_authority" /\ ~x.u.inf.special
           \/ state = "special_relative_or_authority" /\ ~base.inf.file /\ ~x.u.inf.file
           \/ state = "relative" /\ ~base.inf.file
           \/ state = "relative_slash" /\ ~base.inf.file /\ x.u.inf = base.inf
           \/ state = "opaque_path" /\ ~x.u.inf.special /\ HasOpaquePath(x.u)
    PROVE  EnterRecord(state, x, rest)
<1>1. x.last < HOST
  BY PartNumbers
<1>. QED  BY <1>1 DEF EnterRecord

LEMMA EnterOpened ==
    ASSUME NEW x, Opened(x), NEW rest, NEW state, state \in {"path", "path_start"}
    PROVE  EnterRecord(state, x, rest)
BY DEF EnterRecord, Opened

LEMMA EnterWithRecord ==
    ASSUME NEW x, Record(x.u), NEW rest, x.last \in Part, x.last >= HOST,
           NEW state, state \in {"query", "fragment"}
    PROVE  EnterRecord(state, x, rest)
<1>1. x.last \in Int
  BY PartInt
<1>2. ~(x.last < HOST)
  BY <1>1, PartNumbers
<1>. QED  BY <1>2 DEF EnterRecord, Record

LEMMA FirstStates ==
    /\ {"scheme_start", "scheme", "no_scheme", "file", "special_relative_or_authority",
        "special_authority_slashes", "path_or_authority", "opaque_path", "relative",
        "fragment", "special_authority_ignore_slashes", "authority", "path", "query",
        "relative_slash", "host", "hostname", "port", "path_start", "path_end",
        "file_slash", "file_host"} = ParserState
BY DEF ParserState

LEMMA SchemeStartRecord ==
    ASSUME FullWork, SchemeStartState
    PROVE  WorkRecord'
<1>1. pc = "scheme_start" /\ pc \in ParserState
  BY DEF SchemeStartState, ParserState
<1>2. \/ \E state \in {"scheme", "no_scheme"} : Goto(state, urls, ptr)
      \/ override /\ Return("scheme_invalid_code_point", urls)
  BY DEF SchemeStartState
<1>3. CASE ~override
  <2>1. ~urls.setter /\ (urls.save => BeforeHost(urls))
    <3>1. Fresh(urls) /\ ~urls.setter
      BY <1>1, <1>3, ParsingRecordBlock DEF MayEnter
    <3>. QED  BY <3>1, FreshBeforeHost
  <2>2. \A state \in {"scheme", "no_scheme"} : NextRecord(state, urls, ptr)
    BY <2>1, EnterBeforeHost DEF NextRecord
  <2>. QED  BY <1>1, <1>2, <1>3, <2>2, FirstStates, GotoRecord
<1>4. CASE override
  <2>1. urls.setter /\ Record(urls.u)
    BY <1>1, <1>4, SettingRecordBlock DEF SetRecord
  <2>2. \A state \in {"scheme", "no_scheme"} : NextRecord(state, urls, ptr)
    BY <2>1 DEF NextRecord, SetRecord
  <2>. QED  BY <1>1, <1>2, <2>1, <2>2, FirstStates, GotoRecord, ReturnRecord
<1>. QED  BY <1>3, <1>4

LEMMA NotASchemeRecord ==
    ASSUME FullWork, NotAScheme
    PROVE  WorkRecord'
<1>1. pc = "scheme" /\ pc \in ParserState
  BY DEF NotAScheme, ParserState
<1>2. \/ ~override /\ Goto("no_scheme", urls, ptr)
      \/ override /\ Return("scheme_invalid_code_point", urls)
  BY DEF NotAScheme
<1>3. CASE ~override
  <2>1. Fresh(urls) /\ ~urls.setter
    BY <1>1, <1>3, ParsingRecordBlock DEF MayEnter
  <2>2. NextRecord("no_scheme", urls, ptr)
    BY <2>1, FreshBeforeHost, EnterBeforeHost DEF NextRecord
  <2>. QED  BY <1>1, <1>2, <1>3, <2>2, FirstStates, GotoRecord
<1>4. CASE override
  <2>1. Record(urls.u)
    BY <1>1, <1>4, SettingRecordBlock DEF SetRecord
  <2>. QED  BY <1>1, <1>2, <1>4, <2>1, ReturnRecord
<1>. QED  BY <1>3, <1>4

LEMMA SchemeStateRecord ==
    ASSUME FullWork, SchemeState
    PROVE  WorkRecord'
<1>. DEFINE x == AppendScheme(urls, InputScheme)
            rest == From(ptr, EndOfScheme + 1)
            y == SetHasOpaquePath(x)
            z == Expect(x, base.inf.special)
            sameScheme == hasBase /\ View(x.u, SCHEME) = View(base, SCHEME)
<1>1. pc = "scheme" /\ pc \in ParserState /\ ~override
  BY DEF SchemeState, ParserState
<1>2. /\ MayEnter(pc, urls, ptr) /\ ptr \in Text /\ Parser(urls) /\ ~urls.setter
      /\ hasBase => UsableBase(base) /\ Record(base)
  BY <1>1, ParsingRecordBlock
<1>3. Fresh(urls) /\ ptr # <<>> /\ ptr[1] \in Alpha
  BY <1>1, <1>2 DEF MayEnter
<1>4. Blank(urls) /\ BeforeHost(urls)
  BY <1>2, <1>3, FreshBlank, FreshBeforeHost DEF Parser
<1>5. InputScheme \in Text /\ InputScheme # <<>>
  BY <1>2, <1>3, InputSchemeText
<1>6. /\ Appender(x) /\ x.last = SCHEME /\ BeforeHost(x)
      /\ x.u.inf = GetSchemeInfo(InputScheme) /\ View(x.u, SCHEME) = InputScheme
  BY <1>4, <1>5, AppendSchemeSound, AppendedSchemeBeforeHost DEF SchemeWritten
<1>. HIDE DEF x
<1>7. ~x.setter /\ (x.u.inf.file => x.u.inf.special)
  BY <1>6, AppenderFacts, SchemeInfoFacts
<1>8. NextRecord("file", x, rest)
  BY <1>6, <1>7, EnterBeforeHost DEF NextRecord
<1>9. ~x.u.inf.file => NextRecord("special_authority_slashes", x, rest)
  BY <1>6, <1>7, EnterWithScheme DEF NextRecord
<1>10. ~x.u.inf.special => NextRecord("path_or_authority", x, Tail(rest))
  BY <1>6, <1>7, EnterWithScheme DEF NextRecord
<1>11. ~x.u.inf.special => NextRecord("opaque_path", y, rest)
  <2>1. SUFFICES ASSUME ~x.u.inf.special PROVE NextRecord("opaque_path", y, rest)
    OBVIOUS
  <2>2. BeforeHost(y) /\ y.u.inf = x.u.inf
    BY <1>6, <2>1, OpaqueBeforeHost
  <2>3. Appender(y) /\ y.last = SCHEME /\ HasOpaquePath(y.u)
    <3>1. IsNull(x.u, HOST)
      BY <1>6 DEF BeforeHost
    <3>. QED  BY <1>6, <2>1, <3>1, SetHasOpaquePathSound
  <2>. HIDE DEF y
  <2>4. ~y.setter
    BY <2>3, AppenderFacts
  <2>. QED  BY <2>1, <2>2, <2>3, <2>4, EnterWithScheme DEF NextRecord
<1>12. sameScheme /\ ~x.u.inf.file => NextRecord("special_relative_or_authority", z, rest)
  <2>1. SUFFICES ASSUME sameScheme, ~x.u.inf.file
                 PROVE NextRecord("special_relative_or_authority", z, rest)
    OBVIOUS
  <2>2. base.inf = x.u.inf
    BY <1>2, <1>6, <2>1 DEF UsableBase
  <2>3. z.u = x.u /\ z.last = x.last /\ z.save = x.save /\ z.setter = x.setter
    BY <1>6, AppenderFacts DEF Expect, Serializer
  <2>. HIDE DEF z
  <2>4. BeforeHost(z)
    BY <1>6, <2>3 DEF BeforeHost
  <2>. QED  BY <1>6, <1>7, <2>1, <2>2, <2>3, <2>4, EnterWithScheme DEF NextRecord
<1>13. \/ x.u.inf.file /\ Goto("file", x, rest)
       \/ ~x.u.inf.file /\ sameScheme /\ Goto("special_relative_or_authority", z, rest)
       \/ ~x.u.inf.file /\ Goto("special_authority_slashes", x, rest)
       \/ ~x.u.inf.special /\ Goto("path_or_authority", x, Tail(rest))
       \/ ~x.u.inf.special /\ Goto("opaque_path", y, rest)
  BY DEF SchemeState, x
<1>. HIDE DEF y, z, rest, sameScheme
<1>. QED  BY <1>1, <1>8, <1>9, <1>10, <1>11, <1>12, <1>13, FirstStates, GotoRecord

\* The port that is kept, as a number: protocol() compares it with the
\* default port of the new scheme.
LEMMA PortIs ==
    ASSUME NEW u, Readable(u), PortFramed(u), ~IsNull(u, PORT)
    PROVE  PortInt(u) = PortValue(Tail(Piece(u, PORT))) /\ PortInt(u) \in Nat
<1>. DEFINE piece == Piece(u, PORT)
            digits == Tail(piece)
<1>1. /\ PORT \in Part /\ piece \in Text /\ (piece # <<>> => View(u, PORT) = digits)
      /\ IsEmpty(u, PORT) <=> Len(piece) =< 1
  <2>1. PORT \in Part
    BY PartNumbers
  <2>. QED  BY <2>1, ReadPieces
<1>2. StartsWith(piece, ":") /\ AllDigits(digits) /\ Len(piece) < 7
  BY DEF PortFramed, Led
<1>. HIDE DEF piece
<1>3. piece # <<>> /\ Len(piece) \in Nat /\ Len(digits) = Len(piece) - 1 /\ digits \in Text
  <2>1. piece # <<>>
    BY <1>2 DEF StartsWith
  <2>. QED  BY <1>1, <2>1, TailText DEF Text
<1>. HIDE DEF digits
<1>4. PortValue(digits) \in Nat
  <2>1. Len(digits) < 6
    BY <1>2, <1>3
  <2>. QED  BY <1>2, <1>3, <2>1, PortValueRange
<1>5. ~IsEmpty(u, PORT)
  <2>1. Len(digits) # 0
    BY <1>2, <1>3 DEF AllDigits, Text
  <2>. QED  BY <1>1, <1>3, <2>1
<1>6. PortInt(u) = PortValue(digits)
  BY <1>1, <1>3, <1>5 DEF PortInt, digits
<1>. QED  BY <1>4, <1>6 DEF digits, piece

LEMMA PortOfScheme ==
    ASSUME NEW u, Readable(u), PortFramed(u), ~IsNull(u, PORT), NEW port \in Int,
           ~(port >= 0 /\ PortInt(u) = port)
    PROVE  PortValue(Tail(Piece(u, PORT))) # port
<1>1. PortInt(u) = PortValue(Tail(Piece(u, PORT))) /\ PortInt(u) \in Nat
  BY PortIs
<1>. QED  BY <1>1

LEMMA SchemeOverrideRecord ==
    ASSUME FullWork, SchemeOverride
    PROVE  WorkRecord'
<1>. DEFINE new == GetSchemeInfo(InputScheme)
            x == ReplaceScheme(urls, InputScheme)
            y == ClearPart(x, PORT)
            isDefaultPort == new.port >= 0 /\ PortInt(x.u) = new.port
<1>1. pc = "scheme" /\ pc \in ParserState /\ override
  BY DEF SchemeOverride, ParserState
<1>2. /\ Editor(urls) /\ ptr \in Text /\ ptr # <<>> /\ ptr[1] \in Alpha
      /\ Record(urls.u)
  BY <1>1, SettingRecordBlock DEF MaySet, SetRecord
<1>3. InputScheme \in Text /\ InputScheme # <<>>
  BY <1>2, InputSchemeText
<1>4. ASSUME ~SchemeIgnored(new)
      PROVE  IF isDefaultPort THEN Record(y.u) ELSE Record(x.u)
  <2>1. new.special = urls.u.inf.special
    BY <1>4 DEF SchemeIgnored, special, url
  <2>2. Framed(urls.u) /\ HostConsistent(urls.u) /\ PrefixFits(urls.u) /\ PathConsistent(urls.u)
    BY <1>2 DEF Record
  <2>3. Editor(x) /\ x.u.inf = new
    BY <1>2, <1>3, <2>1, ReplaceSchemeSound
  <2>4. /\ SameFrame(urls.u, x.u) /\ Framed(x.u) /\ PrefixFits(x.u) /\ PathConsistent(x.u)
    BY <1>2, <1>3, <2>1, <2>2, ReplacedSchemeRecord
  <2>. HIDE DEF x
  <2>5. Readable(x.u) /\ Readable(urls.u)
    BY <1>2, <2>3, WrittenIsReadable
  <2>6. /\ HasUserinfo(x.u) <=> HasUserinfo(urls.u)
        /\ Piece(x.u, HOST) = Piece(urls.u, HOST)
        /\ IsNull(x.u, HOST) <=> IsNull(urls.u, HOST)
        /\ IsNull(x.u, PORT) <=> IsNull(urls.u, PORT)
    BY <2>4, FrameKept DEF SameFrame, FramePart
  <2>7. /\ HasCredentials(urls.u) <=> HasUserinfo(urls.u)
        /\ IsEmpty(urls.u, HOST) <=> Piece(urls.u, HOST) = <<>>
    BY <2>2, <2>5, ReadPieces, FramedFacts
  <2>8. /\ ~(new.file /\ (HasCredentials(urls.u) \/ ~IsNull(urls.u, PORT)))
        /\ ~(urls.u.inf.file /\ IsEmpty(urls.u, HOST))
    BY <1>4 DEF SchemeIgnored, url
  <2>. HIDE DEF new
  <2>9. HasUserinfo(x.u) \/ ~IsNull(x.u, PORT) => Piece(x.u, HOST) # <<>> /\ ~x.u.inf.file
    BY <2>2, <2>3, <2>6, <2>7, <2>8 DEF HostConsistent
  <2>10. x.u.inf.special => ~IsNull(x.u, HOST) /\ (x.u.inf.file \/ Piece(x.u, HOST) # <<>>)
    BY <2>1, <2>2, <2>3, <2>6, <2>7, <2>8 DEF HostConsistent
  <2>11. CASE isDefaultPort
    <3>1. x.u.inf.special
      BY <2>3, <2>11, SchemeInfoFacts DEF new
    <3>2. PICK l \in Part : CompleteUpTo(x.u, l)
      BY <2>3, EditorFacts
    <3>3. ~HasOpaquePath(x.u)
      BY <3>1, <3>2 DEF CompleteUpTo, Sound, HostAgrees
    <3>4. Led(x.u, PORT, ":")
      BY <2>4, FramedFacts DEF PortFramed
    <3>5. PartRemoved(x.u, y.u, PORT)
      BY <2>3, <3>3, <3>4, ClearPartPieces
    <3>6. Editor(y)
      BY <2>3, <3>3, ClearPartSound DEF PartCleared
    <3>. HIDE DEF y
    <3>7. Readable(y.u)
      BY <3>6, WrittenIsReadable
    <3>8. HostFits(x.u)
      BY <2>9, <2>10 DEF HostFits
    <3>9. Record(y.u)
      BY <2>4, <2>5, <3>5, <3>7, <3>8, PortRemoved
    <3>. QED  BY <2>11, <3>9
  <2>12. CASE ~isDefaultPort
    <3>1. new.port \in Int
      BY GetSchemeInfoType DEF new, SchemeInfo
    <3>2. ~IsNull(x.u, PORT) => PortValue(Tail(Piece(x.u, PORT))) # x.u.inf.port
      BY <2>3, <2>4, <2>5, <2>12, <3>1, PortOfScheme, FramedFacts
    <3>3. HostConsistent(x.u)
      BY <2>9, <2>10, <3>2 DEF HostConsistent
    <3>4. Record(x.u)
      BY <2>4, <3>3 DEF Record
    <3>. QED  BY <2>12, <3>4
  <2>. QED  BY <2>11, <2>12
<1>. HIDE DEF x, y, isDefaultPort
<1>5. \/ SchemeIgnored(new) /\ Return("ignored", urls)
      \/ ~SchemeIgnored(new) /\ ~isDefaultPort /\ Return("ok", x)
      \/ ~SchemeIgnored(new) /\ isDefaultPort /\ Return("ok", y)
  BY DEF SchemeOverride, x, y, isDefaultPort
<1>. HIDE DEF new
<1>. QED  BY <1>1, <1>2, <1>4, <1>5, ReturnRecord

-----------------------------------------------------------------------------
(* Relative references, and the slashes before the authority.              *)

\* What a block that no setter enters finds.
LEMMA NotSettingRecord ==
    ASSUME FullWork,
           pc \in {"no_scheme", "special_relative_or_authority", "path_or_authority",
                   "relative", "relative_slash", "special_authority_slashes",
                   "special_authority_ignore_slashes", "authority", "file", "file_slash",
                   "opaque_path"}
    PROVE  /\ pc \in ParserState /\ ~override
           /\ MayEnter(pc, urls, ptr) /\ ptr \in Text /\ Parser(urls) /\ ~urls.setter
           /\ urls.save => EnterRecord(pc, urls, ptr)
           /\ hasBase => UsableBase(base) /\ Record(base)
BY NotSetting, ParsingRecordBlock DEF FullWork

\* The scheme alone is written.
LEMMA AfterSchemeRecord ==
    ASSUME FullWork,
           pc \in AfterScheme \cup {"special_relative_or_authority", "relative_slash"}
    PROVE  /\ pc \in ParserState /\ ~override /\ ptr \in Text
           /\ Appender(urls) /\ SchemeWritten(urls) /\ urls.last = SCHEME
           /\ urls.u.segs = 0 /\ ~urls.setter
           /\ urls.save => BeforeHost(urls) /\ EnterRecord(pc, urls, ptr)
           /\ pc \in {"special_relative_or_authority", "relative_slash"} =>
                 hasBase /\ ~HasOpaquePath(base)
           /\ hasBase => UsableBase(base) /\ Record(base)
<1>1. /\ pc \in ParserState /\ ~override /\ ptr \in Text
      /\ Appender(urls) /\ SchemeWritten(urls) /\ urls.u.segs = 0
      /\ pc \in {"special_relative_or_authority", "relative_slash"} =>
            hasBase /\ ~HasOpaquePath(base)
  BY AfterSchemeBlock DEF FullWork
<1>2. /\ ~urls.setter /\ (urls.save => EnterRecord(pc, urls, ptr))
      /\ hasBase => UsableBase(base) /\ Record(base)
  BY <1>1, ParsingRecordBlock
<1>3. urls.last = SCHEME /\ urls.last < HOST
  BY <1>1, PartNumbers DEF SchemeWritten
<1>4. urls.save => BeforeHost(urls)
  BY <1>2, <1>3 DEF EnterRecord
<1>. QED  BY <1>1, <1>2, <1>3, <1>4

LEMMA NoSchemeRecord ==
    ASSUME FullWork, NoSchemeState
    PROVE  WorkRecord'
<1>. DEFINE y == AppendParts(BaseScheme, base, PATH, QUERY, "keep")
<1>1. pc = "no_scheme"
  BY DEF NoSchemeState
<1>2. /\ pc \in ParserState /\ ~override /\ MayEnter(pc, urls, ptr) /\ Parser(urls)
      /\ ~urls.setter /\ (hasBase => UsableBase(base) /\ Record(base))
  BY <1>1, NotSettingRecord
<1>3. Fresh(urls)
  BY <1>1, <1>2 DEF MayEnter
<1>4. Blank(urls) /\ BeforeHost(urls) /\ IsNull(urls.u, HOST)
  BY <1>2, <1>3, FreshBlank, FreshBeforeHost DEF Parser
<1>5. NextRecord("file", urls, ptr)
  BY <1>2, <1>4, EnterBeforeHost DEF NextRecord
<1>6. ~base.inf.file => NextRecord("relative", urls, ptr)
  <2>1. urls.last = SCHEME
    BY <1>3 DEF Fresh
  <2>. QED  BY <1>2, <1>4, <2>1, EnterWithScheme DEF NextRecord
<1>7. ASSUME hasBase, HasOpaquePath(base)
      PROVE  NextRecord("fragment", y, Tail(ptr))
  <2>1. UsableBase(base) /\ Record(base)
    BY <1>2, <1>7
  <2>2. /\ Appender(BaseScheme) /\ SchemeWritten(BaseScheme) /\ BaseScheme.u.segs = 0
        /\ BaseScheme.u.flags = urls.u.flags /\ BaseScheme.u.inf = base.inf
        /\ BaseScheme.save = urls.save
    BY <1>4, <2>1, BaseSchemeSound
  <2>3. BaseScheme.last = SCHEME /\ \A t : IsNull(BaseScheme.u, t) <=> IsNull(urls.u, t)
    BY <2>2 DEF SchemeWritten, IsNull
  <2>4. BeforeHost(BaseScheme)
    BY <1>4, <2>2, <2>3, SchemeBeforeHost DEF BeforeHost
  <2>5. MayAppend(BaseScheme, base, PATH, QUERY)
    BY <1>4, <1>7, <2>1, <2>2, <2>3 DEF MayAppend, UsableBase
  <2>6. AppendedParts(BaseScheme, y, base, QUERY)
    BY <2>5, AppendPartsSound
  <2>7. urls.save => Record(y.u)
    BY <1>7, <2>1, <2>2, <2>4, <2>5, CopiedOpaqueRecord
  <2>. HIDE DEF y
  <2>8. QUERY >= PATH
    BY PartNumbers
  <2>9. Appender(y) /\ y.save = urls.save /\ (y.save => PathWritten(y))
    BY <2>2, <2>6, <2>8 DEF AppendedParts
  <2>10. y.last \in Part /\ ~y.setter
    BY <2>9, AppenderFacts
  <2>11. y.save => EnterRecord("fragment", y, Tail(ptr))
    BY <2>7, <2>9, <2>10, EnterWithRecord DEF PathWritten
  <2>. QED  BY <2>10, <2>11 DEF NextRecord
<1>8. \/ hasBase /\ HasOpaquePath(base) /\ Goto("fragment", y, Tail(ptr))
      \/ Goto("file", urls, ptr)
      \/ ~base.inf.file /\ Goto("relative", urls, ptr)
      \/ Return("missing_scheme_non_relative_url", urls)
  BY DEF NoSchemeState, y
<1>. HIDE DEF y
<1>. QED
  BY <1>2, <1>5, <1>6, <1>7, <1>8, FirstStates, GotoRecord, ReturnRecord

LEMMA SpecialRelativeOrAuthorityRecord ==
    ASSUME FullWork, SpecialRelativeOrAuthorityState
    PROVE  WorkRecord'
<1>1. pc = "special_relative_or_authority"
  BY DEF SpecialRelativeOrAuthorityState
<1>2. /\ pc \in ParserState /\ urls.last = SCHEME /\ ~urls.setter
      /\ urls.save => BeforeHost(urls) /\ EnterRecord(pc, urls, ptr)
      /\ hasBase /\ UsableBase(base)
  BY <1>1, AfterSchemeRecord
<1>3. NextRecord("relative", urls, ptr)
  BY <1>1, <1>2, EnterWithScheme DEF NextRecord, EnterRecord
<1>4. urls.save => ~urls.u.inf.file
  BY <1>1, <1>2 DEF EnterRecord
<1>5. NextRecord("special_authority_ignore_slashes", urls, From(ptr, 3))
  BY <1>2, <1>4, EnterWithScheme DEF NextRecord
<1>. QED
  BY <1>2, <1>3, <1>5, FirstStates, GotoRecord DEF SpecialRelativeOrAuthorityState

LEMMA PathOrAuthorityRecord ==
    ASSUME FullWork, PathOrAuthorityState
    PROVE  WorkRecord'
<1>1. pc = "path_or_authority"
  BY DEF PathOrAuthorityState
<1>2. /\ pc \in ParserState /\ Appender(urls) /\ urls.last = SCHEME /\ ~urls.setter
      /\ urls.save => BeforeHost(urls) /\ EnterRecord(pc, urls, ptr)
  BY <1>1, AfterSchemeRecord DEF AfterScheme
<1>3. urls.save => ~urls.u.inf.special
  BY <1>1, <1>2 DEF EnterRecord
<1>4. urls.save => ~urls.u.inf.file
  BY <1>2, <1>3, AppenderFacts, InfoOfOrdered
<1>5. NextRecord("authority", urls, Tail(ptr))
  BY <1>2, <1>4, EnterWithScheme DEF NextRecord
<1>6. urls.save => EnterRecord("path", urls, ptr)
  <2>1. SUFFICES ASSUME urls.save PROVE EnterRecord("path", urls, ptr)
    OBVIOUS
  <2>2. ~HasUserinfo(urls.u) /\ IsNull(urls.u, PORT) /\ urls.last < HOST
    BY <1>2, <2>1, BeforeHostFacts, PartNumbers
  <2>3. Opened(urls)
    BY <1>2, <1>3, <2>1, <2>2 DEF Opened, HostConsistent
  <2>. QED  BY <2>3, EnterOpened
<1>7. NextRecord("path", urls, ptr)
  BY <1>2, <1>6 DEF NextRecord
<1>. QED
  BY <1>2, <1>5, <1>7, FirstStates, GotoRecord DEF PathOrAuthorityState

LEMMA SpecialAuthoritySlashesRecord ==
    ASSUME FullWork, SpecialAuthoritySlashesState
    PROVE  WorkRecord'
<1>1. pc = "special_authority_slashes"
  BY DEF SpecialAuthoritySlashesState
<1>2. /\ pc \in ParserState /\ urls.last = SCHEME /\ ~urls.setter
      /\ urls.save => BeforeHost(urls) /\ EnterRecord(pc, urls, ptr)
  BY <1>1, AfterSchemeRecord DEF AfterScheme
<1>3. urls.save => ~urls.u.inf.file
  BY <1>1, <1>2 DEF EnterRecord
<1>4. \A rest : NextRecord("special_authority_ignore_slashes", urls, rest)
  BY <1>2, <1>3, EnterWithScheme DEF NextRecord
<1>. QED
  BY <1>2, <1>4, FirstStates, GotoRecord DEF SpecialAuthoritySlashesState

LEMMA SpecialAuthorityIgnoreSlashesRecord ==
    ASSUME FullWork, SpecialAuthorityIgnoreSlashesState
    PROVE  WorkRecord'
<1>1. pc = "special_authority_ignore_slashes"
  BY DEF SpecialAuthorityIgnoreSlashesState
<1>2. /\ pc \in ParserState /\ urls.last = SCHEME /\ ~urls.setter
      /\ urls.save => BeforeHost(urls) /\ EnterRecord(pc, urls, ptr)
  BY <1>1, AfterSchemeRecord DEF AfterScheme
<1>3. urls.save => ~urls.u.inf.file
  BY <1>1, <1>2 DEF EnterRecord
<1>4. \A rest : NextRecord("authority", urls, rest)
  BY <1>2, <1>3, EnterWithScheme DEF NextRecord
<1>. QED
  BY <1>2, <1>4, FirstStates, GotoRecord DEF SpecialAuthorityIgnoreSlashesState

\* What the parts copied from the base lead to.
LEMMA CopiedEnters ==
    ASSUME NEW x, NEW src, NEW t1, NEW t2, MayAppend(x, src, t1, t2), NEW op_,
           ~HasOpaquePath(src), x.save => Record(src) /\ MayCopyFrame(x, src, t1),
           x.u.inf = src.inf, src.inf.file => src.inf.special, NEW rest
    PROVE  LET y == AppendParts(x, src, t1, t2, op_)
           IN /\ ~y.setter
              /\ y.save => EnterRecord("path", y, rest)
              /\ t2 \in {PATH, QUERY} /\ op_ = "keep" /\ y.save =>
                    /\ Record(y.u)
                    /\ EnterRecord("query", y, rest) /\ EnterRecord("fragment", y, rest)
<1>. DEFINE y == AppendParts(x, src, t1, t2, op_)
<1>1. AppendedParts(x, y, src, t2)
  BY AppendPartsSound
<1>2. x.save => /\ Opened(y)
                /\ t2 >= PATH /\ op_ = "keep" => Record(y.u)
  BY CopiedRecord
<1>. HIDE DEF y
<1>3. t2 \in {PATH, QUERY} => t2 >= PATH
  BY PartNumbers
<1>4. /\ Appender(y) /\ y.save = x.save
      /\ t2 \in {PATH, QUERY} /\ x.save => PathWritten(y)
  BY <1>1, <1>3 DEF AppendedParts
<1>5. y.last \in Part /\ ~y.setter
  BY <1>4, AppenderFacts
<1>6. y.save => EnterRecord("path", y, rest)
  BY <1>2, <1>4, EnterOpened
<1>7. ASSUME t2 \in {PATH, QUERY}, op_ = "keep", y.save
      PROVE  /\ Record(y.u)
             /\ EnterRecord("query", y, rest) /\ EnterRecord("fragment", y, rest)
  <2>1. Record(y.u) /\ y.last >= HOST
    BY <1>2, <1>3, <1>4, <1>7 DEF PathWritten
  <2>. QED  BY <1>5, <2>1, EnterWithRecord
<1>. QED  BY <1>5, <1>6, <1>7 DEF y

LEMMA RelativeRecord ==
    ASSUME FullWork, RelativeState
    PROVE  WorkRecord'
<1>. DEFINE x == BaseScheme
            all == AppendParts(x, base, USERNAME, QUERY, "keep")
            path == AppendParts(x, base, USERNAME, PATH, "keep")
            shorter == AppendParts(x, base, USERNAME, PATH, "remLast")
<1>1. pc = "relative"
  BY DEF RelativeState
<1>2. /\ pc \in ParserState /\ MayEnter(pc, urls, ptr) /\ Parser(urls) /\ ~urls.setter
      /\ urls.save => EnterRecord(pc, urls, ptr)
      /\ hasBase => UsableBase(base) /\ Record(base)
  BY <1>1, NotSettingRecord
<1>3. /\ Fresh(urls) \/ SchemeWritten(urls)
      /\ urls.u.segs = 0 /\ hasBase /\ ~HasOpaquePath(base)
  BY <1>1, <1>2 DEF MayEnter
<1>4. Blank(urls)
  <2>1. CASE Fresh(urls)
    BY <1>2, <2>1, FreshBlank DEF Parser
  <2>2. CASE SchemeWritten(urls)
    <3>1. Appender(urls)
      BY <1>2, <2>2 DEF Parser, Appender, SchemeWritten
    <3>. QED  BY <1>3, <2>2, <3>1, SchemeBlank
  <2>. QED  BY <1>3, <2>1, <2>2
<1>5. UsableBase(base) /\ Record(base) /\ (base.inf.file => base.inf.special)
  BY <1>2, <1>3 DEF UsableBase
<1>6. /\ Appender(x) /\ SchemeWritten(x) /\ x.save = urls.save /\ x.u.segs = 0
      /\ x.u.flags = urls.u.flags /\ x.u.inf = base.inf
  BY <1>4, <1>5, BaseSchemeSound
<1>. HIDE DEF x
<1>7. /\ urls.last = SCHEME /\ urls.last < HOST /\ x.last = SCHEME
      /\ \A t : IsNull(x.u, t) <=> IsNull(urls.u, t)
  <2>1. urls.last = SCHEME /\ x.last = SCHEME
    BY <1>4, <1>6 DEF Blank, SchemeWritten
  <2>2. \A t : IsNull(x.u, t) <=> IsNull(urls.u, t)
    BY <1>6 DEF IsNull
  <2>. QED  BY <2>1, <2>2, PartNumbers
<1>8. x.save => BeforeHost(x) /\ ~base.inf.file
  <2>1. SUFFICES ASSUME x.save PROVE BeforeHost(x) /\ ~base.inf.file
    OBVIOUS
  <2>2. BeforeHost(urls) /\ ~base.inf.file
    BY <1>1, <1>2, <1>6, <1>7, <2>1 DEF EnterRecord
  <2>3. BeforeHost(x)
    BY <1>6, <1>7, <2>2, SchemeBeforeHost DEF BeforeHost
  <2>. QED  BY <2>2, <2>3
<1>9. MayAppend(x, base, USERNAME, QUERY) /\ MayAppend(x, base, USERNAME, PATH)
  BY <1>3, <1>5, <1>6, <1>7 DEF MayAppend, UsableBase, SchemeWritten
<1>10. x.save => MayCopyFrame(x, base, USERNAME)
  BY <1>8 DEF MayCopyFrame
<1>11. /\ ~all.setter /\ (all.save => Record(all.u))
       /\ \A s : all.save => EnterRecord("fragment", all, s)
  BY <1>3, <1>5, <1>6, <1>9, <1>10, CopiedEnters
<1>12. ~path.setter /\ \A s : path.save => EnterRecord("query", path, s)
  BY <1>3, <1>5, <1>6, <1>9, <1>10, CopiedEnters
<1>13. ~shorter.setter /\ \A s : shorter.save => EnterRecord("path", shorter, s)
  BY <1>3, <1>5, <1>6, <1>9, <1>10, CopiedEnters
<1>14. \A s : NextRecord("relative_slash", x, s)
  <2>1. ~x.setter
    BY <1>6, AppenderFacts
  <2>. QED  BY <1>6, <1>7, <1>8, <2>1, EnterWithScheme DEF NextRecord
<1>15. \/ Return("ok", all)
       \/ Goto("relative_slash", x, Tail(ptr))
       \/ Goto("query", path, Tail(ptr))
       \/ Goto("fragment", all, Tail(ptr))
       \/ Goto("path", shorter, ptr)
  BY DEF RelativeState, x, all, path, shorter
<1>. HIDE DEF all, path, shorter
<1>16. \A s : /\ NextRecord("query", path, s) /\ NextRecord("fragment", all, s)
              /\ NextRecord("path", shorter, s)
  BY <1>11, <1>12, <1>13 DEF NextRecord
<1>. QED
  BY <1>2, <1>11, <1>14, <1>15, <1>16, FirstStates, GotoRecord, ReturnRecord

LEMMA RelativeSlashRecord ==
    ASSUME FullWork, RelativeSlashState
    PROVE  WorkRecord'
<1>. DEFINE y == AppendParts(urls, base, USERNAME, PORT, "keep")
<1>1. pc = "relative_slash"
  BY DEF RelativeSlashState
<1>2. /\ pc \in ParserState /\ Appender(urls) /\ SchemeWritten(urls) /\ urls.last = SCHEME
      /\ urls.u.segs = 0 /\ ~urls.setter
      /\ urls.save => BeforeHost(urls) /\ EnterRecord(pc, urls, ptr)
      /\ ~HasOpaquePath(base) /\ UsableBase(base) /\ Record(base)
  BY <1>1, AfterSchemeRecord
<1>3. urls.save => urls.u.inf = base.inf /\ ~base.inf.file
  BY <1>1, <1>2 DEF EnterRecord
<1>4. MayAppend(urls, base, USERNAME, PORT)
  BY <1>2 DEF MayAppend, UsableBase, SchemeWritten
<1>5. NextRecord("path", y, ptr)
  <2>1. AppendedParts(urls, y, base, PORT)
    BY <1>4, AppendPartsSound
  <2>2. urls.save => Opened(y)
    <3>1. SUFFICES ASSUME urls.save PROVE Opened(y)
      OBVIOUS
    <3>2. MayCopyFrame(urls, base, USERNAME)
      BY <1>2, <3>1 DEF MayCopyFrame
    <3>. QED  BY <1>2, <1>3, <1>4, <3>1, <3>2, CopiedRecord
  <2>. HIDE DEF y
  <2>3. ~y.setter /\ y.save = urls.save
    BY <2>1, AppenderFacts DEF AppendedParts
  <2>. QED  BY <2>2, <2>3, EnterOpened DEF NextRecord
<1>6. \A rest : /\ NextRecord("special_authority_ignore_slashes", urls, rest)
                /\ NextRecord("authority", urls, rest)
  BY <1>2, <1>3, EnterWithScheme DEF NextRecord
<1>7. \/ Goto("special_authority_ignore_slashes", urls, Tail(ptr))
      \/ Goto("authority", urls, Tail(ptr))
      \/ Goto("path", y, ptr)
  BY DEF RelativeSlashState, y
<1>. HIDE DEF y
<1>. QED  BY <1>2, <1>5, <1>6, <1>7, FirstStates, GotoRecord

-----------------------------------------------------------------------------
(* Authority, host and port.                                               *)

LEMMA FromStarts ==
    ASSUME NEW s \in Text, NEW i \in 1 .. Len(s)
    PROVE  From(s, i) # <<>> /\ From(s, i)[1] = s[i]
<1>1. Len(s) \in Nat
  BY DEF Text
<1>2. i \in Int /\ 1 =< i /\ i =< Len(s)
  BY <1>1
<1>3. /\ From(s, i) \in Text /\ Len(From(s, i)) = Len(s) - i + 1
      /\ \A k \in 1 .. Len(s) - i + 1 : From(s, i)[k] = s[i + k - 1]
  BY <1>1, <1>2, SubText DEF From
<1>4. 1 \in 1 .. Len(s) - i + 1 /\ i + 1 - 1 = i
  BY <1>1, <1>2
<1>5. From(s, i)[1] = s[i]
  BY <1>3, <1>4
<1>6. Len(From(s, i)) # 0
  BY <1>1, <1>2, <1>3
<1>. QED  BY <1>5, <1>6

\* What follows the '@' in the authority is not its end.
LEMMA BehindAt ==
    ASSUME NEW s \in Text, NEW set, NEW at \in Nat, at > 0, at + 1 < FindFirst(s, set)
    PROVE  From(s, at + 1) # <<>> /\ From(s, at + 1)[1] \notin set
<1>1. Len(s) \in Nat
  BY DEF Text
<1>2. /\ FindFirst(s, set) \in 1 .. Len(s) + 1
      /\ \A i \in 1 .. Len(s) : i < FindFirst(s, set) => s[i] \notin set
  BY FindFirstRange
<1>3. at + 1 \in 1 .. Len(s)
  BY <1>1, <1>2
<1>. QED  BY <1>2, <1>3, FromStarts

LEMMA AuthorityRecord ==
    ASSUME FullWork, AuthorityState
    PROVE  WorkRecord'
<1>. DEFINE authority == Before(ptr, EndOfAuthority)
            at == FindLast(authority, {"@"})
            y == PutCredentials(urls, Before(authority, at))
            rest == From(ptr, at + 1)
            set == IF special THEN SpecialAuthorityEnd ELSE AuthorityEnd
<1>1. pc = "authority"
  BY DEF AuthorityState
<1>2. /\ pc \in ParserState /\ ptr \in Text /\ Appender(urls) /\ SchemeWritten(urls)
      /\ urls.last = SCHEME /\ ~urls.setter
      /\ urls.save => BeforeHost(urls) /\ EnterRecord(pc, urls, ptr)
  BY <1>1, AfterSchemeRecord DEF AfterScheme
<1>3. urls.save => ~urls.u.inf.file
  BY <1>1, <1>2 DEF EnterRecord
<1>4. \A s : NextRecord("host", urls, s)
  BY <1>2, <1>3, EnterWithScheme DEF NextRecord
<1>5. authority \in Text /\ EndOfAuthority = FindFirst(ptr, set)
  BY <1>2, FromIsText DEF EndOfAuthority
<1>6. at \in 1 .. Len(authority) + 1 /\ Before(authority, at) \in Text
  BY <1>5, FindLastRange, BeforeText
<1>7. ASSUME urls.save, ~(at > Len(authority)), at # Len(authority)
      PROVE  NextRecord("host", y, rest)
  <2>1. EndOfAuthority \in 1 .. Len(ptr) + 1
    BY <1>2, <1>5, FindFirstRange
  <2>2. Len(authority) = EndOfAuthority - 1 /\ Len(ptr) \in Nat
    BY <1>2, <2>1, BeforeText DEF Text
  <2>3. at \in Nat /\ at > 0 /\ at + 1 < EndOfAuthority
    <3>. HIDE DEF at, authority
    <3>. QED  BY <1>6, <1>7, <2>1, <2>2
  <2>. HIDE DEF at, authority, set
  <2>4. rest # <<>> /\ rest[1] \notin set
    BY <1>2, <1>5, <2>3, BehindAt
  <2>5. ~HasOpaquePath(urls.u)
    BY <1>2 DEF SchemeWritten
  <2>6. Appender(y) /\ SamePlan(urls, y) /\ y.last =< PASSWORD /\ BeforeHost(y)
    BY <1>2, <1>6, <1>7, <2>5, PutCredentialsSound, CredentialsBeforeHost
  <2>. HIDE DEF y, rest
  <2>7. ~y.setter /\ y.last < HOST /\ y.u.inf = urls.u.inf
    <3>1. y.last < HOST
      BY <2>6, PartNumbers DEF BeforeHost
    <3>2. ~y.setter
      BY <2>6, AppenderFacts
    <3>. QED  BY <2>6, <3>1, <3>2 DEF SamePlan
  <2>8. set = IF y.u.inf.special THEN SpecialAuthorityEnd ELSE AuthorityEnd
    BY <2>7 DEF set, special, url
  <2>9. EnterRecord("host", y, rest)
    BY <1>3, <1>7, <2>4, <2>6, <2>7, <2>8 DEF EnterRecord
  <2>. QED  BY <2>7, <2>9 DEF NextRecord
<1>8. \/ Goto("host", urls, ptr)
      \/ Return("host_missing", urls)
      \/ /\ urls.save /\ ~(at > Len(authority)) /\ at # Len(authority)
         /\ Goto("host", y, rest)
      \/ Goto("host", urls, rest)
  BY DEF AuthorityState, y, rest, at, authority
<1>. HIDE DEF y, rest, at, authority, set
<1>. QED  BY <1>2, <1>4, <1>7, <1>8, FirstStates, GotoRecord, ReturnRecord

LEMMA FileHostOverrideRecord ==
    ASSUME FullWork, FileHostOverride
    PROVE  WorkRecord'
<1>1. pc \in ParserState /\ override /\ urls.u.inf.file /\ Goto("file_host", urls, ptr)
  BY DEF FileHostOverride, ParserState, url
<1>2. urls.setter /\ Record(urls.u)
  BY <1>1, SettingRecordBlock DEF SetRecord
<1>3. NextRecord("file_host", urls, ptr)
  BY <1>1, <1>2 DEF NextRecord, SetRecord
<1>. QED  BY <1>1, <1>3, FirstStates, GotoRecord

\* The host that is parsed is empty only if the authority is.
LEMMA EmptyHostAuthority ==
    ASSUME NEW s \in Text, NEW set, s # <<>>, s[1] \notin set
    PROVE  LET authority == Before(s, FindFirst(s, set))
               end == EndOfHost(authority)
           IN Before(authority, end) # <<>> \/ end =< Len(authority)
<1>. DEFINE e == FindFirst(s, set)
            authority == Before(s, e)
            end == EndOfHost(authority)
<1>1. Len(s) \in Nat /\ Len(s) > 0
  BY DEF Text
<1>2. e \in 1 .. Len(s) + 1 /\ (e =< Len(s) => s[e] \in set)
  BY FindFirstRange
<1>. HIDE DEF e
<1>3. authority \in Text /\ Len(authority) = e - 1
  BY <1>2, BeforeText
<1>4. Len(authority) > 0
  <2>1. e # 1
    BY <1>1, <1>2
  <2>. QED  BY <1>2, <1>3, <2>1
<1>. HIDE DEF authority
<1>5. end \in 1 .. Len(authority) + 1
  BY <1>3, EndOfHostRange
<1>6. Len(Before(authority, end)) = end - 1
  BY <1>3, <1>5, BeforeText
<1>. HIDE DEF end
<1>7. ASSUME ~(end =< Len(authority)) PROVE Before(authority, end) # <<>>
  <2>1. Len(Before(authority, end)) # 0
    BY <1>2, <1>3, <1>4, <1>5, <1>6, <1>7
  <2>. QED  BY <2>1
<1>. QED  BY <1>7 DEF end, authority, e

\* When url_parse takes the text for a host.
HostAccepted(host, isPort) ==
    /\ host = <<>> => /\ ~isPort /\ ~special
                      /\ override => ~(HasCredentials(url) \/ ~IsNull(url, PORT))
    /\ override /\ isPort => pc # "hostname"

LEMMA HostOutcomes ==
    ASSUME HostState
    PROVE  LET authority == Before(ptr, EndOfAuthority)
               end == EndOfHost(authority)
               isPort == end =< Len(authority)
               host == Before(authority, end)
               result == ParseHostResult(host, ~special)
               x == ParseHostOutput(urls, host, ~special)
           IN \/ Return("host_missing", urls) \/ Return("ignored", urls)
              \/ /\ HostAccepted(host, isPort)
                 /\ \/ result # "ok" /\ Return(result, x)
                    \/ result = "ok" /\ isPort /\ host # <<>> /\ Goto("port", x, From(ptr, end + 1))
                    \/ result = "ok" /\ override /\ Return("ok", x)
                    \/ result = "ok" /\ ~override /\ ~isPort /\ Goto("path_start", x, From(ptr, end))
<1>. DEFINE authority == Before(ptr, EndOfAuthority)
            end == EndOfHost(authority)
            isPort == end =< Len(authority)
            host == Before(authority, end)
            result == ParseHostResult(host, ~special)
            x == ParseHostOutput(urls, host, ~special)
            last == IF result # "ok" THEN Return(result, x)
                    ELSE IF isPort THEN Goto("port", x, From(ptr, end + 1))
                    ELSE IF override THEN Return("ok", x)
                    ELSE Goto("path_start", x, From(ptr, end))
            missing == host = <<>> /\ (isPort \/ special)
            kept == host = <<>> /\ ~isPort /\ ~special /\ override
                       /\ (HasCredentials(url) \/ ~IsNull(url, PORT))
            refused == host # <<>> /\ isPort /\ override /\ pc = "hostname"
<1>1. (CASE missing -> Return("host_missing", urls)
         [] kept -> Return("ignored", urls)
         [] refused -> Return("ignored", urls)
         [] OTHER -> last)
  BY DEF HostState
<1>2. ~missing /\ ~kept /\ ~refused => HostAccepted(host, isPort)
  BY DEF HostAccepted
<1>3. ~missing /\ isPort => host # <<>>
  OBVIOUS
<1>4. \/ missing /\ Return("host_missing", urls)
      \/ (kept \/ refused) /\ Return("ignored", urls)
      \/ ~missing /\ ~kept /\ ~refused /\ last
  <2>. HIDE DEF missing, kept, refused, last
  <2>. QED  BY <1>1
<1>5. last => \/ result # "ok" /\ Return(result, x)
              \/ result = "ok" /\ isPort /\ Goto("port", x, From(ptr, end + 1))
              \/ result = "ok" /\ override /\ Return("ok", x)
              \/ result = "ok" /\ ~override /\ ~isPort /\ Goto("path_start", x, From(ptr, end))
  <2>. HIDE DEF result, isPort, end, x
  <2>. QED  OBVIOUS
<1>. HIDE DEF missing, kept, refused, last
<1>. QED  BY <1>2, <1>3, <1>4, <1>5

LEMMA HostStateRecord ==
    ASSUME FullWork, HostState
    PROVE  WorkRecord'
<1>. DEFINE authority == Before(ptr, EndOfAuthority)
            end == EndOfHost(authority)
            isPort == end =< Len(authority)
            host == Before(authority, end)
            result == ParseHostResult(host, ~special)
            x == ParseHostOutput(urls, host, ~special)
<1>1. pc \in ParserState /\ pc \in {"host", "hostname"} /\ ptr \in Text
  BY DEF HostState, ParserState, FullWork, WorkInv, WorkShape, TypeOK
<1>2. authority \in Text
  BY <1>1, FromIsText DEF EndOfAuthority
<1>3. end \in 1 .. Len(authority) + 1
  BY <1>2, EndOfHostRange
<1>4. host \in Text
  BY <1>2, <1>3, BeforeText
<1>5. \/ Return("host_missing", urls) \/ Return("ignored", urls)
      \/ /\ HostAccepted(host, isPort)
         /\ \/ result # "ok" /\ Return(result, x)
            \/ result = "ok" /\ isPort /\ host # <<>> /\ Goto("port", x, From(ptr, end + 1))
            \/ result = "ok" /\ override /\ Return("ok", x)
            \/ result = "ok" /\ ~override /\ ~isPort /\ Goto("path_start", x, From(ptr, end))
  BY HostOutcomes
<1>6. MayHost(urls) =>
         \/ x = urls /\ ~(result = "ok" /\ urls.save)
         \/ \E text \in Text : WithHost(urls.u, x.u, text) /\ (host = <<>> <=> text = <<>>)
  BY <1>4, ParsedHostRecord
<1>7. special = urls.u.inf.special
  BY DEF special, url
<1>8. CASE ~override
  <2>1. /\ MayEnter(pc, urls, ptr) /\ Parser(urls) /\ ~urls.setter
        /\ urls.save => EnterRecord(pc, urls, ptr)
    BY <1>1, <1>8, ParsingRecordBlock
  <2>2. Appending(urls) /\ urls.last =< PASSWORD /\ ~HasOpaquePath(urls.u)
    BY <1>1, <2>1 DEF MayEnter
  <2>3. Appender(urls)
    BY <2>1, <2>2 DEF Appender, Parser
  <2>4. urls.last < HOST_START /\ urls.last < HOST
    <3>1. urls.last \in Part
      BY <2>3, AppenderFacts
    <3>2. urls.last \in Int
      BY <3>1, PartInt
    <3>. QED  BY <2>2, <3>2, PartNumbers
  <2>5. /\ HostParsed(urls, x)
        /\ result = "ok" /\ urls.save => x.last = HOST
    BY <1>4, <2>2, <2>3, <2>4, ParseHostOutputSound
  <2>6. x.save = urls.save /\ ~x.setter
    <3>. HIDE DEF x
    <3>. QED  BY <2>3, <2>5, AppenderFacts DEF HostParsed
  <2>7. ASSUME urls.save, ~isPort, ~special, host = <<>>
        PROVE  ~HasUserinfo(urls.u)
    <3>1. BeforeHost(urls) /\ EnterRecord(pc, urls, ptr)
      BY <2>1, <2>4, <2>7 DEF EnterRecord
    <3>2. ASSUME urls.last # SCHEME PROVE FALSE
      <4>. DEFINE set == IF special THEN SpecialAuthorityEnd ELSE AuthorityEnd
      <4>1. ptr # <<>> /\ ptr[1] \notin set
        BY <1>1, <1>7, <3>1, <3>2 DEF EnterRecord
      <4>2. EndOfAuthority = FindFirst(ptr, set)
        BY DEF EndOfAuthority
      <4>. HIDE DEF set
      <4>. QED  BY <1>1, <2>7, <4>1, <4>2, EmptyHostAuthority
    <3>. QED  BY <2>3, <3>1, <3>2, BeforeHostFacts
  <2>8. ASSUME urls.save, result = "ok", HostAccepted(host, isPort)
        PROVE  /\ x.last = HOST /\ Framed(x.u) /\ ~x.u.inf.file
               /\ host # <<>> => Piece(x.u, HOST) # <<>>
               /\ HostConsistent(x.u)
    <3>1. BeforeHost(urls) /\ ~urls.u.inf.file
      BY <1>1, <2>1, <2>4, <2>8 DEF EnterRecord
    <3>2. MayHost(urls)
      BY <2>2, <2>3, <3>1 DEF MayHost
    <3>3. PICK text \in Text : WithHost(urls.u, x.u, text) /\ (host = <<>> <=> text = <<>>)
      BY <1>6, <2>8, <3>2
    <3>4. IsNull(urls.u, PORT)
      BY <2>3, <3>1, BeforeHostFacts
    <3>5. host = <<>> => ~isPort /\ ~special
      BY <2>8 DEF HostAccepted
    <3>. HIDE DEF x, result, isPort, host
    <3>6. text # <<>> \/ (~HasUserinfo(urls.u) /\ (urls.u.inf.special => urls.u.inf.file))
      BY <1>7, <2>7, <2>8, <3>3, <3>5
    <3>7. HostConsistent(x.u)
      BY <3>1, <3>3, <3>4, <3>6, ConsistentHost
    <3>8. Framed(x.u) /\ Piece(x.u, HOST) = text /\ x.u.inf = urls.u.inf
      BY <3>3 DEF WithHost
    <3>. QED  BY <2>5, <2>8, <3>1, <3>3, <3>7, <3>8
  <2>. HIDE DEF x, result, isPort, host
  <2>9. ASSUME result = "ok", HostAccepted(host, isPort)
        PROVE  /\ \A s : NextRecord("path_start", x, s)
               /\ host # <<>> => \A s : NextRecord("port", x, s)
    <3>1. ~(HOST < HOST)
      BY PartNumbers
    <3>2. \A s : x.save => EnterRecord("path_start", x, s)
      BY <2>6, <2>8, <2>9, <3>1 DEF EnterRecord
    <3>3. host # <<>> => \A s : x.save => EnterRecord("port", x, s)
      BY <2>6, <2>8, <2>9, <3>1 DEF EnterRecord
    <3>. QED  BY <2>6, <3>2, <3>3 DEF NextRecord
  <2>. HIDE DEF end
  <2>. QED
    BY <1>1, <1>5, <1>8, <2>1, <2>6, <2>9, FirstStates, GotoRecord, ReturnRecord
<1>9. CASE override
  <2>1. MaySet(pc, urls, ptr) /\ Editor(urls) /\ SetRecord(pc, urls)
    BY <1>1, <1>9, SettingRecordBlock
  <2>2. /\ ~HasOpaquePath(urls.u) /\ Record(urls.u)
        /\ Framed(urls.u) /\ PathConsistent(urls.u) /\ ~urls.u.inf.file
    <3>1. ~urls.u.inf.file
      BY <1>9 DEF HostState, url
    <3>. QED  BY <1>1, <2>1, <3>1 DEF MaySet, SetRecord, Record
  <2>3. MayHost(urls)
    BY <2>1, <2>2 DEF MayHost
  <2>4. HostParsed(urls, x)
    BY <1>4, <2>1, <2>2, ParseHostOutputSound
  <2>5. HasCredentials(urls.u) <=> HasUserinfo(urls.u)
    <3>1. Readable(urls.u) /\ PasswordFramed(urls.u)
      BY <2>1, <2>2, WrittenIsReadable, FramedFacts
    <3>. QED  BY <3>1, ReadPieces
  <2>6. ASSUME HostAccepted(host, isPort)
        PROVE  /\ Record(x.u)
               /\ result = "ok" /\ host # <<>> => Piece(x.u, HOST) # <<>> /\ ~x.u.inf.file
    <3>1. host = <<>> => ~special /\ ~(HasUserinfo(urls.u) \/ ~IsNull(urls.u, PORT))
      BY <1>9, <2>5, <2>6 DEF HostAccepted, url
    <3>2. urls.save = TRUE
      BY <2>1, EditorFacts
    <3>. HIDE DEF x, result, host
    <3>3. CASE x = urls /\ result # "ok"
      BY <2>2, <3>3
    <3>4. CASE \E text \in Text : WithHost(urls.u, x.u, text) /\ (host = <<>> <=> text = <<>>)
      <4>1. PICK text \in Text : WithHost(urls.u, x.u, text) /\ (host = <<>> <=> text = <<>>)
        BY <3>4
      <4>2. Record(x.u)
        BY <1>7, <2>2, <3>1, <4>1, RecordWithHost
      <4>3. Piece(x.u, HOST) = text /\ x.u.inf = urls.u.inf
        BY <4>1 DEF WithHost
      <4>. QED  BY <2>2, <4>1, <4>2, <4>3
    <3>. QED  BY <1>6, <2>3, <3>2, <3>3, <3>4
  <2>. HIDE DEF x, result, isPort, host, end
  <2>7. x.setter
    BY <2>1, <2>4, EditorFacts DEF HostParsed
  <2>8. result = "ok" /\ host # <<>> /\ HostAccepted(host, isPort) =>
           \A s : NextRecord("port", x, s)
    BY <2>6, <2>7 DEF NextRecord, SetRecord
  <2>. QED
    BY <1>1, <1>5, <1>9, <2>2, <2>6, <2>8, FirstStates, GotoRecord, ReturnRecord
<1>. QED  BY <1>8, <1>9

LEMMA DigitsBeforeEnd ==
    ASSUME NEW s \in Text, FindFirstNot(s, Digit) # 1
    PROVE  LET end == FindFirstNot(s, Digit)
           IN Before(s, end) \in Text /\ AllDigits(Before(s, end))
<1>. DEFINE end == FindFirstNot(s, Digit)
<1>1. end \in 1 .. Len(s) + 1 /\ \A i \in 1 .. Len(s) : i < end => s[i] \in Digit
  BY FindFirstNotRange
<1>. HIDE DEF end
<1>2. /\ Before(s, end) \in Text /\ Len(Before(s, end)) = end - 1
      /\ \A k \in 1 .. end - 1 : Before(s, end)[k] = s[k]
  BY <1>1, BeforeText
<1>3. ASSUME NEW k \in 1 .. Len(Before(s, end)) PROVE Before(s, end)[k] \in Digit
  <2>1. Len(s) \in Nat
    BY DEF Text
  <2>2. k \in 1 .. end - 1 /\ k \in 1 .. Len(s) /\ k < end
    BY <1>1, <1>2, <2>1
  <2>. QED  BY <1>1, <1>2, <2>2
<1>4. Before(s, end) # <<>>
  <2>1. Len(s) \in Nat /\ end # 1
    BY DEF Text, end
  <2>2. Len(Before(s, end)) # 0
    BY <1>1, <1>2, <2>1
  <2>. QED  BY <2>2
<1>. QED  BY <1>2, <1>3, <1>4 DEF AllDigits, end

LEMMA PortStateRecord ==
    ASSUME FullWork, PortState
    PROVE  WorkRecord'
<1>. DEFINE rest == From(ptr, FindFirstNot(ptr, Digit))
            digits == PortDigits(Before(ptr, FindFirstNot(ptr, Digit)))
            y == PutPort(urls, digits)
            written == FindFirstNot(ptr, Digit) # 1 /\ ~(Len(digits) > 5)
<1>1. pc = "port" /\ pc \in ParserState /\ ptr \in Text
  BY DEF PortState, ParserState, FullWork, WorkInv, WorkShape, TypeOK
<1>2. digits \in Text /\ (written => AllDigits(digits))
  <2>1. digits \in Text
    BY <1>1, FromIsText, PortDigitsText
  <2>. QED  BY <1>1, <2>1, DigitsBeforeEnd, PortDigitsAreDigits
<1>3. \/ Return("port_invalid", urls) \/ Return("port_out_of_range", urls)
      \/ override /\ Return("ok", urls)
      \/ ~override /\ Goto("path_start", urls, rest)
      \/ override /\ written /\ Return("ok", y)
      \/ ~override /\ written /\ Goto("path_start", y, rest)
  BY DEF PortState, rest, digits, y, written
<1>4. written => Len(digits) < 6
  <2>. HIDE DEF digits
  <2>1. Len(digits) \in Nat
    BY <1>2 DEF Text
  <2>. QED  BY <2>1
<1>. HIDE DEF digits, written
<1>5. CASE ~override
  <2>1. /\ MayEnter(pc, urls, ptr) /\ Parser(urls) /\ ~urls.setter
        /\ urls.save => EnterRecord(pc, urls, ptr)
    BY <1>1, <1>5, ParsingRecordBlock
  <2>2. /\ Appending(urls) /\ ~HasOpaquePath(urls.u)
        /\ urls.save => HostWritten(urls) /\ urls.last = HOST
    BY <1>1, <2>1 DEF MayEnter
  <2>3. Appender(urls)
    BY <2>1, <2>2 DEF Appender, Parser
  <2>4. ~(HOST < HOST)
    BY PartNumbers
  <2>5. urls.save => /\ Framed(urls.u) /\ HostConsistent(urls.u)
                     /\ Piece(urls.u, HOST) # <<>> /\ ~urls.u.inf.file
                     /\ ~IsNull(urls.u, HOST)
    BY <1>1, <2>1, <2>2, <2>4 DEF EnterRecord, HostWritten
  <2>6. NextRecord("path_start", urls, rest)
    BY <2>1, <2>2, <2>4, <2>5 DEF NextRecord, EnterRecord
  <2>7. /\ PortPlan(urls, y) /\ Appender(y)
        /\ urls.save => y.last >= HOST
    BY <1>2, <2>2, <2>3, <2>5, PutPortSound
  <2>8. urls.save /\ written => Framed(y.u) /\ HostConsistent(y.u)
    BY <1>2, <1>4, <2>2, <2>3, <2>5, PutPortRecord
  <2>. HIDE DEF y, rest
  <2>9. y.save = urls.save /\ ~y.setter /\ y.last \in Int
    BY <2>7, AppenderFacts, PartInt DEF PortPlan
  <2>10. urls.save => ~(y.last < HOST)
    BY <2>7, <2>9, PartNumbers
  <2>11. written => NextRecord("path_start", y, rest)
    BY <2>8, <2>9, <2>10 DEF NextRecord, EnterRecord
  <2>. QED
    BY <1>1, <1>3, <1>5, <2>1, <2>6, <2>11, FirstStates, GotoRecord, ReturnRecord
<1>6. CASE override
  <2>1. MaySet(pc, urls, ptr) /\ Editor(urls) /\ SetRecord(pc, urls)
    BY <1>1, <1>6, SettingRecordBlock
  <2>2. /\ ~IsNull(urls.u, HOST) /\ Record(urls.u) /\ Piece(urls.u, HOST) # <<>>
        /\ ~urls.u.inf.file /\ urls.save
    BY <1>1, <2>1, EditorFacts DEF MaySet, SetRecord
  <2>3. PICK l \in Part : CompleteUpTo(urls.u, l)
    BY <2>1, EditorFacts
  <2>4. ~HasOpaquePath(urls.u)
    BY <2>2, <2>3, CompleteFacts
  <2>5. written => Record(y.u)
    BY <1>2, <1>4, <2>1, <2>2, <2>4, PutPortRecord
  <2>. HIDE DEF y, rest
  <2>. QED
    BY <1>1, <1>3, <1>6, <2>2, <2>5, ReturnRecord
<1>. QED  BY <1>5, <1>6

-----------------------------------------------------------------------------
(* File URLs.                                                              *)

LEMMA FileConsistent ==
    ASSUME NEW u, HostConsistent(u), u.inf.file
    PROVE  ~HasUserinfo(u) /\ IsNull(u, PORT)
BY DEF HostConsistent

\* A file URL may have any host.
LEMMA FileWithHost ==
    ASSUME NEW u, NEW v, NEW s, WithHost(u, v, s), u.inf.file,
           ~HasUserinfo(u), IsNull(u, PORT)
    PROVE  Framed(v) /\ HostConsistent(v) /\ v.inf = u.inf
<1>1. HostConsistent(v)
  BY ConsistentHost
<1>. QED  BY <1>1 DEF WithHost

LEMMA OneFileScheme ==
    ASSUME NEW s, NEW r, GetSchemeInfo(s).file, GetSchemeInfo(r).file
    PROVE  GetSchemeInfo(s) = GetSchemeInfo(r)
<1>1. s = <<"file">> /\ r = <<"file">>
  BY DEF GetSchemeInfo, Info, NoInfo
<1>. QED  BY <1>1

\* The blocks that follow when the host of a file URL is written.
LEMMA EnterWithFileHost ==
    ASSUME NEW x, ~x.setter,
           x.save => x.last = HOST /\ Framed(x.u) /\ HostConsistent(x.u) /\ x.u.inf.file,
           NEW rest, NEW state, state \in {"file_slash", "file_host", "path", "path_start"}
    PROVE  NextRecord(state, x, rest)
<1>1. ~(HOST < HOST)
  BY PartNumbers
<1>2. x.save => EnterRecord(state, x, rest)
  BY <1>1 DEF EnterRecord
<1>. QED  BY <1>2 DEF NextRecord

\* The scheme that the file block starts with.
LEMMA FileSchemeRecord ==
    ASSUME Parser(urls), ~HasOpaquePath(urls.u), urls.u.segs = 0,
           Fresh(urls) \/ (SchemeWritten(urls) /\ urls.u.inf.file),
           urls.save => BeforeHost(urls)
    PROVE  LET x == IF url.inf.file THEN urls ELSE AppendScheme(urls, <<"file">>)
           IN x.u.inf.file /\ (x.save => BeforeHost(x))
<1>. DEFINE y == AppendScheme(urls, <<"file">>)
<1>1. CASE SchemeWritten(urls) /\ urls.u.inf.file
  BY <1>1 DEF url
<1>2. CASE Fresh(urls)
  <2>1. ~urls.u.inf.file
    BY <1>2 DEF Fresh, EmptyUrl, NoInfo, Info
  <2>2. <<"file">> \in Text /\ <<"file">> # <<>>
    BY CharAssumption DEF Written, Text
  <2>3. Blank(urls) /\ BeforeHost(urls)
    BY <1>2, FreshBlank, FreshBeforeHost DEF Parser
  <2>4. y.u.inf = GetSchemeInfo(<<"file">>)
    BY <2>2, <2>3, AppendSchemeSound
  <2>5. BeforeHost(y)
    BY <2>2, <2>3, AppendedSchemeBeforeHost
  <2>6. y.u.inf.file
    BY <2>4, SchemeInfoFacts
  <2>. HIDE DEF y
  <2>7. ~url.inf.file
    BY <2>1 DEF url
  <2>. QED  BY <2>5, <2>6, <2>7 DEF y
<1>. QED  BY <1>1, <1>2

LEMMA FileStateRecord ==
    ASSUME FullWork, FileState
    PROVE  WorkRecord'
<1>. DEFINE scheme == IF url.inf.file THEN urls ELSE AppendScheme(urls, <<"file">>)
            x == SetEmptyHost(scheme)
            all == AppendParts(x, base, HOST, QUERY, "keep")
            path == AppendParts(x, base, HOST, PATH, "keep")
            host == AppendParts(x, base, HOST, HOST, "keep")
            shorter == AppendParts(x, base, HOST, PATH, "shorten")
<1>1. pc = "file"
  BY DEF FileState
<1>2. /\ pc \in ParserState /\ MayEnter(pc, urls, ptr) /\ Parser(urls) /\ ~urls.setter
      /\ urls.save => EnterRecord(pc, urls, ptr)
      /\ hasBase => UsableBase(base) /\ Record(base)
  BY <1>1, NotSettingRecord
<1>3. /\ ~HasOpaquePath(urls.u) /\ urls.u.segs = 0
      /\ Fresh(urls) \/ (SchemeWritten(urls) /\ urls.u.inf.file)
  BY <1>1, <1>2 DEF MayEnter
<1>4. urls.save => BeforeHost(urls)
  <2>1. urls.last = SCHEME /\ urls.last < HOST
    BY <1>3, PartNumbers DEF Fresh, SchemeWritten
  <2>. QED  BY <1>2, <2>1 DEF EnterRecord
<1>5. Appender(scheme) /\ SchemeWritten(scheme) /\ scheme.u.segs = 0
  BY <1>2, <1>3, FileScheme
<1>6. scheme.u.inf.file /\ (scheme.save => BeforeHost(scheme))
  BY <1>2, <1>3, <1>4, FileSchemeRecord
<1>7. \/ ptr # <<>> /\ Goto("file_slash", x, Tail(ptr))
      \/ Goto("path", x, ptr)
      \/ /\ hasBase /\ base.inf.file
         /\ \/ Return("ok", all)
            \/ ptr # <<>> /\ Goto("query", path, Tail(ptr))
            \/ ptr # <<>> /\ Goto("fragment", all, Tail(ptr))
            \/ Goto("path", host, ptr)
            \/ Goto("path", shorter, ptr)
  BY DEF FileState, scheme, x, all, path, host, shorter, StartsWith
<1>. HIDE DEF scheme
<1>8. ~HasOpaquePath(scheme.u) /\ scheme.last < HOST_START /\ scheme.last = SCHEME
  BY <1>5, PartNumbers DEF SchemeWritten
<1>9. HostPlan(scheme, x) /\ Appender(x) /\ x.last = HOST /\ IsEmpty(x.u, HOST)
  BY <1>5, <1>8, SetEmptyHostSound
<1>10. scheme.save => WithHost(scheme.u, x.u, <<>>)
  <2>1. scheme.save => MayHost(scheme)
    BY <1>5, <1>6, <1>8 DEF MayHost
  <2>2. ~Editor(scheme)
    BY <1>5 DEF Appender, Editor
  <2>. QED  BY <2>1, <2>2, SetEmptyHostRecord
<1>. HIDE DEF x
<1>11. x.save => Framed(x.u) /\ HostConsistent(x.u)
  <2>1. SUFFICES ASSUME x.save PROVE Framed(x.u) /\ HostConsistent(x.u)
    OBVIOUS
  <2>2. scheme.save
    BY <1>9, <2>1 DEF HostPlan
  <2>3. ~HasUserinfo(scheme.u) /\ IsNull(scheme.u, PORT)
    BY <1>5, <1>6, <1>8, <2>2, BeforeHostFacts
  <2>. QED  BY <1>6, <1>10, <2>2, <2>3, FileWithHost
<1>12. /\ ~x.setter /\ x.u.inf.file /\ x.u.inf = scheme.u.inf
       /\ ~IsNull(x.u, HOST) /\ ~HasOpaquePath(x.u) /\ x.u.segs = 0
  <2>1. ~IsNull(x.u, HOST) /\ ~HasOpaquePath(x.u)
    BY <1>8, <1>9, HostPlanFacts
  <2>2. ~x.setter
    BY <1>9, AppenderFacts
  <2>. QED  BY <1>5, <1>6, <1>9, <2>1, <2>2 DEF HostPlan
<1>13. \A s : NextRecord("file_slash", x, s) /\ NextRecord("path", x, s)
  BY <1>9, <1>11, <1>12, EnterWithFileHost
<1>14. ASSUME hasBase, base.inf.file
       PROVE  /\ all.setter \/ all.save => Record(all.u)
              /\ \A s : NextRecord("query", path, s)
              /\ \A s : NextRecord("fragment", all, s)
              /\ \A s : NextRecord("path", host, s)
              /\ \A s : NextRecord("path", shorter, s)
  <2>1. /\ UsableBase(base) /\ Record(base) /\ base \in Url /\ Complete(base)
        /\ ~HasOpaquePath(base) /\ base.inf.special
    BY <1>2, <1>14 DEF UsableBase
  <2>2. /\ MayAppend(x, base, HOST, QUERY) /\ MayAppend(x, base, HOST, PATH)
        /\ MayAppend(x, base, HOST, HOST)
    BY <1>9, <1>12, <2>1 DEF MayAppend
  <2>3. x.u.inf = base.inf
    <3>1. x.u.inf = GetSchemeInfo(View(x.u, SCHEME))
      BY <1>9, AppenderFacts DEF Ordered
    <3>2. base.inf = GetSchemeInfo(View(base, SCHEME))
      BY <2>1 DEF UsableBase
    <3>. QED  BY <1>12, <1>14, <3>1, <3>2, OneFileScheme
  <2>4. x.save => Record(base) /\ MayCopyFrame(x, base, HOST)
    BY <1>11, <1>12, <1>14, <2>1 DEF MayCopyFrame
  <2>5. ~all.setter /\ (all.save => Record(all.u))
        /\ \A s : all.save => EnterRecord("fragment", all, s)
    BY <2>1, <2>2, <2>3, <2>4, CopiedEnters
  <2>6. ~path.setter /\ \A s : path.save => EnterRecord("query", path, s)
    BY <2>1, <2>2, <2>3, <2>4, CopiedEnters
  <2>7. ~host.setter /\ \A s : host.save => EnterRecord("path", host, s)
    BY <2>1, <2>2, <2>3, <2>4, CopiedEnters
  <2>8. ~shorter.setter /\ \A s : shorter.save => EnterRecord("path", shorter, s)
    BY <2>1, <2>2, <2>3, <2>4, CopiedEnters
  <2>. HIDE DEF all, path, host, shorter
  <2>. QED  BY <2>5, <2>6, <2>7, <2>8 DEF NextRecord
<1>. HIDE DEF all, path, host, shorter
<1>15. CASE (ptr # <<>> /\ Goto("file_slash", x, Tail(ptr))) \/ Goto("path", x, ptr)
  BY <1>2, <1>13, <1>15, FirstStates, GotoRecord
<1>16. CASE hasBase /\ base.inf.file /\ Return("ok", all)
  BY <1>2, <1>14, <1>16, ReturnRecord
<1>17. CASE hasBase /\ base.inf.file /\ (Goto("path", host, ptr) \/ Goto("path", shorter, ptr))
  BY <1>2, <1>14, <1>17, FirstStates, GotoRecord
<1>18. CASE /\ hasBase /\ base.inf.file
            /\ Goto("query", path, Tail(ptr)) \/ Goto("fragment", all, Tail(ptr))
  BY <1>2, <1>14, <1>18, FirstStates, GotoRecord
<1>. QED
  BY <1>7, <1>15, <1>16, <1>17, <1>18

LEMMA FileSlashRecord ==
    ASSUME FullWork, FileSlashState
    PROVE  WorkRecord'
<1>. DEFINE x == AppendParts(urls, base, HOST, HOST, "keep")
            y == PutSegment(x, PathFirst2(base))
<1>1. pc = "file_slash"
  BY DEF FileSlashState
<1>2. /\ pc \in ParserState /\ MayEnter(pc, urls, ptr) /\ Parser(urls) /\ ~urls.setter
      /\ urls.save => EnterRecord(pc, urls, ptr)
      /\ hasBase => UsableBase(base) /\ Record(base)
  BY <1>1, NotSettingRecord
<1>3. /\ Appending(urls) /\ HostWritten(urls) /\ urls.last = HOST
      /\ IsEmpty(urls.u, HOST) /\ ~HasOpaquePath(urls.u) /\ urls.u.segs = 0
  BY <1>1, <1>2 DEF MayEnter
<1>4. Appender(urls) /\ ~IsNull(urls.u, HOST)
  BY <1>2, <1>3 DEF Parser, Appender, HostWritten
<1>5. urls.save => Framed(urls.u) /\ HostConsistent(urls.u) /\ urls.u.inf.file
  <2>1. ~(HOST < HOST)
    BY PartNumbers
  <2>. QED  BY <1>1, <1>2, <1>3, <2>1 DEF EnterRecord
<1>6. \A s : NextRecord("file_host", urls, s) /\ NextRecord("path", urls, s)
  BY <1>2, <1>3, <1>5, EnterWithFileHost
<1>7. ASSUME hasBase, base.inf.file, urls.save
      PROVE  NextRecord("path", x, ptr) /\ NextRecord("path", y, ptr)
  <2>1. /\ UsableBase(base) /\ Record(base) /\ base \in Url /\ Complete(base)
        /\ ~HasOpaquePath(base) /\ base.inf.special
    BY <1>2, <1>7 DEF UsableBase
  <2>2. MayAppend(urls, base, HOST, HOST)
    BY <1>3, <1>4, <2>1 DEF MayAppend
  <2>3. AppendedParts(urls, x, base, HOST)
    BY <2>2, AppendPartsSound
  <2>4. urls.u.inf = base.inf
    <3>1. urls.u.inf = GetSchemeInfo(View(urls.u, SCHEME))
      BY <1>4, AppenderFacts DEF Ordered
    <3>2. base.inf = GetSchemeInfo(View(base, SCHEME))
      BY <2>1 DEF UsableBase
    <3>. QED  BY <1>5, <1>7, <3>1, <3>2, OneFileScheme
  <2>5. MayCopyFrame(urls, base, HOST)
    BY <1>4, <1>5, <1>7 DEF MayCopyFrame
  <2>6. Opened(x) /\ x.last >= HOST
    BY <1>7, <2>1, <2>2, <2>4, <2>5, CopiedRecord
  <2>. HIDE DEF x
  <2>7. ~x.setter /\ x.last \in Int
    BY <2>3, AppenderFacts, PartInt DEF AppendedParts
  <2>8. NextRecord("path", x, ptr)
    BY <2>6, <2>7, EnterOpened DEF NextRecord
  <2>9. Pathing(x)
    <3>1. Appender(x) /\ ~HasOpaquePath(x.u) /\ x.last =< HOST
          /\ (x.u.segs > 0 => x.last >= PATH)
      BY <2>1, <2>3 DEF AppendedParts
    <3>2. x.last =< PATH /\ ~(x.last >= PATH)
      BY <2>7, <3>1, PartNumbers
    <3>. QED  BY <3>1, <3>2 DEF Pathing
  <2>10. PathFirst2(base) \in Text
    <3>1. PICK l \in Part : CompleteUpTo(base, l)
      BY <2>1 DEF Complete
    <3>. QED  BY <2>1, <3>1, CompleteFacts, PathFirst2Text
  <2>11. Pathing(y) /\ y.last = PATH
    BY <2>9, <2>10, SegmentWritten
  <2>12. Framed(y.u) /\ HostConsistent(y.u)
    BY <2>6, <2>9, <2>10, SegmentRecord
  <2>. HIDE DEF y
  <2>13. ~(PATH < HOST) /\ ~y.setter
    <3>1. Appender(y)
      BY <2>11 DEF Pathing
    <3>2. ~y.setter
      BY <3>1, AppenderFacts
    <3>. QED  BY <3>2, PartNumbers
  <2>14. Opened(y)
    BY <2>11, <2>12, <2>13 DEF Opened
  <2>. QED  BY <2>8, <2>13, <2>14, EnterOpened DEF NextRecord
<1>8. \/ ptr # <<>> /\ Goto("file_host", urls, Tail(ptr))
      \/ Goto("path", urls, ptr)
      \/ hasBase /\ base.inf.file /\ urls.save /\ Goto("path", x, ptr)
      \/ hasBase /\ base.inf.file /\ urls.save /\ Goto("path", y, ptr)
  BY DEF FileSlashState, x, y
<1>. HIDE DEF x, y
<1>. QED  BY <1>2, <1>6, <1>7, <1>8, FirstStates, GotoRecord

LEMMA FileHostStateRecord ==
    ASSUME FullWork, FileHostState
    PROVE  WorkRecord'
<1>. DEFINE end == FindFirst(ptr, SpecialAuthorityEnd)
            host == Before(ptr, end)
            rest == From(ptr, end)
            result == ParseHostResult(host, ~special)
            parsed == ParseHostOutput(urls, host, ~special)
            noHost == SetEmptyHost(urls)
            local == EmptyHost(parsed)
            found == result = "ok" /\ urls.save
<1>1. pc = "file_host" /\ pc \in ParserState /\ ptr \in Text
  BY DEF FileHostState, ParserState, FullWork, WorkInv, WorkShape, TypeOK
<1>2. host \in Text
  BY <1>1, FromIsText
<1>3. \/ ~override /\ Goto("path", urls, ptr)
      \/ ~found /\ Return(result, parsed)
      \/ override /\ Return("ok", noHost)
      \/ override /\ found /\ Return("ok", local)
      \/ override /\ found /\ Return("ok", parsed)
      \/ ~override /\ Goto("path_start", noHost, rest)
      \/ ~override /\ found /\ Goto("path_start", local, rest)
      \/ ~override /\ found /\ Goto("path_start", parsed, rest)
  BY DEF FileHostState, end, host, rest, result, parsed, noHost, local, found
<1>4. MayHost(urls) =>
         \/ parsed = urls /\ ~found
         \/ \E text \in Text : WithHost(urls.u, parsed.u, text)
  BY <1>2, ParsedHostRecord DEF found
<1>5. CASE ~override
  <2>1. /\ MayEnter(pc, urls, ptr) /\ Parser(urls) /\ ~urls.setter
        /\ urls.save => EnterRecord(pc, urls, ptr)
    BY <1>1, <1>5, ParsingRecordBlock
  <2>2. /\ Appending(urls) /\ HostWritten(urls) /\ urls.last = HOST
        /\ IsEmpty(urls.u, HOST) /\ ~HasOpaquePath(urls.u) /\ urls.u.segs = 0
    BY <1>1, <2>1 DEF MayEnter
  <2>3. Appender(urls) /\ ~IsNull(urls.u, HOST) /\ ~Editor(urls)
    BY <2>1, <2>2 DEF Parser, Appender, HostWritten, Editor
  <2>4. urls.save => Framed(urls.u) /\ HostConsistent(urls.u) /\ urls.u.inf.file
    <3>1. ~(HOST < HOST)
      BY PartNumbers
    <3>. QED  BY <1>1, <2>1, <2>2, <3>1 DEF EnterRecord
  <2>5. urls.save => ~HasUserinfo(urls.u) /\ IsNull(urls.u, PORT)
    BY <2>4, FileConsistent
  <2>6. urls.save => MayHost(urls)
    <3>1. Readable(urls.u) /\ HOST \in Part
      BY <2>3, WrittenIsReadable, PartNumbers
    <3>2. Piece(urls.u, HOST) = <<>>
      BY <2>2, <3>1, ReadPieces
    <3>. QED  BY <2>2, <2>3, <2>4, <3>2 DEF MayHost
  <2>7. /\ HostParsed(urls, parsed)
        /\ found => ~IsNull(parsed.u, HOST) /\ (Appender(urls) => parsed.last = HOST)
    BY <1>2, <2>2, <2>3, ParseHostOutputSound
  <2>8. HostPlan(urls, noHost) /\ Appender(noHost) /\ noHost.last = HOST
    BY <2>2, <2>3, SetEmptyHostSound
  <2>9. urls.save => WithHost(urls.u, noHost.u, <<>>)
    BY <2>3, <2>6, SetEmptyHostRecord
  <2>. HIDE DEF parsed, noHost, rest
  <2>10. \A s : NextRecord("path_start", noHost, s)
    <3>1. ~noHost.setter /\ noHost.save = urls.save
      BY <2>8, AppenderFacts DEF HostPlan
    <3>2. urls.save => Framed(noHost.u) /\ HostConsistent(noHost.u) /\ noHost.u.inf.file
      BY <2>4, <2>5, <2>9, FileWithHost
    <3>. QED  BY <2>8, <3>1, <3>2, EnterWithFileHost
  <2>11. /\ Appender(parsed) /\ ~HasOpaquePath(parsed.u) /\ parsed.save = urls.save
         /\ ~parsed.setter
         /\ found => ~IsNull(parsed.u, HOST) /\ parsed.last = HOST
    BY <2>3, <2>7, AppenderFacts DEF HostParsed
  <2>12. found => Framed(parsed.u) /\ HostConsistent(parsed.u) /\ parsed.u.inf.file
    <3>. HIDE DEF result
    <3>1. SUFFICES ASSUME result = "ok", urls.save
                   PROVE Framed(parsed.u) /\ HostConsistent(parsed.u) /\ parsed.u.inf.file
      OBVIOUS
    <3>2. PICK text \in Text : WithHost(urls.u, parsed.u, text)
      BY <1>4, <2>6, <3>1
    <3>. QED  BY <2>4, <2>5, <3>1, <3>2, FileWithHost
  <2>13. found => HostPlan(parsed, local) /\ Appender(local) /\ local.last = HOST
    BY <2>11, EmptyHostSound
  <2>14. found => WithHost(parsed.u, local.u, <<>>)
    BY <2>11, <2>12, EmptyHostRecord
  <2>. HIDE DEF local
  <2>15. found => \A s : NextRecord("path_start", local, s)
    <3>1. SUFFICES ASSUME found PROVE \A s : NextRecord("path_start", local, s)
      OBVIOUS
    <3>2. ~HasUserinfo(parsed.u) /\ IsNull(parsed.u, PORT)
      BY <2>12, <3>1, FileConsistent
    <3>3. Framed(local.u) /\ HostConsistent(local.u) /\ local.u.inf.file
      BY <2>12, <2>14, <3>1, <3>2, FileWithHost
    <3>4. ~local.setter
      BY <2>13, <3>1, AppenderFacts
    <3>. QED  BY <2>13, <3>1, <3>3, <3>4, EnterWithFileHost
  <2>16. found => \A s : NextRecord("path_start", parsed, s)
    BY <2>11, <2>12, EnterWithFileHost
  <2>17. \A s : NextRecord("path", urls, s)
    BY <2>1, <2>2, <2>4, EnterWithFileHost
  <2>18. ~found => ~(parsed.setter \/ (parsed.save /\ result = "ok"))
    BY <2>11
  <2>. HIDE DEF found, result
  <2>19. CASE ~found /\ Return(result, parsed)
    BY <1>1, <2>18, <2>19, ReturnRecord
  <2>20. CASE Goto("path", urls, ptr)
    BY <1>1, <2>17, <2>20, FirstStates, GotoRecord
  <2>21. CASE Goto("path_start", noHost, rest)
    BY <1>1, <2>10, <2>21, FirstStates, GotoRecord
  <2>22. CASE found /\ (Goto("path_start", local, rest) \/ Goto("path_start", parsed, rest))
    BY <1>1, <2>15, <2>16, <2>22, FirstStates, GotoRecord
  <2>. QED  BY <1>3, <1>5, <2>19, <2>20, <2>21, <2>22
<1>6. CASE override
  <2>1. MaySet(pc, urls, ptr) /\ Editor(urls) /\ SetRecord(pc, urls)
    BY <1>1, <1>6, SettingRecordBlock
  <2>2. /\ ~HasOpaquePath(urls.u) /\ Record(urls.u) /\ urls.u.inf.file
        /\ Framed(urls.u) /\ HostConsistent(urls.u) /\ PathConsistent(urls.u)
    BY <1>1, <2>1 DEF MaySet, SetRecord, Record
  <2>3. MayHost(urls)
    BY <2>1, <2>2 DEF MayHost
  <2>4. HostParsed(urls, parsed) /\ (found => ~IsNull(parsed.u, HOST))
    BY <1>2, <2>1, <2>2, ParseHostOutputSound
  <2>5. ~HasUserinfo(urls.u) /\ IsNull(urls.u, PORT)
    BY <2>2, FileConsistent
  <2>6. ~IsNull(urls.u, HOST)
    <3>1. PICK l \in Part : CompleteUpTo(urls.u, l)
      BY <2>1, EditorFacts
    <3>2. urls.u.inf.special
      BY <2>2, <3>1, CompleteFacts, InfoOfOrdered
    <3>. QED  BY <2>2, <3>2 DEF HostConsistent
  <2>7. Record(noHost.u)
    <3>1. WithHost(urls.u, noHost.u, <<>>)
      BY <2>3, <2>6, SetEmptyHostRecord
    <3>. HIDE DEF noHost
    <3>. QED  BY <2>2, <2>5, <3>1, RecordWithHost
  <2>. HIDE DEF parsed, noHost
  <2>8. Record(parsed.u)
    <3>1. CASE \E text \in Text : WithHost(urls.u, parsed.u, text)
      BY <2>2, <2>5, <3>1, RecordWithHost
    <3>. QED  BY <1>4, <2>2, <2>3, <3>1
  <2>9. Editor(parsed) /\ ~HasOpaquePath(parsed.u) /\ parsed.u.inf = urls.u.inf
    BY <2>1, <2>4 DEF HostParsed
  <2>10. found => Record(local.u)
    <3>1. SUFFICES ASSUME found PROVE Record(local.u)
      OBVIOUS
    <3>2. Framed(parsed.u) /\ HostConsistent(parsed.u)
      BY <2>8 DEF Record
    <3>3. WithHost(parsed.u, local.u, <<>>)
      BY <2>4, <2>9, <3>1, <3>2, EmptyHostRecord
    <3>4. ~HasUserinfo(parsed.u) /\ IsNull(parsed.u, PORT) /\ parsed.u.inf.file
      BY <2>2, <2>9, <3>2, FileConsistent
    <3>. HIDE DEF local
    <3>. QED  BY <2>8, <3>3, <3>4, RecordWithHost
  <2>. HIDE DEF local, found, result
  <2>. QED  BY <1>1, <1>3, <1>6, <2>7, <2>8, <2>10, ReturnRecord
<1>. QED  BY <1>5, <1>6

-----------------------------------------------------------------------------
(* Path, query and fragment.                                               *)

LEMMA NothingToSaveRecord ==
    ASSUME FullWork, NothingToSave
    PROVE  WorkRecord'
<1>1. pc \in ParserState /\ ~urls.save /\ Return("ok", urls)
  BY DEF NothingToSave, PathOnward, ParserState
<1>2. ~urls.setter
  <2>1. CASE override
    <3>1. Editor(urls)
      BY <1>1, <2>1, SettingRecordBlock
    <3>2. urls.save = TRUE
      BY <3>1, EditorFacts
    <3>. QED  BY <1>1, <3>2
  <2>2. CASE ~override
    BY <1>1, <2>2, ParsingRecordBlock
  <2>. QED  BY <2>1, <2>2
<1>. QED  BY <1>1, <1>2, ReturnRecord

\* A URL with a host has no prefix before its path.
LEMMA HostNeedsNoPrefix ==
    ASSUME NEW u, Framed(u), ~IsNull(u, HOST)
    PROVE  PrefixFits(u)
<1>1. Piece(u, PATH_PREFIX) = <<>>
  BY FramedFacts
<1>. QED  BY <1>1 DEF PrefixFits, NeedsPathPrefix

LEMMA SegmentInBuffer ==
    ASSUME NEW x, Collecting(x), NEW s \in Text
    PROVE  PutSegment(x, s).buf # <<>>
<1>1. x \in Serializer /\ x.setter
  BY EditorFacts DEF Collecting
<1>2. x.buf \in Text
  BY <1>1 DEF Serializer
<1>3. <<"/">> \in Text
  BY CharAssumption DEF Written, Text
<1>4. PutSegment(x, s).buf = x.buf \o <<"/">> \o s
  BY <1>1 DEF PutSegment, Serializer
<1>5. Len(x.buf \o <<"/">> \o s) = Len(x.buf) + 1 + Len(s)
  BY <1>2, <1>3 DEF Text
<1>6. Len(x.buf) \in Nat /\ Len(s) \in Nat
  BY <1>2 DEF Text
<1>7. Len(PutSegment(x, s).buf) # 0
  BY <1>4, <1>5, <1>6
<1>. QED  BY <1>7

LEMMA PathStartRecord ==
    ASSUME FullWork, PathStartState
    PROVE  WorkRecord'
<1>. DEFINE y == CommitPath(urls)
            x == PutSegment(urls, <<>>)
            z == CommitPath(x)
<1>1. pc = "path_start" /\ pc \in ParserState /\ urls.save
  BY DEF PathStartState, ParserState
<1>2. \/ Goto("path", urls, ptr)
      \/ ptr # <<>> /\ Goto("path", urls, Tail(ptr))
      \/ ~special /\ ~(override /\ IsNull(url, HOST)) /\ Return("ok", y)
      \/ override /\ Return("ok", z)
      \/ ~override /\ ~special /\ Goto("query", urls, Tail(ptr))
      \/ ~override /\ ~special /\ Goto("fragment", urls, Tail(ptr))
  BY DEF PathStartState, y, x, z, PutEmptySegment
<1>3. special = urls.u.inf.special /\ url = urls.u
  BY DEF special, url
<1>4. CASE ~override
  <2>1. /\ MayEnter(pc, urls, ptr) /\ Parser(urls) /\ ~urls.setter
        /\ EnterRecord(pc, urls, ptr)
    BY <1>1, <1>4, ParsingRecordBlock
  <2>2. /\ Appending(urls) /\ HostWritten(urls) /\ ~IsNull(urls.u, HOST)
        /\ ~HasOpaquePath(urls.u)
    BY <1>1, <2>1 DEF MayEnter, HostWritten
  <2>3. Appender(urls)
    BY <2>1, <2>2 DEF Parser, Appender
  <2>4. ~(urls.last < HOST)
    <3>1. urls.last \in Part
      BY <2>3, AppenderFacts
    <3>2. urls.last \in Int
      BY <3>1, PartInt
    <3>. QED  BY <2>2, <3>2, PartNumbers DEF HostWritten
  <2>5. Framed(urls.u) /\ HostConsistent(urls.u) /\ PrefixFits(urls.u)
    BY <1>1, <2>1, <2>2, <2>4, HostNeedsNoPrefix DEF EnterRecord
  <2>6. Opened(urls)
    BY <2>4, <2>5 DEF Opened
  <2>7. \A s : NextRecord("path", urls, s)
    BY <2>1, <2>6, EnterOpened DEF NextRecord
  <2>8. ~special => PathConsistent(urls.u)
    BY <1>3, <2>2 DEF PathConsistent
  <2>9. ~special => Record(y.u)
    BY <2>2, <2>3, <2>5, <2>8, AppenderCommitRecord
  <2>10. ~special => Record(urls.u)
    BY <2>5, <2>8 DEF Record
  <2>11. ~special => \A s : NextRecord("query", urls, s) /\ NextRecord("fragment", urls, s)
    <3>1. urls.last \in Part /\ urls.last >= HOST
      BY <2>2, <2>3, AppenderFacts DEF HostWritten
    <3>. QED  BY <2>1, <2>10, <3>1, EnterWithRecord DEF NextRecord
  <2>. HIDE DEF y, z
  <2>12. CASE \E s : Goto("path", urls, s)
    BY <1>1, <2>7, <2>12, FirstStates, GotoRecord
  <2>13. CASE ~special /\ Return("ok", y)
    BY <1>1, <2>9, <2>13, ReturnRecord
  <2>14. CASE ~special /\ \E s : Goto("query", urls, s) \/ Goto("fragment", urls, s)
    BY <1>1, <2>11, <2>14, FirstStates, GotoRecord
  <2>. QED  BY <1>2, <1>4, <2>12, <2>13, <2>14
<1>5. CASE override
  <2>1. MaySet(pc, urls, ptr) /\ Editor(urls) /\ SetRecord(pc, urls) /\ urls.setter
    BY <1>1, <1>5, SettingRecordBlock
  <2>2. Collecting(urls) /\ Record(urls.u) /\ ~HasOpaquePath(urls.u)
    BY <1>1, <2>1 DEF MaySet, Collecting, SetRecord
  <2>3. \A s : NextRecord("path", urls, s)
    BY <2>1, <2>2 DEF NextRecord, SetRecord
  <2>4. ~special /\ ~IsNull(url, HOST) => Record(y.u)
    BY <1>3, <2>1, <2>2, EditorCommitRecord
  <2>5. Record(z.u)
    <3>1. <<>> \in Text
      BY DEF Text
    <3>2. Collecting(x) /\ x.u = urls.u /\ x.buf # <<>>
      BY <2>2, <3>1, SegmentCollected, SegmentInBuffer
    <3>. HIDE DEF x
    <3>. QED  BY <2>2, <3>2, EditorCommitRecord DEF Collecting
  <2>. HIDE DEF y, z
  <2>6. CASE \E s : Goto("path", urls, s)
    BY <1>1, <2>3, <2>6, FirstStates, GotoRecord
  <2>7. CASE ~special /\ ~IsNull(url, HOST) /\ Return("ok", y)
    BY <1>1, <2>4, <2>7, ReturnRecord
  <2>8. CASE Return("ok", z)
    BY <1>1, <2>5, <2>8, ReturnRecord
  <2>. QED  BY <1>2, <1>5, <2>6, <2>7, <2>8
<1>. QED  BY <1>4, <1>5

\* What a block in the path leads to when segments are collected.
LEMMA CollectedEnters ==
    ASSUME NEW x, Collecting(x), Record(x.u), NEW rest
    PROVE  /\ NextRecord("path", x, rest)
           /\ x.buf # <<>> => NextRecord("path_end", x, rest)
<1>1. x.setter
  BY EditorFacts DEF Collecting
<1>. QED  BY <1>1 DEF NextRecord, SetRecord


LEMMA PathStateRecord ==
    ASSUME FullWork, PathState
    PROVE  WorkRecord'
<1>. DEFINE path == Before(ptr, EndOfPath)
            end == FindFirst(path, IF special THEN Slash ELSE {"/"})
            segment == Before(path, end)
            isLast == end > Len(path)
            isDrive == url.inf.file /\ PathIsEmpty(urls) /\ IsWindowsDrive(segment)
            text == IF isDrive THEN <<segment[1], ":">> ELSE Encode(segment, PathSet)
            short == ShortenPath(urls)
            s0 == PutSegment(short, <<>>)
            u0 == PutSegment(urls, <<>>)
            u1 == PutSegment(urls, text)
            rest0 == From(ptr, end)
            rest1 == From(ptr, end + 1)
<1>1. pc = "path" /\ pc \in ParserState /\ ptr \in Text /\ urls.save
  BY DEF PathState, ParserState, FullWork, WorkInv, WorkShape, TypeOK
<1>2. path \in Text
  <2>1. Len(ptr) \in Nat
    BY <1>1 DEF Text
  <2>2. EndOfPath \in 1 .. Len(ptr) + 1
    BY <1>1, <2>1, FindFirstRange DEF EndOfPath
  <2>. QED  BY <1>1, <2>2, BeforeText
<1>3. end \in 1 .. Len(path) + 1 /\ segment \in Text
  BY <1>2, FindFirstRange, BeforeText
<1>4. text \in Text /\ <<>> \in Text
  <2>. HIDE DEF segment
  <2>1. Encode(segment, PathSet) \in Text
    BY <1>3, EncodeText
  <2>2. isDrive => <<segment[1], ":">> \in Text
    <3>1. isDrive => segment[1] \in Char
      <4>1. isDrive => Len(segment) = 2
        BY DEF IsWindowsDrive
      <4>2. segment \in Seq(Char)
        BY <1>3 DEF Text
      <4>3. Len(segment) = 2 => segment[1] \in Char
        <5>. HIDE DEF isDrive, text, u1
        <5>. QED  BY <4>2
      <4>. QED  BY <4>1, <4>3
    <3>2. ":" \in Char
      BY CharAssumption DEF Written
    <3>. QED  BY <3>1, <3>2 DEF Text
  <2>. QED  BY <2>1, <2>2 DEF Text
<1>5. \/ /\ isLast
         /\ \/ Goto("path_end", s0, rest0) \/ Goto("path_end", u0, rest0)
            \/ Goto("path_end", u1, rest0)
      \/ /\ ~isLast
         /\ \/ Goto("path", short, rest1) \/ Goto("path", urls, rest1)
            \/ Goto("path", u1, rest1)
  BY DEF PathState, path, end, segment, isLast, isDrive, text, short, s0, u0, u1,
         rest0, rest1, PutEmptySegment
<1>. HIDE DEF text, rest0, rest1, isLast
<1>6. /\ NextRecord("path", short, rest1) /\ NextRecord("path", urls, rest1)
      /\ NextRecord("path", u1, rest1) /\ NextRecord("path_end", s0, rest0)
      /\ NextRecord("path_end", u0, rest0) /\ NextRecord("path_end", u1, rest0)
  <2>1. CASE ~override
    <3>1. /\ MayEnter(pc, urls, ptr) /\ Parser(urls) /\ ~urls.setter
          /\ EnterRecord(pc, urls, ptr)
      BY <1>1, <2>1, ParsingRecordBlock
    <3>2. Pathing(urls)
      BY <1>1, <3>1 DEF MayEnter, Parser, Appender, Pathing
    <3>3. Opened(urls)
      BY <1>1, <3>1 DEF EnterRecord, Opened
    <3>4. Pathing(short) /\ Opened(short)
      BY <3>2, <3>3, AppenderShortenPath, ShortenedRecord
    <3>. HIDE DEF short
    <3>5. ASSUME NEW x, Pathing(x), Opened(x), NEW s \in Text, NEW rest
          PROVE  /\ NextRecord("path", PutSegment(x, s), rest)
                 /\ NextRecord("path_end", PutSegment(x, s), rest)
      <4>. DEFINE y == PutSegment(x, s)
      <4>1. Pathing(y) /\ y.last = PATH
        BY <3>5, SegmentWritten
      <4>2. Framed(y.u) /\ HostConsistent(y.u) /\ Piece(y.u, PATH) # <<>>
        BY <3>5, SegmentRecord
      <4>. HIDE DEF y
      <4>3. ~y.setter
        BY <4>1, AppenderFacts DEF Pathing
      <4>4. ~(y.last < HOST)
        BY <4>1, PartNumbers
      <4>5. EnterRecord("path", y, rest) /\ EnterRecord("path_end", y, rest)
        BY <4>2, <4>4 DEF EnterRecord
      <4>6. NextRecord("path", y, rest) /\ NextRecord("path_end", y, rest)
        BY <4>3, <4>5 DEF NextRecord
      <4>. QED  BY <4>6 DEF y
    <3>6. ASSUME NEW x, Pathing(x), Opened(x), NEW rest
          PROVE  NextRecord("path", x, rest)
      <4>1. ~x.setter
        BY <3>6, AppenderFacts DEF Pathing
      <4>. QED  BY <3>6, <4>1, EnterOpened DEF NextRecord
    <3>. QED  BY <1>4, <3>2, <3>3, <3>4, <3>5, <3>6
  <2>2. CASE override
    <3>1. MaySet(pc, urls, ptr) /\ Editor(urls) /\ SetRecord(pc, urls)
      BY <1>1, <2>2, SettingRecordBlock
    <3>2. Collecting(urls) /\ Record(urls.u)
      BY <1>1, <3>1 DEF MaySet, Collecting, SetRecord
    <3>3. Collecting(short) /\ Record(short.u)
      BY <3>2, CollectedShortenPath
    <3>. HIDE DEF short
    <3>4. /\ Collecting(s0) /\ s0.buf # <<>> /\ Record(s0.u)
          /\ Collecting(u0) /\ u0.buf # <<>> /\ Record(u0.u)
          /\ Collecting(u1) /\ u1.buf # <<>> /\ Record(u1.u)
      BY <1>4, <3>2, <3>3, SegmentCollected, SegmentInBuffer
    <3>. HIDE DEF s0, u0, u1
    <3>. QED  BY <3>2, <3>3, <3>4, CollectedEnters
  <2>. QED  BY <2>1, <2>2
<1>. HIDE DEF short, s0, u0, u1
<1>. QED  BY <1>1, <1>5, <1>6, FirstStates, GotoRecord

LEMMA PathEndRecord ==
    ASSUME FullWork, PathEndState
    PROVE  WorkRecord'
<1>. DEFINE y == CommitPath(urls)
<1>1. pc = "path_end" /\ pc \in ParserState
  BY DEF PathEndState, ParserState
<1>2. \/ Return("ok", y)
      \/ ptr # <<>> /\ Goto("query", y, Tail(ptr))
      \/ ptr # <<>> /\ Goto("fragment", y, Tail(ptr))
  BY DEF PathEndState, y
<1>3. CASE ~override
  <2>1. /\ MayEnter(pc, urls, ptr) /\ Parser(urls)
        /\ urls.save => EnterRecord(pc, urls, ptr)
    BY <1>1, <1>3, ParsingRecordBlock
  <2>2. Appending(urls) /\ urls.last = PATH /\ ~HasOpaquePath(urls.u) /\ urls.save
    BY <1>1, <2>1 DEF MayEnter
  <2>3. Appender(urls)
    BY <2>1, <2>2 DEF Parser, Appender
  <2>4. ~(PATH < HOST) /\ PATH >= HOST /\ PATH \in Part
    BY PartNumbers
  <2>5. Framed(urls.u) /\ HostConsistent(urls.u) /\ PathConsistent(urls.u)
    BY <1>1, <2>1, <2>2, <2>4 DEF EnterRecord, PathConsistent
  <2>6. Appender(y) /\ y.last = PATH
    BY <2>2, <2>3, AppenderCommitPath
  <2>7. Record(y.u)
    BY <2>2, <2>3, <2>5, AppenderCommitRecord
  <2>. HIDE DEF y
  <2>8. ~y.setter /\ \A s : EnterRecord("query", y, s) /\ EnterRecord("fragment", y, s)
    BY <2>4, <2>6, <2>7, AppenderFacts, EnterWithRecord
  <2>9. \A s : NextRecord("query", y, s) /\ NextRecord("fragment", y, s)
    BY <2>8 DEF NextRecord
  <2>. QED  BY <1>1, <1>2, <2>7, <2>9, FirstStates, GotoRecord, ReturnRecord
<1>4. CASE override
  <2>1. MaySet(pc, urls, ptr) /\ Editor(urls) /\ SetRecord(pc, urls)
    BY <1>1, <1>4, SettingRecordBlock
  <2>2. Record(urls.u) /\ urls.buf # <<>> /\ ~HasOpaquePath(urls.u)
    BY <1>1, <2>1 DEF MaySet, SetRecord
  <2>3. Editor(y) /\ Record(y.u)
    BY <2>1, <2>2, EditorCommitPath, EditorCommitRecord
  <2>. HIDE DEF y
  <2>4. \A s : NextRecord("query", y, s) /\ NextRecord("fragment", y, s)
    BY <2>3, EditorFacts DEF NextRecord, SetRecord
  <2>. QED  BY <1>1, <1>2, <2>3, <2>4, FirstStates, GotoRecord, ReturnRecord
<1>. QED  BY <1>3, <1>4

LEMMA OpaquePathRecord ==
    ASSUME FullWork, OpaquePathState
    PROVE  WorkRecord'
<1>. DEFINE end == FindFirst(ptr, {"?", "#"})
            text == Encode(Before(ptr, end), C0ControlSet)
            y == PutPathString(urls, text)
            rest == From(ptr, end + 1)
<1>1. pc = "opaque_path" /\ urls.save
  BY DEF OpaquePathState
<1>2. /\ pc \in ParserState /\ MayEnter(pc, urls, ptr) /\ ptr \in Text /\ Parser(urls)
      /\ EnterRecord(pc, urls, ptr)
  BY <1>1, NotSettingRecord
<1>3. Appending(urls) /\ urls.last = SCHEME /\ urls.u.segs = 0
  BY <1>1, <1>2 DEF MayEnter
<1>4. Appender(urls) /\ urls.last < HOST
  BY <1>2, <1>3, PartNumbers DEF Parser, Appender
<1>5. BeforeHost(urls) /\ ~urls.u.inf.special /\ HasOpaquePath(urls.u)
  BY <1>1, <1>2, <1>4 DEF EnterRecord
<1>6. text \in Text
  <2>1. Before(ptr, end) \in Text
    BY <1>2, FromIsText
  <2>. QED  BY <2>1, EncodeText
<1>. HIDE DEF text
<1>7. Appender(y) /\ y.last = PATH
  BY <1>3, <1>4, <1>6, PutPathStringSound
<1>8. Record(y.u)
  BY <1>3, <1>4, <1>5, <1>6, PathStringRecord
<1>9. Return("ok", y) \/ Goto("query", y, rest) \/ Goto("fragment", y, rest)
  BY DEF OpaquePathState, end, text, y, rest
<1>. HIDE DEF y, rest
<1>10. PATH >= HOST /\ PATH \in Part
  BY PartNumbers
<1>11. ~y.setter /\ EnterRecord("query", y, rest) /\ EnterRecord("fragment", y, rest)
  BY <1>7, <1>8, <1>10, AppenderFacts, EnterWithRecord
<1>12. NextRecord("query", y, rest) /\ NextRecord("fragment", y, rest)
  BY <1>11 DEF NextRecord
<1>. QED  BY <1>2, <1>8, <1>9, <1>12, FirstStates, GotoRecord, ReturnRecord

\* What the last two blocks leave.
LEMMA LastBlockRecord ==
    ASSUME FullWork, pc \in {"query", "fragment"}, urls.save, NEW t,
           (pc = "query" /\ t = QUERY) \/ (pc = "fragment" /\ t = FRAGMENT),
           NEW s \in Text
    PROVE  LET y == [PutPart(urls, t, s) EXCEPT !.u.flags = @ \cup {t}]
           IN Record(y.u) /\ \A r : NextRecord("fragment", y, r)
<1>. DEFINE y == [PutPart(urls, t, s) EXCEPT !.u.flags = @ \cup {t}]
<1>1. y = WithFlag(PutPart(urls, t, s), t) /\ t \in {QUERY, FRAGMENT} /\ pc \in ParserState
  BY DEF WithFlag, ParserState
<1>. HIDE DEF y
<1>2. CASE ~override
  <2>1. MayEnter(pc, urls, ptr) /\ Parser(urls) /\ EnterRecord(pc, urls, ptr)
    BY <1>1, <1>2, ParsingRecordBlock
  <2>2. Appending(urls) /\ PathWritten(urls) /\ urls.last < t
    BY <2>1 DEF MayEnter
  <2>3. Appender(urls)
    BY <2>1, <2>2 DEF Parser, Appender
  <2>4. urls.last >= HOST /\ ~(urls.last < HOST)
    <3>1. urls.last \in Part
      BY <2>3, AppenderFacts
    <3>2. urls.last \in Int /\ urls.last >= HOST
      BY <2>2, <3>1, PartInt DEF PathWritten
    <3>. QED  BY <3>2, PartNumbers
  <2>5. Record(urls.u)
    BY <2>1, <2>4 DEF EnterRecord, Record
  <2>6. Record(y.u)
    BY <1>1, <2>2, <2>3, <2>4, <2>5, LastPartRecord
  <2>7. Appender(y) /\ PathWritten(y)
    BY <1>1, <2>2, <2>3, LastPartPut
  <2>8. ~y.setter /\ \A r : EnterRecord("fragment", y, r)
    BY <2>6, <2>7, AppenderFacts, EnterWithRecord DEF PathWritten
  <2>9. \A r : NextRecord("fragment", y, r)
    BY <2>8 DEF NextRecord
  <2>. QED  BY <2>6, <2>9 DEF y
<1>3. CASE override
  <2>1. Editor(urls) /\ SetRecord(pc, urls)
    BY <1>1, <1>3, SettingRecordBlock
  <2>2. ~Appender(urls) /\ Record(urls.u)
    BY <2>1 DEF Editor, Appender, SetRecord
  <2>3. Editor(y)
    BY <1>1, <2>1, <2>2, LastPartPut
  <2>4. Record(y.u)
    BY <1>1, <2>1, <2>2, LastPartRecord
  <2>5. \A r : NextRecord("fragment", y, r)
    BY <2>3, <2>4, EditorFacts DEF NextRecord, SetRecord
  <2>. QED  BY <2>4, <2>5 DEF y
<1>. QED  BY <1>2, <1>3

LEMMA QueryRecord ==
    ASSUME FullWork, QueryState
    PROVE  WorkRecord'
<1>. DEFINE end == IF override THEN Len(ptr) + 1 ELSE FindFirst(ptr, {"#"})
            text == Encode(Before(ptr, end), IF special THEN SpecialQuerySet ELSE QuerySet)
            y == [PutPart(urls, QUERY, text) EXCEPT !.u.flags = @ \cup {QUERY}]
            rest == From(ptr, end + 1)
<1>1. pc = "query" /\ pc \in ParserState /\ ptr \in Text /\ urls.save
  BY DEF QueryState, ParserState, FullWork, WorkInv, WorkShape, TypeOK
<1>2. end \in 1 .. Len(ptr) + 1
  <2>1. Len(ptr) \in Nat
    BY <1>1 DEF Text
  <2>2. FindFirst(ptr, {"#"}) \in 1 .. Len(ptr) + 1
    BY <1>1, FindFirstRange
  <2>. QED  BY <2>1, <2>2
<1>3. text \in Text
  <2>. HIDE DEF end
  <2>1. Before(ptr, end) \in Text
    BY <1>1, <1>2, BeforeText
  <2>. QED  BY <2>1, EncodeText
<1>4. Return("ok", y) \/ Goto("fragment", y, rest)
  BY DEF QueryState, end, text, y, rest
<1>5. Record(y.u) /\ NextRecord("fragment", y, rest)
  BY <1>1, <1>3, LastBlockRecord
<1>. HIDE DEF y, rest
<1>. QED  BY <1>1, <1>4, <1>5, FirstStates, GotoRecord, ReturnRecord

LEMMA FragmentRecord ==
    ASSUME FullWork, FragmentState
    PROVE  WorkRecord'
<1>. DEFINE text == Encode(ptr, FragmentSet)
            y == [PutPart(urls, FRAGMENT, text) EXCEPT !.u.flags = @ \cup {FRAGMENT}]
<1>1. pc = "fragment" /\ pc \in ParserState /\ ptr \in Text /\ urls.save
  BY DEF FragmentState, ParserState, FullWork, WorkInv, WorkShape, TypeOK
<1>2. text \in Text
  BY <1>1, EncodeText
<1>3. Return("ok", y)
  BY DEF FragmentState
<1>4. Record(y.u)
  BY <1>1, <1>2, LastBlockRecord
<1>. HIDE DEF y
<1>. QED  BY <1>1, <1>3, <1>4, ReturnRecord

-----------------------------------------------------------------------------
(* Calls.                                                                  *)

Known(u) == IsValid(u) => Record(u)

LEMMA KnownUrls ==
    ASSUME FullWork
    PROVE  Known(base) /\ (AtRest => Known(url)) /\ Known(EmptyUrl)
<1>1. Known(base) /\ (AtRest => Known(url))
  BY DEF FullWork, WorkRecord, Known
<1>. QED  BY <1>1, EmptyUrlRests DEF Known

LEMMA DoneRecord ==
    ASSUME Known(base), NEW r, NEW u \in Url, Known(u), Done(r, u), UNCHANGED parserVars
    PROVE  WorkRecord'
<1>1. /\ pc' = "done" /\ urls' = NewSerializer(u, TRUE)
      /\ UNCHANGED <<ptr, override, base, hasBase>>
  BY DEF Done, parserVars
<1>2. urls'.u = u
  BY <1>1, NewSerializerType
<1>3. (IsValid(base) => Record(base))'
  BY <1>1 DEF Known
<1>4. (IsValid(url) => Record(url))'
  BY <1>2 DEF Known, url
<1>5. pc' \notin ParserState /\ pc' # "return"
  BY <1>1 DEF ParserState
<1>. QED  BY <1>3, <1>4, <1>5 DEF WorkRecord

LEMMA BeginParseRecord ==
    ASSUME NEW u \in Url, Resting(u), NEW save \in BOOLEAN, NEW text,
           NEW b, Known(b), NEW isBase,
           BeginParse(u, save, text, b, isBase)
    PROVE  WorkRecord'
<1>. DEFINE x == NewSerializer(Reset(u), save)
<1>1. x.u = EmptyUrl /\ x.last = SCHEME /\ ~x.setter
  BY EmptyUrlRests, NewSerializerType, ResetIsEmpty
<1>2. base' = b /\ urls' = x
  BY DEF BeginParse, Enter
<1>3. \/ pc' = "return" /\ res' = "invalid_base"
      \/ pc' = "scheme_start"
  BY DEF BeginParse, Enter
<1>. HIDE DEF x
<1>4. BeforeHost(x)
  BY <1>1, FreshBeforeHost DEF Fresh
<1>5. (IsValid(base) => Record(base))'
  BY <1>2 DEF Known
<1>6. CASE pc' = "return" /\ res' = "invalid_base"
  <2>1. pc' \notin ParserState /\ ~AtRest'
    BY <1>6 DEF ParserState, AtRest
  <2>. QED  BY <1>1, <1>2, <1>5, <1>6, <2>1 DEF WorkRecord
<1>7. CASE pc' = "scheme_start"
  <2>1. ~AtRest'
    BY <1>7 DEF AtRest
  <2>2. x.last < HOST
    BY <1>1, PartNumbers
  <2>3. ParsingRecord(x)'
    BY <1>4, <1>7, <2>2 DEF ParsingRecord
  <2>. QED  BY <1>1, <1>2, <1>5, <1>7, <2>1, <2>3 DEF WorkRecord
<1>. QED  BY <1>3, <1>6, <1>7

LEMMA SetKnown ==
    ASSUME FullWork, AtRest, NEW call, NEW text, NEW r, NEW x, x.u \in Url, Known(x.u),
           Set(call, text, r, x)
    PROVE  WorkRecord'
BY KnownUrls, DoneRecord DEF Set

LEMMA EditRecord ==
    ASSUME FullWork, AtRest, NEW call, NEW text, NEW r, NEW x, Editor(x), Record(x.u),
           Set(call, text, r, x)
    PROVE  WorkRecord'
<1>1. x.u \in Url
  BY EditorFacts
<1>. QED  BY <1>1, SetKnown DEF Known

\* A setter that calls url_parse finds a consistent record.
LEMMA EnterSetterRecord ==
    ASSUME FullWork, pc = "idle", NEW call, NEW text, NEW allowed \in BOOLEAN,
           NEW state \in {"scheme_start", "host", "hostname", "port", "path_start",
                          "query", "fragment"},
           NEW input,
           allowed => IsValid(url),
           allowed /\ state = "port" => CanHaveUsernamePasswordPort(url),
           EnterSetter(call, text, allowed, state, input)
    PROVE  WorkRecord'
<1>. DEFINE x == NewSetter(url)
<1>1. AtRest /\ Known(base)
  BY KnownUrls DEF EnterSetter, AtRest
<1>2. url \in Url /\ Known(url)
  BY <1>1, RestingUrl, KnownUrls DEF FullWork
<1>3. CASE ~allowed
  BY <1>1, <1>2, <1>3, DoneRecord DEF EnterSetter
<1>4. CASE allowed
  <2>1. Editor(x) /\ x.u = url
    BY <1>1, <1>4, RestingUrl DEF FullWork
  <2>2. pc' = state /\ urls' = x /\ UNCHANGED <<base, hasBase>>
    BY <1>4 DEF EnterSetter, Enter
  <2>. HIDE DEF x
  <2>3. x.setter /\ Record(x.u)
    BY <1>2, <1>4, <2>1 DEF Editor, Known
  <2>4. state = "port" => Piece(x.u, HOST) # <<>> /\ ~x.u.inf.file
    BY <1>4, <2>1, WrittenIsReadable, ReadPieces DEF CanHaveUsernamePasswordPort
  <2>5. state \notin {"path_end", "file_host", "idle", "done", "return"}
    OBVIOUS
  <2>6. SettingRecord(urls)' /\ urls'.setter
    BY <2>2, <2>3, <2>4, <2>5 DEF SettingRecord
  <2>7. (IsValid(base) => Record(base))'
    BY <1>1, <2>2 DEF Known
  <2>. QED  BY <2>2, <2>3, <2>5, <2>6, <2>7 DEF WorkRecord, AtRest
<1>. QED  BY <1>3, <1>4

LEMMA EnteringSettersRecord ==
    ASSUME FullWork, pc = "idle", NEW text,
           \/ SetProtocol(text) \/ SetHost(text) \/ SetHostname(text) \/ SetPathname(text)
    PROVE  WorkRecord'
<1>1. IsValid(url) \in BOOLEAN /\ HasEditablePath \in BOOLEAN
      /\ (HasEditablePath => IsValid(url))
  BY DEF IsValid, HasEditablePath
<1>2. SetProtocol(text) => WorkRecord'
  BY <1>1, EnterSetterRecord DEF SetProtocol
<1>3. SetHost(text) => WorkRecord'
  BY <1>1, EnterSetterRecord DEF SetHost
<1>4. SetHostname(text) => WorkRecord'
  BY <1>1, EnterSetterRecord DEF SetHostname
<1>5. SetPathname(text) => WorkRecord'
  BY <1>1, EnterSetterRecord DEF SetPathname
<1>. QED  BY <1>2, <1>3, <1>4, <1>5

LEMMA SetUserinfoRecord ==
    ASSUME FullWork, pc = "idle", NEW call, NEW t \in {USERNAME, PASSWORD},
           NEW text \in Text, SetUserinfo(call, t, text)
    PROVE  WorkRecord'
<1>. DEFINE s == Encode(text, UserinfoSet)
            w == NewSetter(url)
            x == PutPart(w, t, s)
<1>1. AtRest /\ s \in Text
  BY EncodeText DEF AtRest
<1>2. url \in Url /\ Known(url)
  BY <1>1, RestingUrl, KnownUrls DEF FullWork
<1>3. CASE CanHaveUsernamePasswordPort(url)
  <2>1. IsValid(url) /\ ~IsEmpty(url, HOST) /\ ~url.inf.file
    BY <1>3 DEF CanHaveUsernamePasswordPort
  <2>2. Editor(w) /\ w.u = url
    BY <1>1, <2>1, RestingUrl DEF FullWork
  <2>3. Set(call, text, "ok", x)
    BY <1>3 DEF SetUserinfo
  <2>. HIDE DEF s, w
  <2>4. Editor(x)
    <3>1. t \in {USERNAME, PASSWORD, PORT, QUERY, FRAGMENT} /\ t # PORT
      BY PartNumbers
    <3>. QED  BY <1>1, <2>1, <2>2, <3>1, EditorPut
  <2>5. Record(x.u)
    BY <1>1, <1>2, <2>1, <2>2, UserinfoRecord DEF Known
  <2>. HIDE DEF x
  <2>. QED  BY <1>1, <2>3, <2>4, <2>5, EditRecord
<1>4. CASE ~CanHaveUsernamePasswordPort(url)
  <2>1. Set(call, text, "refused", urls)
    BY <1>4 DEF SetUserinfo
  <2>. QED  BY <1>1, <1>2, <2>1, SetKnown DEF url
<1>. QED  BY <1>3, <1>4

LEMMA SetPortRecord ==
    ASSUME FullWork, pc = "idle", NEW text, SetPort(text)
    PROVE  WorkRecord'
<1>. DEFINE w == NewSetter(url)
            x == ClearPart(w, PORT)
<1>1. AtRest /\ CanHaveUsernamePasswordPort(url) \in BOOLEAN
  BY DEF AtRest, CanHaveUsernamePasswordPort, IsValid
<1>2. CASE CanHaveUsernamePasswordPort(url) /\ text = <<>>
  <2>1. IsValid(url) /\ ~IsEmpty(url, HOST) /\ ~url.inf.file
    BY <1>2 DEF CanHaveUsernamePasswordPort
  <2>2. Editor(w) /\ w.u = url /\ ~HasOpaquePath(url) /\ Record(url)
    BY <1>1, <2>1, RestingUrl, KnownUrls DEF FullWork, Known
  <2>3. Set("port", text, "ok", x)
    BY <1>2 DEF SetPort
  <2>. HIDE DEF w
  <2>4. Editor(x)
    BY <2>2, ClearPartSound DEF PartCleared
  <2>5. Framed(w.u) /\ PrefixFits(w.u) /\ PathConsistent(w.u) /\ HostConsistent(w.u)
    BY <2>2 DEF Record
  <2>6. Led(w.u, PORT, ":")
    BY <2>5, FramedFacts DEF PortFramed
  <2>7. PartRemoved(w.u, x.u, PORT)
    BY <2>2, <2>6, ClearPartPieces
  <2>. HIDE DEF x
  <2>8. Readable(w.u) /\ Readable(x.u)
    BY <2>2, <2>4, WrittenIsReadable
  <2>9. HostFits(w.u)
    BY <2>5 DEF HostConsistent, HostFits
  <2>10. Record(x.u)
    BY <2>5, <2>7, <2>8, <2>9, PortRemoved
  <2>. QED  BY <1>1, <2>3, <2>4, <2>10, EditRecord
<1>3. CASE ~(CanHaveUsernamePasswordPort(url) /\ text = <<>>)
  <2>1. EnterSetter("port", text, CanHaveUsernamePasswordPort(url), "port", text)
    BY <1>3 DEF SetPort
  <2>2. CanHaveUsernamePasswordPort(url) => IsValid(url)
    BY DEF CanHaveUsernamePasswordPort
  <2>. QED  BY <1>1, <2>1, <2>2, EnterSetterRecord
<1>. QED  BY <1>2, <1>3

\* search() and hash(): a part that is removed leaves a record.
LEMMA RemovedRecord ==
    ASSUME NEW w, Editor(w), Record(w.u), NEW t \in {QUERY, FRAGMENT}
    PROVE  LET x == StripOpaquePath(ClearPart(w, t)) IN Editor(x) /\ Record(x.u)
<1>. DEFINE x == ClearPart(w, t)
<1>1. t \in {PORT, QUERY, FRAGMENT} /\ t # PORT
  BY PartNumbers
<1>2. Framed(w.u)
  BY DEF Record
<1>3. Editor(x)
  BY <1>1, ClearPartSound DEF PartCleared
<1>4. Led(w.u, QUERY, "?") /\ Led(w.u, FRAGMENT, "#")
  BY <1>2, FramedFacts
<1>5. PartRemoved(w.u, x.u, t)
  BY <1>1, <1>4, ClearPartPieces
<1>. HIDE DEF x
<1>6. Record(x.u)
  BY <1>3, <1>5, WrittenIsReadable, LastPartRemoved
<1>7. Editor(StripOpaquePath(x)) /\ Record(StripOpaquePath(x).u)
  BY <1>3, <1>6, StripOpaquePathSound, StrippedRecord
<1>. QED  BY <1>7 DEF x

LEMMA SetLastRecord ==
    ASSUME FullWork, pc = "idle", NEW text, NEW call, NEW lead,
           NEW t \in {QUERY, FRAGMENT}, NEW state \in {"query", "fragment"},
           SetLast(call, t, lead, state, text)
    PROVE  WorkRecord'
<1>. DEFINE w == NewSetter(url)
            x == StripOpaquePath(ClearPart(w, t))
            input == IF StartsWith(text, lead) THEN Tail(text) ELSE text
<1>1. AtRest /\ IsValid(url) \in BOOLEAN
  BY DEF AtRest, IsValid
<1>2. CASE IsValid(url) /\ text = <<>>
  <2>1. Editor(w) /\ w.u = url /\ Record(url)
    BY <1>1, <1>2, RestingUrl, KnownUrls DEF FullWork, Known
  <2>2. Set(call, text, "ok", x)
    BY <1>2 DEF SetLast, Removed
  <2>. HIDE DEF w
  <2>3. Editor(x) /\ Record(x.u)
    BY <2>1, RemovedRecord
  <2>. HIDE DEF x
  <2>. QED  BY <1>1, <2>2, <2>3, EditRecord
<1>3. CASE ~(IsValid(url) /\ text = <<>>)
  <2>1. EnterSetter(call, text, IsValid(url), state, input)
    BY <1>3 DEF SetLast
  <2>. HIDE DEF input
  <2>. QED  BY <1>1, <2>1, EnterSetterRecord
<1>. QED  BY <1>2, <1>3

LEMMA ParseCallsRecord ==
    ASSUME FullWork, pc = "idle", NEW text \in Text,
           Parse(text) \/ ParseWithBase(text) \/ SetHref(text) \/ Reparse \/ Clear
    PROVE  WorkRecord'
<1>1. AtRest
  BY DEF AtRest
<1>2. Known(url) /\ Known(EmptyUrl) /\ EmptyUrl \in Url /\ Resting(EmptyUrl)
  BY <1>1, KnownUrls, EmptyUrlRests
<1>3. Parse(text) \/ SetHref(text) => WorkRecord'
  BY <1>1, <1>2, BeginParseRecord DEF Parse, SetHref
<1>4. ParseWithBase(text) => WorkRecord'
  BY <1>1, <1>2, BeginParseRecord DEF ParseWithBase
<1>5. Reparse => WorkRecord'
  <2>1. url.norm \in Text
    BY <1>1, RestingUrl, UrlType DEF FullWork
  <2>. QED  BY <1>1, <1>2, <2>1, BeginParseRecord DEF Reparse
<1>6. Clear => WorkRecord'
  BY <1>1, <1>2, KnownUrls, DoneRecord DEF Clear
<1>. QED  BY <1>3, <1>4, <1>5, <1>6

LEMMA MakeCallRecord ==
    ASSUME FullWork, MakeCall
    PROVE  WorkRecord'
<1>1. pc = "idle"
  BY DEF MakeCall
<1>2. (\A call \in Call : Input[call] \subseteq Text) /\ <<>> \in Text
  BY InputAssumption DEF Text
<1>3. \E text \in Text :
         \/ \/ Parse(text) \/ ParseWithBase(text) \/ SetHref(text) \/ Reparse \/ Clear
         \/ \/ SetProtocol(text) \/ SetHost(text) \/ SetHostname(text) \/ SetPathname(text)
         \/ SetUsername(text) \/ SetPassword(text) \/ SetPort(text)
         \/ SetSearch(text) \/ SetHash(text)
  BY <1>2, Zenon DEF MakeCall, Call
<1>4. PICK text \in Text :
         \/ \/ Parse(text) \/ ParseWithBase(text) \/ SetHref(text) \/ Reparse \/ Clear
         \/ \/ SetProtocol(text) \/ SetHost(text) \/ SetHostname(text) \/ SetPathname(text)
         \/ SetUsername(text) \/ SetPassword(text) \/ SetPort(text)
         \/ SetSearch(text) \/ SetHash(text)
  BY <1>3
<1>5. CASE Parse(text) \/ ParseWithBase(text) \/ SetHref(text) \/ Reparse \/ Clear
  BY <1>1, <1>5, ParseCallsRecord
<1>6. CASE SetProtocol(text) \/ SetHost(text) \/ SetHostname(text) \/ SetPathname(text)
  BY <1>1, <1>6, EnteringSettersRecord
<1>7. CASE SetUsername(text) \/ SetPassword(text)
  BY <1>1, <1>7, SetUserinfoRecord DEF SetUsername, SetPassword
<1>8. CASE SetPort(text)
  BY <1>1, <1>8, SetPortRecord
<1>9. CASE SetSearch(text) \/ SetHash(text)
  BY <1>1, <1>9, SetLastRecord DEF SetSearch, SetHash
<1>. QED  BY <1>4, <1>5, <1>6, <1>7, <1>8, <1>9

-----------------------------------------------------------------------------
(* After url_parse.                                                        *)

LEMMA ValidatedRecord ==
    ASSUME NEW u \in Url, NEW l \in Part, Sound(u, l), Record(u), Validated(u) \in Url
    PROVE  Record(Validated(u))
<1>. DEFINE v == Validated(u)
<1>1. /\ v.norm = u.norm /\ v.ends = u.ends /\ v.inf = u.inf /\ v.segs = u.segs
      /\ v.flags = u.flags \cup {VALID}
  BY DEF Validated, Url
<1>2. \A t : Piece(v, t) = Piece(u, t)
  BY <1>1, SamePieces
<1>3. VALID \notin {HOST, PORT, QUERY, FRAGMENT, OPAQUE_PATH}
  BY PartNumbers DEF VALID, OPAQUE_PATH
<1>4. EndsUpTo(u, l)
  BY DEF Sound, Ordered
<1>5. Readable(u)
  BY <1>4 DEF Readable
<1>6. Readable(v)
  BY <1>1, <1>4 DEF Readable, EndsUpTo
<1>. HIDE DEF v
<1>7. /\ \A t \in {HOST, PORT, QUERY, FRAGMENT} : IsNull(v, t) <=> IsNull(u, t)
      /\ HasOpaquePath(v) <=> HasOpaquePath(u)
  BY <1>1, <1>3 DEF IsNull, HasOpaquePath
<1>8. SamePath(u, v)
  BY <1>1, <1>2, <1>7 DEF SamePath, SameFrame
<1>9. Framed(u)
  BY DEF Record
<1>10. Led(u, QUERY, "?") /\ Led(u, FRAGMENT, "#")
  BY <1>9, FramedFacts
<1>11. Led(v, QUERY, "?") /\ Led(v, FRAGMENT, "#")
  BY <1>2, <1>7, <1>10 DEF Led
<1>12. Record(v)
  BY <1>5, <1>6, <1>8, <1>11, RecordKept
<1>. QED  BY <1>12 DEF v

LEMMA ReturnsRecord ==
    ASSUME FullWork, CanParseReturns \/ ParseReturns \/ SetterReturns,
           GivesBackOld => Resting(old) /\ Known(old)
    PROVE  WorkRecord'
<1>1. pc = "return"
  BY DEF CanParseReturns, ParseReturns, SetterReturns
<1>2. ReturnOK(urls)
  BY <1>1 DEF FullWork, WorkInv, WorkShape
<1>3. /\ urls \in Serializer /\ urls.u \in Url /\ base \in Url /\ Resting(base)
      /\ hasBase \in BOOLEAN /\ old \in Url /\ arg \in Text
      /\ ~urls.setter /\ res = "ok" /\ urls.save =>
            Sound(urls.u, urls.last) /\ urls.last \in Part /\ PathWritten(urls)
  BY <1>1, ReturnedFacts DEF FullWork, CallOK
<1>4. urls.setter \/ (urls.save /\ res = "ok") => Record(url)
  BY <1>1 DEF FullWork, WorkRecord
<1>5. Known(base)
  BY KnownUrls
<1>6. CASE CanParseReturns
  <2>. DEFINE u == IF op = "parse_with_base" THEN EmptyUrl ELSE old
  <2>1. u \in Url /\ Resting(u)
    BY <1>3, <1>6, EmptyUrlRests DEF CanParseReturns, GivesBackOld
  <2>2. BeginParse(u, TRUE, arg, base, hasBase) /\ old' = old
    BY <1>6 DEF CanParseReturns
  <2>. HIDE DEF u
  <2>. QED  BY <1>3, <1>5, <2>1, <2>2, BeginParseRecord
<1>7. CASE ParseReturns
  <2>. DEFINE u == IF res = "ok" THEN Validated(url)
                   ELSE IF op \in {"parse", "reparse"} THEN url ELSE old
  <2>1. /\ Done(res, u) /\ UNCHANGED parserVars /\ old' = old
        /\ urls.save /\ ~urls.setter
    BY <1>7 DEF ParseReturns, callVars
  <2>2. u \in Url /\ Known(u)
    <3>1. CASE res = "ok"
      <4>1. Validated(url) \in Url
        BY <1>3, <2>1, <3>1, ValidatedRests DEF PathWritten, url
      <4>2. Record(Validated(url))
        BY <1>3, <1>4, <2>1, <3>1, <4>1, ValidatedRecord DEF url
      <4>. QED  BY <3>1, <4>1, <4>2 DEF Known
    <3>2. CASE res # "ok" /\ op \in {"parse", "reparse"}
      <4>1. Fresh(urls) \/ Appending(urls)
        BY <1>2, <2>1 DEF ReturnOK
      <4>2. ~IsValid(url)
        BY <4>1, EmptyUrlRests DEF Fresh, Appending, url
      <4>. QED  BY <1>3, <3>2, <4>2 DEF Known, url
    <3>3. CASE res # "ok" /\ op \notin {"parse", "reparse"}
      BY <1>1, <1>3, <3>3 DEF GivesBackOld
    <3>. QED  BY <3>1, <3>2, <3>3
  <2>. HIDE DEF u
  <2>. QED  BY <1>5, <2>1, <2>2, DoneRecord
<1>8. CASE SetterReturns
  <2>1. Done(res, url) /\ UNCHANGED parserVars /\ old' = old /\ urls.setter
    BY <1>8 DEF SetterReturns, callVars
  <2>2. url \in Url /\ Known(url)
    BY <1>3, <1>4, <2>1 DEF Known, url
  <2>. QED  BY <1>5, <2>1, <2>2, DoneRecord
<1>. QED  BY <1>6, <1>7, <1>8

LEMMA ResumeRecord ==
    ASSUME FullWork, Resume
    PROVE  WorkRecord'
<1>1. pc = "done" /\ pc' = "idle" /\ urls' = urls /\ base' = EmptyUrl
  BY DEF Resume
<1>2. Known(url) /\ Known(EmptyUrl)
  BY <1>1, KnownUrls DEF AtRest
<1>3. (IsValid(base) => Record(base))'
  BY <1>1, <1>2 DEF Known
<1>4. (IsValid(url) => Record(url))'
  BY <1>1, <1>2 DEF Known, url
<1>5. pc' \notin ParserState /\ pc' # "return"
  BY <1>1 DEF ParserState
<1>. QED  BY <1>3, <1>4, <1>5 DEF WorkRecord

-----------------------------------------------------------------------------
(* The invariants: FullWork, of every call, and FullInv, of calls that do  *)
(* not begin with a url that was moved from.                               *)

LEMMA RecordInit ==
    ASSUME Init
    PROVE  WorkRecord
<1>1. urls = NewSerializer(EmptyUrl, TRUE) /\ pc = "idle" /\ base = EmptyUrl
  BY DEF Init
<1>2. urls.u = EmptyUrl /\ ~IsValid(EmptyUrl)
  BY <1>1, EmptyUrlRests, NewSerializerType
<1>3. pc \notin ParserState /\ pc # "return"
  BY <1>1 DEF ParserState
<1>. QED  BY <1>1, <1>2, <1>3 DEF WorkRecord, url

LEMMA RecordNext ==
    ASSUME FullWork, [Next]_vars, GivesBackOld => Resting(old) /\ Known(old)
    PROVE  WorkRecord'
<1>1. CASE MakeCall
  BY <1>1, MakeCallRecord
<1>2. CASE \/ SchemeStartState \/ SchemeOverride \/ SchemeState \/ NotAScheme
           \/ NoSchemeState
  BY <1>2, SchemeStartRecord, SchemeOverrideRecord, SchemeStateRecord, NotASchemeRecord,
     NoSchemeRecord
<1>3. CASE \/ SpecialRelativeOrAuthorityState \/ PathOrAuthorityState \/ RelativeState
           \/ RelativeSlashState \/ SpecialAuthoritySlashesState
           \/ SpecialAuthorityIgnoreSlashesState
  BY <1>3, SpecialRelativeOrAuthorityRecord, PathOrAuthorityRecord, RelativeRecord,
     RelativeSlashRecord, SpecialAuthoritySlashesRecord, SpecialAuthorityIgnoreSlashesRecord
<1>4. CASE AuthorityState \/ HostState \/ FileHostOverride \/ PortState
  BY <1>4, AuthorityRecord, HostStateRecord, FileHostOverrideRecord, PortStateRecord
<1>5. CASE FileState \/ FileSlashState \/ FileHostState
  BY <1>5, FileStateRecord, FileSlashRecord, FileHostStateRecord
<1>6. CASE \/ NothingToSave \/ PathStartState \/ PathState \/ PathEndState
           \/ OpaquePathState \/ QueryState \/ FragmentState
  BY <1>6, NothingToSaveRecord, PathStartRecord, PathStateRecord, PathEndRecord,
     OpaquePathRecord, QueryRecord, FragmentRecord
<1>7. CASE CanParseReturns \/ ParseReturns \/ SetterReturns \/ Resume
  BY <1>7, ReturnsRecord, ResumeRecord
<1>8. CASE UNCHANGED vars
  <2>1. /\ urls' = urls /\ pc' = pc /\ ptr' = ptr /\ base' = base /\ res' = res
    BY <1>8 DEF vars
  <2>2. AtRest' = AtRest /\ url' = url
    BY <2>1 DEF AtRest, url
  <2>3. ParsingRecord(urls)' = ParsingRecord(urls) /\ SettingRecord(urls)' = SettingRecord(urls)
    BY <2>1 DEF ParsingRecord, SettingRecord
  <2>. QED  BY <2>1, <2>2, <2>3 DEF FullWork, WorkRecord
<1>. QED
  BY <1>1, <1>2, <1>3, <1>4, <1>5, <1>6, <1>7, <1>8 DEF Next, Step

\* What a call may give back is a consistent record when it begins.
LEMMA OldKnown ==
    ASSUME FullWork, Known(old), [Next]_vars
    PROVE  Known(old)'
<1>1. CASE MakeCall
  <2>1. old' = url /\ AtRest
    BY <1>1, Zenon DEF MakeCall, Parse, ParseWithBase, Reparse, SetHref, Clear, SetProtocol,
       SetUsername, SetPassword, SetUserinfo, SetHost, SetHostname, SetPathname, SetPort,
       SetSearch, SetHash, SetLast, EnterSetter, Set, Called, AtRest
  <2>. QED  BY <2>1, KnownUrls
<1>2. CASE InBlock
  BY <1>2 DEF InBlock, callVars
<1>3. CASE CanParseReturns \/ ParseReturns \/ SetterReturns
  BY <1>3 DEF CanParseReturns, ParseReturns, SetterReturns, callVars
<1>4. CASE Resume
  BY <1>4, KnownUrls DEF Resume
<1>5. CASE UNCHANGED vars
  BY <1>5 DEF vars
<1>. QED  BY <1>1, <1>2, <1>3, <1>4, <1>5, BlocksKeepCall DEF Next

LEMMA FullInvFacts == FullInv <=> FullWork /\ Resting(old) /\ Known(old)
BY DEF FullInv, FullWork, ParserInv, ShapeInv, WorkInv, RecordInv, Known

LEMMA FullNext ==
    ASSUME FullInv, [Next]_vars
    PROVE  FullInv'
<1>1. FullWork /\ Resting(old) /\ Known(old)
  BY FullInvFacts
<1>2. WorkInv' /\ WorkRecord'
  BY <1>1, WorkNext, RecordNext DEF FullWork
<1>3. Resting(old)' /\ Known(old)'
  BY <1>1, OldRests, OldKnown DEF FullWork
<1>. QED  BY <1>2, <1>3 DEF FullInv, ParserInv, ShapeInv, WorkInv, RecordInv, Known

LEMMA FullInit ==
    ASSUME Init
    PROVE  FullInv
<1>1. WorkInv /\ WorkRecord
  BY WorkInit, RecordInit
<1>2. Resting(old) /\ ~IsValid(old)
  BY EmptyUrlRests DEF Init
<1>. QED  BY <1>1, <1>2 DEF FullInv, ParserInv, ShapeInv, WorkInv, RecordInv

LEMMA FullInvariance == Spec => []FullInv
BY FullInit, FullNext, PTL DEF Spec

-----------------------------------------------------------------------------
(* What the caller of a valid url reads: the href is the serialization of  *)
(* the parts that the getters return, the getters of several parts agree   *)
(* with those of single parts, and the record is consistent.               *)

ValidUrl(u) == u \in Url /\ Complete(u) /\ Record(u)

LEMMA UrlIsValid ==
    ASSUME FullWork, AtRest, IsValid(url)
    PROVE  ValidUrl(url)
<1>1. url \in Url /\ Resting(url) /\ Record(url)
  BY RestingUrl, KnownUrls DEF FullWork, Known
<1>2. Complete(url)
  BY <1>1, EmptyUrlRests DEF Resting
<1>. QED  BY <1>1, <1>2 DEF ValidUrl

\* The ends of a valid url.
ValidEnds(u, l) ==
    /\ u \in Url /\ u.norm \in Text /\ CompleteUpTo(u, l) /\ EndsUpTo(u, l)
    /\ Ordered(u, l) /\ Len(u.norm) = u.ends[l] /\ l > SCHEME /\ l \in Int
    /\ \A t \in Part : u.ends[t] \in Nat /\ (u.ends[t] # 0 <=> t =< l)

LEMMA ValidUrlEnds ==
    ASSUME NEW u, ValidUrl(u)
    PROVE  Readable(u) /\ \E l \in Part : ValidEnds(u, l)
<1>1. PICK l \in Part : CompleteUpTo(u, l)
  BY DEF ValidUrl, Complete
<1>2. u \in Url /\ u.norm \in Text
  BY UrlType DEF ValidUrl
<1>3. EndsUpTo(u, l) /\ Ordered(u, l) /\ l >= HOST
  BY <1>1 DEF CompleteUpTo, Sound, Ordered
<1>4. l \in Int /\ l > SCHEME
  BY <1>3, PartInt, PartNumbers
<1>5. Len(u.norm) = u.ends[l]
  BY <1>3, <1>4, PartNumbers DEF EndsUpTo, InOrder
<1>6. \A t \in Part : u.ends[t] # 0 <=> t =< l
  BY <1>3 DEF EndsUpTo, InOrder
<1>7. \A t \in Part : u.ends[t] \in Nat
  BY <1>2 DEF Url
<1>8. ValidEnds(u, l)
  BY <1>1, <1>2, <1>3, <1>4, <1>5, <1>6, <1>7 DEF ValidEnds
<1>. QED  BY <1>2, <1>3, <1>8 DEF Readable

\* Parts that may be null are read with their leading character.
LEMMA OptionalPart ==
    ASSUME NEW u, Readable(u), NEW t \in {PORT, QUERY, FRAGMENT}, NEW c, Led(u, t, c)
    PROVE  /\ OptionalText(<<c>>, Optional(u, t)) = Piece(u, t)
           /\ Piece(u, t) \in Text
           /\ Piece(u, t) # <<>> => Piece(u, t) = <<c>> \o View(u, t)
           /\ Piece(u, t) = <<>> => View(u, t) = <<>>
<1>. DEFINE P == Piece(u, t)
            V == View(u, t)
<1>1. t \in Part /\ PartStart(t) = 1 /\ u \in Url
  BY PartNumbers DEF PartStart, Readable
<1>2. PICK l \in Part : EndsUpTo(u, l)
  BY DEF Readable
<1>3. /\ P # <<>> => V = Tail(P)
      /\ P = <<>> => V = <<>>
      /\ P \in Text
  BY <1>1, <1>2, PieceView, PieceEmpty
<1>4. IF IsNull(u, t) THEN P = <<>> ELSE StartsWith(P, c)
  BY DEF Led
<1>. HIDE DEF P, V
<1>5. ASSUME P # <<>> PROVE P = <<c>> \o V
  <2>1. P # <<>> /\ P[1] = c
    BY <1>4, <1>5 DEF StartsWith
  <2>. QED  BY <1>3, <2>1 DEF Text
<1>6. OptionalText(<<c>>, Optional(u, t)) = IF IsNull(u, t) THEN <<>> ELSE <<c>> \o V
  BY DEF OptionalText, Optional, V
<1>7. ~IsNull(u, t) => P # <<>>
  BY <1>4 DEF StartsWith
<1>. QED  BY <1>3, <1>4, <1>5, <1>6, <1>7 DEF P, V

\* What the getters of single parts read.
LEMMA SingleParts ==
    ASSUME NEW u, ValidUrl(u)
    PROVE  /\ \A t \in {SCHEME, USERNAME, HOST, PATH} : View(u, t) = Piece(u, t)
           /\ \A t \in Part : Piece(u, t) \in Text
           /\ OptionalText(<<":">>, Optional(u, PORT)) = Piece(u, PORT)
           /\ OptionalText(<<"?">>, Optional(u, QUERY)) = Piece(u, QUERY)
           /\ OptionalText(<<"#">>, Optional(u, FRAGMENT)) = Piece(u, FRAGMENT)
<1>1. Readable(u) /\ Framed(u)
  BY ValidUrlEnds DEF ValidUrl, Record
<1>2. PICK l \in Part : EndsUpTo(u, l)
  BY <1>1 DEF Readable
<1>3. \A t \in {SCHEME, USERNAME, HOST, PATH} : t \in Part /\ PartStart(t) = 0
  BY PartNumbers DEF PartStart
<1>4. \A t \in {SCHEME, USERNAME, HOST, PATH} : View(u, t) = Piece(u, t)
  BY <1>1, <1>2, <1>3, PieceView DEF Readable
<1>5. Led(u, PORT, ":") /\ Led(u, QUERY, "?") /\ Led(u, FRAGMENT, "#")
  BY <1>1, FramedFacts DEF PortFramed
<1>6. \A t \in Part : Piece(u, t) \in Text
  BY <1>1, ReadPieces
<1>. QED  BY <1>1, <1>4, <1>5, <1>6, OptionalPart

-----------------------------------------------------------------------------
(* The text is its pieces, one after the other.                            *)

\* Where part t ends in the text, set or not.
EndOf(u, l, t) == IF t =< l THEN u.ends[t] ELSE Len(u.norm)
UpTo(u, l, t) == Slice(u.norm, 0, EndOf(u, l, t))

\* From the end of one part to the end of the next stands the piece of that.
LEMMA NextPiece ==
    ASSUME NEW u, NEW l \in Part, ValidEnds(u, l), NEW t \in Part, t # SCHEME
    PROVE  /\ UpTo(u, l, t) = UpTo(u, l, t - 1) \o Piece(u, t)
           /\ EndOf(u, l, t - 1) =< EndOf(u, l, t)
           /\ EndOf(u, l, t) \in Nat /\ EndOf(u, l, t) =< Len(u.norm)
           /\ EndOf(u, l, t - 1) \in Nat
           /\ Piece(u, t) = Slice(u.norm, EndOf(u, l, t - 1), EndOf(u, l, t))
<1>. DEFINE a == EndOf(u, l, t - 1)
            b == EndOf(u, l, t)
<1>1. /\ u \in Url /\ u.norm \in Text /\ EndsUpTo(u, l) /\ l \in Int
      /\ Len(u.norm) = u.ends[l] /\ Len(u.norm) \in Nat
  BY DEF ValidEnds, Text
<1>2. t \in Int /\ t - 1 \in Part /\ PartPos(u, t) = u.ends[t - 1] /\ u.ends[t] \in Nat
      /\ u.ends[t - 1] \in Nat
  <2>1. t \in Int /\ t - 1 \in Part
    BY PartInt, PartNumbers DEF Part
  <2>. QED  BY <2>1 DEF PartPos, ValidEnds
<1>3. PieceFacts(u, l, t)
  BY <1>1, PiecesAre
<1>4. CASE t =< l
  <2>1. a = u.ends[t - 1] /\ b = u.ends[t]
    BY <1>1, <1>2, <1>4 DEF EndOf
  <2>2. PartPos(u, t) =< u.ends[t] /\ u.ends[t] =< Len(u.norm)
    BY <1>3, <1>4 DEF PieceFacts
  <2>. HIDE DEF a, b
  <2>3. Piece(u, t) = Slice(u.norm, a, b)
    BY <1>2, <2>1, PieceSlice
  <2>4. a \in Nat /\ b \in Nat /\ a =< b /\ b =< Len(u.norm)
    BY <1>2, <2>1, <2>2
  <2>5. InText(u.norm, 0, a) /\ InText(u.norm, a, b)
    BY <1>1, <2>4 DEF InText
  <2>6. Slice(u.norm, 0, a) \o Slice(u.norm, a, b) = Slice(u.norm, 0, b)
    BY <2>5, SliceJoin
  <2>. QED  BY <2>3, <2>4, <2>6 DEF a, b, UpTo
<1>5. CASE ~(t =< l)
  <2>1. t > l
    BY <1>1, <1>2, <1>5
  <2>2. Piece(u, t) = <<>>
    BY <1>3, <2>1 DEF PieceFacts
  <2>3. b = Len(u.norm)
    BY <1>5 DEF EndOf
  <2>4. a = Len(u.norm)
    <3>1. CASE t - 1 = l
      BY <1>1, <1>2, <3>1 DEF EndOf
    <3>2. CASE t - 1 # l
      <4>1. ~(t - 1 =< l)
        BY <1>1, <1>2, <2>1, <3>2
      <4>. QED  BY <4>1 DEF EndOf
    <3>. QED  BY <3>1, <3>2
  <2>. HIDE DEF a, b
  <2>5. Slice(u.norm, a, b) = <<>>
    BY <1>1, <2>3, <2>4, SliceEmpty
  <2>6. InText(u.norm, 0, a)
    BY <1>1, <2>4 DEF InText
  <2>7. Slice(u.norm, 0, a) \in Text
    BY <2>6, SliceText
  <2>8. Slice(u.norm, 0, b) = Slice(u.norm, 0, a) \o <<>>
    BY <2>3, <2>4, <2>7, JoinEmpty
  <2>. QED  BY <1>1, <2>2, <2>3, <2>4, <2>5, <2>8 DEF a, b, UpTo
<1>. QED  BY <1>4, <1>5

\* The text is the concatenation of its pieces.
LEMMA NormIsPieces ==
    ASSUME NEW u, ValidUrl(u)
    PROVE  u.norm = Piece(u, SCHEME) \o Piece(u, SCHEME_SEP) \o Piece(u, USERNAME)
                      \o Piece(u, PASSWORD) \o Piece(u, HOST_START) \o Piece(u, HOST)
                      \o Piece(u, PORT) \o Piece(u, PATH_PREFIX) \o Piece(u, PATH)
                      \o Piece(u, QUERY) \o Piece(u, FRAGMENT)
<1>1. PICK l \in Part : ValidEnds(u, l)
  BY ValidUrlEnds
<1>. DEFINE T(t) == UpTo(u, l, t)
            P(t) == Piece(u, t)
<1>2. \A t \in Part : t # SCHEME => T(t) = T(t - 1) \o P(t)
  BY <1>1, NextPiece
<1>3. T(SCHEME) = P(SCHEME)
  <2>1. SCHEME =< l /\ PartPos(u, SCHEME) = 0
    BY <1>1, PartNumbers DEF ValidEnds, PartPos
  <2>. QED  BY <2>1, PieceSlice DEF UpTo, EndOf
<1>4. T(FRAGMENT) = u.norm
  <2>1. EndOf(u, l, FRAGMENT) = Len(u.norm)
    <3>1. l \in Int /\ l =< FRAGMENT /\ Len(u.norm) = u.ends[l]
      BY <1>1, PartInt, PartNumbers DEF ValidEnds, Part
    <3>2. FRAGMENT =< l => FRAGMENT = l
      BY <3>1, PartNumbers
    <3>. QED  BY <3>1, <3>2 DEF EndOf
  <2>2. u.norm \in Text
    BY <1>1 DEF ValidEnds
  <2>. QED  BY <2>1, <2>2, SliceAll DEF UpTo
<1>. HIDE DEF T, P
<1>5. /\ SCHEME_SEP - 1 = SCHEME /\ USERNAME - 1 = SCHEME_SEP /\ PASSWORD - 1 = USERNAME
      /\ HOST_START - 1 = PASSWORD /\ HOST - 1 = HOST_START /\ PORT - 1 = HOST
      /\ PATH_PREFIX - 1 = PORT /\ PATH - 1 = PATH_PREFIX /\ QUERY - 1 = PATH
      /\ FRAGMENT - 1 = QUERY
  BY PartNumbers
<1>6. /\ T(SCHEME_SEP) = T(SCHEME) \o P(SCHEME_SEP)
      /\ T(USERNAME) = T(SCHEME_SEP) \o P(USERNAME)
      /\ T(PASSWORD) = T(USERNAME) \o P(PASSWORD)
      /\ T(HOST_START) = T(PASSWORD) \o P(HOST_START)
      /\ T(HOST) = T(HOST_START) \o P(HOST)
      /\ T(PORT) = T(HOST) \o P(PORT)
      /\ T(PATH_PREFIX) = T(PORT) \o P(PATH_PREFIX)
      /\ T(PATH) = T(PATH_PREFIX) \o P(PATH)
      /\ T(QUERY) = T(PATH) \o P(QUERY)
      /\ T(FRAGMENT) = T(QUERY) \o P(FRAGMENT)
  <2>1. \A t \in {SCHEME_SEP, USERNAME, PASSWORD, HOST_START, HOST, PORT, PATH_PREFIX, PATH,
                   QUERY, FRAGMENT} : t \in Part /\ t # SCHEME
    BY PartNumbers
  <2>2. \A t \in {SCHEME_SEP, USERNAME, PASSWORD, HOST_START, HOST, PORT, PATH_PREFIX, PATH,
                   QUERY, FRAGMENT} : T(t) = T(t - 1) \o P(t)
    BY <1>2, <2>1, Zenon
  <2>. QED  BY <1>5, <2>2, Zenon
<1>7. u.norm = P(SCHEME) \o P(SCHEME_SEP) \o P(USERNAME) \o P(PASSWORD) \o P(HOST_START)
                 \o P(HOST) \o P(PORT) \o P(PATH_PREFIX) \o P(PATH) \o P(QUERY) \o P(FRAGMENT)
  BY <1>3, <1>4, <1>6, Zenon
<1>. QED  BY <1>7 DEF P

Join(s, r) == s \o r

LEMMA JoinOfTexts ==
    /\ \A s, r \in Text : Join(s, r) \in Text
    /\ \A s, r, q \in Text : Join(Join(s, r), q) = Join(s, Join(r, q))
<1>1. ASSUME NEW s \in Text, NEW r \in Text PROVE Join(s, r) \in Text
  BY DEF Join, Text
<1>2. ASSUME NEW s \in Text, NEW r \in Text, NEW q \in Text
      PROVE  Join(Join(s, r), q) = Join(s, Join(r, q))
  BY JoinIsAssociative, Zenon DEF Join
<1>. QED  BY <1>1, <1>2

JoinsAll(a, b, c, d, e, f, g) ==
    a \o b \o c \o d \o e \o f \o g = a \o (b \o (c \o d \o e) \o f \o g)

LEMMA AuthorityJoin ==
    ASSUME NEW a \in Text, NEW b \in Text, NEW c \in Text, NEW d \in Text, NEW e \in Text,
           NEW f \in Text, NEW g \in Text
    PROVE  JoinsAll(a, b, c, d, e, f, g)
<1>. DEFINE cde == Join(Join(c, d), e)
            bf == Join(Join(b, cde), f)
<1>1. /\ Join(c, d) \in Text /\ cde \in Text /\ Join(b, cde) \in Text /\ bf \in Text
      /\ Join(a, b) \in Text
  BY JoinOfTexts
<1>2. Join(Join(Join(a, b), c), d) = Join(Join(a, b), Join(c, d))
  BY <1>1, JoinOfTexts
<1>3. Join(Join(Join(a, b), Join(c, d)), e) = Join(Join(a, b), cde)
  BY <1>1, JoinOfTexts
<1>4. Join(Join(a, b), cde) = Join(a, Join(b, cde))
  BY <1>1, JoinOfTexts
<1>5. Join(Join(a, Join(b, cde)), f) = Join(a, bf)
  BY <1>1, JoinOfTexts
<1>6. Join(Join(a, bf), g) = Join(a, Join(bf, g))
  BY <1>1, JoinOfTexts
<1>7. Join(Join(Join(Join(Join(Join(a, b), c), d), e), f), g) = Join(a, Join(bf, g))
  BY <1>2, <1>3, <1>4, <1>5, <1>6, Zenon
<1>. QED  BY <1>7, Zenon DEF Join, JoinsAll, cde, bf

\* The credentials, as the serializer of the standard writes them.
LEMMA CredentialsPieces ==
    ASSUME NEW u, ValidUrl(u), ~IsNull(u, HOST)
    PROVE  Credentials(u) = Piece(u, USERNAME) \o Piece(u, PASSWORD) \o Piece(u, HOST_START)
<1>. DEFINE name == Piece(u, USERNAME)
            word == Piece(u, PASSWORD)
<1>1. Readable(u) /\ Framed(u)
  BY ValidUrlEnds DEF ValidUrl, Record
<1>2. PICK l \in Part : EndsUpTo(u, l)
  BY <1>1 DEF Readable
<1>3. PasswordFramed(u) /\ Piece(u, HOST_START) = IF HasUserinfo(u) THEN <<"@">> ELSE <<>>
  BY <1>1, FramedFacts
<1>4. /\ HasCredentials(u) <=> HasUserinfo(u)
      /\ IsEmpty(u, PASSWORD) <=> word = <<>>
  BY <1>1, <1>2, <1>3, UserinfoIsCredentials DEF Readable
<1>5. View(u, USERNAME) = name /\ name \in Text /\ word \in Text
  BY SingleParts, PartNumbers
<1>6. word # <<>> => View(u, PASSWORD) = Tail(word)
  <2>1. PASSWORD \in Part /\ PartStart(PASSWORD) = 1
    BY PartNumbers DEF PartStart
  <2>. QED  BY <1>1, <1>2, <2>1, PieceView DEF Readable
<1>7. word # <<>> => word = <<":">> \o View(u, PASSWORD)
  <2>1. word # <<>> => word[1] = ":"
    BY <1>3 DEF PasswordFramed, StartsWith
  <2>. HIDE DEF word
  <2>. QED  BY <1>5, <1>6, <2>1 DEF Text
<1>8. HasUserinfo(u) <=> name # <<>> \/ word # <<>>
  BY DEF HasUserinfo
<1>. HIDE DEF name, word
<1>9. CASE ~HasUserinfo(u)
  <2>1. name = <<>> /\ word = <<>> /\ Piece(u, HOST_START) = <<>>
    BY <1>3, <1>8, <1>9
  <2>2. Credentials(u) = <<>>
    BY <1>4, <1>9 DEF Credentials
  <2>3. (<<>> \o <<>>) \o <<>> = <<>>
    OBVIOUS
  <2>. QED  BY <2>1, <2>2, <2>3 DEF name, word
<1>10. CASE HasUserinfo(u)
  <2>1. Credentials(u) = name \o (IF word = <<>> THEN <<>> ELSE <<":">> \o View(u, PASSWORD))
                           \o <<"@">>
    BY <1>4, <1>5, <1>10 DEF Credentials
  <2>2. (IF word = <<>> THEN <<>> ELSE <<":">> \o View(u, PASSWORD)) = word
    BY <1>7
  <2>3. Credentials(u) = name \o word \o <<"@">>
    BY <2>1, <2>2, Zenon
  <2>. QED  BY <1>3, <1>10, <2>3 DEF name, word
<1>. QED  BY <1>9, <1>10

\* What stands between the scheme and the path.
Authority(u) ==
    IF IsNull(u, HOST)
    THEN IF ~HasOpaquePath(u) /\ u.segs > 1 /\ StartsWith2(View(u, PATH), "/", "/")
         THEN <<"/", ".">> ELSE <<>>
    ELSE <<"/", "/">> \o Credentials(u) \o View(u, HOST)
           \o OptionalText(<<":">>, Optional(u, PORT))

LEMMA AuthorityPieces ==
    ASSUME NEW u, ValidUrl(u)
    PROVE  Piece(u, SCHEME) \o Piece(u, SCHEME_SEP) \o Piece(u, USERNAME)
             \o Piece(u, PASSWORD) \o Piece(u, HOST_START) \o Piece(u, HOST)
             \o Piece(u, PORT) \o Piece(u, PATH_PREFIX)
           = Piece(u, SCHEME) \o <<":">> \o Authority(u)
<1>. DEFINE P(t) == Piece(u, t)
            a == P(SCHEME) \o <<":">>
<1>1. Framed(u) /\ PrefixFits(u)
  BY DEF ValidUrl, Record
<1>2. \A t \in Part : P(t) \in Text
  BY SingleParts
<1>3. /\ P(SCHEME) \in Text /\ P(USERNAME) \in Text /\ P(PASSWORD) \in Text
      /\ P(HOST_START) \in Text /\ P(HOST) \in Text /\ P(PORT) \in Text
      /\ P(PATH_PREFIX) \in Text
  BY <1>2, PartNumbers
<1>4. <<":">> \in Text /\ <<"/", "/">> \in Text
  BY CharAssumption DEF Text, Written
<1>5. a \in Text
  BY <1>3, <1>4 DEF Text
<1>6. CASE IsNull(u, HOST)
  <2>1. /\ P(SCHEME_SEP) = <<":">> /\ P(USERNAME) = <<>> /\ P(PASSWORD) = <<>>
        /\ P(HOST) = <<>> /\ P(HOST_START) = <<>>
    BY <1>1, <1>6, FramedFacts DEF NullHostFramed, HasUserinfo
  <2>2. P(PORT) = <<>>
    BY <1>1, <1>6, FramedFacts DEF NullHostFramed, PortFramed, Led
  <2>3. Authority(u) = P(PATH_PREFIX)
    BY <1>1, <1>6 DEF Authority, PrefixFits, NeedsPathPrefix
  <2>. HIDE DEF P
  <2>4. a \o <<>> = a
    BY <1>5, JoinEmpty
  <2>5. P(SCHEME) \o P(SCHEME_SEP) \o P(USERNAME) \o P(PASSWORD) \o P(HOST_START)
          \o P(HOST) \o P(PORT) \o P(PATH_PREFIX) = a \o Authority(u)
    BY <2>1, <2>2, <2>3, <2>4, Zenon DEF a
  <2>. QED  BY <2>5 DEF P, a
<1>7. CASE ~IsNull(u, HOST)
  <2>1. P(SCHEME_SEP) = <<":", "/", "/">> /\ P(PATH_PREFIX) = <<>>
    BY <1>1, <1>7, FramedFacts
  <2>2. Authority(u) = <<"/", "/">> \o (P(USERNAME) \o P(PASSWORD) \o P(HOST_START))
                         \o P(HOST) \o P(PORT)
    <3>1. Authority(u) = <<"/", "/">> \o Credentials(u) \o View(u, HOST)
                           \o OptionalText(<<":">>, Optional(u, PORT))
      BY <1>7 DEF Authority
    <3>2. Credentials(u) = P(USERNAME) \o P(PASSWORD) \o P(HOST_START)
      BY <1>7, CredentialsPieces
    <3>3. View(u, HOST) = P(HOST) /\ OptionalText(<<":">>, Optional(u, PORT)) = P(PORT)
      BY SingleParts
    <3>. HIDE DEF P
    <3>. QED  BY <3>1, <3>2, <3>3, Zenon
  <2>. HIDE DEF P
  <2>3. P(SCHEME) \o P(SCHEME_SEP) = a \o <<"/", "/">>
    <3>1. Join(Join(P(SCHEME), <<":">>), <<"/", "/">>)
            = Join(P(SCHEME), Join(<<":">>, <<"/", "/">>))
      BY <1>3, <1>4, JoinOfTexts
    <3>. QED  BY <2>1, <3>1, ColonSlashes, Zenon DEF Join, a
  <2>. HIDE DEF a
  <2>4. a \o <<"/", "/">> \o P(USERNAME) \o P(PASSWORD) \o P(HOST_START) \o P(HOST) \o P(PORT)
          = a \o Authority(u)
    <3>1. JoinsAll(a, <<"/", "/">>, P(USERNAME), P(PASSWORD), P(HOST_START), P(HOST), P(PORT))
      BY <1>3, <1>4, <1>5, AuthorityJoin
    <3>. QED  BY <2>2, <3>1, Zenon DEF JoinsAll
  <2>5. Authority(u) \in Text
    BY <1>3, <1>4, <2>2 DEF Text
  <2>6. (a \o Authority(u)) \o <<>> = a \o Authority(u)
    <3>1. a \o Authority(u) \in Text
      BY <1>5, <2>5 DEF Text
    <3>. QED  BY <3>1, JoinEmpty
  <2>7. P(SCHEME) \o P(SCHEME_SEP) \o P(USERNAME) \o P(PASSWORD) \o P(HOST_START)
          \o P(HOST) \o P(PORT) \o P(PATH_PREFIX) = a \o Authority(u)
    BY <2>1, <2>3, <2>4, <2>6, Zenon
  <2>. QED  BY <2>7 DEF P, a
<1>. QED  BY <1>6, <1>7

LEMMA NormIsSerialization ==
    ASSUME NEW u, ValidUrl(u)
    PROVE  u.norm = Serialization(u)
<1>. DEFINE before == Piece(u, SCHEME) \o <<":">> \o Authority(u)
<1>1. u.norm = before \o Piece(u, PATH) \o Piece(u, QUERY) \o Piece(u, FRAGMENT)
  BY NormIsPieces, AuthorityPieces, Zenon
<1>2. /\ View(u, SCHEME) = Piece(u, SCHEME) /\ View(u, PATH) = Piece(u, PATH)
      /\ OptionalText(<<"?">>, Optional(u, QUERY)) = Piece(u, QUERY)
      /\ OptionalText(<<"#">>, Optional(u, FRAGMENT)) = Piece(u, FRAGMENT)
  BY SingleParts
<1>3. Serialization(u) = View(u, SCHEME) \o <<":">> \o Authority(u) \o View(u, PATH)
                           \o OptionalText(<<"?">>, Optional(u, QUERY))
                           \o OptionalText(<<"#">>, Optional(u, FRAGMENT))
  BY DEF Serialization, Authority
<1>. QED  BY <1>1, <1>2, <1>3, Zenon

\* Whatever sequence of calls made it, the href of a valid url is the
\* serialization of the parts that its getters return: no ':', '@', '?' or
\* "/." is left over or lost by an edit in place.
THEOREM HrefIsTheSerialization == Spec => []HrefIsSerialization
<1>1. FullInv => HrefIsSerialization
  BY FullInvFacts, UrlIsValid, NormIsSerialization DEF HrefIsSerialization
<1>. QED  BY <1>1, FullInvariance, PTL

-----------------------------------------------------------------------------
(* Getters of several parts.                                               *)

LEMMA ProtocolAgrees ==
    ASSUME NEW u, ValidUrl(u)
    PROVE  GetProtocol(u) = View(u, SCHEME) \o <<":">>
<1>. DEFINE n == u.ends[SCHEME]
<1>1. PICK l \in Part : ValidEnds(u, l)
  BY ValidUrlEnds
<1>2. u.norm \in Text /\ n \in Nat /\ n # 0 /\ n + 1 =< Len(u.norm) /\ u.norm[n + 1] = ":"
  <2>1. n \in Nat /\ n > 0 /\ n + 1 =< Len(u.norm)
    BY <1>1, OrderedFacts DEF ValidEnds
  <2>2. u.norm[n + 1] = ":"
    BY <1>1 DEF ValidEnds, Ordered, SchemeEnds
  <2>. QED  BY <1>1, <2>1, <2>2 DEF ValidEnds
<1>3. View(u, SCHEME) = Slice(u.norm, 0, n)
  <2>1. View(u, SCHEME) = Piece(u, SCHEME) /\ PartPos(u, SCHEME) = 0
    BY SingleParts DEF PartPos
  <2>. QED  BY <2>1, PieceSlice
<1>4. GetProtocol(u) = SubSeq(u.norm, 1, n + 1)
  BY <1>2 DEF GetProtocol
<1>. HIDE DEF n
<1>5. GetProtocol(u) = Slice(u.norm, 0, n + 1)
  BY <1>4 DEF Slice
<1>6. InText(u.norm, 0, n) /\ InText(u.norm, n, n + 1)
  BY <1>2 DEF InText
<1>7. Slice(u.norm, n, n + 1) = <<":">>
  <2>. DEFINE colon == Slice(u.norm, n, n + 1)
  <2>1. colon \in Text /\ Len(colon) = (n + 1) - n
        /\ \A k \in 1 .. (n + 1) - n : colon[k] = u.norm[n + k]
    BY <1>6, SliceText
  <2>. HIDE DEF colon
  <2>2. (n + 1) - n = 1
    BY <1>2
  <2>3. colon \in Text /\ Len(colon) = 1 /\ colon[1] = ":"
    BY <1>2, <2>1, <2>2
  <2>4. colon = <<":">>
    BY <2>3 DEF Text
  <2>. QED  BY <2>4 DEF colon
<1>8. Slice(u.norm, 0, n) \o Slice(u.norm, n, n + 1) = Slice(u.norm, 0, n + 1)
  BY <1>6, SliceJoin
<1>. QED  BY <1>3, <1>5, <1>7, <1>8

\* A getter that spans two neighbouring parts.
LEMMA TwoParts ==
    ASSUME NEW u, NEW l \in Part, ValidEnds(u, l), NEW s \in Part, s # SCHEME,
           NEW t \in Part, t = s + 1
    PROVE  Slice(u.norm, EndOf(u, l, s - 1), EndOf(u, l, t)) = Piece(u, s) \o Piece(u, t)
<1>1. t # SCHEME /\ t - 1 = s
  BY PartInt, PartNumbers DEF Part
<1>2. /\ EndOf(u, l, s - 1) =< EndOf(u, l, s) /\ EndOf(u, l, s - 1) \in Nat
      /\ EndOf(u, l, s) \in Nat /\ EndOf(u, l, s) =< Len(u.norm)
      /\ Piece(u, s) = Slice(u.norm, EndOf(u, l, s - 1), EndOf(u, l, s))
  BY NextPiece
<1>3. /\ EndOf(u, l, s) =< EndOf(u, l, t) /\ EndOf(u, l, t) \in Nat
      /\ EndOf(u, l, t) =< Len(u.norm)
      /\ Piece(u, t) = Slice(u.norm, EndOf(u, l, s), EndOf(u, l, t))
  BY <1>1, NextPiece
<1>4. InText(u.norm, EndOf(u, l, s - 1), EndOf(u, l, s))
      /\ InText(u.norm, EndOf(u, l, s), EndOf(u, l, t))
  BY <1>2, <1>3 DEF InText, ValidEnds
<1>. DEFINE a == EndOf(u, l, s - 1)
            b == EndOf(u, l, s)
            c == EndOf(u, l, t)
<1>5. InText(u.norm, a, b) /\ InText(u.norm, b, c)
  BY <1>4
<1>6. Piece(u, s) = Slice(u.norm, a, b) /\ Piece(u, t) = Slice(u.norm, b, c)
  BY <1>2, <1>3
<1>. HIDE DEF a, b, c
<1>7. Slice(u.norm, a, b) \o Slice(u.norm, b, c) = Slice(u.norm, a, c)
  BY <1>5, SliceJoin
<1>8. Slice(u.norm, a, c) = Piece(u, s) \o Piece(u, t)
  BY <1>6, <1>7
<1>. QED  BY <1>8 DEF a, c

LEMMA HostAgreesWithParts ==
    ASSUME NEW u, ValidUrl(u)
    PROVE  GetHost(u) = View(u, HOST) \o OptionalText(<<":">>, Optional(u, PORT))
<1>1. Framed(u)
  BY DEF ValidUrl, Record
<1>2. /\ View(u, HOST) = Piece(u, HOST)
      /\ OptionalText(<<":">>, Optional(u, PORT)) = Piece(u, PORT)
      /\ \A t \in Part : Piece(u, t) \in Text
  BY SingleParts
<1>3. PICK l \in Part : ValidEnds(u, l)
  BY ValidUrlEnds
<1>4. Led(u, PORT, ":")
  BY <1>1, FramedFacts DEF PortFramed
<1>5. CASE IsNull(u, HOST)
  <2>1. Piece(u, HOST) = <<>> /\ Piece(u, PORT) = <<>>
    BY <1>1, <1>4, <1>5, FramedFacts DEF NullHostFramed, Led
  <2>2. GetHost(u) = <<>> /\ <<>> \o <<>> = <<>>
    BY <1>5 DEF GetHost
  <2>. QED  BY <1>2, <2>1, <2>2
<1>6. CASE ~IsNull(u, HOST) /\ IsNull(u, PORT)
  <2>1. Piece(u, PORT) = <<>>
    BY <1>4, <1>6 DEF Led
  <2>2. PartPos(u, HOST) = u.ends[HOST_START]
    BY PartNumbers DEF PartPos
  <2>3. GetHost(u) = Piece(u, HOST)
    BY <1>6, <2>2 DEF GetHost, Piece
  <2>4. Piece(u, HOST) \o <<>> = Piece(u, HOST)
    BY <1>2, JoinEmpty, PartNumbers
  <2>. QED  BY <1>2, <2>1, <2>3, <2>4
<1>7. CASE ~IsNull(u, HOST) /\ ~IsNull(u, PORT)
  <2>1. Piece(u, PORT) # <<>>
    BY <1>4, <1>7 DEF Led, StartsWith
  <2>2. PORT =< l
    <3>1. PieceFacts(u, l, PORT) /\ (PORT > l \/ PORT =< l)
      BY <1>3, PiecesAre, PartInt, PartNumbers DEF ValidEnds
    <3>. QED  BY <2>1, <3>1 DEF PieceFacts
  <2>3. HOST_START =< l
    BY <1>3, <2>2, PartNumbers DEF ValidEnds
  <2>4. GetHost(u) = Slice(u.norm, EndOf(u, l, HOST_START), EndOf(u, l, PORT))
    BY <1>7, <2>2, <2>3 DEF GetHost, EndOf, Slice
  <2>5. HOST # SCHEME /\ PORT = HOST + 1 /\ HOST - 1 = HOST_START
    BY PartNumbers
  <2>6. GetHost(u) = Piece(u, HOST) \o Piece(u, PORT)
    <3>1. HOST \in Part /\ PORT \in Part
      BY PartNumbers
    <3>2. Slice(u.norm, EndOf(u, l, HOST - 1), EndOf(u, l, PORT))
            = Piece(u, HOST) \o Piece(u, PORT)
      BY <1>3, <2>5, <3>1, TwoParts
    <3>. QED  BY <2>4, <2>5, <3>2
  <2>. QED  BY <1>2, <2>6
<1>. QED  BY <1>5, <1>6, <1>7

LEMMA PathAgrees ==
    ASSUME NEW u, ValidUrl(u)
    PROVE  GetPath(u) = View(u, PATH) \o OptionalText(<<"?">>, Optional(u, QUERY))
<1>1. /\ View(u, PATH) = Piece(u, PATH)
      /\ OptionalText(<<"?">>, Optional(u, QUERY)) = Piece(u, QUERY)
      /\ \A t \in Part : Piece(u, t) \in Text
  BY SingleParts
<1>2. PICK l \in Part : ValidEnds(u, l)
  BY ValidUrlEnds
<1>3. /\ PATH # SCHEME /\ QUERY = PATH + 1 /\ PATH - 1 = PATH_PREFIX
      /\ PATH \in Part /\ QUERY \in Part
  BY PartNumbers
<1>4. u.ends[QUERY] # 0 <=> QUERY =< l
  BY <1>2, <1>3 DEF ValidEnds
<1>5. CASE QUERY =< l
  <2>1. PATH_PREFIX =< l
    BY <1>2, <1>5, PartNumbers DEF ValidEnds
  <2>2. GetPath(u) = Slice(u.norm, EndOf(u, l, PATH_PREFIX), EndOf(u, l, QUERY))
    BY <1>3, <1>4, <1>5, <2>1 DEF GetPath, EndOf, Slice
  <2>3. GetPath(u) = Piece(u, PATH) \o Piece(u, QUERY)
    BY <1>2, <1>3, <2>2, TwoParts
  <2>. QED  BY <1>1, <2>3
<1>6. CASE ~(QUERY =< l)
  <2>1. PieceFacts(u, l, QUERY) /\ QUERY > l
    BY <1>2, <1>3, <1>6, PiecesAre, PartInt DEF ValidEnds
  <2>2. Piece(u, QUERY) = <<>>
    BY <2>1 DEF PieceFacts
  <2>3. PartPos(u, PATH) = u.ends[PATH - 1]
    BY <1>3 DEF PartPos
  <2>4. GetPath(u) = Piece(u, PATH)
    BY <1>4, <1>6, <2>3 DEF GetPath, Piece
  <2>5. Piece(u, PATH) \o <<>> = Piece(u, PATH)
    BY <1>1, <1>3, JoinEmpty
  <2>. QED  BY <1>1, <2>2, <2>4, <2>5
<1>. QED  BY <1>5, <1>6

\* The query with its '?' and the fragment with its '#', when not empty.
LEMMA LedPartAgrees ==
    ASSUME NEW u, ValidUrl(u), NEW t \in {QUERY, FRAGMENT}, NEW c, Led(u, t, c)
    PROVE  WithLead(u, t) = IF View(u, t) = <<>> THEN <<>> ELSE <<c>> \o View(u, t)
<1>. DEFINE V == View(u, t)
            P == Piece(u, t)
<1>1. Readable(u) /\ u \in Url
  BY ValidUrlEnds DEF ValidUrl
<1>2. PICK l \in Part : EndsUpTo(u, l)
  BY <1>1 DEF Readable
<1>3. t \in {PORT, QUERY, FRAGMENT} /\ t \in Part /\ PartStart(t) = 1 /\ t # SCHEME
  BY PartNumbers DEF PartStart
<1>4. /\ P \in Text /\ (P # <<>> => P = <<c>> \o V) /\ (P = <<>> => V = <<>>)
  BY <1>1, <1>3, OptionalPart
<1>5. IsEmpty(u, t) <=> Len(P) =< 1
  BY <1>1, <1>2, <1>3, PieceEmpty
<1>6. V \in Text
  <2>1. P # <<>> => V = Tail(P)
    BY <1>1, <1>2, <1>3, PieceView
  <2>. HIDE DEF V, P
  <2>2. P # <<>> => V \in Text
    BY <1>4, <2>1, TailText
  <2>. QED  BY <1>4, <2>2 DEF Text
<1>7. WithLead(u, t) = IF IsEmpty(u, t) THEN <<>> ELSE P
  BY <1>3 DEF WithLead, Piece, PartPos
<1>. HIDE DEF V, P
<1>8. P # <<>> => Len(P) = 1 + Len(V)
  BY <1>4, <1>6 DEF Text
<1>9. P = <<>> => Len(P) = 0
  OBVIOUS
<1>10. V = <<>> <=> Len(V) = 0
  BY <1>6 DEF Text
<1>11. Len(V) \in Nat
  BY <1>6 DEF Text
<1>12. IsEmpty(u, t) <=> V = <<>>
  BY <1>4, <1>5, <1>8, <1>9, <1>10, <1>11
<1>. QED  BY <1>4, <1>7, <1>9, <1>12 DEF V

LEMMA OriginAgrees ==
    ASSUME NEW u, ValidUrl(u), u.inf.special
    PROVE  GetOrigin(u) = View(u, SCHEME) \o <<":", "/", "/">> \o GetHost(u)
<1>1. Framed(u) /\ ~IsNull(u, HOST) /\ Piece(u, PATH) # <<>>
  BY DEF ValidUrl, Record, HostConsistent, PathConsistent
<1>2. PICK l \in Part : ValidEnds(u, l)
  BY ValidUrlEnds
<1>3. PATH =< l
  <2>1. PieceFacts(u, l, PATH) /\ (PATH > l \/ PATH =< l)
    BY <1>2, PiecesAre, PartInt, PartNumbers DEF ValidEnds
  <2>. QED  BY <1>1, <2>1 DEF PieceFacts
<1>4. \A t \in {SCHEME, SCHEME_SEP, HOST_START, PORT} : t =< l
  BY <1>2, <1>3, PartNumbers DEF ValidEnds
<1>5. \A t \in {SCHEME, SCHEME_SEP, HOST_START, PORT} : EndOf(u, l, t) = u.ends[t]
  BY <1>4 DEF EndOf
<1>6. SubSeq(u.norm, 1, u.ends[SCHEME_SEP]) = View(u, SCHEME) \o <<":", "/", "/">>
  <2>1. UpTo(u, l, SCHEME) = Piece(u, SCHEME)
    <3>1. PartPos(u, SCHEME) = 0
      BY DEF PartPos
    <3>. QED  BY <1>5, <3>1, PieceSlice DEF UpTo
  <2>2. SCHEME_SEP \in Part /\ SCHEME_SEP # SCHEME /\ SCHEME_SEP - 1 = SCHEME
    BY PartNumbers
  <2>3. UpTo(u, l, SCHEME_SEP) = UpTo(u, l, SCHEME) \o Piece(u, SCHEME_SEP)
    BY <1>2, <2>2, NextPiece
  <2>4. Piece(u, SCHEME_SEP) = <<":", "/", "/">>
    BY <1>1, FramedFacts
  <2>5. UpTo(u, l, SCHEME_SEP) = SubSeq(u.norm, 1, u.ends[SCHEME_SEP])
    <3>1. EndOf(u, l, SCHEME_SEP) = u.ends[SCHEME_SEP] /\ 0 + 1 = 1
      BY <1>5
    <3>. QED  BY <3>1, Zenon DEF UpTo, Slice
  <2>6. View(u, SCHEME) = Piece(u, SCHEME)
    BY SingleParts
  <2>. QED  BY <2>1, <2>3, <2>4, <2>5, <2>6
<1>7. SubSeq(u.norm, u.ends[HOST_START] + 1, u.ends[PORT]) = GetHost(u)
  <2>1. HOST \in Part /\ PORT \in Part /\ HOST # SCHEME /\ PORT = HOST + 1
        /\ HOST - 1 = HOST_START
    BY PartNumbers
  <2>2. Slice(u.norm, EndOf(u, l, HOST - 1), EndOf(u, l, PORT))
          = Piece(u, HOST) \o Piece(u, PORT)
    BY <1>2, <2>1, TwoParts
  <2>3. GetHost(u) = Piece(u, HOST) \o Piece(u, PORT)
    BY HostAgreesWithParts, SingleParts
  <2>. QED  BY <1>5, <2>1, <2>2, <2>3 DEF Slice
<1>. QED  BY <1>6, <1>7 DEF GetOrigin

LEMMA WithoutFragmentAgrees ==
    ASSUME NEW u, ValidUrl(u)
    PROVE  u.norm = SerializeWithoutFragment(u)
                      \o OptionalText(<<"#">>, Optional(u, FRAGMENT))
<1>1. OptionalText(<<"#">>, Optional(u, FRAGMENT)) = Piece(u, FRAGMENT)
  BY SingleParts
<1>2. PICK l \in Part : ValidEnds(u, l)
  BY ValidUrlEnds
<1>3. u.norm \in Text /\ EndsUpTo(u, l) /\ u \in Url /\ (u.ends[FRAGMENT] # 0 <=> FRAGMENT =< l)
  BY <1>2, PartNumbers DEF ValidEnds
<1>4. CASE FRAGMENT =< l
  <2>1. FRAGMENT = l /\ QUERY =< l /\ FRAGMENT \in Part /\ FRAGMENT # SCHEME
        /\ FRAGMENT - 1 = QUERY
    <3>1. l \in Int /\ l =< FRAGMENT
      BY <1>2, PartInt, PartNumbers DEF ValidEnds, Part
    <3>. QED  BY <1>4, <3>1, PartNumbers
  <2>2. UpTo(u, l, FRAGMENT) = UpTo(u, l, QUERY) \o Piece(u, FRAGMENT)
    BY <1>2, <2>1, NextPiece
  <2>3. UpTo(u, l, FRAGMENT) = u.norm
    BY <1>2, <1>3, <2>1, SliceAll DEF UpTo, EndOf, ValidEnds
  <2>4. UpTo(u, l, QUERY) = SerializeWithoutFragment(u)
    <3>1. EndOf(u, l, QUERY) = u.ends[QUERY] /\ 0 + 1 = 1
      BY <2>1 DEF EndOf
    <3>2. SerializeWithoutFragment(u) = SubSeq(u.norm, 1, u.ends[QUERY])
      BY <1>3, <1>4 DEF SerializeWithoutFragment
    <3>. QED  BY <3>1, <3>2, Zenon DEF UpTo, Slice
  <2>. QED  BY <1>1, <2>2, <2>3, <2>4
<1>5. CASE ~(FRAGMENT =< l)
  <2>1. PieceFacts(u, l, FRAGMENT) /\ FRAGMENT > l
    BY <1>2, <1>3, <1>5, PiecesAre, PartInt, PartNumbers DEF ValidEnds
  <2>2. Piece(u, FRAGMENT) = <<>>
    BY <2>1 DEF PieceFacts
  <2>3. SerializeWithoutFragment(u) = u.norm
    BY <1>3, <1>5 DEF SerializeWithoutFragment
  <2>. QED  BY <1>1, <1>3, <2>2, <2>3, JoinEmpty
<1>. QED  BY <1>4, <1>5

\* The getters that take several parts at once, from the start of one to the
\* end of another, give what the getters of the single parts give.
THEOREM GettersAgreeAlways == Spec => []GettersAgree
<1>1. ASSUME FullInv, AtRest, IsValid(url)
      PROVE  LET LedText(lead, t) == IF View(url, t) = <<>> THEN <<>> ELSE lead \o View(url, t)
             IN  GetSearch(url) = LedText(<<"?">>, QUERY) /\ GetHash(url) = LedText(<<"#">>, FRAGMENT)
  <2>1. ValidUrl(url) /\ Framed(url)
    BY <1>1, FullInvFacts, UrlIsValid DEF ValidUrl, Record
  <2>2. Led(url, QUERY, "?") /\ Led(url, FRAGMENT, "#")
    BY <2>1, FramedFacts
  <2>. QED  BY <2>1, <2>2, LedPartAgrees DEF GetSearch, GetHash
<1>2. ASSUME FullInv, AtRest, IsValid(url)
      PROVE  /\ GetProtocol(url) = View(url, SCHEME) \o <<":">>
             /\ GetHost(url) = View(url, HOST) \o OptionalText(<<":">>, Optional(url, PORT))
             /\ GetPath(url) = View(url, PATH) \o OptionalText(<<"?">>, Optional(url, QUERY))
             /\ url.inf.special =>
                   GetOrigin(url) = View(url, SCHEME) \o <<":", "/", "/">> \o GetHost(url)
             /\ url.norm = SerializeWithoutFragment(url)
                             \o OptionalText(<<"#">>, Optional(url, FRAGMENT))
  BY <1>2, FullInvFacts, UrlIsValid, ProtocolAgrees, HostAgreesWithParts, PathAgrees, OriginAgrees,
     WithoutFragmentAgrees
<1>3. FullInv => GettersAgree
  BY <1>1, <1>2 DEF GettersAgree
<1>. QED  BY <1>3, FullInvariance, PTL

\* What the URL standard says of every URL record holds of every valid url:
\* credentials and a port need a host, a special URL has one, an opaque path
\* has none, and the default port is not kept.
THEOREM RecordsAreConsistent == Spec => []RecordIsConsistent
<1>1. ASSUME FullInv, AtRest, IsValid(url) PROVE ValidUrl(url)
  BY <1>1, FullInvFacts, UrlIsValid
<1>2. ASSUME ValidUrl(url)
      PROVE  /\ HasCredentials(url) \/ ~IsNull(url, PORT) =>
                   ~IsEmpty(url, HOST) /\ ~url.inf.file
             /\ url.inf.special =>
                   ~IsNull(url, HOST) /\ (url.inf.file \/ ~IsEmpty(url, HOST))
  <2>1. HostConsistent(url) /\ PasswordFramed(url) /\ Readable(url)
    BY <1>2, ValidUrlEnds, FramedFacts DEF ValidUrl, Record
  <2>2. /\ HasCredentials(url) <=> HasUserinfo(url)
        /\ IsEmpty(url, HOST) <=> Piece(url, HOST) = <<>>
    BY <2>1, ReadPieces
  <2>. QED  BY <2>1, <2>2 DEF HostConsistent
<1>3. ASSUME ValidUrl(url), HasOpaquePath(url) PROVE IsNull(url, HOST) /\ ~url.inf.special
  BY <1>3 DEF ValidUrl, Complete, CompleteUpTo, Sound, HostAgrees
<1>4. ASSUME ValidUrl(url), ~IsNull(url, PORT) PROVE PortInt(url) # url.inf.port
  <2>1. Readable(url) /\ PortFramed(url) /\ HostConsistent(url)
    BY <1>4, ValidUrlEnds, FramedFacts DEF ValidUrl, Record
  <2>2. PortInt(url) = PortValue(Tail(Piece(url, PORT)))
    BY <1>4, <2>1, PortIs
  <2>. QED  BY <1>4, <2>1, <2>2 DEF HostConsistent
<1>5. ASSUME ValidUrl(url), url.inf.special PROVE ~IsEmpty(url, PATH)
  <2>1. Readable(url) /\ Piece(url, PATH) # <<>>
    BY <1>5, ValidUrlEnds DEF ValidUrl, Record, PathConsistent
  <2>2. PATH \in Part /\ PartStart(PATH) = 0
    BY PartNumbers DEF PartStart
  <2>. QED  BY <2>1, <2>2, PieceEmpty DEF Readable
<1>6. FullInv => RecordIsConsistent
  BY <1>1, <1>2, <1>3, <1>4, <1>5 DEF RecordIsConsistent
<1>. QED  BY <1>6, FullInvariance, PTL

-----------------------------------------------------------------------------
(***************************************************************************)
(* What a call leaves as it was: everything when it fails, and every part  *)
(* but its own when it does not.                                           *)
(*                                                                         *)
(* Both properties look at the end of a call; what makes them true is what *)
(* url_parse does with a state_override.  It goes through few of its       *)
(* states, and in those that can fail nothing was written yet, but for the *)
(* port after a host: CallInv says so of every state.  KeptInv says which  *)
(* parts were changed when a state is entered.                             *)
(***************************************************************************)

Fields == {"u", "setter", "save", "last", "inBuf", "buf", "part", "segEnd", "sane"}

\* What no operation of a serializer changes.
Keeps(x, y) == DOMAIN y = Fields /\ y.setter = x.setter /\ y.save = x.save

-----------------------------------------------------------------------------
(* The operations of url_serializer and url_setter.                        *)

LEMMA KeepsTrans ==
    ASSUME NEW x, NEW y, NEW z, Keeps(x, y), Keeps(y, z)
    PROVE  Keeps(x, z)
BY DEF Keeps

LEMMA KeepsExpect ==
    ASSUME NEW x, NEW y, Keeps(x, y), NEW b
    PROVE  Keeps(x, Expect(y, b))
BY DEF Keeps, Expect, Fields

LEMMA KeepsStartPart ==
    ASSUME NEW x, DOMAIN x = Fields, NEW t
    PROVE  Keeps(x, StartPart(x, t))
<1>1. ASSUME NEW y, Keeps(x, y) PROVE Keeps(x, AppendingStart(y, t))
  BY <1>1 DEF Keeps, Fields, AppendingStart, Expect
<1>. DEFINE y == Expect([x EXCEPT !.part = t], t > SCHEME)
            append == [y EXCEPT !.last = FindLastPart(x.u, t), !.inBuf = FALSE]
            buffer == [y EXCEPT !.inBuf = TRUE, !.buf = BufferLead(x.u, t)]
            cut == [y EXCEPT !.u = CutBefore(x.u, t), !.last = t - 1, !.inBuf = FALSE]
<1>2. Keeps(x, x) /\ Keeps(x, append) /\ Keeps(x, buffer) /\ Keeps(x, cut)
  BY DEF Keeps, Expect, Fields
<1>3. Keeps(x, AppendingStart(append, t)) /\ Keeps(x, AppendingStart(cut, t))
  BY <1>1, <1>2
<1>4. Keeps(x, EditingStart(x, t))
  BY <1>2, <1>3 DEF EditingStart
<1>. QED  BY <1>1, <1>2, <1>4 DEF StartPart

LEMMA KeepsPutPart ==
    ASSUME NEW x, DOMAIN x = Fields, NEW t, NEW s
    PROVE  Keeps(x, PutPart(x, t, s))
<1>1. ASSUME NEW y, Keeps(x, y) PROVE Keeps(x, SavePart(Write(y, s)))
  BY <1>1 DEF Keeps, Fields, SavePart, Write
<1>. QED  BY <1>1, KeepsStartPart DEF PutPart

LEMMA KeepsScheme ==
    ASSUME NEW x, DOMAIN x = Fields, NEW s
    PROVE  /\ Keeps(x, AppendScheme(x, s)) /\ Keeps(x, ReplaceScheme(x, s))
           /\ Keeps(x, SetHasOpaquePath(x))
<1>1. Keeps(x, AppendScheme(x, s)) /\ Keeps(x, ReplaceScheme(x, s))
  BY DEF Keeps, Fields, AppendScheme, ReplaceScheme
<1>2. Keeps(x, [x EXCEPT !.u.flags = @ \cup {OPAQUE_PATH}])
  BY DEF Keeps, Fields
<1>. QED  BY <1>1, <1>2, KeepsExpect DEF SetHasOpaquePath

LEMMA KeepsRemoval ==
    ASSUME NEW x, DOMAIN x = Fields, NEW t
    PROVE  Keeps(x, ClearPart(x, t)) /\ Keeps(x, StripOpaquePath(x))
BY DEF Keeps, Fields, ClearPart, StripOpaquePath

LEMMA KeepsHost ==
    ASSUME NEW x, DOMAIN x = Fields, NEW s, NEW ht
    PROVE  Keeps(x, PutHost(x, s, ht)) /\ Keeps(x, SetEmptyHost(x)) /\ Keeps(x, EmptyHost(x))
<1>. DEFINE setter(u) == [x EXCEPT !.u = SetHostType(u, "Empty")]
            start == x.u.ends[HOST_START]
            serializer == [x EXCEPT !.u = [SetHostType(x.u, "Empty") EXCEPT
                                             !.ends[HOST] = start,
                                             !.norm = SubSeq(@, 1, start)]]
<1>1. Keeps(x, PutPart(x, HOST, s)) /\ Keeps(x, PutPart(x, HOST, <<>>))
  BY KeepsPutPart
<1>2. ASSUME NEW y, Keeps(x, y), NEW u PROVE Keeps(x, [y EXCEPT !.u = u])
  BY <1>2 DEF Keeps, Fields
<1>3. Keeps(x, PutHost(x, s, ht)) /\ Keeps(x, SetEmptyHost(x))
  BY <1>1, <1>2 DEF PutHost, SetEmptyHost
<1>4. Keeps(x, x)
  BY DEF Keeps
<1>5. Keeps(x, serializer) /\ \A u : Keeps(x, setter(u))
  BY <1>2, <1>4
<1>6. Keeps(x, EmptyHost(x))
  BY <1>5, KeepsExpect DEF EmptyHost
<1>. QED  BY <1>3, <1>6

LEMMA KeepsPath ==
    ASSUME NEW x, DOMAIN x = Fields, NEW s
    PROVE  /\ Keeps(x, PutSegment(x, s)) /\ Keeps(x, PutEmptySegment(x))
           /\ Keeps(x, ShortenPath(x)) /\ Keeps(x, CommitPath(x))
           /\ Keeps(x, PutPathString(x, s))
<1>0. Keeps(x, x)
  BY DEF Keeps
<1>1. ASSUME NEW r PROVE Keeps(x, PutSegment(x, r))
  <2>. DEFINE y == PutPart(x, PATH, <<"/">> \o r)
  <2>1. Keeps(x, y)
    BY KeepsPutPart
  <2>. HIDE DEF y
  <2>2. Keeps(x, [y EXCEPT !.u.segs = @ + 1])
    BY <2>1 DEF Keeps, Fields
  <2>3. Keeps(x, [x EXCEPT !.buf = @ \o <<"/">> \o r,
                           !.segEnd = Append(@, Len(x.buf) + 1 + Len(r))])
    BY DEF Keeps, Fields
  <2>. QED  BY <2>2, <2>3 DEF PutSegment, y
<1>2. Keeps(x, ShortenPath(x))
  <2>. DEFINE end == RemLastEnd(x.u)
              left == SubSeq(x.segEnd, 1, Len(x.segEnd) - 1)
              cut == [x EXCEPT !.u.norm = SubSeq(@, 1, end),
                               !.u.ends[PATH] = end, !.u.segs = @ - 1]
              collected == [x EXCEPT !.segEnd = left,
                              !.buf = IF Len(x.segEnd) = 1 THEN <<>>
                                      ELSE SubSeq(@, 1, left[Len(x.segEnd) - 1])]
  <2>1. Keeps(x, cut) /\ Keeps(x, collected)
    BY DEF Keeps, Fields
  <2>2. \A b : Keeps(x, Expect(cut, b)) /\ Keeps(x, Expect(x, b))
    BY <1>0, <2>1, KeepsExpect
  <2>. QED  BY <1>0, <2>1, <2>2 DEF ShortenPath
<1>3. Keeps(x, CommitPath(x))
  BY DEF CommitPath, Keeps, Fields
<1>4. Keeps(x, PutPathString(x, s))
  BY KeepsPutPart, KeepsExpect DEF PutPathString
<1>. QED  BY <1>1, <1>2, <1>3, <1>4 DEF PutEmptySegment

LEMMA KeepsAppendParts ==
    ASSUME NEW x, DOMAIN x = Fields, NEW src, NEW t1, NEW t2, NEW how
    PROVE  Keeps(x, AppendParts(x, src, t1, t2, how))
<1>1. ASSUME NEW y, Keeps(x, y), NEW first, NEW last
      PROVE  Keeps(x, CopyParts(y, src, first, last, how))
  <2>1. Keeps(x, AppendingStart(y, first))
    BY <1>1 DEF Keeps, Fields, AppendingStart, Expect
  <2>2. ASSUME NEW z, Keeps(x, z), NEW text, NEW ends, NEW segs
        PROVE  Keeps(x, [z EXCEPT !.u.norm = @ \o text, !.u.ends = ends,
                                  !.u.segs = segs, !.last = last])
    BY <2>2 DEF Keeps, Fields
  <2>. QED  BY <2>1, <2>2 DEF CopyParts
<1>2. \A u : Keeps(x, [x EXCEPT !.u = u])
  BY DEF Keeps, Fields
<1>3. Keeps(x, x)
  BY DEF Keeps
<1>. QED  BY <1>1, <1>2, <1>3 DEF AppendParts

LEMMA KeepsHostOutput ==
    ASSUME NEW x, DOMAIN x = Fields, NEW s, NEW isOpaque
    PROVE  Keeps(x, ParseHostOutput(x, s, isOpaque))
<1>1. Keeps(x, x)
  BY DEF Keeps
<1>. QED  BY <1>1, KeepsHost DEF ParseHostOutput

\* A host that cannot be parsed is not written.
LEMMA HostFailureWritesNothing ==
    ASSUME NEW x, NEW s, NEW isOpaque, s = <<>> => isOpaque,
           ParseHostResult(s, isOpaque) # "ok"
    PROVE  ParseHostOutput(x, s, isOpaque) = x
BY DEF ParseHostResult, ParseHostOutput

LEMMA KeepsCredentials ==
    ASSUME NEW x, DOMAIN x = Fields, NEW userinfo
    PROVE  Keeps(x, PutCredentials(x, userinfo))
<1>. DEFINE colon == FindFirst(userinfo, {":"})
            password == Encode(From(userinfo, colon + 1), UserinfoSet)
            y == PutPart(x, USERNAME, Encode(Before(userinfo, colon), UserinfoSet))
<1>1. Keeps(x, x) /\ Keeps(x, y)
  BY KeepsPutPart DEF Keeps
<1>2. Keeps(x, PutPart(y, PASSWORD, password))
  <2>. HIDE DEF y, password
  <2>1. DOMAIN y = Fields /\ Keeps(y, PutPart(y, PASSWORD, password))
    BY <1>1, KeepsPutPart DEF Keeps
  <2>. QED  BY <1>1, <2>1, KeepsTrans
<1>. QED  BY <1>1, <1>2 DEF PutCredentials

LEMMA KeepsPort ==
    ASSUME NEW x, DOMAIN x = Fields, NEW digits
    PROVE  Keeps(x, PutPort(x, digits))
<1>1. Keeps(x, x)
  BY DEF Keeps
<1>2. ASSUME NEW y, Keeps(x, y), NEW t PROVE Keeps(x, [y EXCEPT !.u.flags = @ \cup {t}])
  BY <1>2 DEF Keeps, Fields
<1>. QED  BY <1>1, <1>2, KeepsPutPart, KeepsRemoval DEF PutPort

-----------------------------------------------------------------------------
(* The invariant.                                                          *)

InCall == pc \in ParserState \cup {"return"}

\* The states of url_parse that a setter goes through.
SetterState ==
    {"scheme_start", "scheme", "host", "hostname", "file_host", "port",
     "path_start", "path", "path_end", "query", "fragment", "return"}

\* Those in which a setter may fail, or has.
Undecided ==
    \/ pc \in {"scheme_start", "scheme", "host", "hostname", "file_host"}
    \/ pc = "port" /\ op # "host"
    \/ pc = "return" /\ res # "ok" /\ ~(op = "host" /\ res = "port_out_of_range")

SettingInv ==
    /\ urls.save = TRUE
    /\ pc \in SetterState
    /\ pc = "host" => op = "host"
    /\ Undecided => url = old

CallInv ==
    /\ DOMAIN urls = Fields
    /\ InCall => /\ urls.setter = override
                 /\ override \in BOOLEAN
                 /\ override => SettingInv
                 /\ op = "href" => urls.save
    /\ FailureIsAtomic

\* A step of url_parse that keeps the control of the serializer.
LEMMA GotoStep ==
    ASSUME NEW state, NEW x, NEW rest, InCall, CallInv, Keeps(urls, x),
           state \in ParserState, Goto(state, x, rest),
           override => SettingInv'
    PROVE  CallInv'
BY DEF Goto, CallInv, Keeps, InCall, FailureIsAtomic, ParserState, callVars

LEMMA CallReturnStep ==
    ASSUME NEW r, NEW x, InCall, CallInv, Keeps(urls, x), Return(r, x),
           override => SettingInv'
    PROVE  CallInv'
BY DEF Return, CallInv, Keeps, InCall, FailureIsAtomic, parserVars, callVars

LEMMA CallInit == Init => CallInv
BY DEF Init, CallInv, InCall, ParserState, FailureIsAtomic, NewSerializer, Fields

LEMMA CallDoneStep ==
    ASSUME NEW r, NEW u, Done(r, u), op' = op /\ old' = old,
           r # "ok" /\ op \notin {"parse", "reparse"} =>
              u = old \/ (op = "host" /\ r = "port_out_of_range")
    PROVE  CallInv'
BY DEF Done, CallInv, InCall, ParserState, FailureIsAtomic, NewSerializer, Fields, url

LEMMA CallBeginStep ==
    ASSUME NEW u, NEW save, NEW text, NEW b, NEW isBase, BeginParse(u, save, text, b, isBase),
           op' = "href" => save = TRUE
    PROVE  CallInv'
<1>1. /\ urls' = NewSerializer(Reset(u), save)
      /\ pc' \in {"return", "scheme_start"} /\ override' = FALSE
  BY DEF BeginParse, Enter
<1>2. DOMAIN urls' = Fields /\ urls'.setter = FALSE /\ urls'.save = save
  BY <1>1 DEF NewSerializer, Fields
<1>. QED  BY <1>1, <1>2 DEF CallInv, FailureIsAtomic

LEMMA CallMadeStep ==
    ASSUME CallInv, MakeCall
    PROVE  CallInv'
<1>1. ASSUME NEW call, NEW text, NEW allowed, NEW state, NEW input,
             EnterSetter(call, text, allowed, state, input),
             state \in SetterState \ {"return"}, state = "host" => call = "host"
      PROVE  CallInv'
  <2>1. CASE allowed
    BY <1>1, <2>1 DEF EnterSetter, Enter, Called, CallInv, InCall, SettingInv, Undecided,
         FailureIsAtomic, ParserState, SetterState, NewSetter, NewSerializer, Fields, url
  <2>2. CASE ~allowed
    BY <1>1, <2>2 DEF EnterSetter, Done, Called, CallInv, InCall, ParserState,
         FailureIsAtomic, NewSerializer, Fields, url
  <2>. QED  BY <2>1, <2>2
<1>2. ASSUME NEW call, NEW text, NEW r, NEW x, Set(call, text, r, x),
             r # "ok" => x = urls
      PROVE  CallInv'
  BY <1>2 DEF Set, Called, Done, CallInv, InCall, ParserState, FailureIsAtomic,
       NewSerializer, Fields, url
<1>3. ASSUME NEW call, NEW t, NEW text, SetUserinfo(call, t, text) PROVE CallInv'
  BY <1>2, <1>3 DEF SetUserinfo
<1>4. ASSUME NEW call, NEW t, NEW lead, NEW state, NEW text,
             SetLast(call, t, lead, state, text), state \in {"query", "fragment"}
      PROVE  CallInv'
  <2>1. state \in SetterState \ {"return"} /\ state # "host"
    BY <1>4 DEF SetterState
  <2>. QED  BY <1>1, <1>2, <1>4, <2>1 DEF SetLast
<1>5. ASSUME NEW text, Parse(text) \/ ParseWithBase(text) \/ SetHref(text) PROVE CallInv'
  BY <1>5, CallBeginStep DEF Parse, ParseWithBase, SetHref, Called
<1>6. CASE Reparse
  BY <1>6, CallBeginStep DEF Reparse, Called
<1>7. CASE Clear
  BY <1>7 DEF Clear, Called, Done, CallInv, InCall, ParserState, FailureIsAtomic,
       NewSerializer, Fields, url
<1>8. ASSUME NEW text, SetProtocol(text) PROVE CallInv'
  BY <1>1, <1>8 DEF SetProtocol, SetterState
<1>9. ASSUME NEW text, SetUsername(text) \/ SetPassword(text) PROVE CallInv'
  BY <1>3, <1>9 DEF SetUsername, SetPassword
<1>10. ASSUME NEW text, SetHost(text) \/ SetHostname(text) \/ SetPathname(text)
       PROVE CallInv'
  BY <1>1, <1>10 DEF SetHost, SetHostname, SetPathname, SetterState
<1>11. ASSUME NEW text, SetPort(text) PROVE CallInv'
  BY <1>1, <1>2, <1>11 DEF SetPort, SetterState
<1>12. ASSUME NEW text, SetSearch(text) \/ SetHash(text) PROVE CallInv'
  BY <1>4, <1>12 DEF SetSearch, SetHash
<1>13. /\ pc = "idle"
      /\ \/ Reparse \/ Clear
         \/ \E text : \/ Parse(text) \/ ParseWithBase(text) \/ SetHref(text)
                      \/ SetProtocol(text) \/ SetUsername(text) \/ SetPassword(text)
                      \/ SetHost(text) \/ SetHostname(text) \/ SetPathname(text)
                      \/ SetPort(text) \/ SetSearch(text) \/ SetHash(text)
  BY DEF MakeCall
<1>. QED  BY <1>5, <1>6, <1>7, <1>8, <1>9, <1>10, <1>11, <1>12, <1>13

-----------------------------------------------------------------------------
(* The states of url_parse, one lemma for those that a setter never enters *)
(* and one for each group of the others.                                   *)

\* States that are entered without a state_override only.
LEMMA ParserOnlyStep ==
    ASSUME CallInv,
           \/ NoSchemeState \/ SpecialRelativeOrAuthorityState
           \/ PathOrAuthorityState \/ RelativeState \/ RelativeSlashState
           \/ SpecialAuthoritySlashesState \/ SpecialAuthorityIgnoreSlashesState
           \/ AuthorityState \/ FileState \/ FileSlashState \/ OpaquePathState
    PROVE  CallInv'
<1>. DEFINE S == {"no_scheme", "special_relative_or_authority", "path_or_authority",
                  "relative", "relative_slash", "special_authority_slashes",
                  "special_authority_ignore_slashes", "authority", "file",
                  "file_slash", "opaque_path"}
<1>1. pc \in S
  BY DEF NoSchemeState, SpecialRelativeOrAuthorityState,
         PathOrAuthorityState, RelativeState, RelativeSlashState,
         SpecialAuthoritySlashesState, SpecialAuthorityIgnoreSlashesState,
         AuthorityState, FileState, FileSlashState, OpaquePathState
<1>2. InCall /\ pc \notin SetterState
  BY <1>1 DEF InCall, ParserState, SetterState
<1>3. ~override /\ DOMAIN urls = Fields
  BY <1>2 DEF CallInv, SettingInv
<1>4. \A x : Keeps(urls, x) =>
          /\ \A state, rest : state \in ParserState /\ Goto(state, x, rest) => CallInv'
          /\ \A r : Return(r, x) => CallInv'
  BY <1>2, <1>3, GotoStep, CallReturnStep
<1>5. Keeps(urls, urls)
  BY <1>3 DEF Keeps
<1>6. ASSUME NEW x, Keeps(urls, x), NEW src, NEW t1, NEW t2, NEW how
      PROVE  Keeps(urls, AppendParts(x, src, t1, t2, how))
  BY <1>6, KeepsAppendParts, KeepsTrans DEF Keeps
<1>7. Keeps(urls, BaseScheme)
  <2>1. ASSUME NEW x, Keeps(urls, x), NEW i PROVE Keeps(urls, [x EXCEPT !.u.inf = i])
    BY <2>1 DEF Keeps, Fields
  <2>. QED  BY <1>3, <2>1, KeepsScheme DEF BaseScheme
<1>8. CASE NoSchemeState
  BY <1>4, <1>5, <1>6, <1>7, <1>8 DEF NoSchemeState, ParserState
<1>9. CASE RelativeState
  <2>1. ASSUME NEW t, NEW how PROVE Keeps(urls, AppendParts(BaseScheme, base, USERNAME, t, how))
    BY <1>6, <1>7
  <2>. QED  BY <1>4, <1>7, <1>9, <2>1 DEF RelativeState, ParserState
<1>10. CASE RelativeSlashState
  BY <1>4, <1>5, <1>6, <1>10 DEF RelativeSlashState, ParserState
<1>11. CASE SpecialRelativeOrAuthorityState \/ PathOrAuthorityState
            \/ SpecialAuthoritySlashesState \/ SpecialAuthorityIgnoreSlashesState
  BY <1>4, <1>5, <1>11 DEF SpecialRelativeOrAuthorityState, PathOrAuthorityState,
       SpecialAuthoritySlashesState, SpecialAuthorityIgnoreSlashesState, ParserState
<1>12. CASE AuthorityState
  <2>1. \A userinfo : Keeps(urls, PutCredentials(urls, userinfo))
    BY <1>3, KeepsCredentials
  <2>. QED  BY <1>4, <1>5, <1>12, <2>1 DEF AuthorityState, ParserState
<1>13. CASE FileState
  <2>. DEFINE scheme == IF url.inf.file THEN urls ELSE AppendScheme(urls, <<"file">>)
              x == SetEmptyHost(scheme)
  <2>1. Keeps(urls, scheme)
    BY <1>3, <1>5, KeepsScheme
  <2>2. Keeps(urls, x)
    <3>. HIDE DEF scheme
    <3>. QED  BY <2>1, KeepsHost, KeepsTrans DEF Keeps
  <2>3. ASSUME NEW t, NEW how PROVE Keeps(urls, AppendParts(x, base, HOST, t, how))
    BY <1>6, <2>2
  <2>. HIDE DEF scheme, x
  <2>4. /\ \A y, rest : Keeps(urls, y) => /\ Goto("file_slash", y, rest) => CallInv'
                                          /\ Goto("path", y, rest) => CallInv'
                                          /\ Goto("query", y, rest) => CallInv'
                                          /\ Goto("fragment", y, rest) => CallInv'
    BY <1>4 DEF ParserState
  <2>. QED  BY <1>4, <1>13, <2>2, <2>3, <2>4 DEF FileState, scheme, x
<1>14. CASE FileSlashState
  <2>. DEFINE x == AppendParts(urls, base, HOST, HOST, "keep")
  <2>1. Keeps(urls, x)
    BY <1>5, <1>6
  <2>2. ASSUME NEW s PROVE Keeps(urls, PutSegment(x, s))
    <3>. HIDE DEF x
    <3>. QED  BY <2>1, KeepsPath, KeepsTrans DEF Keeps
  <2>. QED  BY <1>4, <1>5, <1>14, <2>1, <2>2 DEF FileSlashState, ParserState
<1>15. CASE OpaquePathState
  <2>1. \A s : Keeps(urls, PutPathString(urls, s))
    BY <1>3, KeepsPath
  <2>. QED  BY <1>4, <1>15, <2>1 DEF OpaquePathState, ParserState
<1>. QED  BY <1>8, <1>9, <1>10, <1>11, <1>12, <1>13, <1>14, <1>15

LEMMA SchemeStep ==
    ASSUME CallInv, SchemeStartState \/ SchemeOverride \/ SchemeState \/ NotAScheme
    PROVE  CallInv'
<1>1. pc \in {"scheme_start", "scheme"} /\ InCall
  BY DEF SchemeStartState, SchemeOverride, SchemeState, NotAScheme, InCall, ParserState
<1>2. DOMAIN urls = Fields /\ Keeps(urls, urls) /\ override \in BOOLEAN
  BY <1>1 DEF CallInv, Keeps
<1>3. override => urls.save = TRUE /\ url = old
  BY <1>1 DEF CallInv, SettingInv, Undecided
<1>4. CASE SchemeStartState
  <2>1. CASE Goto("scheme", urls, ptr)
    <3>1. override => SettingInv'
      BY <1>3, <2>1 DEF Goto, SettingInv, SetterState, Undecided, callVars, url
    <3>. QED  BY <1>1, <1>2, <2>1, <3>1, GotoStep DEF ParserState
  <2>2. CASE ~override /\ Goto("no_scheme", urls, ptr)
    BY <1>1, <1>2, <2>2, GotoStep DEF ParserState
  <2>3. CASE Return("scheme_invalid_code_point", urls)
    <3>1. override => SettingInv'
      BY <1>3, <2>3 DEF Return, SettingInv, SetterState, Undecided, callVars, url
    <3>. QED  BY <1>1, <1>2, <2>3, <3>1, CallReturnStep
  <2>. QED  BY <1>4, <2>1, <2>2, <2>3 DEF SchemeStartState
<1>5. CASE SchemeOverride
  <2>1. ASSUME NEW x, Keeps(urls, x), Return("ok", x) PROVE CallInv'
    <3>1. override => SettingInv'
      BY <1>3, <2>1 DEF Return, SettingInv, SetterState, Undecided, Keeps, url
    <3>. QED  BY <1>1, <2>1, <3>1, CallReturnStep
  <2>2. ASSUME Return("ignored", urls) PROVE CallInv'
    <3>1. override => SettingInv'
      BY <1>3, <2>2 DEF Return, SettingInv, SetterState, Undecided, callVars, url
    <3>. QED  BY <1>1, <1>2, <2>2, <3>1, CallReturnStep
  <2>. DEFINE x == ReplaceScheme(urls, InputScheme)
  <2>3. Keeps(urls, x)
    BY <1>2, KeepsScheme
  <2>4. Keeps(urls, ClearPart(x, PORT))
    <3>. HIDE DEF x
    <3>. QED  BY <2>3, KeepsRemoval, KeepsTrans DEF Keeps
  <2>. QED  BY <1>5, <2>1, <2>2, <2>3, <2>4 DEF SchemeOverride
<1>6. CASE SchemeState
  <2>. DEFINE x == AppendScheme(urls, InputScheme)
  <2>1. ~override
    BY <1>6 DEF SchemeState
  <2>2. Keeps(urls, x)
    BY <1>2, KeepsScheme
  <2>3. \A b : Keeps(urls, Expect(x, b))
    BY <2>2, KeepsExpect
  <2>4. Keeps(urls, SetHasOpaquePath(x))
    <3>. HIDE DEF x
    <3>. QED  BY <2>2, KeepsScheme, KeepsTrans DEF Keeps
  <2>5. ASSUME NEW y, Keeps(urls, y), NEW state \in ParserState, NEW rest, Goto(state, y, rest)
        PROVE  CallInv'
    BY <1>1, <2>1, <2>5, GotoStep
  <2>. QED  BY <1>6, <2>2, <2>3, <2>4, <2>5 DEF SchemeState, ParserState
<1>7. CASE NotAScheme
  <2>1. CASE Return("scheme_invalid_code_point", urls)
    <3>1. override => SettingInv'
      BY <1>3, <2>1 DEF Return, SettingInv, SetterState, Undecided, callVars, url
    <3>. QED  BY <1>1, <1>2, <2>1, <3>1, CallReturnStep
  <2>2. CASE ~override /\ Goto("no_scheme", urls, ptr)
    BY <1>1, <1>2, <2>2, GotoStep DEF ParserState
  <2>. QED  BY <1>7, <2>1, <2>2 DEF NotAScheme
<1>. QED  BY <1>4, <1>5, <1>6, <1>7

\* In these states a setter has not changed the url when it fails, and it
\* has finished when it does not.
LEMMA CallHostStep ==
    ASSUME CallInv, HostState \/ FileHostOverride \/ FileHostState
    PROVE  CallInv'
<1>1. pc \in {"host", "hostname", "file_host"} /\ InCall
  BY DEF HostState, FileHostOverride, FileHostState, InCall, ParserState
<1>2. DOMAIN urls = Fields /\ Keeps(urls, urls)
  BY <1>1 DEF CallInv, Keeps
<1>3. override => urls.save = TRUE /\ url = old /\ (pc = "host" => op = "host")
  BY <1>1 DEF CallInv, SettingInv, Undecided
<1>4. ASSUME NEW r, Return(r, urls) PROVE CallInv'
  <2>1. override => SettingInv'
    BY <1>3, <1>4 DEF Return, SettingInv, SetterState, Undecided, callVars, url
  <2>. QED  BY <1>1, <1>2, <1>4, <2>1, CallReturnStep
<1>5. ASSUME NEW x, Keeps(urls, x), Return("ok", x) PROVE CallInv'
  <2>1. override => SettingInv'
    BY <1>3, <1>5 DEF Return, SettingInv, SetterState, Undecided, Keeps
  <2>. QED  BY <1>1, <1>5, <2>1, CallReturnStep
<1>6. ASSUME NEW x, Keeps(urls, x), NEW rest, Goto("path_start", x, rest) PROVE CallInv'
  <2>1. override => SettingInv'
    BY <1>3, <1>6 DEF Goto, SettingInv, SetterState, Undecided, Keeps
  <2>. QED  BY <1>1, <1>6, <2>1, GotoStep DEF ParserState
<1>7. ASSUME NEW rest, Goto("file_host", urls, rest) PROVE CallInv'
  <2>1. override => SettingInv'
    BY <1>3, <1>7 DEF Goto, SettingInv, SetterState, Undecided, callVars, url
  <2>. QED  BY <1>1, <1>2, <1>7, <2>1, GotoStep DEF ParserState
<1>8. ASSUME NEW x, Keeps(urls, x), NEW rest, Goto("port", x, rest), override => pc = "host"
      PROVE  CallInv'
  <2>1. override => SettingInv'
    BY <1>3, <1>8 DEF Goto, SettingInv, SetterState, Undecided, Keeps, callVars
  <2>. QED  BY <1>1, <1>8, <2>1, GotoStep DEF ParserState
<1>9. \A s, isOpaque : Keeps(urls, ParseHostOutput(urls, s, isOpaque))
  BY <1>2, KeepsHostOutput
<1>10. CASE HostState
  <2>. DEFINE authority == Before(ptr, EndOfAuthority)
              end == EndOfHost(authority)
              isPort == end =< Len(authority)
              host == Before(authority, end)
              result == ParseHostResult(host, ~special)
              x == ParseHostOutput(urls, host, ~special)
  <2>1. \/ \E r : Return(r, urls)
        \/ /\ host = <<>> => ~special
           /\ isPort /\ override => pc # "hostname"
           /\ IF result # "ok" THEN Return(result, x)
              ELSE IF isPort THEN Goto("port", x, From(ptr, end + 1))
              ELSE IF override THEN Return("ok", x)
              ELSE Goto("path_start", x, From(ptr, end))
    BY <1>10 DEF HostState
  <2>2. Keeps(urls, x)
    BY <1>9
  <2>3. (host = <<>> => ~special) /\ result # "ok" => x = urls
    BY HostFailureWritesNothing
  <2>4. pc \in {"host", "hostname"}
    BY <1>10 DEF HostState
  <2>. HIDE DEF x, result, host, isPort, end
  <2>. QED  BY <1>4, <1>5, <1>6, <1>8, <2>1, <2>2, <2>3, <2>4
<1>11. CASE FileHostOverride
  BY <1>7, <1>11 DEF FileHostOverride
<1>12. CASE FileHostState
  <2>. DEFINE end == FindFirst(ptr, SpecialAuthorityEnd)
              host == Before(ptr, end)
              result == ParseHostResult(host, ~special)
              parsed == ParseHostOutput(urls, host, ~special)
              x == IF host = <<>> THEN SetEmptyHost(urls)
                   ELSE IF View(parsed.u, HOST) = <<"localhost">> THEN EmptyHost(parsed)
                   ELSE parsed
  <2>1. \/ ~override /\ Goto("path", urls, ptr)
        \/ host # <<>> /\ (result # "ok" \/ ~urls.save) /\ Return(result, parsed)
        \/ override /\ Return("ok", x)
        \/ Goto("path_start", x, From(ptr, end))
    BY <1>12 DEF FileHostState
  <2>2. Keeps(urls, parsed)
    BY <1>9
  <2>3. host # <<>> /\ result # "ok" => parsed = urls
    BY HostFailureWritesNothing
  <2>4. Keeps(urls, x)
    <3>1. Keeps(urls, SetEmptyHost(urls))
      BY <1>2, KeepsHost
    <3>. HIDE DEF parsed
    <3>2. Keeps(urls, EmptyHost(parsed))
      BY <2>2, KeepsHost, KeepsTrans DEF Keeps
    <3>. QED  BY <2>2, <3>1, <3>2
  <2>. HIDE DEF x, parsed, result, host, end
  <2>5. CASE ~override /\ Goto("path", urls, ptr)
    BY <1>1, <1>2, <2>5, GotoStep DEF ParserState
  <2>6. CASE ~override /\ Return(result, parsed)
    BY <1>1, <2>2, <2>6, CallReturnStep
  <2>7. override \in BOOLEAN /\ (override => urls.save)
    BY <1>1, <1>3 DEF CallInv
  <2>8. CASE override /\ result # "ok" /\ host # <<>> /\ Return(result, parsed)
    BY <1>4, <2>3, <2>8
  <2>. QED  BY <1>5, <1>6, <2>1, <2>4, <2>5, <2>6, <2>7, <2>8
<1>. QED  BY <1>10, <1>11, <1>12

LEMMA CallPortStep ==
    ASSUME CallInv, PortState
    PROVE  CallInv'
<1>1. pc = "port" /\ InCall
  BY DEF PortState, InCall, ParserState
<1>2. DOMAIN urls = Fields /\ Keeps(urls, urls)
  BY <1>1 DEF CallInv, Keeps
<1>3. override => urls.save = TRUE /\ (op = "host" \/ url = old)
  BY <1>1 DEF CallInv, SettingInv, Undecided
<1>. DEFINE end == FindFirstNot(ptr, Digit)
            digits == PortDigits(Before(ptr, end))
<1>4. \/ ~override /\ Return("port_invalid", urls)
      \/ Return("port_out_of_range", urls)
      \/ \E x \in {urls, PutPort(urls, digits)} :
            IF override THEN Return("ok", x) ELSE Goto("path_start", x, From(ptr, end))
  BY DEF PortState
<1>5. Keeps(urls, PutPort(urls, digits))
  BY <1>2, KeepsPort
<1>. HIDE DEF digits, end
<1>6. CASE ~override /\ Return("port_invalid", urls)
  BY <1>1, <1>2, <1>6, CallReturnStep
<1>7. CASE Return("port_out_of_range", urls)
  <2>1. override => SettingInv'
    BY <1>3, <1>7 DEF Return, SettingInv, SetterState, Undecided, callVars, url
  <2>. QED  BY <1>1, <1>2, <1>7, <2>1, CallReturnStep
<1>8. ASSUME NEW x, Keeps(urls, x), override, Return("ok", x) PROVE CallInv'
  <2>1. SettingInv'
    BY <1>3, <1>8 DEF Return, SettingInv, SetterState, Undecided, Keeps
  <2>. QED  BY <1>1, <1>8, <2>1, CallReturnStep
<1>9. ASSUME NEW x, Keeps(urls, x), ~override, Goto("path_start", x, From(ptr, end)) PROVE CallInv'
  BY <1>1, <1>9, GotoStep DEF ParserState
<1>. QED  BY <1>2, <1>4, <1>5, <1>6, <1>7, <1>8, <1>9

\* From the path on nothing can fail.
LEMMA PathOnwardStep ==
    ASSUME CallInv,
           \/ NothingToSave \/ PathStartState \/ PathState \/ PathEndState
           \/ QueryState \/ FragmentState
    PROVE  CallInv'
<1>. DEFINE S == {"path_start", "path", "path_end", "opaque_path", "query", "fragment"}
<1>1. pc \in S /\ InCall
  BY DEF NothingToSave, PathStartState, PathState, PathEndState, QueryState,
         FragmentState, PathOnward, InCall, ParserState
<1>2. DOMAIN urls = Fields /\ Keeps(urls, urls)
  BY <1>1 DEF CallInv, Keeps
<1>3. override => urls.save = TRUE
  BY <1>1 DEF CallInv, SettingInv
<1>4. ASSUME NEW x, Keeps(urls, x), Return("ok", x) PROVE CallInv'
  <2>1. override => SettingInv'
    BY <1>3, <1>4 DEF Return, SettingInv, SetterState, Undecided, Keeps
  <2>. QED  BY <1>1, <1>4, <2>1, CallReturnStep
<1>5. ASSUME NEW x, Keeps(urls, x), NEW state, NEW rest, Goto(state, x, rest),
             state \in {"path", "path_end", "query", "fragment"}
      PROVE  CallInv'
  <2>1. override => SettingInv'
    BY <1>3, <1>5 DEF Goto, SettingInv, SetterState, Undecided, Keeps
  <2>2. state \in ParserState
    BY <1>5 DEF ParserState
  <2>. QED  BY <1>1, <1>5, <2>1, <2>2, GotoStep
<1>6. ASSUME NEW x, Keeps(urls, x)
      PROVE  /\ Keeps(urls, CommitPath(x)) /\ Keeps(urls, PutEmptySegment(x))
             /\ Keeps(urls, ShortenPath(x)) /\ \A s : Keeps(urls, PutSegment(x, s))
  BY <1>6, KeepsPath, KeepsTrans DEF Keeps
<1>7. CASE NothingToSave
  BY <1>2, <1>4, <1>7 DEF NothingToSave
<1>8. CASE PathStartState
  <2>1. Keeps(urls, CommitPath(urls)) /\ Keeps(urls, CommitPath(PutEmptySegment(urls)))
    BY <1>2, <1>6
  <2>. QED  BY <1>2, <1>4, <1>5, <1>8, <2>1 DEF PathStartState
<1>9. CASE PathState
  <2>1. \A s : Keeps(urls, PutSegment(urls, s))
    BY <1>2, <1>6
  <2>2. Keeps(urls, ShortenPath(urls)) /\ Keeps(urls, PutEmptySegment(urls))
        /\ Keeps(urls, PutEmptySegment(ShortenPath(urls)))
    BY <1>2, <1>6
  <2>. QED  BY <1>2, <1>5, <1>9, <2>1, <2>2 DEF PathState
<1>10. CASE PathEndState
  <2>1. Keeps(urls, CommitPath(urls))
    BY <1>2, <1>6
  <2>. QED  BY <1>4, <1>5, <1>10, <2>1 DEF PathEndState
<1>11. ASSUME NEW t, NEW s
       PROVE  Keeps(urls, [PutPart(urls, t, s) EXCEPT !.u.flags = @ \cup {t}])
  <2>1. Keeps(urls, PutPart(urls, t, s))
    BY <1>2, KeepsPutPart
  <2>2. ASSUME NEW y, Keeps(urls, y) PROVE Keeps(urls, [y EXCEPT !.u.flags = @ \cup {t}])
    BY <2>2 DEF Keeps, Fields
  <2>. QED  BY <2>1, <2>2
<1>12. CASE QueryState
  BY <1>4, <1>5, <1>11, <1>12 DEF QueryState
<1>13. CASE FragmentState
  BY <1>4, <1>11, <1>13 DEF FragmentState
<1>. QED  BY <1>7, <1>8, <1>9, <1>10, <1>12, <1>13

LEMMA ReturnFromCall ==
    ASSUME CallInv, CanParseReturns \/ ParseReturns \/ SetterReturns \/ Resume
    PROVE  CallInv'
<1>1. CASE CanParseReturns
  BY <1>1, CallBeginStep DEF CanParseReturns
<1>2. CASE ParseReturns
  BY <1>2, CallDoneStep DEF ParseReturns, callVars
<1>3. CASE SetterReturns
  <2>1. res # "ok" => url = old \/ (op = "host" /\ res = "port_out_of_range")
    BY <1>3 DEF SetterReturns, CallInv, InCall, SettingInv, Undecided
  <2>. QED  BY <1>3, <2>1, CallDoneStep DEF SetterReturns, callVars
<1>4. CASE Resume
  BY <1>4 DEF Resume, CallInv, InCall, ParserState, FailureIsAtomic
<1>. QED  BY <1>1, <1>2, <1>3, <1>4

-----------------------------------------------------------------------------

LEMMA CallNext ==
    ASSUME CallInv, [Next]_vars
    PROVE  CallInv'
<1>1. CASE MakeCall
  BY <1>1, CallMadeStep
<1>2. CASE Step
  BY <1>2, SchemeStep, ParserOnlyStep, CallHostStep, CallPortStep, PathOnwardStep,
     ReturnFromCall DEF Step
<1>3. CASE UNCHANGED vars
  BY <1>3 DEF vars, CallInv, InCall, SettingInv, Undecided, FailureIsAtomic, url
<1>. QED  BY <1>1, <1>2, <1>3 DEF Next

LEMMA CallInvariance == Spec => []CallInv
BY CallInit, CallNext, PTL DEF Spec

\* A setter, a constructor or href() that fails leaves the url as it was,
\* but for host() when the port after the host is out of range.
THEOREM FailedCallsAreAtomic == Spec => []FailureIsAtomic
<1>1. CallInv => FailureIsAtomic
  BY DEF CallInv
<1>. QED  BY <1>1, CallInvariance, PTL

-----------------------------------------------------------------------------
(* A call that edits one part leaves the others.  What a reader sees of a  *)
(* part is its text, which is in the piece, and whether it is null.        *)

SameParts(u, v, T) == \A t \in RecordParts \ T : SamePart(v, u, t)

LEMMA SamePartsTrans ==
    ASSUME NEW u, NEW v, NEW w, NEW T, NEW R, SameParts(u, v, T), SameParts(v, w, R)
    PROVE  SameParts(u, w, T \cup R)
BY DEF SameParts, SamePart

LEMMA SamePartsSelf ==
    ASSUME NEW u, NEW T
    PROVE  SameParts(u, u, T)
BY DEF SameParts, SamePart

LEMMA SamePartsFewer ==
    ASSUME NEW u, NEW v, NEW T, NEW R, SameParts(u, v, T), T \subseteq R
    PROVE  SameParts(u, v, R)
BY DEF SameParts

LEMMA PartsOfRecord == RecordParts \subseteq Part
BY PartNumbers DEF RecordParts

SamePieceAndNull(u, v, t) == Piece(v, t) = Piece(u, t) /\ (IsNull(v, t) <=> IsNull(u, t))

LEMMA SamePieceSamePart ==
    ASSUME NEW u, Readable(u), NEW v, Readable(v), NEW t \in Part, SamePieceAndNull(u, v, t)
    PROVE  SamePart(v, u, t)
<1>1. View(v, t) = View(u, t)
  <2>1. PICK l \in Part : EndsUpTo(u, l)
    BY DEF Readable
  <2>2. PICK m \in Part : EndsUpTo(v, m)
    BY DEF Readable
  <2>3. u \in Url /\ v \in Url /\ Piece(v, t) = Piece(u, t)
    BY DEF Readable, SamePieceAndNull
  <2>4. PartStart(t) = 0 \/ PartStart(t) = 1
    BY DEF PartStart
  <2>5. /\ PartStart(t) = 0 => View(u, t) = Piece(u, t)
        /\ PartStart(t) = 1 /\ Piece(u, t) # <<>> => View(u, t) = Tail(Piece(u, t))
        /\ PartStart(t) = 1 /\ Piece(u, t) = <<>> => View(u, t) = <<>>
    BY <2>1, <2>3, PieceView
  <2>6. /\ PartStart(t) = 0 => View(v, t) = Piece(v, t)
        /\ PartStart(t) = 1 /\ Piece(v, t) # <<>> => View(v, t) = Tail(Piece(v, t))
        /\ PartStart(t) = 1 /\ Piece(v, t) = <<>> => View(v, t) = <<>>
    BY <2>2, <2>3, PieceView
  <2>. QED  BY <2>3, <2>4, <2>5, <2>6
<1>2. IsNull(v, t) = IsNull(u, t)
  BY DEF SamePieceAndNull, IsNull
<1>. QED  BY <1>1, <1>2 DEF SamePart

LEMMA SamePiecesSameParts ==
    ASSUME NEW u, Readable(u), NEW v, Readable(v), NEW T,
           \A t \in RecordParts \ T : SamePieceAndNull(u, v, t)
    PROVE  SameParts(u, v, T)
BY PartsOfRecord, SamePieceSamePart DEF SameParts

LEMMA PartRemovedSame ==
    ASSUME NEW u, Readable(u), NEW v, Readable(v), NEW t, PartRemoved(u, v, t)
    PROVE  SameParts(u, v, {t})
<1>1. \A p \in RecordParts \ {t} : SamePieceAndNull(u, v, p)
  BY PartsOfRecord DEF PartRemoved, SameBut, SamePieceAndNull, IsNull
<1>. QED  BY <1>1, SamePiecesSameParts

LEMMA ReplacedSchemeSame ==
    ASSUME NEW x, Editor(x), NEW str \in Text, str # <<>>,
           GetSchemeInfo(str).special = x.u.inf.special
    PROVE  SameParts(x.u, ReplaceScheme(x, str).u, {SCHEME})
<1>. DEFINE y == ReplaceScheme(x, str)
<1>1. Editor(y) /\ y.u.flags = x.u.flags
  BY ReplaceSchemeSound
<1>2. Readable(x.u) /\ Readable(y.u)
  BY <1>1, WrittenIsReadable
<1>3. x.u \in Url /\ x \in Serializer
  BY EditorFacts
<1>4. PICK l \in Part : CompleteUpTo(x.u, l)
  BY EditorFacts
<1>5. \A t \in Part : t # SCHEME => Piece(y.u, t) = Piece(x.u, t)
  <2>. DEFINE w == ReplacePart(x.u, SCHEME, str)
              v == [w EXCEPT !.ends[SCHEME] = Len(str), !.inf = GetSchemeInfo(str)]
  <2>1. y.u = v
    BY <1>3 DEF ReplaceScheme, Serializer
  <2>. HIDE DEF y
  <2>2. \A t \in Part : t # SCHEME => Piece(v, t) = Piece(x.u, t)
    BY <1>3, <1>4, SchemeReplacedPieces
  <2>. QED  BY <2>1, <2>2
<1>. HIDE DEF y
<1>6. \A t \in RecordParts \ {SCHEME} : SamePieceAndNull(x.u, y.u, t)
  BY <1>1, <1>5, PartsOfRecord DEF SamePieceAndNull, IsNull
<1>7. SameParts(x.u, y.u, {SCHEME})
  BY <1>2, <1>6, SamePiecesSameParts
<1>. QED  BY <1>7 DEF y

LEMMA UserinfoSame ==
    ASSUME NEW x, Editor(x), Framed(x.u), ~IsEmpty(x.u, HOST),
           NEW t \in {USERNAME, PASSWORD}, NEW s \in Text
    PROVE  SameParts(x.u, PutPart(x, t, s).u, {t})
<1>. DEFINE y == PutPart(x, t, s)
<1>1. t \in {USERNAME, PASSWORD, PORT, QUERY, FRAGMENT} /\ t # PORT /\ HOST_START \notin RecordParts
  BY PartNumbers DEF RecordParts
<1>2. Editor(y) /\ y.u.flags = x.u.flags
  BY <1>1, EditorPut DEF SamePlan
<1>3. Readable(x.u) /\ Readable(y.u)
  BY <1>2, WrittenIsReadable
<1>4. SameBut(x.u, y.u, {t, HOST_START})
  BY EditorUserinfoPieces
<1>. HIDE DEF y
<1>5. \A p \in RecordParts \ {t} : SamePieceAndNull(x.u, y.u, p)
  <2>1. \A p \in RecordParts \ {t} : p \in Part /\ p \notin {t, HOST_START}
    BY <1>1, PartsOfRecord
  <2>. QED  BY <1>2, <1>4, <2>1 DEF SamePieceAndNull, IsNull, SameBut
<1>6. SameParts(x.u, y.u, {t})
  BY <1>3, <1>5, SamePiecesSameParts
<1>. QED  BY <1>6 DEF y

LEMMA WithHostSame ==
    ASSUME NEW u, Readable(u), NEW v, Readable(v), NEW s, WithHost(u, v, s)
    PROVE  SameParts(u, v, {HOST})
<1>1. \A p \in RecordParts \ {HOST} :
         p \in {SCHEME, USERNAME, PASSWORD, PORT, PATH, QUERY, FRAGMENT} /\ p # HOST
  BY DEF RecordParts
<1>2. \A p \in RecordParts \ {HOST} : SamePieceAndNull(u, v, p)
  BY <1>1 DEF WithHost, SamePieceAndNull, IsNull
<1>. QED  BY <1>2, SamePiecesSameParts

LEMMA HostOutputSame ==
    ASSUME NEW x, Editor(x), ~HasOpaquePath(x.u), Record(x.u), NEW s \in Text, NEW isOpaque
    PROVE  LET y == ParseHostOutput(x, s, isOpaque)
           IN Editor(y) /\ SameParts(x.u, y.u, {HOST})
<1>. DEFINE y == ParseHostOutput(x, s, isOpaque)
<1>1. Editor(y)
  BY ParseHostOutputSound DEF HostParsed
<1>2. Readable(x.u) /\ Readable(y.u)
  BY <1>1, WrittenIsReadable
<1>3. MayHost(x)
  BY DEF MayHost, Record
<1>4. y = x \/ \E text \in Text : WithHost(x.u, y.u, text)
  BY <1>3, ParsedHostRecord
<1>. HIDE DEF y
<1>5. SameParts(x.u, y.u, {HOST})
  BY <1>2, <1>4, SamePartsSelf, WithHostSame
<1>. QED  BY <1>1, <1>5 DEF y

LEMMA EmptiedHostSame ==
    ASSUME NEW x, Editor(x), ~HasOpaquePath(x.u), ~IsNull(x.u, HOST), Framed(x.u)
    PROVE  SameParts(x.u, EmptyHost(x).u, {HOST})
<1>1. Editor(EmptyHost(x))
  BY EmptyHostSound
<1>2. Readable(x.u) /\ Readable(EmptyHost(x).u)
  BY <1>1, WrittenIsReadable
<1>3. WithHost(x.u, EmptyHost(x).u, <<>>)
  BY EmptyHostRecord
<1>. QED  BY <1>2, <1>3, WithHostSame

LEMMA SetEmptyHostSame ==
    ASSUME NEW x, Editor(x), ~HasOpaquePath(x.u), Record(x.u), ~IsNull(x.u, HOST)
    PROVE  SameParts(x.u, SetEmptyHost(x).u, {HOST})
<1>1. Editor(SetEmptyHost(x))
  BY SetEmptyHostSound
<1>2. Readable(x.u) /\ Readable(SetEmptyHost(x).u)
  BY <1>1, WrittenIsReadable
<1>3. MayHost(x)
  BY DEF MayHost, Record
<1>4. WithHost(x.u, SetEmptyHost(x).u, <<>>)
  BY <1>3, SetEmptyHostRecord
<1>. QED  BY <1>2, <1>4, WithHostSame

LEMMA ClearPartSame ==
    ASSUME NEW x, Editor(x), Framed(x.u), NEW t \in {PORT, QUERY, FRAGMENT},
           t = PORT => ~HasOpaquePath(x.u)
    PROVE  SameParts(x.u, ClearPart(x, t).u, {t})
<1>1. Editor(ClearPart(x, t))
  BY ClearPartSound DEF PartCleared
<1>2. Readable(x.u) /\ Readable(ClearPart(x, t).u)
  BY <1>1, WrittenIsReadable
<1>3. \E c : Led(x.u, t, c)
  BY FramedFacts DEF PortFramed
<1>4. PartRemoved(x.u, ClearPart(x, t).u, t)
  BY <1>3, ClearPartPieces
<1>. QED  BY <1>2, <1>4, PartRemovedSame

LEMMA FlaggedPartSame ==
    ASSUME NEW x, Editor(x), NEW t \in {PORT, QUERY, FRAGMENT}, NEW s \in Text,
           t = PORT => ~IsNull(x.u, HOST) /\ s # <<>>
    PROVE  SameParts(x.u, WithFlag(PutPart(x, t, s), t).u, {t})
<1>. DEFINE z == PutPart(x, t, s)
            y == WithFlag(z, t)
<1>0. t \in {USERNAME, PASSWORD, PORT, QUERY, FRAGMENT} /\ ~(t < HOST)
  BY PartNumbers
<1>1. Editor(z) /\ z.u.flags = x.u.flags
  BY <1>0, EditorPut DEF SamePlan
<1>2. SameBut(x.u, z.u, {t})
  BY EditorPieces
<1>. HIDE DEF z
<1>3. Editor(y) /\ y.u.flags = z.u.flags \cup {t}
  BY <1>1, FlagSet
<1>4. \A p : Piece(y.u, p) = Piece(z.u, p)
  BY <1>1, FlaggedPieces
<1>5. Readable(x.u) /\ Readable(y.u)
  BY <1>3, WrittenIsReadable
<1>. HIDE DEF y
<1>6. \A p \in RecordParts \ {t} : SamePieceAndNull(x.u, y.u, p)
  BY <1>1, <1>2, <1>3, <1>4, PartsOfRecord DEF SamePieceAndNull, SameBut, IsNull
<1>7. SameParts(x.u, y.u, {t})
  BY <1>5, <1>6, SamePiecesSameParts
<1>. QED  BY <1>7 DEF y, z

LEMMA PutPortSame ==
    ASSUME NEW x, Editor(x), Record(x.u), ~HasOpaquePath(x.u), ~IsNull(x.u, HOST),
           NEW digits \in Text, digits # <<>>
    PROVE  SameParts(x.u, PutPort(x, digits).u, {PORT})
<1>1. x.save = TRUE /\ Framed(x.u)
  BY EditorFacts DEF Record
<1>2. CASE x.u.inf.port = PortValue(digits)
  <2>1. PutPort(x, digits) = ClearPart(x, PORT)
    BY <1>1, <1>2 DEF PutPort
  <2>. QED  BY <1>1, <2>1, ClearPartSame
<1>3. CASE x.u.inf.port # PortValue(digits)
  <2>1. PutPort(x, digits) = WithFlag(PutPart(x, PORT, digits), PORT)
    BY <1>1, <1>3 DEF PutPort, WithFlag
  <2>. QED  BY <2>1, FlaggedPartSame
<1>. QED  BY <1>2, <1>3

LEMMA AdjustedPieces ==
    ASSUME NEW u \in Url, NEW m \in Part, m >= PATH, Sound(u, m)
    PROVE  LET v == AdjustPathPrefix(u)
           IN SameBut(u, v, {PATH_PREFIX}) /\ v.flags = u.flags
<1>1. Ordered(u, m)
  BY DEF Sound
<1>2. /\ PATH_PREFIX \in Part /\ PATH_PREFIX # SCHEME /\ PATH_PREFIX =< PATH_PREFIX
      /\ PATH_PREFIX =< m
      /\ \A t \in Part : t # PATH_PREFIX => t < PATH_PREFIX \/ t > PATH_PREFIX
  BY PartNumbers, PartInt
<1>3. ASSUME NEW s \in {<<>>, <<"/", ".">>}
      PROVE  LET v == ReplacePart(u, PATH_PREFIX, s)
             IN SameBut(u, v, {PATH_PREFIX}) /\ v.flags = u.flags
  <2>. DEFINE v == ReplacePart(u, PATH_PREFIX, s)
  <2>1. s \in Text /\ 0 \in 0 .. Len(s)
    <3>1. <<>> \in Text /\ <<"/", ".">> \in Text
      BY CharAssumption DEF Text, Written
    <3>2. s \in Text
      BY <3>1
    <3>3. Len(s) \in Nat
      BY <3>2 DEF Text
    <3>. QED  BY <3>2, <3>3
  <2>2. v = ReplaceParts(u, PATH_PREFIX, PATH_PREFIX, s, 0)
    BY DEF ReplacePart
  <2>. HIDE DEF v
  <2>3. PiecesReplaced(u, v, PATH_PREFIX, PATH_PREFIX, s, 0)
    BY <1>1, <1>2, <2>1, <2>2, ReplacedPieces
  <2>4. v.flags = u.flags
    BY <1>1, <1>2, <2>1, <2>2, ReplacePartsEnds
  <2>5. SameBut(u, v, {PATH_PREFIX})
    BY <1>2, <2>3 DEF SameBut, PiecesReplaced
  <2>. QED  BY <2>4, <2>5 DEF v
<1>4. SameBut(u, u, {PATH_PREFIX})
  BY DEF SameBut
<1>. QED  BY <1>3, <1>4 DEF AdjustPathPrefix

LEMMA CommittedSame ==
    ASSUME NEW x, Editor(x), ~HasOpaquePath(x.u)
    PROVE  SameParts(x.u, CommitPath(x).u, {PATH})
<1>. DEFINE y == CommitPath(x)
<1>1. Editor(y)
  BY EditorCommitPath
<1>2. Readable(x.u) /\ Readable(y.u)
  BY <1>1, WrittenIsReadable
<1>3. PICK z : Committed(x, z)
  BY EditorCommit
<1>. HIDE DEF y
<1>4. /\ z \in Url /\ SameBut(x.u, z, {PATH}) /\ z.flags = x.u.flags
      /\ y.u = AdjustPathPrefix(z)
  BY <1>3 DEF Committed, OnlyPath, y
<1>5. SameBut(z, y.u, {PATH_PREFIX}) /\ y.u.flags = z.flags
  BY <1>3, <1>4, AdjustedPieces DEF Committed
<1>6. \A p \in RecordParts \ {PATH} : SamePieceAndNull(x.u, y.u, p)
  <2>1. PATH_PREFIX \notin RecordParts
    BY PartNumbers DEF RecordParts
  <2>. QED  BY <1>4, <1>5, <2>1, PartsOfRecord DEF SamePieceAndNull, SameBut, IsNull
<1>7. SameParts(x.u, y.u, {PATH})
  BY <1>2, <1>6, SamePiecesSameParts
<1>. QED  BY <1>7 DEF y

LEMMA StrippedSame ==
    ASSUME NEW x, Editor(x), Framed(x.u)
    PROVE  LET y == StripOpaquePath(x)
           IN /\ SameParts(x.u, y.u, IF HasOpaquePath(x.u) THEN {PATH} ELSE {})
              /\ y.u.flags = x.u.flags
<1>. DEFINE y == StripOpaquePath(x)
<1>1. /\ Editor(y) /\ y.u.flags = x.u.flags
      /\ y = x \/ Stripped(x.u, y.u)
  BY StripOpaquePathSound
<1>. HIDE DEF y
<1>2. Readable(x.u) /\ Readable(y.u) /\ x.u \in Url
  BY <1>1, WrittenIsReadable, EditorFacts
<1>3. ASSUME Stripped(x.u, y.u)
      PROVE  HasOpaquePath(x.u) /\ \A p \in RecordParts \ {PATH} : SamePieceAndNull(x.u, y.u, p)
  <2>1. PICK len \in Nat :
           len =< Len(x.u.norm) /\ x.u.ends[SCHEME] + 1 =< len /\ y.u = StrippedUrl(x.u, len)
    BY <1>3 DEF Stripped
  <2>2. PICK l \in Part : CompleteUpTo(x.u, l)
    BY EditorFacts
  <2>3. PiecesKept(x.u, y.u, PATH_PREFIX, PATH)
    BY <1>2, <1>3, <2>1, <2>2, StrippedPieces DEF Stripped, StrippedUrl
  <2>4. Piece(x.u, QUERY) = <<>> /\ Piece(x.u, FRAGMENT) = <<>>
    BY <1>3, FramedFacts DEF Stripped, Led
  <2>5. \A p \in RecordParts \ {PATH} : p \in Part /\ (p =< PATH_PREFIX \/ p \in {QUERY, FRAGMENT})
    BY PartNumbers DEF RecordParts
  <2>6. QUERY \in Part /\ QUERY > PATH /\ FRAGMENT \in Part /\ FRAGMENT > PATH
    BY PartNumbers
  <2>7. Piece(y.u, QUERY) = <<>> /\ Piece(y.u, FRAGMENT) = <<>>
    BY <2>3, <2>6 DEF PiecesKept
  <2>8. \A p \in RecordParts \ {PATH} : Piece(y.u, p) = Piece(x.u, p)
    BY <2>3, <2>4, <2>5, <2>7 DEF PiecesKept
  <2>9. HasOpaquePath(x.u)
    BY <1>3 DEF Stripped
  <2>. QED  BY <1>1, <2>8, <2>9 DEF SamePieceAndNull, IsNull
<1>4. CASE Stripped(x.u, y.u)
  <2>1. SameParts(x.u, y.u, {PATH}) /\ HasOpaquePath(x.u)
    BY <1>2, <1>3, <1>4, SamePiecesSameParts
  <2>. QED  BY <1>1, <2>1 DEF y
<1>5. CASE y = x
  BY <1>1, <1>5, SamePartsSelf DEF y
<1>. QED  BY <1>1, <1>4, <1>5

-----------------------------------------------------------------------------
(* The invariant: what a setter has changed when it enters a block.        *)

\* The blocks that a setter goes through.
BlocksOf(call) ==
    CASE call = "protocol" -> {"scheme_start", "scheme"}
      [] call = "host" -> {"host", "file_host", "port"}
      [] call = "hostname" -> {"hostname", "file_host"}
      [] call = "port" -> {"port"}
      [] call = "pathname" -> {"path_start", "path", "path_end"}
      [] call = "search" -> {"query"}
      [] call = "hash" -> {"fragment"}
      [] OTHER -> {}

ChangedBefore(call, state) == IF call = "host" /\ state = "port" THEN {HOST} ELSE {}

KeptInBlock ==
    /\ pc \in BlocksOf(op)
    /\ SameParts(old, url, ChangedBefore(op, pc))
    /\ pc = "path_end" => ptr = <<>>

KeptInv ==
    /\ InCall => (override <=> op \in SetterCalls)
    /\ pc \in ParserState /\ override => KeptInBlock
    /\ pc = "return" /\ override => SameParts(old, url, MayChange(op))
    /\ OtherPartsAreKept

\* What holds of a serializer that a setter works on, in a block.
LEMMA SetterBlock ==
    ASSUME FullWork, KeptInv, pc \in ParserState, override
    PROVE  /\ Editor(urls) /\ Record(urls.u) /\ ptr \in Text /\ urls.u = url
           /\ MaySet(pc, urls, ptr)
           /\ pc = "file_host" => urls.u.inf.file
           /\ op \in SetterCalls /\ KeptInBlock
<1>1. /\ MaySet(pc, urls, ptr) /\ ptr \in Text /\ Editor(urls)
      /\ SetRecord(pc, urls)
  BY SettingRecordBlock
<1>. QED  BY <1>1 DEF SetRecord, KeptInv, InCall, url

LEMMA KeptGoto ==
    ASSUME KeptInv, pc \in ParserState, override, NEW state \in ParserState,
           NEW x, NEW rest, Goto(state, x, rest), state \in BlocksOf(op),
           NEW T, SameParts(url, x.u, T),
           T \cup ChangedBefore(op, pc) \subseteq ChangedBefore(op, state),
           state = "path_end" => rest = <<>>
    PROVE  KeptInv'
<1>1. /\ pc' = state /\ ptr' = rest /\ url' = x.u /\ override' = override
      /\ op' = op /\ old' = old
  BY DEF Goto, callVars, url
<1>2. op \in SetterCalls /\ SameParts(old, url, ChangedBefore(op, pc))
  BY DEF KeptInv, InCall, KeptInBlock
<1>3. SameParts(old, x.u, ChangedBefore(op, pc) \cup T)
  BY <1>2, SamePartsTrans
<1>4. SameParts(old, x.u, ChangedBefore(op, state))
  BY <1>3, SamePartsFewer
<1>5. KeptInBlock'
  BY <1>1, <1>4 DEF KeptInBlock
<1>6. state # "return" /\ state # "done"
  BY DEF ParserState
<1>. QED  BY <1>1, <1>2, <1>5, <1>6 DEF KeptInv, OtherPartsAreKept, Returned

LEMMA KeptReturn ==
    ASSUME KeptInv, pc \in ParserState, override, NEW r, NEW x, Return(r, x),
           NEW T, SameParts(url, x.u, T),
           T \cup ChangedBefore(op, pc) \subseteq MayChange(op)'
    PROVE  KeptInv'
<1>1. /\ pc' = "return" /\ url' = x.u /\ override' = override
      /\ op' = op /\ old' = old
  BY DEF Return, callVars, parserVars, url
<1>2. op \in SetterCalls /\ SameParts(old, url, ChangedBefore(op, pc))
  BY DEF KeptInv, InCall, KeptInBlock
<1>3. SameParts(old, x.u, ChangedBefore(op, pc) \cup T)
  BY <1>2, SamePartsTrans
<1>4. SameParts(old, x.u, MayChange(op)')
  BY <1>3, SamePartsFewer
<1>5. SameParts(old', url', MayChange(op)')
  BY <1>1, <1>4
<1>6. SameParts(old, url, MayChange(op))'
  BY <1>5
<1>. QED  BY <1>1, <1>2, <1>6 DEF KeptInv, OtherPartsAreKept, Returned, ParserState

\* What a setter may change when it is over.
LEMMA MayChangeAfter ==
    ASSUME NEW r, NEW x, Return(r, x)
    PROVE  /\ op = "protocol" => MayChange(op)' = {SCHEME, PORT}
           /\ op = "host" => HOST \in MayChange(op)' /\ (r = "ok" => PORT \in MayChange(op)')
           /\ op = "hostname" => MayChange(op)' = {HOST}
           /\ op = "port" => MayChange(op)' = {PORT}
           /\ op = "pathname" => MayChange(op)' = {PATH}
           /\ op = "search" => QUERY \in MayChange(op)'
           /\ op = "hash" => FRAGMENT \in MayChange(op)'
<1>1. op' = op /\ res' = r
  BY DEF Return, callVars
<1>. QED  BY <1>1 DEF MayChange

-----------------------------------------------------------------------------
(* The blocks of url_parse.                                                *)

BlockEnds ==
    \/ \E state \in ParserState : \E x, rest : Goto(state, x, rest)
    \/ \E r, x : Return(r, x)

LEMMA KeptBlockEnds ==
    ASSUME KeptInv, pc \in ParserState, ~override, BlockEnds
    PROVE  KeptInv'
<1>1. /\ pc' \in ParserState \cup {"return"} /\ pc' # "done"
      /\ override' = override /\ op' = op
  BY DEF BlockEnds, Goto, Return, parserVars, callVars, ParserState
<1>. QED  BY <1>1 DEF KeptInv, InCall, OtherPartsAreKept, Returned

LEMMA ParserBlocks ==
    ASSUME \/ SchemeState \/ NoSchemeState \/ SpecialRelativeOrAuthorityState
           \/ PathOrAuthorityState \/ RelativeState \/ RelativeSlashState
           \/ SpecialAuthoritySlashesState \/ SpecialAuthorityIgnoreSlashesState
           \/ AuthorityState \/ FileState \/ FileSlashState \/ OpaquePathState
    PROVE  pc \in ParserState /\ BlockEnds
<1>1. CASE SchemeState
  BY <1>1, FirstStates DEF SchemeState, BlockEnds
<1>2. CASE NoSchemeState
  BY <1>2, FirstStates DEF NoSchemeState, BlockEnds
<1>3. CASE SpecialRelativeOrAuthorityState \/ PathOrAuthorityState
  BY <1>3, FirstStates DEF SpecialRelativeOrAuthorityState, PathOrAuthorityState, BlockEnds
<1>4. CASE RelativeState
  BY <1>4, FirstStates DEF RelativeState, BlockEnds
<1>5. CASE RelativeSlashState
  BY <1>5, FirstStates DEF RelativeSlashState, BlockEnds
<1>6. CASE SpecialAuthoritySlashesState \/ SpecialAuthorityIgnoreSlashesState
  BY <1>6, FirstStates DEF SpecialAuthoritySlashesState, SpecialAuthorityIgnoreSlashesState,
       BlockEnds
<1>7. CASE AuthorityState
  BY <1>7, FirstStates DEF AuthorityState, BlockEnds
<1>8. CASE FileState
  BY <1>8, FirstStates DEF FileState, BlockEnds
<1>9. CASE FileSlashState
  BY <1>9, FirstStates DEF FileSlashState, BlockEnds
<1>10. CASE OpaquePathState
  BY <1>10, FirstStates DEF OpaquePathState, BlockEnds
<1>. QED
  BY <1>1, <1>2, <1>3, <1>4, <1>5, <1>6, <1>7, <1>8, <1>9, <1>10

LEMMA SharedBlocks ==
    ASSUME \/ SchemeStartState \/ NotAScheme \/ HostState \/ PortState \/ FileHostState
           \/ NothingToSave \/ PathStartState \/ PathState \/ PathEndState
           \/ QueryState \/ FragmentState
    PROVE  pc \in ParserState /\ BlockEnds
<1>1. CASE SchemeStartState \/ NotAScheme
  BY <1>1, FirstStates DEF SchemeStartState, NotAScheme, BlockEnds
<1>2. CASE HostState
  BY <1>2, FirstStates DEF HostState, BlockEnds
<1>3. CASE PortState
  BY <1>3, FirstStates DEF PortState, BlockEnds
<1>4. CASE FileHostState
  BY <1>4, FirstStates DEF FileHostState, BlockEnds
<1>5. CASE NothingToSave
  BY <1>5, FirstStates DEF NothingToSave, PathOnward, BlockEnds
<1>6. CASE PathStartState
  BY <1>6, FirstStates DEF PathStartState, BlockEnds
<1>7. CASE PathState
  BY <1>7, FirstStates DEF PathState, BlockEnds
<1>8. CASE PathEndState
  BY <1>8, FirstStates DEF PathEndState, BlockEnds
<1>9. CASE QueryState \/ FragmentState
  BY <1>9, FirstStates DEF QueryState, FragmentState, BlockEnds
<1>. QED
  BY <1>1, <1>2, <1>3, <1>4, <1>5, <1>6, <1>7, <1>8, <1>9

\* The blocks that no setter enters.
LEMMA ParserBlocksKept ==
    ASSUME KeptInv,
           \/ SchemeState \/ NoSchemeState \/ SpecialRelativeOrAuthorityState
           \/ PathOrAuthorityState \/ RelativeState \/ RelativeSlashState
           \/ SpecialAuthoritySlashesState \/ SpecialAuthorityIgnoreSlashesState
           \/ AuthorityState \/ FileState \/ FileSlashState \/ OpaquePathState
    PROVE  KeptInv'
<1>1. pc \in ParserState /\ BlockEnds
  BY ParserBlocks
<1>2. ~override
  <2>1. \/ ~override
        \/ pc \in {"no_scheme", "special_relative_or_authority", "path_or_authority",
                   "relative", "relative_slash", "special_authority_slashes",
                   "special_authority_ignore_slashes", "authority", "file",
                   "file_slash", "opaque_path"}
    BY DEF SchemeState, NoSchemeState, SpecialRelativeOrAuthorityState,
           PathOrAuthorityState, RelativeState, RelativeSlashState,
           SpecialAuthoritySlashesState, SpecialAuthorityIgnoreSlashesState,
           AuthorityState, FileState, FileSlashState, OpaquePathState
  <2>2. override => pc \in BlocksOf(op)
    BY <1>1 DEF KeptInv, KeptInBlock
  <2>. QED  BY <2>1, <2>2 DEF BlocksOf
<1>. QED  BY <1>1, <1>2, KeptBlockEnds

LEMMA SchemeBlocksKept ==
    ASSUME FullWork, KeptInv, SchemeStartState \/ NotAScheme \/ SchemeOverride
    PROVE  KeptInv'
<1>. DEFINE new == GetSchemeInfo(InputScheme)
            x == ReplaceScheme(urls, InputScheme)
            y == ClearPart(x, PORT)
            isDefaultPort == new.port >= 0 /\ PortInt(x.u) = new.port
<1>1. pc \in {"scheme_start", "scheme"} /\ pc \in ParserState
  BY DEF SchemeStartState, NotAScheme, SchemeOverride, ParserState
<1>2. CASE ~override
  <2>1. BlockEnds
    BY <1>2, SharedBlocks DEF SchemeOverride
  <2>. QED  BY <1>1, <1>2, <2>1, KeptBlockEnds
<1>3. CASE override
  <2>1. Editor(urls) /\ ptr \in Text /\ urls.u = url /\ op \in SetterCalls /\ Record(urls.u)
    BY <1>1, <1>3, SetterBlock
  <2>2. pc \in BlocksOf(op)
    BY <1>1, <1>3 DEF KeptInv, KeptInBlock
  <2>3. op = "protocol" /\ ChangedBefore(op, pc) = {}
    BY <1>1, <2>2 DEF BlocksOf, ChangedBefore
  <2>4. SameParts(url, urls.u, {})
    BY <2>1, SamePartsSelf
  <2>5. ASSUME NEW r, Return(r, urls) PROVE KeptInv'
    BY <1>1, <1>3, <2>3, <2>4, <2>5, KeptReturn
  <2>6. CASE Goto("scheme", urls, ptr)
    <3>1. "scheme" \in ParserState /\ "scheme" \in BlocksOf(op)
      BY <2>3, FirstStates DEF BlocksOf
    <3>. QED  BY <1>1, <1>3, <2>3, <2>4, <2>6, <3>1, KeptGoto
  <2>7. CASE SchemeOverride
    <3>1. pc = "scheme"
      BY <2>7 DEF SchemeOverride
    <3>2. InputScheme \in Text /\ InputScheme # <<>>
      BY <1>1, <1>3, <2>1, <3>1, SetterBlock, InputSchemeText DEF MaySet
    <3>3. ~SchemeIgnored(new) => new.special = urls.u.inf.special
      BY DEF SchemeIgnored, special, url
    <3>4. ~SchemeIgnored(new) =>
             /\ Editor(x) /\ x.u.inf = new /\ Framed(x.u)
             /\ SameParts(url, x.u, {SCHEME})
      <4>1. SUFFICES ASSUME ~SchemeIgnored(new)
                     PROVE  /\ Editor(x) /\ x.u.inf = new /\ Framed(x.u)
                            /\ SameParts(url, x.u, {SCHEME})
        OBVIOUS
      <4>2. new.special = urls.u.inf.special
        BY <3>3, <4>1
      <4>3. Editor(x) /\ x.u.inf = new
        BY <2>1, <3>2, <4>2, ReplaceSchemeSound
      <4>4. Framed(urls.u) /\ PrefixFits(urls.u) /\ PathConsistent(urls.u)
        BY <2>1 DEF Record
      <4>5. Framed(x.u)
        BY <2>1, <3>2, <4>2, <4>4, ReplacedSchemeRecord
      <4>6. SameParts(url, x.u, {SCHEME})
        BY <2>1, <3>2, <4>2, ReplacedSchemeSame
      <4>. QED  BY <4>3, <4>5, <4>6
    <3>5. ~SchemeIgnored(new) /\ isDefaultPort => SameParts(url, y.u, {SCHEME, PORT})
      <4>. HIDE DEF x
      <4>1. SUFFICES ASSUME ~SchemeIgnored(new), isDefaultPort
                     PROVE  SameParts(url, y.u, {SCHEME, PORT})
        OBVIOUS
      <4>2. x.u.inf.special
        BY <3>4, <4>1, SchemeInfoFacts
      <4>3. PICK l \in Part : CompleteUpTo(x.u, l)
        BY <3>4, <4>1, EditorFacts
      <4>4. ~HasOpaquePath(x.u)
        BY <4>2, <4>3 DEF CompleteUpTo, Sound, HostAgrees
      <4>5. SameParts(x.u, y.u, {PORT})
        BY <3>4, <4>1, <4>4, ClearPartSame
      <4>6. SameParts(url, y.u, {SCHEME} \cup {PORT})
        BY <3>4, <4>1, <4>5, SamePartsTrans
      <4>. QED  BY <4>6, SamePartsFewer
    <3>6. \/ Return("ignored", urls)
          \/ ~SchemeIgnored(new) /\ ~isDefaultPort /\ Return("ok", x)
          \/ ~SchemeIgnored(new) /\ isDefaultPort /\ Return("ok", y)
      BY <2>7 DEF SchemeOverride
    <3>. HIDE DEF x, y, isDefaultPort, new
    <3>7. ASSUME NEW z, NEW T, T \subseteq {SCHEME, PORT}, SameParts(url, z.u, T),
                 Return("ok", z)
          PROVE  KeptInv'
      <4>1. MayChange(op)' = {SCHEME, PORT}
        BY <2>3, <3>7, MayChangeAfter
      <4>2. T \cup ChangedBefore(op, pc) \subseteq MayChange(op)'
        BY <2>3, <3>7, <4>1
      <4>. QED  BY <1>1, <1>3, <3>7, <4>2, KeptReturn
    <3>8. {SCHEME} \subseteq {SCHEME, PORT}
      OBVIOUS
    <3>. QED  BY <2>5, <3>4, <3>5, <3>6, <3>7, <3>8
  <2>8. CASE SchemeStartState
    BY <1>3, <2>5, <2>6, <2>8 DEF SchemeStartState
  <2>9. CASE NotAScheme
    BY <1>3, <2>5, <2>9 DEF NotAScheme
  <2>. QED  BY <2>7, <2>8, <2>9
<1>. QED  BY <1>2, <1>3

\* What a setter finds in the blocks of the host.
LEMMA HostBlock ==
    ASSUME FullWork, KeptInv, pc \in {"host", "hostname", "file_host"}, override
    PROVE  /\ pc \in ParserState /\ Editor(urls) /\ Record(urls.u) /\ ptr \in Text
           /\ urls.u = url /\ ~HasOpaquePath(urls.u)
           /\ pc = "host" => op = "host"
           /\ pc = "hostname" => op = "hostname"
           /\ op \in {"host", "hostname"} /\ ChangedBefore(op, pc) = {}
<1>1. pc \in ParserState
  BY DEF ParserState
<1>2. /\ Editor(urls) /\ Record(urls.u) /\ ptr \in Text /\ urls.u = url
      /\ ~HasOpaquePath(urls.u)
  BY <1>1, SetterBlock DEF MaySet
<1>3. pc \in BlocksOf(op) /\ op \in SetterCalls
  BY <1>1, SetterBlock DEF KeptInBlock
<1>4. /\ pc = "host" => op = "host"
      /\ pc = "hostname" => op = "hostname"
      /\ op \in {"host", "hostname"}
  BY <1>3 DEF BlocksOf
<1>5. ChangedBefore(op, pc) = {}
  BY DEF ChangedBefore
<1>. QED  BY <1>1, <1>2, <1>4, <1>5

\* A block of the host may change the host, and return.
LEMMA HostReturn ==
    ASSUME FullWork, KeptInv, pc \in {"host", "hostname", "file_host"}, override,
           NEW r, NEW x, Return(r, x), SameParts(url, x.u, {HOST})
    PROVE  KeptInv'
<1>1. pc \in ParserState /\ op \in {"host", "hostname"} /\ ChangedBefore(op, pc) = {}
  BY HostBlock
<1>2. HOST \in MayChange(op)'
  BY <1>1, MayChangeAfter
<1>3. {HOST} \cup ChangedBefore(op, pc) \subseteq MayChange(op)'
  BY <1>1, <1>2
<1>. QED  BY <1>1, <1>3, KeptReturn

LEMMA HostStateKept ==
    ASSUME FullWork, KeptInv, HostState
    PROVE  KeptInv'
<1>. DEFINE authority == Before(ptr, EndOfAuthority)
            end == EndOfHost(authority)
            isPort == end =< Len(authority)
            host == Before(authority, end)
            result == ParseHostResult(host, ~special)
            x == ParseHostOutput(urls, host, ~special)
<1>1. pc \in {"host", "hostname"} /\ pc \in ParserState
  BY DEF HostState, ParserState
<1>2. CASE ~override
  BY <1>1, <1>2, SharedBlocks, KeptBlockEnds
<1>3. CASE override
  <2>1. /\ Editor(urls) /\ Record(urls.u) /\ ptr \in Text
        /\ urls.u = url /\ ~HasOpaquePath(urls.u)
        /\ pc = "host" => op = "host"
        /\ ChangedBefore(op, pc) = {}
    BY <1>1, <1>3, HostBlock
  <2>2. host \in Text
    <3>1. authority \in Text
      BY <2>1, FromIsText DEF EndOfAuthority
    <3>2. end \in 1 .. Len(authority) + 1
      BY <3>1, EndOfHostRange
    <3>. QED  BY <3>1, <3>2, BeforeText
  <2>3. SameParts(url, x.u, {HOST})
    <3>. HIDE DEF host
    <3>. QED  BY <2>1, <2>2, HostOutputSame
  <2>4. SameParts(url, urls.u, {HOST})
    BY <2>1, SamePartsSelf
  <2>5. \/ Return("host_missing", urls) \/ Return("ignored", urls)
        \/ Return(result, x) \/ Return("ok", x)
        \/ pc # "hostname" /\ Goto("port", x, From(ptr, end + 1))
    BY <1>3, HostOutcomes DEF HostAccepted
  <2>. HIDE DEF x, result, end
  <2>6. CASE pc # "hostname" /\ Goto("port", x, From(ptr, end + 1))
    <3>1. op = "host"
      BY <1>1, <2>1, <2>6
    <3>2. "port" \in ParserState /\ "port" \in BlocksOf(op) /\ "port" # "path_end"
      BY <3>1, FirstStates DEF BlocksOf
    <3>3. {HOST} \cup ChangedBefore(op, pc) \subseteq ChangedBefore(op, "port")
      BY <2>1, <3>1 DEF ChangedBefore
    <3>. QED  BY <1>1, <1>3, <2>3, <2>6, <3>2, <3>3, KeptGoto
  <2>. QED  BY <1>1, <1>3, <2>3, <2>4, <2>5, <2>6, HostReturn
<1>. QED  BY <1>2, <1>3

LEMMA FileHostOverrideKept ==
    ASSUME FullWork, KeptInv, FileHostOverride
    PROVE  KeptInv'
<1>1. pc \in {"host", "hostname"} /\ override /\ Goto("file_host", urls, ptr)
  BY DEF FileHostOverride
<1>2. /\ pc \in ParserState /\ urls.u = url
      /\ op \in {"host", "hostname"} /\ ChangedBefore(op, pc) = {}
  BY <1>1, HostBlock
<1>3. "file_host" \in ParserState /\ "file_host" \in BlocksOf(op) /\ "file_host" # "path_end"
  BY <1>2, FirstStates DEF BlocksOf
<1>4. SameParts(url, urls.u, {})
  BY <1>2, SamePartsSelf
<1>. QED  BY <1>1, <1>2, <1>3, <1>4, KeptGoto

LEMMA FileHostStateKept ==
    ASSUME FullWork, KeptInv, FileHostState
    PROVE  KeptInv'
<1>. DEFINE end == FindFirst(ptr, SpecialAuthorityEnd)
            host == Before(ptr, end)
            result == ParseHostResult(host, ~special)
            parsed == ParseHostOutput(urls, host, ~special)
            noHost == SetEmptyHost(urls)
            local == EmptyHost(parsed)
<1>1. pc = "file_host" /\ pc \in ParserState
  BY DEF FileHostState, ParserState
<1>2. CASE ~override
  BY <1>1, <1>2, SharedBlocks, KeptBlockEnds
<1>3. CASE override
  <2>1. /\ Editor(urls) /\ Record(urls.u) /\ ptr \in Text
        /\ urls.u = url /\ ~HasOpaquePath(urls.u)
    BY <1>1, <1>3, HostBlock
  <2>2. urls.save = TRUE /\ urls.u.inf.file
    BY <1>1, <1>3, <2>1, SetterBlock, EditorFacts
  <2>3. host \in Text
    BY <2>1, FromIsText
  <2>4. \/ Return(result, parsed)
        \/ Return("ok", noHost) \/ Return("ok", parsed)
        \/ result = "ok" /\ Return("ok", local)
    BY <1>3, <2>2 DEF FileHostState
  <2>5. Editor(parsed) /\ SameParts(url, parsed.u, {HOST})
    <3>. HIDE DEF host
    <3>. QED  BY <2>1, <2>3, HostOutputSame
  <2>6. SameParts(url, noHost.u, {HOST})
    <3>1. PICK l \in Part : CompleteUpTo(urls.u, l)
      BY <2>1, EditorFacts
    <3>2. urls.u.inf.special
      BY <2>2, <3>1, CompleteFacts, InfoOfOrdered
    <3>3. HostConsistent(urls.u)
      BY <2>1 DEF Record
    <3>4. ~IsNull(urls.u, HOST)
      BY <3>2, <3>3 DEF HostConsistent
    <3>. QED  BY <2>1, <3>4, SetEmptyHostSame
  <2>7. result = "ok" => SameParts(url, local.u, {HOST})
    <3>1. SUFFICES ASSUME result = "ok" PROVE SameParts(url, local.u, {HOST})
      OBVIOUS
    <3>2. HostParsed(urls, parsed) /\ ~IsNull(parsed.u, HOST)
      BY <2>1, <2>2, <2>3, <3>1, ParseHostOutputSound
    <3>3. MayHost(urls)
      BY <2>1 DEF MayHost, Record
    <3>4. \E text \in Text : WithHost(urls.u, parsed.u, text)
      BY <2>2, <2>3, <3>1, <3>3, ParsedHostRecord
    <3>. HIDE DEF parsed
    <3>5. Framed(parsed.u)
      BY <3>4 DEF WithHost
    <3>6. ~HasOpaquePath(parsed.u)
      BY <3>2 DEF HostParsed
    <3>7. SameParts(parsed.u, local.u, {HOST})
      BY <2>5, <3>2, <3>5, <3>6, EmptiedHostSame
    <3>8. SameParts(url, local.u, {HOST} \cup {HOST})
      BY <2>5, <3>7, SamePartsTrans
    <3>. QED  BY <3>8, SamePartsFewer
  <2>. HIDE DEF parsed, noHost, local, result
  <2>. QED  BY <1>1, <1>3, <2>4, <2>5, <2>6, <2>7, HostReturn
<1>. QED  BY <1>2, <1>3

LEMMA PortStateKept ==
    ASSUME FullWork, KeptInv, PortState
    PROVE  KeptInv'
<1>. DEFINE digits == PortDigits(Before(ptr, FindFirstNot(ptr, Digit)))
            y == PutPort(urls, digits)
            written == FindFirstNot(ptr, Digit) # 1
<1>1. pc = "port" /\ pc \in ParserState
  BY DEF PortState, ParserState
<1>2. CASE ~override
  BY <1>1, <1>2, SharedBlocks, KeptBlockEnds
<1>3. CASE override
  <2>1. /\ Editor(urls) /\ Record(urls.u) /\ ptr \in Text /\ urls.u = url
        /\ ~IsNull(urls.u, HOST)
    BY <1>1, <1>3, SetterBlock DEF MaySet
  <2>2. ~HasOpaquePath(urls.u)
    <3>1. PICK l \in Part : CompleteUpTo(urls.u, l)
      BY <2>1, EditorFacts
    <3>. QED  BY <2>1, <3>1, CompleteFacts
  <2>3. op \in {"host", "port"}
    <3>1. pc \in BlocksOf(op)
      BY <1>1, <1>3, SetterBlock DEF KeptInBlock
    <3>. QED  BY <1>1, <3>1 DEF BlocksOf
  <2>4. \/ Return("port_out_of_range", urls) \/ Return("ok", urls)
        \/ written /\ Return("ok", y)
    BY <1>3 DEF PortState
  <2>5. written => digits \in Text /\ digits # <<>>
    <3>1. written => /\ Before(ptr, FindFirstNot(ptr, Digit)) \in Text
                     /\ AllDigits(Before(ptr, FindFirstNot(ptr, Digit)))
      BY <2>1, DigitsBeforeEnd
    <3>. HIDE DEF written
    <3>2. written => AllDigits(digits)
      BY <3>1, PortDigitsAreDigits
    <3>3. written => digits \in Text
      BY <3>1, PortDigitsText
    <3>. HIDE DEF digits
    <3>4. AllDigits(digits) => digits # <<>>
      BY DEF AllDigits
    <3>. QED  BY <3>2, <3>3, <3>4
  <2>. HIDE DEF digits
  <2>6. written => SameParts(url, y.u, {PORT})
    BY <2>1, <2>2, <2>5, PutPortSame
  <2>. HIDE DEF y, written
  <2>7. SameParts(url, urls.u, {})
    BY <2>1, SamePartsSelf
  <2>8. ASSUME NEW r, Return(r, urls) PROVE KeptInv'
    <3>1. ChangedBefore(op, pc) \subseteq MayChange(op)'
      BY <1>1, <2>3, <2>8, MayChangeAfter DEF ChangedBefore
    <3>2. {} \cup ChangedBefore(op, pc) \subseteq MayChange(op)'
      BY <3>1
    <3>. QED  BY <1>1, <1>3, <2>7, <2>8, <3>2, KeptReturn
  <2>9. CASE written /\ Return("ok", y)
    <3>1. {PORT} \cup ChangedBefore(op, pc) \subseteq MayChange(op)'
      BY <1>1, <2>3, <2>9, MayChangeAfter DEF ChangedBefore
    <3>. QED  BY <1>1, <1>3, <2>6, <2>9, <3>1, KeptReturn
  <2>. QED  BY <2>4, <2>8, <2>9
<1>. QED  BY <1>2, <1>3

\* What a setter finds in the blocks of the path.
LEMMA PathBlock ==
    ASSUME FullWork, KeptInv, pc \in {"path_start", "path", "path_end"}, override
    PROVE  /\ pc \in ParserState /\ ptr \in Text /\ urls.u = url /\ ~HasOpaquePath(urls.u)
           /\ Editor(urls) /\ Collecting(urls)
           /\ op = "pathname" /\ ChangedBefore(op, pc) = {}
           /\ pc = "path_end" => ptr = <<>>
<1>1. pc \in ParserState
  BY DEF ParserState
<1>2. Editor(urls) /\ ptr \in Text /\ urls.u = url /\ MaySet(pc, urls, ptr) /\ KeptInBlock
  BY <1>1, SetterBlock
<1>3. Collecting(urls) /\ ~HasOpaquePath(urls.u)
  BY <1>2 DEF MaySet, Collecting
<1>4. op = "pathname" /\ (pc = "path_end" => ptr = <<>>)
  BY <1>2 DEF KeptInBlock, BlocksOf
<1>. QED  BY <1>1, <1>2, <1>3, <1>4 DEF ChangedBefore

\* The path is collected, and written when it has ended.
LEMMA PathGoto ==
    ASSUME FullWork, KeptInv, pc \in {"path_start", "path", "path_end"}, override,
           NEW state \in {"path", "path_end"}, NEW x, x.u = url, NEW rest,
           Goto(state, x, rest), state = "path_end" => rest = <<>>
    PROVE  KeptInv'
<1>1. pc \in ParserState /\ op = "pathname" /\ ChangedBefore(op, pc) = {}
  BY PathBlock
<1>2. state \in ParserState /\ state \in BlocksOf(op)
  BY <1>1, FirstStates DEF BlocksOf
<1>3. SameParts(url, x.u, {})
  BY SamePartsSelf
<1>. QED  BY <1>1, <1>2, <1>3, KeptGoto

LEMMA PathReturn ==
    ASSUME FullWork, KeptInv, pc \in {"path_start", "path", "path_end"}, override,
           NEW x, Editor(x), x.u = url, Return("ok", CommitPath(x))
    PROVE  KeptInv'
<1>. DEFINE y == CommitPath(x)
<1>1. /\ pc \in ParserState /\ op = "pathname" /\ ChangedBefore(op, pc) = {}
      /\ ~HasOpaquePath(x.u)
  BY PathBlock
<1>2. SameParts(url, y.u, {PATH})
  BY <1>1, CommittedSame
<1>. HIDE DEF y
<1>3. Return("ok", y)
  BY DEF y
<1>4. MayChange(op)' = {PATH}
  BY <1>1, <1>3, MayChangeAfter
<1>5. {PATH} \cup ChangedBefore(op, pc) \subseteq MayChange(op)'
  BY <1>1, <1>4
<1>. QED  BY <1>1, <1>2, <1>3, <1>5, KeptReturn

LEMMA PathStartKept ==
    ASSUME FullWork, KeptInv, PathStartState
    PROVE  KeptInv'
<1>. DEFINE x == PutSegment(urls, <<>>)
<1>1. pc = "path_start" /\ pc \in ParserState
  BY DEF PathStartState, ParserState
<1>2. CASE ~override
  BY <1>1, <1>2, SharedBlocks, KeptBlockEnds
<1>3. CASE override
  <2>1. Editor(urls) /\ Collecting(urls) /\ urls.u = url
    BY <1>1, <1>3, PathBlock
  <2>2. \/ Goto("path", urls, ptr) \/ Goto("path", urls, Tail(ptr))
        \/ Return("ok", CommitPath(urls)) \/ Return("ok", CommitPath(x))
    BY <1>3 DEF PathStartState, PutEmptySegment
  <2>3. Collecting(x) /\ x.u = url
    <3>1. <<>> \in Text
      BY DEF Text
    <3>. QED  BY <2>1, <3>1, SegmentCollected
  <2>4. Editor(x)
    <3>. HIDE DEF x
    <3>. QED  BY <2>3 DEF Collecting
  <2>. HIDE DEF x
  <2>. QED  BY <1>1, <1>3, <2>1, <2>2, <2>3, <2>4, PathGoto, PathReturn
<1>. QED  BY <1>2, <1>3

LEMMA PathStateKept ==
    ASSUME FullWork, KeptInv, PathState
    PROVE  KeptInv'
<1>. DEFINE path == Before(ptr, EndOfPath)
            end == FindFirst(path, IF special THEN Slash ELSE {"/"})
            segment == Before(path, end)
            isLast == end > Len(path)
            isDrive == url.inf.file /\ PathIsEmpty(urls) /\ IsWindowsDrive(segment)
            text == IF isDrive THEN <<segment[1], ":">> ELSE Encode(segment, PathSet)
            short == ShortenPath(urls)
            s0 == PutSegment(short, <<>>)
            u0 == PutSegment(urls, <<>>)
            u1 == PutSegment(urls, text)
            rest0 == From(ptr, end)
            rest1 == From(ptr, end + 1)
<1>1. pc = "path" /\ pc \in ParserState
  BY DEF PathState, ParserState
<1>2. CASE ~override
  BY <1>1, <1>2, SharedBlocks, KeptBlockEnds
<1>3. CASE override
  <2>1. Editor(urls) /\ Collecting(urls) /\ urls.u = url /\ ptr \in Text
    BY <1>1, <1>3, PathBlock
  <2>2. path = ptr
    <3>1. EndOfPath = Len(ptr) + 1 /\ Len(ptr) \in Nat
      BY <1>3, <2>1 DEF EndOfPath, Text
    <3>. QED  BY <2>1, <3>1 DEF Before, Text
  <2>3. \/ isLast /\ \/ Goto("path_end", s0, rest0) \/ Goto("path_end", u0, rest0)
                     \/ Goto("path_end", u1, rest0)
        \/ Goto("path", short, rest1) \/ Goto("path", urls, rest1)
        \/ Goto("path", u1, rest1)
    BY DEF PathState, PutEmptySegment
  <2>4. end \in 1 .. Len(path) + 1 /\ segment \in Text
    <3>. HIDE DEF path
    <3>1. path \in Text
      BY <2>1, <2>2
    <3>. QED  BY <3>1, FindFirstRange, BeforeText
  <2>5. isLast => rest0 = <<>>
    <3>. HIDE DEF end, path
    <3>1. Len(ptr) \in Nat
      BY <2>1 DEF Text
    <3>2. isLast => end = Len(ptr) + 1
      BY <2>2, <2>4, <3>1
    <3>. QED  BY <2>1, <3>1, <3>2 DEF From, Text
  <2>6. text \in Text /\ <<>> \in Text
    <3>. HIDE DEF segment
    <3>1. Encode(segment, PathSet) \in Text
      BY <2>4, EncodeText
    <3>2. isDrive => <<segment[1], ":">> \in Text
      <4>1. isDrive => Len(segment) = 2
        BY DEF IsWindowsDrive
      <4>2. Len(segment) = 2 => segment[1] \in Char
        <5>1. segment \in Seq(Char)
          BY <2>4 DEF Text
        <5>. HIDE DEF isDrive, text
        <5>. QED  BY <5>1
      <4>3. ":" \in Char
        BY CharAssumption DEF Written
      <4>. QED  BY <4>1, <4>2, <4>3 DEF Text
    <3>. QED  BY <3>1, <3>2 DEF Text
  <2>. HIDE DEF isLast, text, rest0, rest1
  <2>7. Collecting(short) /\ short.u = url
    BY <2>1, CollectedShortenPath
  <2>. HIDE DEF short
  <2>8. s0.u = url /\ u0.u = url /\ u1.u = url
    BY <2>1, <2>6, <2>7, SegmentCollected
  <2>. HIDE DEF s0, u0, u1
  <2>. QED  BY <1>1, <1>3, <2>1, <2>3, <2>5, <2>7, <2>8, PathGoto
<1>. QED  BY <1>2, <1>3

LEMMA PathEndKept ==
    ASSUME FullWork, KeptInv, PathEndState
    PROVE  KeptInv'
<1>1. pc = "path_end" /\ pc \in ParserState
  BY DEF PathEndState, ParserState
<1>2. CASE ~override
  BY <1>1, <1>2, SharedBlocks, KeptBlockEnds
<1>3. CASE override
  <2>1. Editor(urls) /\ urls.u = url /\ ptr = <<>>
    BY <1>1, <1>3, PathBlock
  <2>2. Return("ok", CommitPath(urls))
    BY <2>1 DEF PathEndState
  <2>. QED  BY <1>1, <1>3, <2>1, <2>2, PathReturn
<1>. QED  BY <1>2, <1>3

LEMMA LastBlocksKept ==
    ASSUME FullWork, KeptInv, QueryState \/ FragmentState
    PROVE  KeptInv'
<1>1. pc \in {"query", "fragment"} /\ pc \in ParserState
  BY DEF QueryState, FragmentState, ParserState
<1>2. CASE ~override
  BY <1>1, <1>2, SharedBlocks, KeptBlockEnds
<1>3. CASE override
  <2>. DEFINE query == Encode(Before(ptr, Len(ptr) + 1),
                              IF special THEN SpecialQuerySet ELSE QuerySet)
              fragment == Encode(ptr, FragmentSet)
  <2>1. Editor(urls) /\ ptr \in Text /\ urls.u = url /\ KeptInBlock
    BY <1>1, <1>3, SetterBlock
  <2>2. /\ pc = "query" => op = "search"
        /\ pc = "fragment" => op = "hash"
        /\ ChangedBefore(op, pc) = {}
    BY <1>1, <2>1 DEF KeptInBlock, BlocksOf, ChangedBefore
  <2>3. query \in Text /\ fragment \in Text
    <3>1. Len(ptr) \in Nat
      BY <2>1 DEF Text
    <3>2. Before(ptr, Len(ptr) + 1) \in Text
      BY <2>1, <3>1, BeforeText
    <3>. QED  BY <2>1, <3>2, EncodeText
  <2>4. \/ pc = "query" /\ Return("ok", WithFlag(PutPart(urls, QUERY, query), QUERY))
        \/ pc = "fragment" /\ Return("ok", WithFlag(PutPart(urls, FRAGMENT, fragment), FRAGMENT))
    <3>1. Len(ptr) \in Nat /\ Len(ptr) + 1 > Len(ptr)
      BY <2>1 DEF Text
    <3>2. CASE QueryState
      BY <1>3, <3>1, <3>2 DEF QueryState, WithFlag
    <3>3. CASE FragmentState
      BY <3>3 DEF FragmentState, WithFlag
    <3>. QED  BY <3>2, <3>3
  <2>. HIDE DEF query, fragment
  <2>5. ASSUME NEW t \in {QUERY, FRAGMENT}, NEW s \in Text,
               Return("ok", WithFlag(PutPart(urls, t, s), t)),
               (op = "search" /\ t = QUERY) \/ (op = "hash" /\ t = FRAGMENT)
        PROVE  KeptInv'
    <3>. DEFINE y == WithFlag(PutPart(urls, t, s), t)
    <3>1. t \in {PORT, QUERY, FRAGMENT} /\ t # PORT
      BY PartNumbers
    <3>2. SameParts(url, y.u, {t})
      BY <2>1, <3>1, FlaggedPartSame
    <3>. HIDE DEF y
    <3>3. Return("ok", y)
      BY <2>5 DEF y
    <3>4. t \in MayChange(op)'
      BY <2>5, <3>3, MayChangeAfter
    <3>5. {t} \cup ChangedBefore(op, pc) \subseteq MayChange(op)'
      BY <2>2, <3>4
    <3>. QED  BY <1>1, <1>3, <3>2, <3>3, <3>5, KeptReturn
  <2>. QED  BY <2>2, <2>3, <2>4, <2>5
<1>. QED  BY <1>2, <1>3

\* A setter always saves.
LEMMA NothingToSaveKept ==
    ASSUME FullWork, KeptInv, NothingToSave
    PROVE  KeptInv'
<1>1. pc \in ParserState /\ ~urls.save
  BY DEF NothingToSave, PathOnward, ParserState
<1>2. ~override
  <2>1. override => urls.save = TRUE
    BY <1>1, SetterBlock, EditorFacts
  <2>. QED  BY <1>1, <2>1
<1>. QED  BY <1>1, <1>2, SharedBlocks, KeptBlockEnds

-----------------------------------------------------------------------------
(* The calls.                                                              *)

LEMMA KeptEntering ==
    ASSUME NEW call \in SetterCalls, NEW text, NEW allowed \in BOOLEAN,
           NEW state \in BlocksOf(call), state \in ParserState,
           state \notin {"path_end", "return", "done"}, NEW input,
           EnterSetter(call, text, allowed, state, input)
    PROVE  KeptInv'
<1>1. op' = call /\ old' = url
  BY DEF EnterSetter, Called
<1>2. CASE allowed
  <2>1. pc' = state /\ urls' = NewSetter(url) /\ override' = TRUE
    BY <1>2 DEF EnterSetter, Enter
  <2>2. url' = url
    BY <2>1 DEF NewSetter, NewSerializer, url
  <2>3. SameParts(old', url', ChangedBefore(op, pc)')
    BY <1>1, <2>2, SamePartsSelf
  <2>. QED
    BY <1>1, <2>1, <2>3 DEF KeptInv, KeptInBlock, OtherPartsAreKept, Returned
<1>3. CASE ~allowed
  <2>1. Done("refused", url)
    BY <1>3 DEF EnterSetter
  <2>2. pc' = "done" /\ url' = url
    BY <2>1 DEF Done, NewSerializer, url
  <2>3. SameParts(old', url', MayChange(op)')
    BY <1>1, <2>2, SamePartsSelf
  <2>. QED
    BY <2>2, <2>3 DEF KeptInv, InCall, ParserState, OtherPartsAreKept, SameParts
<1>. QED  BY <1>2, <1>3

LEMMA KeptSet ==
    ASSUME NEW call, NEW text, NEW r, NEW x, Set(call, text, r, x),
           NEW T, SameParts(url, x.u, T), T \subseteq MayChange(op)'
    PROVE  KeptInv'
<1>1. pc' = "done" /\ url' = x.u /\ old' = url
  BY DEF Set, Called, Done, NewSerializer, url
<1>2. SameParts(url, x.u, MayChange(op)')
  BY SamePartsFewer
<1>3. SameParts(old', url', MayChange(op)')
  BY <1>1, <1>2
<1>. QED
  BY <1>1, <1>3 DEF KeptInv, InCall, ParserState, OtherPartsAreKept, SameParts

\* A call that is not a setter's.
LEMMA KeptParsing ==
    ASSUME (pc' \in {"return", "scheme_start"} /\ override' = FALSE) \/ pc' = "done",
           op' \notin SetterCalls
    PROVE  KeptInv'
BY DEF KeptInv, InCall, ParserState, OtherPartsAreKept, Returned

LEMMA KeptBegin ==
    ASSUME NEW u, NEW save, NEW text, NEW b, NEW isBase, BeginParse(u, save, text, b, isBase),
           op' \notin SetterCalls
    PROVE  KeptInv'
<1>1. pc' \in {"return", "scheme_start"} /\ override' = FALSE
  BY DEF BeginParse, Enter
<1>. QED  BY <1>1, KeptParsing

LEMMA SetUserinfoKept ==
    ASSUME FullWork, pc = "idle", NEW text \in Text, NEW call, NEW t,
           (call = "username" /\ t = USERNAME) \/ (call = "password" /\ t = PASSWORD),
           SetUserinfo(call, t, text)
    PROVE  KeptInv'
<1>. DEFINE s == Encode(text, UserinfoSet)
            w == NewSetter(url)
            x == PutPart(w, t, s)
<1>1. AtRest /\ s \in Text /\ t \in {USERNAME, PASSWORD}
  BY EncodeText DEF AtRest
<1>2. op' = call
  BY DEF SetUserinfo, Set, Called
<1>3. CASE CanHaveUsernamePasswordPort(url)
  <2>1. IsValid(url) /\ ~IsEmpty(url, HOST)
    BY <1>3 DEF CanHaveUsernamePasswordPort
  <2>2. Editor(w) /\ w.u = url
    BY <1>1, <2>1, RestingUrl DEF FullWork
  <2>3. Set(call, text, "ok", x)
    BY <1>3 DEF SetUserinfo
  <2>4. Framed(url)
    BY <1>1, <2>1, KnownUrls DEF Known, Record
  <2>. HIDE DEF s, w
  <2>5. SameParts(url, x.u, {t})
    BY <1>1, <2>1, <2>2, <2>4, UserinfoSame
  <2>6. {t} \subseteq MayChange(op)'
    BY <1>2 DEF MayChange
  <2>. HIDE DEF x
  <2>. QED  BY <2>3, <2>5, <2>6, KeptSet
<1>4. CASE ~CanHaveUsernamePasswordPort(url)
  <2>1. Set(call, text, "refused", urls)
    BY <1>4 DEF SetUserinfo
  <2>2. SameParts(url, urls.u, {})
    BY SamePartsSelf DEF url
  <2>. QED  BY <2>1, <2>2, KeptSet
<1>. QED  BY <1>3, <1>4

LEMMA SetPortKept ==
    ASSUME FullWork, pc = "idle", NEW text, SetPort(text)
    PROVE  KeptInv'
<1>. DEFINE w == NewSetter(url)
            x == ClearPart(w, PORT)
<1>1. AtRest /\ CanHaveUsernamePasswordPort(url) \in BOOLEAN
  BY DEF AtRest, CanHaveUsernamePasswordPort, IsValid
<1>2. CASE CanHaveUsernamePasswordPort(url) /\ text = <<>>
  <2>1. IsValid(url) /\ ~IsEmpty(url, HOST)
    BY <1>2 DEF CanHaveUsernamePasswordPort
  <2>2. Editor(w) /\ w.u = url /\ ~HasOpaquePath(url) /\ Framed(url)
    BY <1>1, <2>1, RestingUrl, KnownUrls DEF FullWork, Known, Record
  <2>3. Set("port", text, "ok", x)
    BY <1>2 DEF SetPort
  <2>. HIDE DEF w
  <2>4. SameParts(url, x.u, {PORT})
    BY <2>2, ClearPartSame
  <2>. HIDE DEF x
  <2>5. {PORT} \subseteq MayChange(op)'
    BY <2>3 DEF Set, Called, MayChange
  <2>. QED  BY <2>3, <2>4, <2>5, KeptSet
<1>3. CASE ~(CanHaveUsernamePasswordPort(url) /\ text = <<>>)
  <2>1. EnterSetter("port", text, CanHaveUsernamePasswordPort(url), "port", text)
    BY <1>3 DEF SetPort
  <2>2. "port" \in SetterCalls /\ "port" \in BlocksOf("port") /\ "port" \in ParserState
    BY FirstStates DEF SetterCalls, BlocksOf
  <2>. QED  BY <1>1, <2>1, <2>2, KeptEntering
<1>. QED  BY <1>2, <1>3

\* Removing the query or the fragment may strip an opaque path.
LEMMA SetLastKept ==
    ASSUME FullWork, pc = "idle", NEW text, NEW call, NEW lead, NEW t, NEW state,
           \/ call = "search" /\ t = QUERY /\ state = "query"
           \/ call = "hash" /\ t = FRAGMENT /\ state = "fragment",
           SetLast(call, t, lead, state, text)
    PROVE  KeptInv'
<1>. DEFINE w == NewSetter(url)
            x == ClearPart(w, t)
            y == StripOpaquePath(x)
            input == IF StartsWith(text, lead) THEN Tail(text) ELSE text
            path(u) == IF HasOpaquePath(u) THEN {PATH} ELSE {}
<1>1. AtRest /\ IsValid(url) \in BOOLEAN
  BY DEF AtRest, IsValid
<1>2. CASE IsValid(url) /\ text = <<>>
  <2>1. Editor(w) /\ w.u = url /\ Framed(url)
    BY <1>1, <1>2, RestingUrl, KnownUrls DEF FullWork, Known, Record
  <2>2. Set(call, text, "ok", y)
    BY <1>2 DEF SetLast, Removed
  <2>. HIDE DEF w
  <2>3. t \in {PORT, QUERY, FRAGMENT} /\ t # PORT
    BY PartNumbers
  <2>4. Editor(x)
    BY <2>1, <2>3, ClearPartSound DEF PartCleared
  <2>5. SameParts(url, x.u, {t})
    BY <2>1, <2>3, ClearPartSame
  <2>6. Framed(x.u)
    <3>1. Led(w.u, QUERY, "?") /\ Led(w.u, FRAGMENT, "#")
      BY <2>1, FramedFacts
    <3>2. PartRemoved(w.u, x.u, t)
      BY <2>1, <2>3, <3>1, ClearPartPieces
    <3>. HIDE DEF x
    <3>3. Record(w.u)
      BY <1>1, <1>2, <2>1, KnownUrls DEF Known
    <3>4. Record(x.u)
      BY <2>1, <2>4, <3>2, <3>3, WrittenIsReadable, LastPartRemoved
    <3>. QED  BY <3>4 DEF Record
  <2>. HIDE DEF x
  <2>7. SameParts(x.u, y.u, path(x.u)) /\ y.u.flags = x.u.flags
    BY <2>4, <2>6, StrippedSame
  <2>. HIDE DEF y
  <2>8. path(x.u) = path(y.u)
    BY <2>7 DEF HasOpaquePath
  <2>9. SameParts(url, y.u, {t} \cup path(y.u))
    <3>. HIDE DEF path
    <3>. QED  BY <2>5, <2>7, <2>8, SamePartsTrans
  <2>10. op' = call /\ url' = y.u
    BY <2>2 DEF Set, Called, Done, NewSerializer, url
  <2>11. {t} \cup path(y.u) \subseteq MayChange(op)'
    BY <2>10 DEF MayChange
  <2>. QED  BY <2>2, <2>9, <2>11, KeptSet
<1>3. CASE ~(IsValid(url) /\ text = <<>>)
  <2>1. EnterSetter(call, text, IsValid(url), state, input)
    BY <1>3 DEF SetLast
  <2>2. /\ call \in SetterCalls /\ state \in BlocksOf(call) /\ state \in ParserState
        /\ state \notin {"path_end", "return", "done"}
    BY FirstStates DEF SetterCalls, BlocksOf
  <2>. HIDE DEF input
  <2>. QED  BY <1>1, <2>1, <2>2, KeptEntering
<1>. QED  BY <1>2, <1>3

LEMMA MakeCallKept ==
    ASSUME FullWork, MakeCall
    PROVE  KeptInv'
<1>1. pc = "idle"
  BY DEF MakeCall
<1>2. ASSUME NEW text, \/ SetProtocol(text) \/ SetHost(text) \/ SetHostname(text)
                       \/ SetPathname(text)
      PROVE  KeptInv'
  <2>1. IsValid(url) \in BOOLEAN /\ HasEditablePath \in BOOLEAN
    BY DEF IsValid, HasEditablePath
  <2>2. /\ {"protocol", "host", "hostname", "pathname"} \subseteq SetterCalls
        /\ {"scheme_start", "host", "hostname", "path_start"} \subseteq ParserState
        /\ "scheme_start" \in BlocksOf("protocol") /\ "host" \in BlocksOf("host")
        /\ "hostname" \in BlocksOf("hostname") /\ "path_start" \in BlocksOf("pathname")
    BY FirstStates DEF SetterCalls, BlocksOf
  <2>. QED
    BY <1>2, <2>1, <2>2, KeptEntering DEF SetProtocol, SetHost, SetHostname, SetPathname
<1>3. ASSUME NEW text \in Text, SetUsername(text) \/ SetPassword(text) PROVE KeptInv'
  BY <1>1, <1>3, SetUserinfoKept DEF SetUsername, SetPassword
<1>4. ASSUME NEW text, SetPort(text) PROVE KeptInv'
  BY <1>1, <1>4, SetPortKept
<1>5. ASSUME NEW text, SetSearch(text) \/ SetHash(text) PROVE KeptInv'
  BY <1>1, <1>5, SetLastKept DEF SetSearch, SetHash
<1>6. ASSUME NEW text, Parse(text) \/ ParseWithBase(text) \/ SetHref(text) PROVE KeptInv'
  BY <1>6, KeptBegin DEF Parse, ParseWithBase, SetHref, Called, SetterCalls
<1>7. CASE Reparse
  BY <1>7, KeptBegin DEF Reparse, Called, SetterCalls
<1>8. CASE Clear
  BY <1>8, KeptParsing DEF Clear, Called, Done, SetterCalls
<1>9. Input["username"] \subseteq Text /\ Input["password"] \subseteq Text
  BY InputAssumption DEF Call
<1>10. \/ Reparse \/ Clear
       \/ \E text \in Input["username"] : SetUsername(text)
       \/ \E text \in Input["password"] : SetPassword(text)
       \/ \E text : \/ Parse(text) \/ ParseWithBase(text) \/ SetHref(text)
                    \/ SetProtocol(text) \/ SetHost(text) \/ SetHostname(text)
                    \/ SetPathname(text) \/ SetPort(text) \/ SetSearch(text)
                    \/ SetHash(text)
  BY DEF MakeCall
<1>. QED  BY <1>2, <1>3, <1>4, <1>5, <1>6, <1>7, <1>8, <1>9, <1>10

\* Here the control of the serializer tells a setter from a parse.
LEMMA ReturnsKept ==
    ASSUME CallInv, KeptInv, CanParseReturns \/ ParseReturns \/ SetterReturns \/ Resume
    PROVE  KeptInv'
<1>1. CASE CanParseReturns
  <2>1. InCall /\ ~urls.save /\ op' = op
    BY <1>1 DEF CanParseReturns, InCall
  <2>2. ~override
    BY <2>1 DEF CallInv, SettingInv
  <2>3. op' \notin SetterCalls
    BY <2>1, <2>2 DEF KeptInv
  <2>. QED  BY <1>1, <2>3, KeptBegin DEF CanParseReturns
<1>2. CASE ParseReturns
  <2>1. InCall /\ ~urls.setter /\ op' = op /\ pc' = "done"
    BY <1>2 DEF ParseReturns, InCall, Done, callVars
  <2>2. ~override
    BY <2>1 DEF CallInv
  <2>3. op' \notin SetterCalls
    BY <2>1, <2>2 DEF KeptInv
  <2>. QED  BY <2>1, <2>3, KeptParsing
<1>3. CASE SetterReturns
  <2>1. InCall /\ urls.setter /\ pc = "return"
    BY <1>3 DEF SetterReturns, InCall
  <2>2. override
    BY <2>1 DEF CallInv
  <2>3. SameParts(old, url, MayChange(op))
    BY <2>1, <2>2 DEF KeptInv
  <2>4. pc' = "done" /\ op' = op /\ old' = old /\ res' = res /\ url' = url
    BY <1>3 DEF SetterReturns, Done, NewSerializer, callVars, url
  <2>5. MayChange(op)' = MayChange(op)
    BY <2>4 DEF MayChange
  <2>6. SameParts(old', url', MayChange(op)')
    BY <2>3, <2>4, <2>5
  <2>. QED
    BY <2>4, <2>6 DEF KeptInv, InCall, ParserState, OtherPartsAreKept, SameParts
<1>4. CASE Resume
  BY <1>4 DEF Resume, KeptInv, InCall, ParserState, OtherPartsAreKept, Returned
<1>. QED  BY <1>1, <1>2, <1>3, <1>4

LEMMA KeptNext ==
    ASSUME FullWork, CallInv, KeptInv, [Next]_vars
    PROVE  KeptInv'
<1>1. CASE MakeCall
  BY <1>1, MakeCallKept
<1>2. CASE Step
  BY <1>2, ParserBlocksKept, SchemeBlocksKept, HostStateKept, FileHostOverrideKept,
     FileHostStateKept, PortStateKept, PathStartKept, PathStateKept, PathEndKept,
     LastBlocksKept, NothingToSaveKept, ReturnsKept DEF Step
<1>3. CASE UNCHANGED vars
  <2>1. /\ pc' = pc /\ ptr' = ptr /\ urls' = urls /\ override' = override /\ op' = op
        /\ old' = old /\ res' = res /\ url' = url
    BY <1>3 DEF vars, url
  <2>2. MayChange(op)' = MayChange(op)
    BY <2>1 DEF MayChange
  <2>. QED
    BY <2>1, <2>2 DEF KeptInv, KeptInBlock, InCall, OtherPartsAreKept, Returned
<1>. QED  BY <1>1, <1>2, <1>3 DEF Next

-----------------------------------------------------------------------------

\* A setter leaves every part of the URL as it was but the one it is for,
\* although all the parts share one string and the edit moves them: the
\* scheme's default port goes with protocol(), the port comes with host(),
\* and what is stripped of an opaque path with search() and hash().  When the
\* setter fails, the other parts are left, too.
THEOREM OtherPartsStay == Spec => []OtherPartsAreKept
<1>1. Init => KeptInv
  BY DEF Init, KeptInv, InCall, ParserState, OtherPartsAreKept, Returned
<1>2. FullInv /\ CallInv /\ KeptInv /\ [Next]_vars => KeptInv'
  BY FullInvFacts, KeptNext
<1>3. KeptInv => OtherPartsAreKept
  BY DEF KeptInv
<1>4. Spec => [][Next]_vars /\ Init
  BY PTL DEF Spec
<1>. QED  BY <1>1, <1>2, <1>3, <1>4, FullInvariance, CallInvariance, PTL
=============================================================================
