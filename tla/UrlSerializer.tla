--------------------------- MODULE UrlSerializer ---------------------------
(***************************************************************************)
(* detail::url_serializer and detail::url_setter (include/upa/url.h): the  *)
(* objects through which the parser writes a url.                          *)
(*                                                                         *)
(* url_serializer appends parts to the end of norm_url_ in the order of    *)
(* PartType.  url_setter edits one part of a complete URL: in place when   *)
(* other parts follow it, and otherwise by cutting the URL before the part *)
(* and appending.                                                          *)
(*                                                                         *)
(* A serializer value x is a record                                        *)
(*    u       the url it writes         setter  is it a url_setter?        *)
(*    save    need_save()               last    last_pt_                   *)
(*    inBuf   use_strp_                 buf     strp_                      *)
(*    part    curr_pt_                  segEnd  path_seg_end_              *)
(*    sane    no assert() of the code has failed so far                    *)
(***************************************************************************)
EXTENDS UrlRep

NewSerializer(u, save) ==
    [u |-> u, setter |-> FALSE, save |-> save, last |-> SCHEME,
     inBuf |-> FALSE, buf |-> <<>>, part |-> SCHEME, segEnd |-> <<>>,
     sane |-> TRUE]

NewSetter(u) ==
    [NewSerializer(u, TRUE) EXCEPT !.setter = TRUE, !.inBuf = TRUE]

Expect(x, holds) == [x EXCEPT !.sane = @ /\ holds]

-----------------------------------------------------------------------------
(* One part: start_part, the text appended to what it returns, save_part.  *)

\* What start_part writes before it fills the skipped ends.
\* Mutant: credentials are not closed by '@'.
SeparatorWithoutAt(last, t) ==
    CASE last = SCHEME /\ t =< HOST -> <<"/", "/">>
      [] last = USERNAME /\ t = PASSWORD -> <<":">>
      [] OTHER -> <<>>

Separator(last, t) ==
    CASE last = SCHEME /\ t =< HOST -> <<"/", "/">>
      [] last = USERNAME /\ t = PASSWORD -> <<":">>
      [] last \in {USERNAME, PASSWORD} /\ t = HOST -> <<"@">>
      [] OTHER -> <<>>

\* What start_part writes after that.
Lead(t) ==
    CASE t = PORT -> <<":">> [] t = QUERY -> <<"?">> [] t = FRAGMENT -> <<"#">>
      [] OTHER -> <<>>

\* The parts whose ends fill_parts_offset sets.
\* Mutant: it starts one part late.
SkippedLate(last, t) == last + 2 .. t - 1

Skipped(last, t) == last + 1 .. t - 1

\* url_serializer::start_part
AppendingStart(x, t) ==
    IF x.last = PATH /\ t = PATH THEN x
    ELSE LET u == x.u
             norm == u.norm \o Separator(x.last, t)
             ends == [p \in Part |->
                        IF p \notin Skipped(x.last, t) THEN u.ends[p]
                        ELSE IF x.last = USERNAME /\ p = PASSWORD
                             THEN Len(u.norm)
                             ELSE Len(norm)]
         IN Expect([x EXCEPT !.u.norm = norm \o Lead(t), !.u.ends = ends,
                             !.last = t],
                   x.last < t \/ (x.last = t /\ IsEmpty(u, t)))

\* What url_setter::start_part puts in its buffer.
BufferLead(u, t) ==
    CASE t = HOST /\ u.ends[SCHEME_SEP] - u.ends[SCHEME] < 3 -> <<":", "/", "/">>
      [] t \in {PASSWORD, PORT} -> <<":">>
      [] t = QUERY -> <<"?">>
      [] OTHER -> <<>>

\* Cut the URL before its last part t, which is set.
CutBefore(u, t) ==
    [u EXCEPT !.norm = SubSeq(@, 1, u.ends[t - 1]),
              !.ends = [p \in Part |->
                          IF p >= t /\ \A q \in t .. p : @[q] # 0
                          THEN 0 ELSE @[p]]]

\* find_last_part
FindLastPart(u, t) ==
    CHOOSE p \in SCHEME .. t : /\ p = SCHEME \/ u.ends[p] # 0
                               /\ \A q \in p + 1 .. t : u.ends[q] = 0

EditingStart(x, t) ==
    LET u == x.u
        y == Expect([x EXCEPT !.part = t], t > SCHEME)
    IN IF u.ends[t] = 0
       THEN AppendingStart([y EXCEPT !.last = FindLastPart(u, t), !.inBuf = FALSE], t)
       ELSE IF t < FRAGMENT /\ u.ends[t] < Len(u.norm)
       THEN [y EXCEPT !.inBuf = TRUE, !.buf = BufferLead(u, t)]
       ELSE AppendingStart([y EXCEPT !.u = CutBefore(u, t), !.last = t - 1,
                                     !.inBuf = FALSE], t)

StartPart(x, t) == IF x.setter THEN EditingStart(x, t) ELSE AppendingStart(x, t)

Write(x, s) ==
    IF x.inBuf THEN [x EXCEPT !.buf = @ \o s] ELSE [x EXCEPT !.u.norm = @ \o s]

\* url_setter::save_part, when the part is in the buffer.
\* Mutant: '@' goes with an empty credential although the other one is there.
SaveBufferedAlone(u, t, buf) ==
    LET empty == Len(buf) =< PartStart(t)
    IN IF t = HOST
       THEN IF u.ends[SCHEME_SEP] - u.ends[SCHEME] < 3
            THEN ReplaceParts(u, SCHEME_SEP, HOST, buf, 3)
            ELSE ReplacePart(u, HOST, buf)
       ELSE IF t \in {USERNAME, PASSWORD} /\ ~empty /\ ~HasCredentials(u)
       THEN ReplaceParts(u, t, HOST_START, buf \o <<"@">>, Len(buf))
       ELSE IF t \in {USERNAME, PASSWORD} /\ empty
       THEN ReplaceParts(u, t, HOST_START, <<>>, 0)
       ELSE ReplacePart(u, t, IF t \in {PASSWORD, PORT} /\ empty THEN <<>> ELSE buf)

SaveBuffered(u, t, buf) ==
    LET empty == Len(buf) =< PartStart(t)
        other == IF t = USERNAME THEN PASSWORD ELSE USERNAME
    IN IF t = HOST
       THEN IF u.ends[SCHEME_SEP] - u.ends[SCHEME] < 3
            THEN ReplaceParts(u, SCHEME_SEP, HOST, buf, 3)
            ELSE ReplacePart(u, HOST, buf)
       ELSE IF t \in {USERNAME, PASSWORD} /\ ~empty /\ ~HasCredentials(u)
       THEN ReplaceParts(u, t, HOST_START, buf \o <<"@">>, Len(buf))
       ELSE IF t \in {USERNAME, PASSWORD} /\ empty /\ IsEmpty(u, other)
       THEN ReplaceParts(u, t, HOST_START, <<>>, 0)
       ELSE ReplacePart(u, t, IF t \in {PASSWORD, PORT} /\ empty THEN <<>> ELSE buf)

SavePart(x) ==
    IF x.inBuf
    THEN [x EXCEPT !.u = SaveBuffered(x.u, x.part, x.buf), !.buf = <<>>]
    ELSE [x EXCEPT !.u.ends[x.last] = Len(x.u.norm)]

PutPart(x, t, s) == SavePart(Write(StartPart(x, t), s))

-----------------------------------------------------------------------------
(* Scheme.                                                                 *)

\* start_scheme .. save_scheme of url_serializer: the URL is str ":" so far.
AppendScheme(x, str) == [x EXCEPT !.u = SetScheme(@, str)]

\* save_scheme of url_setter.
ReplaceScheme(x, str) ==
    [x EXCEPT !.u = [ReplacePart(@, SCHEME, str) EXCEPT
                        !.ends[SCHEME] = Len(str), !.inf = GetSchemeInfo(str)]]

\* Mutant: only when the text is written.
SetOpaqueWhenSaved(x) == IF x.save THEN [x EXCEPT !.u.flags = @ \cup {OPAQUE_PATH}] ELSE x

SetHasOpaquePath(x) ==
    Expect([x EXCEPT !.u.flags = @ \cup {OPAQUE_PATH}], x.last = SCHEME)

-----------------------------------------------------------------------------
(* Clearing a part; only url_setter does anything.                         *)

ClearPart(x, t) ==
    LET u == ReplacePart(x.u, t, <<>>)
    IN IF x.setter /\ x.u.ends[t] # 0
       THEN [x EXCEPT !.u = [u EXCEPT !.flags = @ \ {t}]]
       ELSE x

\* potentially_strip_trailing_spaces_from_an_opaque_path
StripOpaquePath(x) ==
    LET u == x.u
        len == FindLastNot(u.norm, {" "})
    IN IF HasOpaquePath(u) /\ IsNull(u, FRAGMENT) /\ IsNull(u, QUERY)
       THEN [x EXCEPT !.u.norm = SubSeq(@, 1, len),
                      !.u.ends = [t \in Part |->
                            IF t >= PATH /\ \A s \in PATH .. t : @[s] # 0
                            THEN len ELSE @[t]]]
       ELSE x

-----------------------------------------------------------------------------
(* Host.                                                                   *)

\* hostStart, the text, hostDone.
PutHost(x, s, ht) ==
    LET y == PutPart(x, HOST, s)
        u == SetHostType(y.u, ht)
    IN [y EXCEPT !.u = IF IsEmpty(u, PATH_PREFIX) THEN u
                       ELSE ReplacePart(u, PATH_PREFIX, <<>>)]

\* Mutant: the host stays null.
SetNoHost(x) == x

SetEmptyHost(x) ==
    LET y == PutPart(x, HOST, <<>>)
    IN [y EXCEPT !.u = SetHostType(@, "Empty")]

\* empty_host, called right after a host was parsed.
EmptyHost(x) ==
    LET start == x.u.ends[HOST_START]
    IN IF x.setter
       THEN LET u == IF x.u.ends[HOST] # 0 THEN ReplacePart(x.u, HOST, <<>>) ELSE x.u
            IN [x EXCEPT !.u = SetHostType(u, "Empty")]
       ELSE Expect([x EXCEPT !.u = [SetHostType(x.u, "Empty") EXCEPT
                                       !.ends[HOST] = start,
                                       !.norm = SubSeq(@, 1, start)]],
                   x.last = HOST)

-----------------------------------------------------------------------------
(* Path: url_serializer appends the segments to the URL, url_setter        *)
(* collects them in its buffer and replaces the path in commit_path.       *)

PathIsEmpty(x) == IF x.setter THEN x.segEnd = <<>> ELSE x.u.segs = 0

PutSegment(x, s) ==
    IF x.setter
    THEN [x EXCEPT !.buf = @ \o <<"/">> \o s,
                   !.segEnd = Append(@, Len(x.buf) + 1 + Len(s))]
    ELSE LET y == PutPart(x, PATH, <<"/">> \o s)
         IN [y EXCEPT !.u.segs = @ + 1]

PutEmptySegment(x) == PutSegment(x, <<>>)

ShortenPath(x) ==
    LET segs == Len(x.segEnd)
        keepsDrive == /\ x.u.inf.file
                      /\ Len(x.buf) = 3
                      /\ IsNormalizedWindowsDrive(SubSeq(x.buf, 2, 3))
    IN IF x.setter
       THEN IF segs = 0 \/ (segs = 1 /\ keepsDrive) THEN x
            ELSE LET left == SubSeq(x.segEnd, 1, segs - 1)
                 IN [x EXCEPT !.segEnd = left,
                              !.buf = IF segs = 1 THEN <<>>
                                      ELSE SubSeq(@, 1, left[segs - 1])]
       ELSE IF CanShorten(x.u)
            THEN LET end == RemLastEnd(x.u)
                 IN Expect([x EXCEPT !.u.norm = SubSeq(@, 1, end),
                                     !.u.ends[PATH] = end, !.u.segs = @ - 1],
                           x.last =< PATH /\ ~HasOpaquePath(x.u))
            ELSE Expect(x, x.last =< PATH /\ ~HasOpaquePath(x.u))

\* url_setter::commit_path: ends before the path that are not set are filled.
FilledUpToPath(u) ==
    LET lastSet == FindLastPart(u, PATH)
    IN [u EXCEPT !.ends = [t \in Part |-> IF lastSet < t /\ t =< PATH
                                          THEN Len(u.norm) ELSE @[t]]]

CommitPath(x) ==
    IF x.setter
    THEN LET u == ReplacePart(FilledUpToPath(x.u), PATH, x.buf)
         IN [x EXCEPT !.u = AdjustPathPrefix([u EXCEPT !.segs = Len(x.segEnd)])]
    ELSE [x EXCEPT !.u = AdjustPathPrefix(@)]

\* start_path_string, the text, save_path_string.
PutPathString(x, s) == Expect(PutPart(x, PATH, s), x.u.segs = 0)

-----------------------------------------------------------------------------
(* append_parts: parts t1..t2 of a base URL, its path as it is ("keep"),   *)
(* without its last segment ("remLast") or shortened ("shorten").          *)

\* Mutant: the segments stay counted.
KeptPathCount(src, op) ==
    [end |-> IF \/ op = "remLast" /\ CanRemLast(src)
                \/ op = "shorten" /\ CanShorten(src)
             THEN RemLastEnd(src) ELSE src.ends[PATH],
     segs |-> src.segs]

KeptPath(src, op) ==
    IF \/ op = "remLast" /\ CanRemLast(src)
       \/ op = "shorten" /\ CanShorten(src)
    THEN [end |-> RemLastEnd(src), segs |-> src.segs - 1]
    ELSE [end |-> src.ends[PATH], segs |-> src.segs]

\* The flags that go with the parts t1..t2 (kPartFlagMask).
FlagMask(t1, t2) ==
    ((t1 .. t2) \ {SCHEME_SEP, HOST_START, PATH_PREFIX})
        \cup (IF t1 =< PATH /\ PATH =< t2 THEN {OPAQUE_PATH} ELSE {})

FirstToCopy(src, t1) ==
    IF t1 > HOST THEN t1
    ELSE IF IsNull(src, HOST) THEN PATH_PREFIX
    ELSE IF t1 = USERNAME /\ HasCredentials(src) THEN USERNAME ELSE HOST

CopyFlags(u, src, t1, t2) ==
    LET mask == FlagMask(t1, t2)
    IN [u EXCEPT !.flags = (@ \ mask) \cup (src.flags \cap mask),
                 !.htype = IF HOST \in mask THEN src.htype ELSE @]

CopyParts(x, src, first, last, op) ==
    LET y == AppendingStart(x, first)
        kept == KeptPath(src, op)
        end == IF last = PATH THEN kept.end ELSE src.ends[last]
        offset == src.ends[first - 1] + PartStart(first)
        delta == Len(y.u.norm) - offset
    IN [y EXCEPT
          !.u.norm = @ \o SubSeq(src.norm, offset + 1, end),
          !.u.ends = [t \in Part |-> IF first =< t /\ t < last THEN src.ends[t] + delta
                                     ELSE IF t = last THEN end + delta
                                     ELSE @[t]],
          !.u.segs = IF last = PATH THEN kept.segs
                     ELSE IF first =< PATH /\ PATH =< last THEN src.segs ELSE @,
          !.last = last]

AppendParts(x, src, t1, t2, op) ==
    LET first == FirstToCopy(src, t1)
        set == {t \in first .. t2 : src.ends[t] # 0}
        y == [x EXCEPT !.u = CopyFlags(@, src, t1, t2)]
    IN IF ~x.save THEN x
       ELSE IF set = {} THEN y
       ELSE CopyParts(y, src, first, CHOOSE t \in set : \A s \in set : s =< t, op)
=============================================================================
