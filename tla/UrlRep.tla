------------------------------- MODULE UrlRep -------------------------------
(***************************************************************************)
(* The representation of class url (include/upa/url.h): the serialized     *)
(* URL norm_url_, the array part_end_ that says where each part of it      *)
(* ends, the cached scheme_inf_, the flags and path_segment_count_, and    *)
(* the getters that read them.                                             *)
(*                                                                         *)
(* A url value u is a record                                               *)
(*    norm   norm_url_                 ends   part_end_ (0: not set)       *)
(*    inf    scheme_inf_               flags  flags_, as a set of bits     *)
(*    htype  the HOST_TYPE bits        segs   path_segment_count_          *)
(***************************************************************************)
EXTENDS UrlText

\* PartType
SCHEME == 0
SCHEME_SEP == 1
USERNAME == 2
PASSWORD == 3
HOST_START == 4
HOST == 5
PORT == 6
PATH_PREFIX == 7
PATH == 8
QUERY == 9
FRAGMENT == 10

Part == SCHEME .. FRAGMENT

OPAQUE_PATH == 11
VALID == 12

\* Where the value of a part starts, after its ':', '?' or '#'.
PartStart(t) == IF t \in {PASSWORD, PORT, QUERY, FRAGMENT} THEN 1 ELSE 0

InitialFlags == {SCHEME, USERNAME, PASSWORD, PATH}

HostType == {"Empty", "Opaque", "Domain", "IPv4", "IPv6"}

Url == [norm : Text, ends : [Part -> Nat], inf : SchemeInfo,
        flags : SUBSET (0 .. 12), htype : HostType, segs : Nat]

\* A default constructed url; clear() makes every url equal to it.
EmptyUrl ==
    [norm |-> <<>>, ends |-> [t \in Part |-> 0], inf |-> NoInfo,
     flags |-> InitialFlags, htype |-> "Empty", segs |-> 0]

-----------------------------------------------------------------------------
(* Getters.                                                                *)

IsValid(u) == VALID \in u.flags
HasOpaquePath(u) == OPAQUE_PATH \in u.flags
IsNull(u, t) == t \notin u.flags

PartPos(u, t) == IF t = SCHEME THEN 0 ELSE u.ends[t - 1]

\* get_part_view
View(u, t) == SubSeq(u.norm, PartPos(u, t) + PartStart(t) + 1, u.ends[t])

IsEmpty(u, t) == PartPos(u, t) + PartStart(t) >= u.ends[t]

HasCredentials(u) == ~IsEmpty(u, USERNAME) \/ ~IsEmpty(u, PASSWORD)

CanHaveUsernamePasswordPort(u) ==
    IsValid(u) /\ ~IsEmpty(u, HOST) /\ ~u.inf.file

\* The getters that span several parts: protocol(), host(), path(), search(),
\* hash(), serialize() without the fragment.
GetProtocol(u) == SubSeq(u.norm, 1, IF u.ends[SCHEME] # 0 THEN u.ends[SCHEME] + 1 ELSE 0)

GetHost(u) ==
    IF IsNull(u, HOST) THEN <<>>
    ELSE SubSeq(u.norm, u.ends[HOST_START] + 1, u.ends[IF IsNull(u, PORT) THEN HOST ELSE PORT])

\* Mutant: the end of the query is taken even when it is not set.
GetPathToQuery(u) == SubSeq(u.norm, u.ends[PATH - 1] + 1, u.ends[QUERY])

GetPath(u) ==
    SubSeq(u.norm, u.ends[PATH - 1] + 1, u.ends[IF u.ends[QUERY] # 0 THEN QUERY ELSE PATH])

WithLead(u, t) ==
    IF IsEmpty(u, t) THEN <<>> ELSE SubSeq(u.norm, u.ends[t - 1] + 1, u.ends[t])
GetSearch(u) == WithLead(u, QUERY)
GetHash(u) == WithLead(u, FRAGMENT)

\* origin() of a special URL that is not a file URL.
GetOrigin(u) ==
    SubSeq(u.norm, 1, u.ends[SCHEME_SEP])
      \o SubSeq(u.norm, u.ends[HOST_START] + 1, u.ends[PORT])

SerializeWithoutFragment(u) ==
    IF u.ends[FRAGMENT] # 0 THEN SubSeq(u.norm, 1, u.ends[QUERY]) ELSE u.norm

PortInt(u) == IF IsEmpty(u, PORT) THEN -1 ELSE PortValue(View(u, PORT))

-----------------------------------------------------------------------------
(* The path.                                                               *)

\* get_path_first_string(2): the first segment, when it is 2 long.
PathFirst2(u) ==
    LET path == View(u, PATH)
    IN IF path = <<>> \/ HasOpaquePath(u) THEN path
       ELSE IF Len(path) = 3 \/ (Len(path) > 3 /\ path[4] = "/")
            THEN SubSeq(path, 2, 3)
            ELSE <<>>

FirstSegmentIsDrive(u) == IsNormalizedWindowsDrive(PathFirst2(u))

\* get_path_rem_last: where the path ends without its last segment.
CanRemLast(u) == u.segs > 0
RemLastEnd(u) ==
    LET at == FindLast(View(u, PATH), {"/"})
    IN IF at > Len(View(u, PATH)) THEN u.ends[PATH - 1]
       ELSE u.ends[PATH - 1] + at - 1

\* get_shorten_path does the same, but keeps the drive of a file URL.
CanShorten(u) ==
    /\ u.segs > 0
    /\ ~(u.inf.file /\ u.segs = 1 /\ FirstSegmentIsDrive(u))

-----------------------------------------------------------------------------
(* Primitive updates.                                                      *)

\* set_scheme_str and set_scheme(src) / set_scheme(str).
SetScheme(u, str) ==
    [u EXCEPT !.norm = str \o <<":">>, !.ends[SCHEME] = Len(str),
              !.inf = GetSchemeInfo(str)]

SetHostType(u, ht) ==
    [u EXCEPT !.flags = @ \cup {HOST}, !.htype = ht]

\* Which ends move with the text when part last changes its length.
EndMoves(u, last, t) == t >= last /\ \A s \in last .. t : u.ends[s] # 0

\* replace_part(last, str, len, first, len0): the parts first..last become
\* str; the parts first..last-1 all end len0 characters into it; the ends
\* from last on move with the text, up to the first that is not set.
ReplaceParts(u, first, last, str, len0) ==
    LET b == PartPos(u, first)
        diff == Len(str) - (u.ends[last] - b)
    IN [u EXCEPT
          !.norm = SubSeq(@, 1, b) \o str \o SubSeq(@, u.ends[last] + 1, Len(@)),
          !.ends = [t \in Part |-> IF first =< t /\ t < last THEN b + len0
                                   ELSE IF EndMoves(u, last, t) THEN @[t] + diff
                                   ELSE @[t]]]

ReplacePart(u, t, str) == ReplaceParts(u, t, t, str, 0)

\* adjust_path_prefix: "/." stands before a path that starts with "//" in a
\* URL without host, and nowhere else.
\* Mutant: no path gets it.
NeedsNoPathPrefix(u) == FALSE

NeedsPathPrefix(u) ==
    /\ IsNull(u, HOST)
    /\ u.segs > 1
    /\ StartsWith2(View(u, PATH), "/", "/")

AdjustPathPrefix(u) ==
    IF IsEmpty(u, PATH_PREFIX) /\ NeedsPathPrefix(u)
    THEN ReplacePart(u, PATH_PREFIX, <<"/", ".">>)
    ELSE IF ~IsEmpty(u, PATH_PREFIX) /\ ~NeedsPathPrefix(u)
         THEN ReplacePart(u, PATH_PREFIX, <<>>)
         ELSE u
=============================================================================
