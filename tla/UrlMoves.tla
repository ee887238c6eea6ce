------------------------------ MODULE UrlMoves ------------------------------
(***************************************************************************)
(* Moving urls (include/upa/url.h: the move constructor, move assignment,  *)
(* move_record, safe_assign, swap).  A move takes norm_url_ away from its  *)
(* source and copies the other members, so that the source keeps the ends, *)
(* the flags and the scheme_inf_ of a text that it no longer has.  What    *)
(* the caller may do with such an object is to destroy it or to give it a  *)
(* new value.                                                              *)
(***************************************************************************)
EXTENDS UrlInvariant

VARIABLES
    other,     \* a second url object
    stale      \* which of "url" and "other" were moved from, and not set since

moveVars == <<other, stale>>
allVars == <<vars, moveVars>>

\* What a move leaves in its source.
MovedFrom(u) == [u EXCEPT !.norm = <<>>]

MoveInit == Init /\ other = EmptyUrl /\ stale = {}

\* The object is given a value between two calls.
Assign(u) == urls' = NewSerializer(u, TRUE) /\ UNCHANGED <<pc, parserVars, res, callVars>>

\* other = std::move(url), or other is constructed from it.
MoveOut ==
    /\ pc = "idle"
    /\ Assign(MovedFrom(url)) /\ other' = url
    /\ stale' = IF "url" \in stale THEN {"url", "other"} ELSE {"url"}

\* url = std::move(other)
\* Mutant: part_end_ stays behind.
MoveInWithoutEnds ==
    /\ pc = "idle"
    /\ Assign([other EXCEPT !.ends = url.ends]) /\ other' = MovedFrom(other)
    /\ stale' = IF "other" \in stale THEN {"url", "other"} ELSE {"other"}

MoveIn ==
    /\ pc = "idle"
    /\ Assign(other) /\ other' = MovedFrom(other)
    /\ stale' = IF "other" \in stale THEN {"url", "other"} ELSE {"other"}

\* url.swap(other), which is three moves.
Swap ==
    /\ pc = "idle"
    /\ LET tmp == url
           left == MovedFrom(other)
       IN Assign(other) /\ other' = [left EXCEPT !.norm = tmp.norm, !.ends = tmp.ends,
                                                 !.inf = tmp.inf, !.flags = tmp.flags,
                                                 !.htype = tmp.htype, !.segs = tmp.segs]
    /\ stale' = {IF o = "url" THEN "other" ELSE "url" : o \in stale}

\* The end of clear(), and of href() or parse() that succeed, gives a value.
Renewed == pc' = "done" /\ res' = "ok" /\ op' \in {"clear", "href", "parse"}

Keep ==
    /\ other' = other
    /\ stale' = IF Renewed THEN stale \ {"url"} ELSE stale

\* Calls on an object that was not moved from, and those on one that was.
CallOnUrl == "url" \notin stale /\ MakeCall /\ Keep
CallOnMovedFrom ==
    /\ "url" \in stale /\ pc = "idle"
    /\ Clear \/ \E text \in Input["href"] : SetHref(text)
    /\ Keep
ParseMovedFrom ==
    /\ "url" \in stale /\ pc = "idle"
    /\ \E text \in Input["parse"] : Parse(text)
    /\ Keep

MoveNext ==
    \/ MoveOut \/ MoveIn \/ Swap
    \/ CallOnUrl \/ CallOnMovedFrom
    \/ Step /\ Keep

MoveSpec == MoveInit /\ [][MoveNext]_allVars

\* parse() is called on objects that were moved from, too.
MoveParseSpec == MoveInit /\ [][MoveNext \/ ParseMovedFrom]_allVars

-----------------------------------------------------------------------------

\* A url that was not moved from, or was given a value since by clear(),
\* href() or a move, is whole: nothing of the old value is left in it.
Whole(u) == Resting(u) /\ (IsValid(u) => u.norm = Serialization(u))

WholeUnlessMovedFrom ==
    AtRest => /\ "url" \notin stale => Whole(url)
              /\ "other" \notin stale => Whole(other)

\* url.h says of do_parse: "It resets this url object to an empty value and
\* then parses the input".  So a url that was parsed well has the ends of
\* its own parts only.
ParseResets == Returned({"parse"}) /\ res = "ok" => WellFormed(url)
=============================================================================
