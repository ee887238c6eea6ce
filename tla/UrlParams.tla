----------------------------- MODULE UrlParams -----------------------------
(***************************************************************************)
(* url_search_params and its link to a url (include/upa/                   *)
(* url_search_params.h, url_search_params-inl.h, and search_params_ptr_ in *)
(* include/upa/url.h), composed with the url object and its moves.         *)
(*                                                                         *)
(* A url owns a parameter list once search_params() was called; the list   *)
(* points back to the url.  An edit of the list writes the query of the    *)
(* url, and the calls of the url that set its query write the list.        *)
(* Copies, moves and swaps of urls must keep pointers and lists right.     *)
(***************************************************************************)
EXTENDS UrlMoves

CONSTANTS
    Pairs,         \* the pairs <<name, value>> that callers append and set
    QueryTexts,    \* the byte strings that callers give to parse()
    FreeLists,     \* the containers that url_search_params is made from
    MaxParams      \* bound: callers do not append to a list of that length

VARIABLE params    \* the lists of "url" and "other", and one without a url

paramsVars == <<allVars, params>>

\* Bytes, UTF-8 and the application/x-www-form-urlencoded format.
F == INSTANCE FormCode

\* The callers' strings were converted to UTF-8: they are bytes.
ASSUME ParamsAssumption ==
    /\ Pairs \subseteq Seq(F!Byte) \X Seq(F!Byte)
    /\ QueryTexts \subseteq Seq(F!Byte)
    /\ FreeLists \subseteq Seq(Seq(F!Byte) \X Seq(F!Byte))

Owner == {"url", "other"}
Object == Owner \cup {"free"}

\* made: search_params_ptr_ is not null; owner: url_ptr_.
NoParams == [made |-> FALSE, list |-> <<>>, sorted |-> FALSE, owner |-> "none"]
FreeParams(list, sorted) ==
    [made |-> TRUE, list |-> list, sorted |-> sorted, owner |-> "none"]

-----------------------------------------------------------------------------
(* The query as bytes: a character of UrlText stands for one byte, or for  *)
(* the three of an escape.                                                 *)

CharBytes ==
    [c \in {"a", "b", "=", "&", "+", "%26", "%3D", "%FF", "%EF", "%BF", "%BD"} |->
        CASE c = "a" -> <<97>> [] c = "b" -> <<98>> [] c = "=" -> <<61>>
          [] c = "&" -> <<38>> [] c = "+" -> <<43>> [] c = "%26" -> <<37, 50, 54>>
          [] c = "%3D" -> <<37, 51, 68>> [] c = "%FF" -> <<37, 70, 70>>
          [] c = "%EF" -> <<37, 69, 70>> [] c = "%BF" -> <<37, 66, 70>>
          [] c = "%BD" -> <<37, 66, 68>>]

QueryBytes(text) ==
    LET bytes[k \in 0 .. Len(text)] ==
            IF k = 0 THEN <<>> ELSE bytes[k - 1] \o CharBytes[text[k]]
    IN bytes[Len(text)]

QueryText(bytes) ==
    LET text[i \in 1 .. Len(bytes) + 3] ==
            IF i > Len(bytes) THEN <<>>
            ELSE LET n == IF bytes[i] = F!Percent THEN 3 ELSE 1
                     c == CHOOSE c \in DOMAIN CharBytes :
                             CharBytes[c] = SubSeq(bytes, i, i + n - 1)
                 IN <<c>> \o text[i + n]
    IN text[1]

\* do_parse(false, get_part_view(QUERY))
ListOf(u) == F!FormParse(FALSE, QueryBytes(View(u, QUERY)))

\* How a list reads after it was written to a query: what is no UTF-8 is
\* replaced.
Fixed(list) ==
    [i \in 1 .. Len(list) |-> [k \in 1 .. 2 |-> F!CheckFixUtf8(list[i][k])]]

-----------------------------------------------------------------------------
(* The objects between two calls.                                          *)

Obj(o) == IF o = "url" THEN url ELSE other

Between == pc = "idle"

SetObj(o, u) ==
    IF o = "url" THEN Assign(u) /\ UNCHANGED other
    ELSE other' = u /\ UNCHANGED vars

\* update(), on the url u that the list points to.
\* Mutant: spaces are left at the end of an opaque path.
UpdatedUnstripped(u, list) ==
    IF list = <<>> THEN ClearPart(NewSetter(u), QUERY).u
    ELSE [PutPart(NewSetter(u), QUERY, QueryText(F!FormSerialize(list))).u
             EXCEPT !.flags = @ \cup {QUERY}]

Updated(u, list) ==
    IF list = <<>> THEN StripOpaquePath(ClearPart(NewSetter(u), QUERY)).u
    ELSE [PutPart(NewSetter(u), QUERY, QueryText(F!FormSerialize(list))).u
             EXCEPT !.flags = @ \cup {QUERY}]

\* The list of o becomes p, and update() is called.
Edited(o, p) ==
    /\ params' = [params EXCEPT ![o] = p]
    /\ IF p.owner \in Owner /\ IsValid(Obj(p.owner))
       THEN SetObj(p.owner, Updated(Obj(p.owner), p.list))
       ELSE UNCHANGED <<vars, other>>

\* Only lists that exist are edited, and not those of urls moved from.
MayEdit(o) == Between /\ params[o].made /\ o \notin stale

-----------------------------------------------------------------------------
(* Edits.                                                                  *)

\* Mutant: the list still counts as sorted.
AppendedStillSorted(p, pair) == [p EXCEPT !.list = Append(@, pair)]

Appended(p, pair) == [p EXCEPT !.list = Append(@, pair), !.sorted = FALSE]

\* The loop of set() over the list, when a name matches.
SetFirst(list, pair) ==
    LET loop[i \in 0 .. Len(list)] ==
            IF i = 0 THEN <<>>
            ELSE IF list[i][1] # pair[1] THEN Append(loop[i - 1], list[i])
            ELSE IF \E j \in 1 .. i - 1 : list[j][1] = pair[1] THEN loop[i - 1]
            ELSE Append(loop[i - 1], pair)
    IN loop[Len(list)]

Less(name1, name2) == F!CompareByCodeUnits(name1, name2) < 0

\* params_.sort(), which is stable: a pair goes before the first one of a
\* greater name.
Inserted(sorted, pair) ==
    LET greater == {i \in 1 .. Len(sorted) : Less(pair[1], sorted[i][1])}
        at == IF greater = {} THEN Len(sorted) + 1
              ELSE CHOOSE i \in greater : \A j \in greater : i =< j
    IN SubSeq(sorted, 1, at - 1) \o <<pair>> \o SubSeq(sorted, at, Len(sorted))

SortedList(list) ==
    LET sort[k \in 0 .. Len(list)] ==
            IF k = 0 THEN <<>> ELSE Inserted(sort[k - 1], list[k])
    IN sort[Len(list)]

\* The loop of remove_if().
WithoutPair(list, pair, byName) ==
    LET loop[i \in 0 .. Len(list)] ==
            IF i = 0 THEN <<>>
            ELSE IF list[i] = pair \/ (byName /\ list[i][1] = pair[1]) THEN loop[i - 1]
            ELSE Append(loop[i - 1], list[i])
    IN loop[Len(list)]

AppendParam(o) ==
    /\ MayEdit(o) /\ Len(params[o].list) < MaxParams
    /\ \E pair \in Pairs : Edited(o, Appended(params[o], pair))

SetParam(o) ==
    /\ MayEdit(o)
    /\ \E pair \in Pairs :
         IF \E i \in 1 .. Len(params[o].list) : params[o].list[i][1] = pair[1]
         THEN Edited(o, [params[o] EXCEPT !.list = SetFirst(@, pair)])
         ELSE Len(params[o].list) < MaxParams /\ Edited(o, Appended(params[o], pair))

\* del() and remove(), by name and by name and value.  del() updates the url
\* also when nothing was removed; remove() changes nothing then.
DelParam(o) ==
    /\ MayEdit(o)
    /\ \E pair \in Pairs, byName \in BOOLEAN :
         Edited(o, [params[o] EXCEPT !.list = WithoutPair(@, pair, byName)])

SortParams(o) ==
    /\ MayEdit(o)
    /\ Edited(o, IF params[o].sorted THEN params[o]
                 ELSE [params[o] EXCEPT !.list = SortedList(@), !.sorted = TRUE])

ClearParams(o) ==
    /\ MayEdit(o)
    /\ Edited(o, [params[o] EXCEPT !.list = <<>>, !.sorted = TRUE])

ParseParams(o) ==
    /\ MayEdit(o)
    /\ \E text \in QueryTexts :
         Edited(o, [params[o] EXCEPT !.list = F!FormParse(TRUE, text), !.sorted = FALSE])

-----------------------------------------------------------------------------
(* Lists that are made, copied and moved.                                  *)

\* search_params()&
TakeParams(o) ==
    /\ Between /\ o \notin stale /\ ~params[o].made
    /\ params' = [params EXCEPT ![o] = [made |-> TRUE, list |-> ListOf(Obj(o)),
                                        sorted |-> FALSE, owner |-> o]]
    /\ UNCHANGED allVars

\* free = url_search_params(container)
MakeFree ==
    /\ Between
    /\ \E list \in FreeLists : Edited("free", FreeParams(list, FALSE))
    /\ UNCHANGED stale

\* free = url_search_params(o.search_params())
CopyToFree(o) ==
    /\ MayEdit(o)
    /\ Edited("free", FreeParams(params[o].list, params[o].sorted))

\* What search_params()&& returns: the list, or the parse of search().
\* Mutant: there is none when the url has not made one.
OnlyMadeList(o) == FreeParams(params[o].list, params[o].sorted)

ListMovedOut(o) ==
    IF params[o].made THEN FreeParams(params[o].list, params[o].sorted)
    ELSE FreeParams(ListOf(Obj(o)), FALSE)

\* free = std::move(o).search_params()
MoveToFree(o) ==
    /\ Between /\ o \notin stale
    /\ params' = [params EXCEPT !["free"] = ListMovedOut(o), ![o].list = <<>>]
    /\ stale' = stale \cup {o}
    /\ UNCHANGED <<vars, other>>

\* operator=(const url_search_params&) and safe_assign
CopyFromFree(o) ==
    /\ MayEdit(o)
    /\ Edited(o, [params[o] EXCEPT !.list = params["free"].list,
                                   !.sorted = params["free"].sorted])

SafeAssignFromFree(o) ==
    /\ MayEdit(o)
    /\ LET p == [params[o] EXCEPT !.list = params["free"].list,
                                  !.sorted = params["free"].sorted]
       IN /\ params' = [params EXCEPT ![o] = p, !["free"].list = <<>>]
          /\ IF IsValid(Obj(p.owner)) THEN SetObj(p.owner, Updated(Obj(p.owner), p.list))
             ELSE UNCHANGED <<vars, other>>

-----------------------------------------------------------------------------
(* Urls that are copied, moved and swapped.                                *)

\* set_url_ptr
\* Mutant: the list points to the url that it came from.
NotLinked(p, o) == p

LinkedTo(p, o) == IF p.made THEN [p EXCEPT !.owner = o] ELSE p

\* url_search_params_ptr::operator=(const url_search_params_ptr&), when the
\* rest of the url was copied from u.
CopiedParams(p, from, u) ==
    CASE ~p.made -> p
      [] p.made /\ from.made -> [p EXCEPT !.list = from.list, !.sorted = from.sorted]
      [] p.made /\ ~from.made -> [p EXCEPT !.list = ListOf(u), !.sorted = FALSE]

MoveParamsOut == [params EXCEPT !["other"] = LinkedTo(params["url"], "other"), !["url"] = NoParams]
MoveParamsIn == [params EXCEPT !["url"] = LinkedTo(params["other"], "url"), !["other"] = NoParams]

SwapParams == [params EXCEPT !["url"] = LinkedTo(params["other"], "url"),
                             !["other"] = LinkedTo(params["url"], "other")]

Other(o) == IF o = "url" THEN "other" ELSE "url"

\* o = the other url
CopyUrl(o) ==
    /\ Between /\ Other(o) \notin stale
    /\ SetObj(o, Obj(Other(o)))
    /\ params' = [params EXCEPT ![o] = CopiedParams(@, params[Other(o)], Obj(Other(o)))]
    /\ stale' = stale \ {o}

\* other is constructed from url: the copy has no list.
CopyConstruct ==
    /\ Between /\ "url" \notin stale
    /\ SetObj("other", url)
    /\ params' = [params EXCEPT !["other"] = NoParams]
    /\ stale' = stale \ {"other"}

\* url::safe_assign: a list of o stays, and is given what the other one has.
SafeAssign(o) ==
    /\ Between /\ Other(o) \notin stale
    /\ IF o = "url" THEN Assign(other) /\ other' = MovedFrom(other)
       ELSE Assign(MovedFrom(url)) /\ other' = url
    /\ params' = IF params[o].made
                 THEN [params EXCEPT ![o] = CopiedParams(@, params[Other(o)], Obj(Other(o))),
                                     ![Other(o)].list = <<>>]
                 ELSE params
    /\ stale' = {Other(o)}

-----------------------------------------------------------------------------
(* Calls of the url, which carry its list with them.                       *)

\* clear_search_params and parse_search_params, when u has a list.
Cleared(p) == IF p.made THEN [p EXCEPT !.list = <<>>, !.sorted = TRUE] ELSE p

\* Mutant: the list stays as it is.
ParsedNever(p, u) == p
Parsed(p, u) == IF p.made THEN [p EXCEPT !.list = ListOf(u), !.sorted = FALSE] ELSE p

\* What the step of the call does to the list of the url.
Carried(p) ==
    LET returns == pc' = "done" /\ pc # "done"
        atOnce == returns /\ pc = "idle"
        succeeds == returns /\ res' = "ok"
    IN CASE pc = "return" /\ ~urls.save ->
              IF op \in {"parse", "reparse"} /\ old.norm # <<>> THEN Cleared(p) ELSE p
         [] succeeds /\ (op' = "clear" \/ (op' = "search" /\ atOnce)) -> Cleared(p)
         [] returns /\ op' = "search" /\ ~atOnce -> Parsed(p, url')
         [] succeeds /\ op' \in {"parse", "reparse", "href"} -> Parsed(p, url')
         [] succeeds /\ op' = "parse_with_base" -> NoParams
         [] OTHER -> p

ParamsFollow == params' = [params EXCEPT !["url"] = Carried(@)]

-----------------------------------------------------------------------------

ParamsInit ==
    /\ MoveInit
    /\ params = [o \in Object |-> IF o = "free" THEN FreeParams(<<>>, FALSE) ELSE NoParams]

EditParams ==
    /\ \E o \in Object :
         \/ AppendParam(o) \/ SetParam(o) \/ DelParam(o)
         \/ SortParams(o) \/ ClearParams(o) \/ ParseParams(o)
    /\ UNCHANGED stale

AssignParams ==
    \/ \E o \in Owner : TakeParams(o) \/ MoveToFree(o)
    \/ MakeFree
    \/ /\ \E o \in Owner : CopyToFree(o) \/ CopyFromFree(o) \/ SafeAssignFromFree(o)
       /\ UNCHANGED stale

AssignUrls ==
    \/ MoveOut /\ params' = MoveParamsOut
    \/ MoveIn /\ params' = MoveParamsIn
    \/ Swap /\ params' = SwapParams
    \/ \E o \in Owner : CopyUrl(o) \/ SafeAssign(o)
    \/ CopyConstruct

CallUrl ==
    /\ CallOnUrl \/ CallOnMovedFrom \/ (Step /\ Keep)
    /\ ParamsFollow

ParamsNext == EditParams \/ AssignParams \/ AssignUrls \/ CallUrl

ParamsSpec == ParamsInit /\ [][ParamsNext]_paramsVars

-----------------------------------------------------------------------------
(* Correctness.                                                            *)

Settled(o) == o \notin stale /\ (o = "url" => AtRest) /\ IsValid(Obj(o))

\* The list that a url owns points to that url, and to no other, however
\* urls were copied, moved, swapped and assigned: an edit of the list of one
\* url can not write the query of another, or of one that is gone.
LinksPointBack ==
    \A o \in Owner : params[o].made => params[o].owner = o

\* The list of a url and its query say the same, whichever of them was
\* changed last and whatever else was done to the url: the list, as it reads
\* after it was written, is the parse of the query.
ListIsTheQuery ==
    \A o \in Owner : Settled(o) /\ params[o].made => Fixed(params[o].list) = ListOf(Obj(o))

\* sort() skips a list that is marked as sorted, so the mark must not outlive
\* the order: no edit, assignment or call leaves it on a list that is not.
SortedFlagIsTrue ==
    \A o \in Object : params[o].sorted =>
        \A i, j \in 1 .. Len(params[o].list) :
            i < j => ~Less(params[o].list[j][1], params[o].list[i][1])

\* The promise of UrlQuery, of lists that are parsed from the queries.
ListIfKnown(o, u) == IF o \notin stale /\ IsValid(u) THEN ListOf(u) ELSE <<>>

\* The url as it was before the call that is in progress.
UrlBefore == IF AtRest THEN url ELSE old

QueryLists ==
    [url |-> ListIfKnown("url", UrlBefore), other |-> ListIfKnown("other", other),
     free |-> Fixed(params["free"].list)]

KnownLists ==
    {"free"} \cup {o \in Owner \ stale : IsValid(IF o = "url" THEN UrlBefore ELSE other)}

Query == INSTANCE UrlQuery WITH
            Pairs <- {Fixed(<<p>>)[1] : p \in Pairs},
            Lists <- {Fixed(l) : l \in FreeLists} \cup {F!FormParse(TRUE, t) : t \in QueryTexts},
            lists <- QueryLists,
            known <- KnownLists,
            call <- IF AtRest THEN "none" ELSE op

\* Edits of a list change the query of its url as they change the list, and
\* no other call, copy or move changes a query list: the lists and the urls
\* implement UrlQuery.
QueriesAreLists == Query!Spec
=============================================================================
