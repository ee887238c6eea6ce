-------------------------- MODULE UrlLinkTheorems --------------------------
(***************************************************************************)
(* The pointers between a url and its parameter list; that urls which are  *)
(* copied, moved, swapped, assigned and edited by their lists are whole,   *)
(* also when a call begins on what a move has left of a url; and that a    *)
(* list which is marked as sorted is in the order of its names.            *)
(***************************************************************************)
EXTENDS UrlParams, UrlRecordTheorems, TLAPS

\* Two objects exchange lists, or one is given a list, always as a whole
\* record, so that it is enough to know its fields.
ListRecord(p) ==
    p = [made |-> p.made, list |-> p.list, sorted |-> p.sorted, owner |-> p.owner]

Linked(p, o) ==
    /\ ListRecord(p)
    /\ o \in Owner /\ p.made => p.owner = o
    /\ o = "free" => p.owner = "none"

LinkInv == DOMAIN params = Object /\ \A o \in Object : Linked(params[o], o)

\* A list that exists, with the pointer that is right for it.
LinkedList(p, o) == Linked(p, o) /\ p.made

LEMMA NewListLinked ==
    ASSUME NEW p, NEW o, Linked(p, o), NEW l, NEW b
    PROVE  /\ Linked([p EXCEPT !.list = l], o)
           /\ Linked([p EXCEPT !.list = l, !.sorted = b], o)
           /\ p.made => LinkedList([p EXCEPT !.list = l], o)
           /\ p.made => LinkedList([p EXCEPT !.list = l, !.sorted = b], o)
<1>. DEFINE m == p.made
            s == p.sorted
            w == p.owner
            q == [p EXCEPT !.list = l]
            r == [q EXCEPT !.sorted = b]
<1>1. p = [made |-> m, list |-> p.list, sorted |-> s, owner |-> w]
  BY DEF Linked, ListRecord
<1>2. (o \in Owner /\ m => w = o) /\ (o = "free" => w = "none")
  BY DEF Linked
<1>3. q = [made |-> m, list |-> l, sorted |-> s, owner |-> w]
  BY <1>1
<1>. HIDE DEF m, s, w, q
<1>4. r = [made |-> m, list |-> l, sorted |-> b, owner |-> w]
  BY <1>3
<1>. HIDE DEF r
<1>5. Linked(q, o) /\ (m => LinkedList(q, o))
  BY <1>2, <1>3 DEF Linked, LinkedList, ListRecord
<1>6. Linked(r, o) /\ (m => LinkedList(r, o))
  BY <1>2, <1>4 DEF Linked, LinkedList, ListRecord
<1>. QED  BY <1>5, <1>6 DEF m, q, r

LEMMA NoListLinked ==
    /\ \A o : Linked(NoParams, o)
    /\ \A l, b : Linked(FreeParams(l, b), "free")
BY DEF Linked, ListRecord, NoParams, FreeParams, Owner

LEMMA TakenLinked ==
    ASSUME NEW o \in Owner, NEW p, Linked(p, o), NEW to \in Owner
    PROVE  Linked(LinkedTo(p, to), to)
<1>. USE DEF Owner
<1>1. CASE p.made
  <2>1. LinkedTo(p, to) = [made |-> p.made, list |-> p.list, sorted |-> p.sorted, owner |-> to]
    BY <1>1 DEF LinkedTo, Linked, ListRecord
  <2>. QED  BY <2>1 DEF Linked, ListRecord
<1>2. CASE ~p.made
  BY <1>2 DEF LinkedTo, Linked, ListRecord
<1>. QED  BY <1>1, <1>2

LEMMA CopyLinked ==
    ASSUME NEW o, NEW p, Linked(p, o), NEW from, NEW u
    PROVE  Linked(CopiedParams(p, from, u), o)
<1>1. CASE ~p.made
  BY <1>1 DEF CopiedParams
<1>2. CASE p.made /\ from.made
  <2>1. Linked([p EXCEPT !.list = from.list, !.sorted = from.sorted], o)
    BY NewListLinked
  <2>2. CopiedParams(p, from, u) = [p EXCEPT !.list = from.list, !.sorted = from.sorted]
    BY <1>2 DEF CopiedParams
  <2>. QED  BY <2>1, <2>2, Zenon
<1>3. CASE p.made /\ ~from.made
  <2>1. Linked([p EXCEPT !.list = ListOf(u), !.sorted = FALSE], o)
    BY NewListLinked
  <2>2. CopiedParams(p, from, u) = [p EXCEPT !.list = ListOf(u), !.sorted = FALSE]
    BY <1>3 DEF CopiedParams
  <2>. QED  BY <2>1, <2>2, Zenon
<1>. QED  BY <1>1, <1>2, <1>3

-----------------------------------------------------------------------------
(* Steps that write the list of one object, or of two.                     *)

LEMMA OneListWritten ==
    ASSUME LinkInv, NEW o \in Object, NEW p, Linked(p, o),
           params' = [params EXCEPT ![o] = p]
    PROVE  LinkInv'
BY DEF LinkInv, Linked, ListRecord

LEMMA TwoListsWritten ==
    ASSUME LinkInv, NEW o \in Object, NEW p, Linked(p, o),
           NEW e \in Object, NEW q, Linked(q, e), e # o,
           params' = [params EXCEPT ![o] = p, ![e] = q]
    PROVE  LinkInv'
<1>1. DOMAIN params' = Object /\ params'[o] = p /\ params'[e] = q
  BY DEF LinkInv
<1>2. \A r \in Object : r # o /\ r # e => params'[r] = params[r]
  BY DEF LinkInv
<1>3. \A r \in Object : Linked(params[r], r)
  BY DEF LinkInv
<1>4. \A r \in Object : Linked(params'[r], r)
  BY <1>1, <1>2, <1>3
<1>. QED  BY <1>1, <1>4 DEF LinkInv, Linked, ListRecord

-----------------------------------------------------------------------------
(* Edits.                                                                  *)

\* What every edit starts from.
LEMMA ListsLinked ==
    ASSUME LinkInv, NEW o \in Object
    PROVE  Linked(params[o], o)
BY DEF LinkInv

LEMMA EditedLinked ==
    ASSUME LinkInv, NEW o \in Object, NEW p, Linked(p, o), Edited(o, p)
    PROVE  LinkInv'
<1>1. params' = [params EXCEPT ![o] = p]
  BY DEF Edited
<1>. QED  BY <1>1, OneListWritten

LEMMA AppendedLinked ==
    ASSUME LinkInv, NEW o \in Object, params[o].made, NEW pair
    PROVE  LinkedList(Appended(params[o], pair), o)
<1>1. LinkedList([params[o] EXCEPT !.list = Append(params[o].list, pair), !.sorted = FALSE], o)
  BY ListsLinked, NewListLinked
<1>. QED  BY <1>1 DEF Appended

\* Each edit writes one list that exists, and keeps its pointer.
LEMMA EditsOneList ==
    ASSUME LinkInv, EditParams
    PROVE  \E o \in Object : \E p : MayEdit(o) /\ LinkedList(p, o) /\ Edited(o, p)
<1>1. PICK o \in Object : \/ AppendParam(o) \/ SetParam(o) \/ DelParam(o)
                          \/ SortParams(o) \/ ClearParams(o) \/ ParseParams(o)
  BY DEF EditParams
<1>0. MayEdit(o) /\ params[o].made
  BY <1>1 DEF AppendParam, SetParam, DelParam, SortParams, ClearParams, ParseParams, MayEdit
<1>2. \A l : LinkedList([params[o] EXCEPT !.list = l], o)
  BY <1>0, ListsLinked, NewListLinked
<1>3. \A l, b : LinkedList([params[o] EXCEPT !.list = l, !.sorted = b], o)
  BY <1>0, ListsLinked, NewListLinked
<1>a. SUFFICES \E p : LinkedList(p, o) /\ Edited(o, p)
  BY <1>0
<1>4. ASSUME AppendParam(o)
      PROVE  \E p : LinkedList(p, o) /\ Edited(o, p)
  BY <1>0, <1>4, AppendedLinked DEF AppendParam
<1>5. ASSUME SetParam(o)
      PROVE  \E p : LinkedList(p, o) /\ Edited(o, p)
  <2>1. PICK pair \in Pairs :
           \/ Edited(o, [params[o] EXCEPT !.list = SetFirst(params[o].list, pair)])
           \/ Edited(o, Appended(params[o], pair))
    BY <1>5 DEF SetParam
  <2>2. LinkedList([params[o] EXCEPT !.list = SetFirst(params[o].list, pair)], o)
    BY <1>2
  <2>3. LinkedList(Appended(params[o], pair), o)
    BY <1>0, AppendedLinked
  <2>. QED  BY <2>1, <2>2, <2>3
<1>6. ASSUME DelParam(o)
      PROVE  \E p : LinkedList(p, o) /\ Edited(o, p)
  <2>1. PICK l : Edited(o, [params[o] EXCEPT !.list = l])
    BY <1>6 DEF DelParam
  <2>. QED  BY <1>2, <2>1
<1>7. ASSUME SortParams(o)
      PROVE  \E p : LinkedList(p, o) /\ Edited(o, p)
  <2>1. \/ Edited(o, params[o])
        \/ Edited(o, [params[o] EXCEPT !.list = SortedList(params[o].list), !.sorted = TRUE])
    BY <1>7 DEF SortParams
  <2>2. LinkedList([params[o] EXCEPT !.list = SortedList(params[o].list), !.sorted = TRUE], o)
    BY <1>3
  <2>3. LinkedList(params[o], o)
    BY <1>0, ListsLinked DEF LinkedList
  <2>. QED  BY <2>1, <2>2, <2>3
<1>8. ASSUME ClearParams(o)
      PROVE  \E p : LinkedList(p, o) /\ Edited(o, p)
  <2>1. Edited(o, [params[o] EXCEPT !.list = <<>>, !.sorted = TRUE])
    BY <1>8 DEF ClearParams
  <2>. QED  BY <1>3, <2>1
<1>9. ASSUME ParseParams(o)
      PROVE  \E p : LinkedList(p, o) /\ Edited(o, p)
  <2>1. PICK l : Edited(o, [params[o] EXCEPT !.list = l, !.sorted = FALSE])
    BY <1>9 DEF ParseParams
  <2>. QED  BY <1>3, <2>1
<1>. QED  BY <1>1, <1>4, <1>5, <1>6, <1>7, <1>8, <1>9

LEMMA EditParamsLinked ==
    ASSUME LinkInv, EditParams
    PROVE  LinkInv'
BY EditsOneList, EditedLinked DEF LinkedList

-----------------------------------------------------------------------------
(* Assignments of lists.                                                   *)

LEMMA AssignParamsLinked ==
    ASSUME LinkInv, AssignParams
    PROVE  LinkInv'
<1>. USE DEF Owner, Object
<1>1. ASSUME NEW o \in Owner, TakeParams(o)
      PROVE  LinkInv'
  <2>. DEFINE p == [made |-> TRUE, list |-> ListOf(Obj(o)), sorted |-> FALSE, owner |-> o]
  <2>1. params' = [params EXCEPT ![o] = p]
    BY <1>1 DEF TakeParams
  <2>2. Linked(p, o)
    BY DEF Linked, ListRecord
  <2>. QED  BY <2>1, <2>2, OneListWritten
<1>2. ASSUME NEW o \in Owner, MoveToFree(o)
      PROVE  LinkInv'
  <2>1. Linked(ListMovedOut(o), "free") /\ Linked([params[o] EXCEPT !.list = <<>>], o)
    BY ListsLinked, NewListLinked, NoListLinked DEF ListMovedOut
  <2>2. params' = [params EXCEPT !["free"] = ListMovedOut(o),
                                 ![o] = [params[o] EXCEPT !.list = <<>>]]
    BY <1>2 DEF MoveToFree, LinkInv
  <2>. QED  BY <2>1, <2>2, TwoListsWritten
<1>3. ASSUME MakeFree
      PROVE  LinkInv'
  BY <1>3, EditedLinked, NoListLinked DEF MakeFree
<1>4. ASSUME NEW o \in Owner, CopyToFree(o)
      PROVE  LinkInv'
  BY <1>4, EditedLinked, NoListLinked DEF CopyToFree
<1>5. ASSUME NEW o \in Owner
      PROVE  Linked([params[o] EXCEPT !.list = params["free"].list,
                                      !.sorted = params["free"].sorted], o)
  BY ListsLinked, NewListLinked
<1>6. ASSUME NEW o \in Owner, CopyFromFree(o)
      PROVE  LinkInv'
  BY <1>5, <1>6, EditedLinked DEF CopyFromFree
<1>7. ASSUME NEW o \in Owner, SafeAssignFromFree(o)
      PROVE  LinkInv'
  <2>. DEFINE p == [params[o] EXCEPT !.list = params["free"].list,
                                     !.sorted = params["free"].sorted]
  <2>1. params' = [params EXCEPT ![o] = p,
                                 !["free"] = [params["free"] EXCEPT !.list = <<>>]]
    BY <1>7 DEF SafeAssignFromFree, LinkInv
  <2>2. Linked([params["free"] EXCEPT !.list = <<>>], "free")
    BY ListsLinked, NewListLinked
  <2>. QED  BY <1>5, <2>1, <2>2, TwoListsWritten
<1>. QED  BY <1>1, <1>2, <1>3, <1>4, <1>6, <1>7 DEF AssignParams

-----------------------------------------------------------------------------
(* Assignments of urls, and calls.                                         *)

LEMMA SafeAssignLinked ==
    ASSUME LinkInv, NEW o \in Owner, SafeAssign(o)
    PROVE  LinkInv'
<1>. USE DEF Owner, Object
<1>1. CASE ~params[o].made
  <2>1. params' = params
    BY <1>1 DEF SafeAssign
  <2>. QED  BY <2>1 DEF LinkInv, Linked, ListRecord
<1>2. CASE params[o].made
  <2>. DEFINE e == Other(o)
              p == CopiedParams(params[o], params[e], Obj(e))
              q == [params[e] EXCEPT !.list = <<>>]
  <2>1. e \in Object /\ e # o
    BY DEF Other
  <2>2. params' = [params EXCEPT ![o] = p, ![e] = q]
    BY <1>2, <2>1 DEF SafeAssign, LinkInv
  <2>3. Linked(p, o)
    BY ListsLinked, CopyLinked
  <2>4. Linked(q, e)
    BY <2>1, ListsLinked, NewListLinked
  <2>. HIDE DEF e, p, q
  <2>. QED  BY <2>1, <2>2, <2>3, <2>4, TwoListsWritten
<1>. QED  BY <1>1, <1>2

LEMMA AssignUrlsLinked ==
    ASSUME LinkInv, AssignUrls
    PROVE  LinkInv'
<1>. USE DEF Owner, Object
<1>1. Linked(params["url"], "url") /\ Linked(params["other"], "other")
  BY ListsLinked
<1>2. /\ Linked(LinkedTo(params["url"], "other"), "other")
      /\ Linked(LinkedTo(params["other"], "url"), "url")
  BY <1>1, TakenLinked
<1>3. Linked(NoParams, "url") /\ Linked(NoParams, "other")
  BY NoListLinked
<1>4. CASE params' = MoveParamsOut
  BY <1>2, <1>3, <1>4, TwoListsWritten DEF MoveParamsOut
<1>5. CASE params' = MoveParamsIn
  BY <1>2, <1>3, <1>5, TwoListsWritten DEF MoveParamsIn
<1>6. CASE params' = SwapParams
  BY <1>2, <1>6, TwoListsWritten DEF SwapParams
<1>7. ASSUME NEW o \in Owner, CopyUrl(o)
      PROVE  LinkInv'
  <2>. DEFINE p == CopiedParams(params[o], params[Other(o)], Obj(Other(o)))
  <2>1. params' = [params EXCEPT ![o] = p]
    BY <1>7 DEF CopyUrl, LinkInv
  <2>2. Linked(p, o)
    BY ListsLinked, CopyLinked
  <2>. QED  BY <2>1, <2>2, OneListWritten
<1>8. CASE CopyConstruct
  <2>1. params' = [params EXCEPT !["other"] = NoParams]
    BY <1>8 DEF CopyConstruct
  <2>. QED  BY <1>3, <2>1, OneListWritten
<1>. QED  BY <1>4, <1>5, <1>6, <1>7, <1>8, SafeAssignLinked DEF AssignUrls

LEMMA CarriedLinked ==
    ASSUME NEW p, NEW o, Linked(p, o)
    PROVE  Linked(Carried(p), o)
<1>1. Linked(Cleared(p), o)
  <2>1. Linked([p EXCEPT !.list = <<>>, !.sorted = TRUE], o)
    BY NewListLinked
  <2>. QED  BY <2>1 DEF Cleared
<1>2. Linked(Parsed(p, url'), o)
  <2>1. Linked([p EXCEPT !.list = ListOf(url'), !.sorted = FALSE], o)
    BY NewListLinked
  <2>. QED  BY <2>1 DEF Parsed
<1>3. Linked(NoParams, o)
  BY NoListLinked
<1>4. Carried(p) \in {Cleared(p), Parsed(p, url'), NoParams, p}
  BY DEF Carried
<1>. QED  BY <1>1, <1>2, <1>3, <1>4

LEMMA CallLinked ==
    ASSUME LinkInv, CallUrl
    PROVE  LinkInv'
<1>. USE DEF Owner, Object
<1>1. params' = [params EXCEPT !["url"] = Carried(params["url"])]
  BY DEF CallUrl, ParamsFollow, LinkInv
<1>2. Linked(Carried(params["url"]), "url")
  BY ListsLinked, CarriedLinked
<1>. QED  BY <1>1, <1>2, OneListWritten

-----------------------------------------------------------------------------

LEMMA LinkInit == ParamsInit => LinkInv
<1>. SUFFICES ASSUME ParamsInit
              PROVE  LinkInv
  OBVIOUS
<1>. USE DEF Owner, Object
<1>1. DOMAIN params = Object
  BY DEF ParamsInit
<1>2. Linked(params["free"], "free")
  BY NoListLinked DEF ParamsInit
<1>3. Linked(params["url"], "url") /\ Linked(params["other"], "other")
  BY NoListLinked DEF ParamsInit
<1>. QED  BY <1>1, <1>2, <1>3 DEF LinkInv

LEMMA LinkNext ==
    ASSUME LinkInv, [ParamsNext]_paramsVars
    PROVE  LinkInv'
<1>1. CASE UNCHANGED paramsVars
  BY <1>1 DEF paramsVars, LinkInv, Linked, ListRecord
<1>2. CASE ParamsNext
  BY <1>2, EditParamsLinked, AssignParamsLinked, AssignUrlsLinked, CallLinked DEF ParamsNext
<1>. QED  BY <1>1, <1>2

\* However urls and lists are edited, copied, moved, swapped and assigned, in
\* every order: a list that a url owns points to that url.  Each of the three
\* ways of giving a url a list, by set_url_ptr, by a copy into the list that
\* it has and by search_params(), leaves the pointer right, and no other step
\* writes it.
THEOREM LinksAlwaysPointBack == ParamsSpec => []LinksPointBack
<1>1. LinkInv => LinksPointBack
  BY DEF LinkInv, Linked, LinksPointBack, Object
<1>. QED  BY <1>1, LinkInit, LinkNext, PTL DEF ParamsSpec

-----------------------------------------------------------------------------
(* Urls that are moved.                                                    *)

\* A url that no call is working on, and that was not moved from.
Intact(u) == u \in Url /\ Resting(u) /\ Known(u)

\* What holds between two calls also of a url that was moved from: its own
\* parts may be anything, but no call has left anything of it elsewhere.
Apart == Typed /\ Known(base) /\ urls.sane /\ ~urls.setter /\ (pc = "idle" => ~hasBase)

\* A call works on a url that it may give back, unless it is href() on a url
\* that was moved from, which parses into a new one.
Working ==
    /\ FullWork
    /\ pc # "done" => IF "url" \in stale THEN op = "href" /\ ~override
                      ELSE Resting(old) /\ Known(old)

UrlInv == IF "url" \in stale /\ AtRest THEN Apart ELSE Working

OtherInv == other \in Url /\ ("other" \notin stale => Intact(other))

MoveInv ==
    /\ stale \in SUBSET Owner
    /\ UrlInv /\ OtherInv /\ CallInv
    /\ pc = "idle" => old = EmptyUrl

LEMMA WorkIsApart == FullWork /\ AtRest => Apart
<1>. SUFFICES ASSUME FullWork, AtRest
              PROVE  Apart
  BY DEF Apart
<1>1. Typed
  BY WorkTyped DEF FullWork
<1>2. Known(base)
  BY KnownUrls
<1>3. urls.sane /\ ~urls.setter /\ (pc = "idle" => ~hasBase)
  BY DEF FullWork, WorkInv, WorkShape
<1>. QED  BY <1>1, <1>2, <1>3 DEF Apart

LEMMA ApartAtRest ==
    ASSUME MoveInv, AtRest
    PROVE  Apart
BY WorkIsApart DEF MoveInv, UrlInv, Working

LEMMA UrlIsIntact ==
    ASSUME MoveInv, AtRest, "url" \notin stale
    PROVE  Intact(url)
<1>1. FullWork
  BY DEF MoveInv, UrlInv, Working
<1>. QED  BY <1>1, RestingUrl, KnownUrls DEF FullWork, Intact

LEMMA EmptyUrlIntact == Intact(EmptyUrl)
BY EmptyUrlRests DEF Intact, Known

LEMMA MovedFromType ==
    ASSUME NEW u \in Url
    PROVE  MovedFrom(u) \in Url
<1>1. <<>> \in Text
  BY DEF Text
<1>. QED  BY <1>1 DEF MovedFrom, Url

LEMMA IntactIsWhole ==
    ASSUME NEW u, Intact(u)
    PROVE  Whole(u)
<1>1. ASSUME IsValid(u)
      PROVE  u.norm = Serialization(u)
  <2>1. Complete(u)
    BY <1>1, EmptyUrlRests DEF Intact, Resting
  <2>2. ValidUrl(u)
    BY <1>1, <2>1 DEF Intact, Known, ValidUrl
  <2>. QED  BY <2>2, NormIsSerialization
<1>. QED  BY <1>1 DEF Whole, Intact

-----------------------------------------------------------------------------
(* Between two calls objects are given values.                             *)

LEMMA AssignCalls ==
    ASSUME CallInv, pc = "idle", NEW u, Assign(u)
    PROVE  CallInv'
<1>1. pc' = "idle" /\ urls' = NewSerializer(u, TRUE)
  BY DEF Assign
<1>2. DOMAIN urls' = Fields
  BY <1>1 DEF NewSerializer, Fields
<1>3. ~InCall' /\ FailureIsAtomic'
  BY <1>1 DEF InCall, ParserState, FailureIsAtomic, Returned
<1>. QED  BY <1>2, <1>3 DEF CallInv

LEMMA AssignApart ==
    ASSUME Apart, pc = "idle", NEW u \in Url, Assign(u)
    PROVE  Apart' /\ pc' = "idle" /\ old' = old /\ urls'.u = u
<1>1. /\ urls' = NewSerializer(u, TRUE)
      /\ UNCHANGED <<pc, ptr, override, base, hasBase, res, op, arg, old, can>>
  BY DEF Assign, parserVars, callVars
<1>2. urls' \in Serializer /\ urls'.u = u /\ ~urls'.setter /\ urls'.sane
  BY <1>1, NewSerializerType
<1>3. Typed'
  <2>1. TypeOK'
    BY <1>1, <1>2 DEF Apart, Typed, TypeOK
  <2>. QED  BY <1>1, <2>1 DEF Apart, Typed
<1>4. Known(base)' /\ ~hasBase'
  BY <1>1 DEF Apart, Known
<1>. QED  BY <1>1, <1>2, <1>3, <1>4 DEF Apart

\* What is apart and rests is what a call may work on.
LEMMA ApartIsWork == Apart /\ pc = "idle" /\ Intact(url) => FullWork
<1>. SUFFICES ASSUME Apart, pc = "idle", Intact(url)
              PROVE  FullWork
  OBVIOUS
<1>1. pc \notin ParserState /\ AtRest
  BY DEF ParserState, AtRest
<1>2. WorkInv
  BY <1>1 DEF Apart, Typed, Intact, WorkInv, WorkShape
<1>3. WorkRecord
  BY <1>1 DEF Apart, Intact, Known, WorkRecord
<1>. QED  BY <1>2, <1>3 DEF FullWork

LEMMA AssignStep ==
    ASSUME MoveInv, pc = "idle", NEW u \in Url, NEW v \in Url, Assign(u), other' = v,
           stale' \in SUBSET Owner,
           "url" \notin stale' => Intact(u), "other" \notin stale' => Intact(v)
    PROVE  MoveInv'
<1>1. Apart
  BY ApartAtRest DEF AtRest
<1>2. Apart' /\ pc' = "idle" /\ old' = old /\ urls'.u = u
  BY <1>1, AssignApart
<1>3. CallInv' /\ (pc = "idle" => old = EmptyUrl)'
  BY <1>2, AssignCalls DEF MoveInv
<1>4. AtRest'
  BY <1>2 DEF AtRest
<1>5. UrlInv'
  <2>1. CASE "url" \in stale'
    BY <1>2, <1>4, <2>1 DEF UrlInv
  <2>2. CASE "url" \notin stale'
    <3>1. Intact(url)'
      BY <1>2, <2>2 DEF url, Intact, Known
    <3>2. FullWork'
      <4>1. Apart' /\ (pc = "idle")' /\ Intact(url)'
        BY <1>2, <3>1
      <4>. QED  BY <4>1, ApartIsWork, PTL
    <3>3. Resting(old)' /\ Known(old)'
      BY <1>3, <1>2, EmptyUrlIntact DEF Intact, Known
    <3>. QED  BY <2>2, <3>2, <3>3 DEF UrlInv, Working
  <2>. QED  BY <2>1, <2>2
<1>6. OtherInv'
  BY DEF OtherInv, Intact, Known
<1>. QED  BY <1>3, <1>5, <1>6 DEF MoveInv

LEMMA MovesStep ==
    ASSUME MoveInv, MoveOut \/ MoveIn \/ Swap
    PROVE  MoveInv'
<1>1. pc = "idle"
  BY DEF MoveOut, MoveIn, Swap
<1>2. url \in Url /\ other \in Url /\ MovedFrom(url) \in Url /\ MovedFrom(other) \in Url
  <2>1. url \in Url
    BY <1>1, ApartAtRest DEF AtRest, Apart, Typed, TypeOK, Serializer, url
  <2>. QED  BY <2>1, MovedFromType DEF MoveInv, OtherInv
<1>3. /\ "url" \notin stale => Intact(url)
      /\ "other" \notin stale => Intact(other)
      /\ stale \in SUBSET Owner
  BY <1>1, UrlIsIntact DEF AtRest, MoveInv, OtherInv
<1>4. CASE MoveOut
  <2>1. stale' \in SUBSET Owner /\ "url" \in stale' /\ ("other" \in stale' <=> "url" \in stale)
    BY <1>4 DEF MoveOut, Owner
  <2>. QED  BY <1>1, <1>2, <1>3, <1>4, <2>1, AssignStep DEF MoveOut
<1>5. CASE MoveIn
  <2>1. stale' \in SUBSET Owner /\ "other" \in stale' /\ ("url" \in stale' <=> "other" \in stale)
    BY <1>5 DEF MoveIn, Owner
  <2>. QED  BY <1>1, <1>2, <1>3, <1>5, <2>1, AssignStep DEF MoveIn
<1>6. CASE Swap
  <2>1. /\ stale' \in SUBSET Owner
        /\ "other" \in stale' <=> "url" \in stale
        /\ "url" \in stale' <=> "other" \in stale
    BY <1>3, <1>6 DEF Swap, Owner
  <2>2. other' = url
    <3>. DEFINE v == MovedFrom(other)
    <3>1. other' = [v EXCEPT !.norm = url.norm, !.ends = url.ends, !.inf = url.inf,
                             !.flags = url.flags, !.htype = url.htype, !.segs = url.segs]
      BY <1>6 DEF Swap
    <3>2. v \in Url
      BY <1>2
    <3>. HIDE DEF v
    <3>. QED  BY <1>2, <3>1, <3>2 DEF Url
  <2>. QED  BY <1>1, <1>2, <1>3, <1>6, <2>1, <2>2, AssignStep DEF Swap
<1>. QED  BY <1>4, <1>5, <1>6

-----------------------------------------------------------------------------
(* Calls, and their steps.                                                 *)

LEMMA KeepOther ==
    ASSUME MoveInv, Keep
    PROVE  /\ OtherInv' /\ stale' \in SUBSET Owner
           /\ stale' = IF Renewed THEN stale \ {"url"} ELSE stale
<1>1. /\ other' = other /\ stale' = (IF Renewed THEN stale \ {"url"} ELSE stale)
      /\ stale \in SUBSET Owner /\ OtherInv
  BY DEF Keep, MoveInv
<1>2. stale' \in SUBSET Owner /\ ("other" \notin stale' => "other" \notin stale)
  BY <1>1
<1>. QED  BY <1>1, <1>2 DEF OtherInv, Intact, Known

LEMMA MovesCallNext ==
    ASSUME MoveInv, [Next]_vars
    PROVE  CallInv'
BY CallNext DEF MoveInv

\* A call on a url that was not moved from, or a step of it.
LEMMA IntactStep ==
    ASSUME MoveInv, "url" \notin stale, pc # "done", [Next]_vars
    PROVE  Working' \/ "url" \in stale'
<1>1. FullWork /\ Resting(old) /\ Known(old)
  BY DEF MoveInv, UrlInv, Working
<1>2. FullInv'
  BY <1>1, FullInvFacts, FullNext
<1>3. FullWork' /\ Resting(old)' /\ Known(old)'
  BY <1>2, FullInvFacts, PTL
<1>. QED  BY <1>3 DEF Working

LEMMA CallBegins ==
    ASSUME MakeCall
    PROVE  pc' # "idle"
<1>1. \A u, save, text, b, isBase : BeginParse(u, save, text, b, isBase) => pc' # "idle"
  BY DEF BeginParse, Enter
<1>2. \A r, u : Done(r, u) => pc' # "idle"
  BY DEF Done
<1>3. \A state, x, text, over : Enter(state, x, text, over) => pc' = state
  BY DEF Enter
<1>4. \A call, text, allowed, state, input :
         EnterSetter(call, text, allowed, state, input) => pc' \in {state, "done"}
  BY <1>3 DEF EnterSetter, Done
<1>5. \A call, text, r, x : Set(call, text, r, x) => pc' # "idle"
  BY <1>2 DEF Set
<1>6. (\E text : Parse(text) \/ ParseWithBase(text) \/ SetHref(text)) \/ Reparse => pc' # "idle"
  BY <1>1 DEF Parse, ParseWithBase, SetHref, Reparse
<1>7. Clear => pc' # "idle"
  BY <1>2 DEF Clear
<1>8. (\E text : SetProtocol(text) \/ SetHost(text) \/ SetHostname(text) \/ SetPathname(text))
         => pc' # "idle"
  BY <1>4 DEF SetProtocol, SetHost, SetHostname, SetPathname
<1>9. (\E text : SetUsername(text) \/ SetPassword(text) \/ SetPort(text)) => pc' # "idle"
  BY <1>4, <1>5 DEF SetUsername, SetPassword, SetUserinfo, SetPort
<1>10. (\E text : SetSearch(text) \/ SetHash(text)) => pc' # "idle"
  BY <1>4, <1>5 DEF SetSearch, SetHash, SetLast
<1>. QED  BY <1>6, <1>7, <1>8, <1>9, <1>10, Zenon DEF MakeCall

LEMMA CallOnUrlStep ==
    ASSUME MoveInv, CallOnUrl
    PROVE  MoveInv'
<1>1. "url" \notin stale /\ MakeCall /\ Keep /\ pc = "idle"
  BY DEF CallOnUrl, MakeCall
<1>2. OtherInv' /\ stale' \in SUBSET Owner /\ "url" \notin stale'
  BY <1>1, KeepOther
<1>3. CallInv'
  BY <1>1, MovesCallNext DEF Next
<1>4. Working'
  BY <1>1, <1>2, IntactStep DEF Next
<1>5. pc' # "idle"
  BY <1>1, CallBegins
<1>. QED  BY <1>2, <1>3, <1>4, <1>5 DEF MoveInv, UrlInv

LEMMA CallOnMovedFromStep ==
    ASSUME MoveInv, CallOnMovedFrom
    PROVE  MoveInv'
<1>1. "url" \in stale /\ pc = "idle" /\ Keep /\ AtRest
  BY DEF CallOnMovedFrom, AtRest
<1>2. Apart /\ (\A text \in Input["href"] : text \in Text) /\ <<>> \in Text
  BY <1>1, ApartAtRest, InputAssumption DEF Call, Text
<1>3. PICK text \in Text : Clear \/ (SetHref(text) /\ text \in Input["href"])
  BY <1>2 DEF CallOnMovedFrom
<1>4. MakeCall
  BY <1>1, <1>3 DEF MakeCall
<1>5. CallInv' /\ pc' # "idle"
  BY <1>4, MovesCallNext, CallBegins DEF Next
<1>6. /\ OtherInv' /\ stale' \in SUBSET Owner
      /\ stale' = IF Renewed THEN stale \ {"url"} ELSE stale
  BY <1>1, KeepOther
<1>7. CASE Clear
  <2>1. Called("clear", <<>>) /\ Done("ok", EmptyUrl) /\ UNCHANGED parserVars
    BY <1>7 DEF Clear
  <2>2. CallOK'
    BY <1>2, <2>1, CalledOK DEF Apart
  <2>3. WorkInv'
    BY <1>2, <2>1, <2>2, EmptyUrlRests, DoneStep DEF Apart, Result, HostResult
  <2>4. WorkRecord'
    BY <1>2, <2>1, EmptyUrlIntact, DoneRecord DEF Apart, Intact
  <2>5. Renewed /\ pc' = "done"
    BY <2>1 DEF Renewed, Called, Done
  <2>. QED  BY <1>5, <1>6, <2>3, <2>4, <2>5 DEF MoveInv, UrlInv, Working, FullWork
<1>8. CASE SetHref(text)
  <2>1. Called("href", text) /\ BeginParse(EmptyUrl, TRUE, text, EmptyUrl, FALSE)
    BY <1>8 DEF SetHref
  <2>2. CallOK'
    BY <1>2, <2>1, CalledOK DEF Apart, Call
  <2>3. WorkInv'
    BY <1>2, <2>1, <2>2, EmptyUrlRests, BeginParseStep DEF Apart
  <2>4. WorkRecord'
    BY <2>1, EmptyUrlIntact, BeginParseRecord DEF Intact
  <2>5. pc' # "done" /\ ~override' /\ op' = "href" /\ ~AtRest'
    BY <1>5, <2>1 DEF BeginParse, Enter, Called, AtRest
  <2>. QED
    BY <1>1, <1>5, <1>6, <2>3, <2>4, <2>5 DEF MoveInv, UrlInv, Working, FullWork, Renewed
<1>. QED  BY <1>3, <1>7, <1>8

LEMMA ForgotWhenIdle ==
    ASSUME Step, pc' = "idle"
    PROVE  Resume
<1>1. ~InBlock
  BY DEF InBlock, ParserState
<1>2. ~CanParseReturns
  BY DEF CanParseReturns, BeginParse, Enter
<1>3. ~ParseReturns /\ ~SetterReturns
  BY DEF ParseReturns, SetterReturns, Done
<1>. QED  BY <1>1, <1>2, <1>3, BlocksKeepCall

LEMMA ResumedFromRest ==
    ASSUME Step, AtRest
    PROVE  Resume
<1>1. pc \notin ParserState /\ pc # "return"
  BY DEF AtRest, ParserState
<1>. QED  BY <1>1, BlocksKeepCall DEF InBlock, CanParseReturns, ParseReturns, SetterReturns

LEMMA ResumeApart ==
    ASSUME Apart, Resume
    PROVE  Apart'
<1>1. /\ pc' = "idle" /\ urls' = urls /\ ptr' = <<>> /\ override' = FALSE
      /\ base' = EmptyUrl /\ hasBase' = FALSE /\ res' = "ok" /\ op' = "none"
      /\ arg' = <<>> /\ old' = EmptyUrl /\ can' = "none"
  BY DEF Resume
<1>2. "ok" \in Result /\ <<>> \in Text
  BY DEF Result, HostResult, Text
<1>3. TypeOK'
  BY <1>1, <1>2, EmptyUrlRests DEF Apart, Typed, TypeOK
<1>. QED  BY <1>1, <1>3, EmptyUrlIntact DEF Apart, Typed, Intact, Known

LEMMA GivenBackApart ==
    ASSUME Typed, Known(base), NEW u \in Url, Done(res, u), UNCHANGED parserVars,
           UNCHANGED callVars
    PROVE  Apart'
<1>1. /\ pc' = "done" /\ urls' = NewSerializer(u, TRUE) /\ res' = res
      /\ UNCHANGED <<ptr, override, base, hasBase, op, arg, old, can>>
  BY DEF Done, parserVars, callVars
<1>2. urls' \in Serializer /\ ~urls'.setter /\ urls'.sane
  BY <1>1, NewSerializerType
<1>3. TypeOK'
  BY <1>1, <1>2 DEF Typed, TypeOK
<1>. QED  BY <1>1, <1>2, <1>3 DEF Apart, Typed, Known

\* A step of a call, or its end, on a url that was not moved from.
LEMMA StepOnIntact ==
    ASSUME MoveInv, Step, "url" \notin stale
    PROVE  Working' \/ "url" \in stale'
<1>1. CASE pc # "done"
  BY <1>1, IntactStep DEF Next
<1>2. CASE pc = "done"
  <2>1. FullWork
    BY DEF MoveInv, UrlInv, Working
  <2>2. FullWork'
    BY <1>2, <2>1, WorkNext, RecordNext DEF Next, GivesBackOld, FullWork
  <2>3. Resume
    BY <1>2, ResumedFromRest DEF AtRest
  <2>4. Resting(old)' /\ Known(old)'
    BY <2>3, EmptyUrlIntact DEF Resume, Intact, Known
  <2>. QED  BY <2>2, <2>4 DEF Working
<1>. QED  BY <1>1, <1>2

\* A step of href() on a url that was moved from.
LEMMA StepOnMovedFrom ==
    ASSUME MoveInv, Step, Keep, "url" \in stale, ~AtRest
    PROVE  UrlInv'
<1>1. FullWork /\ op = "href" /\ ~override /\ CallInv
  BY DEF MoveInv, UrlInv, Working, AtRest
<1>2. stale' = IF Renewed THEN stale \ {"url"} ELSE stale
  BY KeepOther
<1>3. CASE InBlock
  <2>1. /\ pc \in ParserState /\ pc' \in ParserState \cup {"return"}
        /\ op' = "href" /\ ~override'
    BY <1>1, <1>3 DEF InBlock, callVars
  <2>2. pc # "return" /\ pc' \notin {"idle", "done"}
    BY <2>1 DEF ParserState
  <2>3. FullWork'
    BY <1>1, <2>2, WorkNext, RecordNext DEF Next, GivesBackOld, FullWork
  <2>. QED  BY <1>2, <2>1, <2>2, <2>3 DEF UrlInv, Working, AtRest, Renewed
<1>4. CASE ParseReturns
  <2>1. /\ pc = "return" /\ urls.save /\ UNCHANGED parserVars /\ UNCHANGED callVars
        /\ Done(res, IF res = "ok" THEN Validated(url) ELSE old) /\ pc' = "done"
    BY <1>1, <1>4 DEF ParseReturns, Done
  <2>2. CASE res = "ok"
    <3>1. FullWork'
      BY <1>1, <2>1, <2>2, <1>4, WorkNext, RecordNext DEF Step, Next, GivesBackOld, FullWork
    <3>2. Renewed
      BY <1>1, <2>1, <2>2 DEF Renewed, Done, callVars
    <3>. QED  BY <1>2, <2>1, <3>1, <3>2 DEF UrlInv, Working
  <2>3. CASE res # "ok"
    <3>1. Typed /\ Known(base) /\ old \in Url
      BY <1>1, WorkTyped, KnownUrls DEF FullWork, Typed, TypeOK
    <3>2. Apart'
      BY <2>1, <2>3, <3>1, GivenBackApart
    <3>3. ~Renewed /\ AtRest'
      BY <2>1, <2>3 DEF Renewed, Done, AtRest
    <3>. QED  BY <1>2, <3>2, <3>3 DEF UrlInv
  <2>. QED  BY <2>2, <2>3
<1>5. ~CanParseReturns /\ ~SetterReturns /\ ~Resume
  BY <1>1 DEF CanParseReturns, SetterReturns, Resume, CallInv, InCall, AtRest
<1>. QED  BY <1>3, <1>4, <1>5, BlocksKeepCall

LEMMA StepsKeepMoves ==
    ASSUME MoveInv, Step, Keep
    PROVE  MoveInv'
<1>1. /\ OtherInv' /\ stale' \in SUBSET Owner
      /\ stale' = IF Renewed THEN stale \ {"url"} ELSE stale
  BY KeepOther
<1>2. CallInv'
  BY MovesCallNext DEF Next
<1>3. (pc = "idle" => old = EmptyUrl)'
  BY ForgotWhenIdle DEF Resume
<1>4. CASE "url" \notin stale
  BY <1>1, <1>2, <1>3, <1>4, StepOnIntact DEF MoveInv, UrlInv
<1>5. CASE "url" \in stale /\ ~AtRest
  BY <1>1, <1>2, <1>3, <1>5, StepOnMovedFrom DEF MoveInv
<1>6. CASE "url" \in stale /\ AtRest
  <2>1. Apart /\ Resume
    BY <1>6, ApartAtRest, ResumedFromRest
  <2>2. Apart' /\ pc' = "idle"
    BY <2>1, ResumeApart DEF Resume
  <2>3. "url" \in stale' /\ AtRest'
    BY <1>1, <1>6, <2>2 DEF Renewed, AtRest
  <2>. QED  BY <1>1, <1>2, <1>3, <2>2, <2>3 DEF MoveInv, UrlInv
<1>. QED  BY <1>4, <1>5, <1>6

-----------------------------------------------------------------------------

LEMMA MovesInit == MoveInit => MoveInv
<1>. SUFFICES ASSUME MoveInit
              PROVE  MoveInv
  OBVIOUS
<1>1. Init /\ other = EmptyUrl /\ stale = {} /\ old = EmptyUrl /\ pc = "idle"
  BY DEF MoveInit, Init
<1>2. FullWork /\ Resting(old) /\ Known(old)
  BY <1>1, FullInit, FullInvFacts
<1>. QED
  BY <1>1, <1>2, CallInit, EmptyUrlIntact
  DEF MoveInv, UrlInv, Working, OtherInv, Intact

LEMMA MovesNext ==
    ASSUME MoveInv, [MoveNext]_allVars
    PROVE  MoveInv'
<1>1. CASE UNCHANGED allVars
  <2>1. UNCHANGED vars /\ UNCHANGED <<other, stale>> /\ UNCHANGED <<pc, old>>
    BY <1>1 DEF allVars, moveVars, vars
  <2>2. CallInv' /\ OtherInv'
    BY <2>1, MovesCallNext DEF MoveInv, OtherInv, Intact, Known
  <2>3. UrlInv'
    BY <2>1
    DEF vars, url, MoveInv, UrlInv, Apart, Working, AtRest, Typed, TypeOK, Known, FullWork,
        WorkInv, WorkShape, WorkRecord, ReturnOK, SettingOK, ParsingOK, SettingRecord,
        ParsingRecord
  <2>. QED  BY <2>1, <2>2, <2>3 DEF MoveInv
<1>2. CASE MoveNext
  BY <1>2, MovesStep, CallOnUrlStep, CallOnMovedFromStep, StepsKeepMoves DEF MoveNext
<1>. QED  BY <1>1, <1>2

LEMMA MovesAreWhole == MoveInv => WholeUnlessMovedFrom
<1>. SUFFICES ASSUME MoveInv, AtRest
              PROVE  /\ "url" \notin stale => Whole(url)
                     /\ "other" \notin stale => Whole(other)
  BY DEF WholeUnlessMovedFrom
<1>1. "url" \notin stale => Intact(url)
  BY UrlIsIntact
<1>2. "other" \notin stale => Intact(other)
  BY DEF MoveInv, OtherInv
<1>. QED  BY <1>1, <1>2, IntactIsWhole

\* Whatever is moved out of a url or into it, swapped, called on it or on what
\* is left of it, in every order: when no call is working on it, a url that
\* was not moved from, or has been given a value since, has its ends in order
\* and a consistent record, and its href is the serialization of its own
\* parts; nothing of the value before the move is left in it.
THEOREM UrlsAreWhole == MoveSpec => []WholeUnlessMovedFrom
BY MovesInit, MovesNext, MovesAreWhole, PTL DEF MoveSpec

-----------------------------------------------------------------------------
(* Urls whose lists are edited.                                            *)

\* The texts that update() writes are texts of the model: its alphabet has a
\* character for each byte and escape of the lists that urls own.
ListsAreTexts ==
    \A o \in Owner : QueryText(F!FormSerialize(params[o].list)) \in Text

LEMMA EditorIsIntact ==
    ASSUME NEW x, Editor(x), Record(x.u)
    PROVE  Intact(x.u)
<1>1. x.u \in Url /\ Complete(x.u)
  BY EditorFacts DEF Editor
<1>. QED  BY <1>1, CompleteRests DEF Intact, Known

\* update() leaves a url intact, with or without a query.
LEMMA UpdatedIsIntact ==
    ASSUME NEW u, Intact(u), IsValid(u), NEW list, QueryText(F!FormSerialize(list)) \in Text
    PROVE  Intact(Updated(u, list))
<1>. DEFINE x == NewSetter(u)
            text == QueryText(F!FormSerialize(list))
            cut == StripOpaquePath(ClearPart(x, QUERY))
            y == WithFlag(PutPart(x, QUERY, text), QUERY)
<1>1. Editor(x) /\ x.u = u /\ Record(x.u)
  BY SetterIsEditor DEF Intact, Known
<1>2. text \in Text
  OBVIOUS
<1>. HIDE DEF x, text
<1>3. ~Appender(x)
  BY <1>1 DEF Editor, Appender
<1>4. Editor(cut) /\ Record(cut.u)
  BY <1>1, RemovedRecord
<1>5. Editor(y)
  BY <1>1, <1>2, <1>3, LastPartPut
<1>6. Record(y.u)
  BY <1>1, <1>2, <1>3, LastPartRecord
<1>7. Intact(cut.u) /\ Intact(y.u)
  BY <1>4, <1>5, <1>6, EditorIsIntact
<1>8. CASE list = <<>>
  BY <1>7, <1>8 DEF Updated, x
<1>9. CASE list # <<>>
  <2>1. y.u = [PutPart(x, QUERY, text).u EXCEPT !.flags = @ \cup {QUERY}]
    <3>. DEFINE z == PutPart(x, QUERY, text)
    <3>1. y = [z EXCEPT !.u.flags = @ \cup {QUERY}] /\ y \in Serializer
      BY <1>5, EditorFacts DEF WithFlag
    <3>2. "u" \in DOMAIN z
      <4>1. DOMAIN y = DOMAIN z
        BY <3>1
      <4>2. "u" \in DOMAIN y
        BY <3>1 DEF Serializer
      <4>. QED  BY <4>1, <4>2
    <3>. HIDE DEF y, z
    <3>3. y.u = [z.u EXCEPT !.flags = @ \cup {QUERY}]
      BY <3>1, <3>2
    <3>. QED  BY <3>3 DEF z
  <2>2. Updated(u, list) = y.u
    BY <1>9, <2>1 DEF Updated, x, text
  <2>. QED  BY <1>7, <2>2
<1>. QED  BY <1>8, <1>9

\* The other url is given a value, or one of the urls is moved from, and no
\* call is in progress.
LEMMA StandStep ==
    ASSUME MoveInv, pc = "idle", UNCHANGED vars, NEW v \in Url, other' = v,
           stale' \in SUBSET Owner,
           "url" \in stale => "url" \in stale', "other" \notin stale' => Intact(v)
    PROVE  MoveInv'
<1>1. UNCHANGED <<urls, pc, parserVars, res, callVars>>
  BY DEF vars, parserVars, callVars
<1>2. Apart /\ AtRest
  BY ApartAtRest DEF AtRest
<1>3. CallInv'
  BY MovesCallNext
<1>4. Apart'
  BY <1>1, <1>2 DEF Apart, Typed, TypeOK, Known, parserVars, callVars
<1>5. UrlInv'
  <2>1. CASE "url" \in stale'
    BY <1>1, <1>2, <1>4, <2>1 DEF UrlInv, AtRest
  <2>2. CASE "url" \notin stale'
    <3>1. Intact(url) /\ UNCHANGED url
      BY <1>1, <1>2, <2>2, UrlIsIntact DEF url
    <3>2. Intact(url)'
      BY <3>1 DEF Intact, Known
    <3>3. FullWork'
      <4>1. Apart' /\ (pc = "idle")' /\ Intact(url)'
        BY <1>1, <1>4, <3>2
      <4>. QED  BY <4>1, ApartIsWork, PTL
    <3>4. Resting(old)' /\ Known(old)'
      <4>1. old' = EmptyUrl
        BY <1>1 DEF callVars, MoveInv
      <4>. QED  BY <4>1, EmptyUrlIntact DEF Intact, Known
    <3>. QED  BY <2>2, <3>3, <3>4 DEF UrlInv, Working
  <2>. QED  BY <2>1, <2>2
<1>6. OtherInv' /\ (pc = "idle" => old = EmptyUrl)'
  BY <1>1 DEF OtherInv, Intact, Known, MoveInv, callVars
<1>. QED  BY <1>3, <1>5, <1>6 DEF MoveInv

LEMMA ObjectFacts ==
    ASSUME MoveInv, pc = "idle", NEW o \in Owner
    PROVE  /\ Obj(o) \in Url /\ MovedFrom(Obj(o)) \in Url
           /\ o \notin stale => Intact(Obj(o))
           /\ stale \in SUBSET Owner /\ AtRest
<1>1. AtRest /\ url \in Url
  BY ApartAtRest DEF AtRest, Apart, Typed, TypeOK, Serializer, url
<1>2. other \in Url /\ ("other" \notin stale => Intact(other)) /\ stale \in SUBSET Owner
  BY DEF MoveInv, OtherInv
<1>3. "url" \notin stale => Intact(url)
  BY <1>1, UrlIsIntact
<1>. QED  BY <1>1, <1>2, <1>3, MovedFromType DEF Obj, Owner

\* One url is given a value.
LEMMA SetObjStep ==
    ASSUME MoveInv, pc = "idle", NEW o \in Owner, NEW u, Intact(u), SetObj(o, u),
           stale' = stale \/ stale' = stale \ {o}
    PROVE  MoveInv'
<1>1. stale' \in SUBSET Owner /\ u \in Url
  BY ObjectFacts DEF Intact
<1>2. CASE o = "url"
  <2>1. Assign(u) /\ other' = other
    BY <1>2 DEF SetObj
  <2>2. other \in Url /\ ("other" \notin stale' => Intact(other))
    BY <1>2 DEF MoveInv, OtherInv
  <2>. QED  BY <1>1, <2>1, <2>2, AssignStep
<1>3. CASE o = "other"
  <2>1. other' = u /\ UNCHANGED vars
    BY <1>3 DEF SetObj
  <2>. QED  BY <1>1, <1>3, <2>1, StandStep
<1>. QED  BY <1>2, <1>3 DEF Owner

\* The list of a url was written, and update() called.
LEMMA UpdateStep ==
    ASSUME MoveInv, ListsAreTexts', pc = "idle", NEW o \in Owner, o \notin stale,
           IsValid(Obj(o)), SetObj(o, Updated(Obj(o), params'[o].list)), UNCHANGED stale
    PROVE  MoveInv'
<1>1. Intact(Obj(o))
  BY ObjectFacts
<1>2. QueryText(F!FormSerialize(params'[o].list)) \in Text
  BY DEF ListsAreTexts
<1>3. Intact(Updated(Obj(o), params'[o].list))
  BY <1>1, <1>2, UpdatedIsIntact
<1>. QED  BY <1>3, SetObjStep

LEMMA NothingMoves ==
    ASSUME MoveInv, UNCHANGED allVars
    PROVE  MoveInv'
BY MovesNext

LEMMA EditedStep ==
    ASSUME MoveInv, LinkInv, ListsAreTexts', pc = "idle", NEW o \in Object, o \notin stale,
           NEW p, LinkedList(p, o), Edited(o, p), UNCHANGED stale
    PROVE  MoveInv'
<1>1. params'[o] = p
  BY DEF Edited, LinkInv
<1>2. CASE p.owner \in Owner /\ IsValid(Obj(p.owner))
  <2>1. o \in Owner /\ p.owner = o
    BY <1>2 DEF LinkedList, Linked, Object, Owner
  <2>2. SetObj(o, Updated(Obj(o), p.list))
    BY <1>2, <2>1 DEF Edited
  <2>. QED  BY <1>1, <1>2, <2>1, <2>2, UpdateStep
<1>3. CASE ~(p.owner \in Owner /\ IsValid(Obj(p.owner)))
  <2>1. UNCHANGED <<vars, other>>
    BY <1>3 DEF Edited
  <2>. QED  BY <2>1, NothingMoves DEF allVars, moveVars
<1>. QED  BY <1>2, <1>3

LEMMA EditParamsMoves ==
    ASSUME MoveInv, LinkInv, ListsAreTexts', EditParams
    PROVE  MoveInv'
<1>1. PICK o \in Object : \E p : MayEdit(o) /\ LinkedList(p, o) /\ Edited(o, p)
  BY EditsOneList
<1>2. PICK p : MayEdit(o) /\ LinkedList(p, o) /\ Edited(o, p)
  BY <1>1
<1>3. pc = "idle" /\ o \notin stale /\ UNCHANGED stale
  BY <1>2 DEF MayEdit, Between, EditParams
<1>. QED  BY <1>2, <1>3, EditedStep

LEMMA AssignParamsMoves ==
    ASSUME MoveInv, LinkInv, ListsAreTexts', AssignParams
    PROVE  MoveInv'
<1>0. "free" \in Object /\ "free" \notin stale /\ \A o \in Owner : o \in Object /\ o # "free"
  BY DEF MoveInv, Owner, Object
<1>1. ASSUME NEW o \in Owner, TakeParams(o)
      PROVE  MoveInv'
  BY <1>1, NothingMoves DEF TakeParams
<1>2. ASSUME NEW o \in Owner, MoveToFree(o)
      PROVE  MoveInv'
  <2>1. pc = "idle" /\ UNCHANGED vars /\ other' = other /\ stale' = stale \cup {o}
    BY <1>2 DEF MoveToFree, Between
  <2>2. /\ other \in Url /\ ("other" \notin stale' => Intact(other))
        /\ stale' \in SUBSET Owner
    BY <2>1 DEF MoveInv, OtherInv
  <2>. QED  BY <2>1, <2>2, StandStep
<1>3. \A l, b : LinkedList(FreeParams(l, b), "free")
  BY NoListLinked DEF LinkedList, FreeParams
<1>4. CASE MakeFree
  <2>1. PICK list \in FreeLists : Edited("free", FreeParams(list, FALSE))
    BY <1>4 DEF MakeFree
  <2>2. pc = "idle" /\ UNCHANGED stale
    BY <1>4 DEF MakeFree, Between
  <2>. QED  BY <1>0, <1>3, <2>1, <2>2, EditedStep
<1>5. ASSUME NEW o \in Owner, CopyToFree(o), UNCHANGED stale
      PROVE  MoveInv'
  <2>1. pc = "idle" /\ Edited("free", FreeParams(params[o].list, params[o].sorted))
    BY <1>5 DEF CopyToFree, MayEdit, Between
  <2>. QED  BY <1>0, <1>3, <1>5, <2>1, EditedStep
<1>6. ASSUME NEW o \in Owner, MayEdit(o)
      PROVE  /\ pc = "idle" /\ o \notin stale /\ o \in Object
             /\ LinkedList([params[o] EXCEPT !.list = params["free"].list,
                                             !.sorted = params["free"].sorted], o)
  <2>1. pc = "idle" /\ o \notin stale /\ o \in Object /\ params[o].made
    BY <1>0, <1>6 DEF MayEdit, Between
  <2>2. Linked(params[o], o)
    BY <2>1, ListsLinked
  <2>. QED  BY <2>1, <2>2, NewListLinked
<1>7. ASSUME NEW o \in Owner, CopyFromFree(o), UNCHANGED stale
      PROVE  MoveInv'
  <2>. DEFINE p == [params[o] EXCEPT !.list = params["free"].list,
                                     !.sorted = params["free"].sorted]
  <2>1. MayEdit(o) /\ Edited(o, p)
    BY <1>7 DEF CopyFromFree
  <2>2. pc = "idle" /\ o \notin stale /\ o \in Object /\ LinkedList(p, o)
    BY <1>6, <2>1
  <2>. HIDE DEF p
  <2>. QED  BY <1>7, <2>1, <2>2, EditedStep
<1>8. ASSUME NEW o \in Owner, SafeAssignFromFree(o), UNCHANGED stale
      PROVE  MoveInv'
  <2>. DEFINE p == [params[o] EXCEPT !.list = params["free"].list,
                                     !.sorted = params["free"].sorted]
              q == [params["free"] EXCEPT !.list = <<>>]
  <2>1. MayEdit(o)
    BY <1>8 DEF SafeAssignFromFree
  <2>2. /\ params' = [params EXCEPT ![o] = p, !["free"] = q]
        /\ IF IsValid(Obj(p.owner)) THEN SetObj(p.owner, Updated(Obj(p.owner), p.list))
           ELSE UNCHANGED <<vars, other>>
    BY <1>0, <1>8 DEF SafeAssignFromFree, LinkInv
  <2>3. pc = "idle" /\ o \notin stale /\ LinkedList(p, o)
    BY <1>6, <2>1
  <2>. HIDE DEF p, q
  <2>4. params'[o] = p /\ p.owner = o
    BY <1>0, <2>2, <2>3 DEF LinkInv, LinkedList, Linked
  <2>5. CASE IsValid(Obj(o))
    <3>1. SetObj(o, Updated(Obj(o), params'[o].list))
      BY <2>2, <2>4, <2>5
    <3>. QED  BY <1>8, <2>3, <2>5, <3>1, UpdateStep
  <2>6. CASE ~IsValid(Obj(o))
    <3>1. UNCHANGED <<vars, other>>
      BY <2>2, <2>4, <2>6
    <3>. QED  BY <1>8, <3>1, NothingMoves DEF allVars, moveVars
  <2>. QED  BY <2>5, <2>6
<1>. QED  BY <1>1, <1>2, <1>4, <1>5, <1>7, <1>8 DEF AssignParams

LEMMA AssignUrlsMoves ==
    ASSUME MoveInv, AssignUrls
    PROVE  MoveInv'
<1>1. \A o \in Owner : Other(o) \in Owner /\ Other(o) # o
  BY DEF Owner, Other
<1>2. ASSUME NEW o \in Owner, CopyUrl(o)
      PROVE  MoveInv'
  <2>1. /\ pc = "idle" /\ Other(o) \notin stale /\ SetObj(o, Obj(Other(o)))
        /\ stale' = stale \ {o}
    BY <1>2 DEF CopyUrl, Between
  <2>2. Intact(Obj(Other(o)))
    BY <1>1, <2>1, ObjectFacts
  <2>. QED  BY <2>1, <2>2, SetObjStep
<1>3. CASE CopyConstruct
  <2>1. /\ pc = "idle" /\ "url" \notin stale /\ SetObj("other", url)
        /\ stale' = stale \ {"other"}
    BY <1>3 DEF CopyConstruct, Between
  <2>2. Intact(url) /\ "other" \in Owner
    BY <2>1, UrlIsIntact DEF AtRest, Owner
  <2>. QED  BY <2>1, <2>2, SetObjStep
<1>4. ASSUME NEW o \in Owner, SafeAssign(o)
      PROVE  MoveInv'
  <2>1. pc = "idle" /\ Other(o) \notin stale /\ stale' = {Other(o)}
    BY <1>4 DEF SafeAssign, Between
  <2>2. /\ Intact(Obj(Other(o))) /\ url \in Url /\ other \in Url
        /\ MovedFrom(url) \in Url /\ MovedFrom(other) \in Url
        /\ stale' \in SUBSET Owner
    <3>1. "url" \in Owner /\ "other" \in Owner /\ Obj("url") = url /\ Obj("other") = other
      BY DEF Owner, Obj
    <3>. QED  BY <1>1, <2>1, <3>1, ObjectFacts
  <2>3. CASE o = "url"
    <3>1. Assign(other) /\ other' = MovedFrom(other)
      BY <1>4, <2>3 DEF SafeAssign
    <3>2. Intact(other) /\ "other" \in stale'
      BY <2>1, <2>2, <2>3 DEF Other, Obj
    <3>. QED  BY <2>1, <2>2, <3>1, <3>2, AssignStep
  <2>4. CASE o = "other"
    <3>1. Assign(MovedFrom(url)) /\ other' = url
      BY <1>4, <2>4 DEF SafeAssign
    <3>2. Intact(url) /\ "url" \in stale'
      BY <2>1, <2>2, <2>4 DEF Other, Obj
    <3>. QED  BY <2>1, <2>2, <3>1, <3>2, AssignStep
  <2>. QED  BY <2>3, <2>4 DEF Owner
<1>. QED  BY <1>2, <1>3, <1>4, MovesStep DEF AssignUrls

LEMMA ParamsMovesNext ==
    ASSUME MoveInv, LinkInv, ListsAreTexts', [ParamsNext]_paramsVars
    PROVE  MoveInv'
<1>1. CASE UNCHANGED paramsVars
  BY <1>1, NothingMoves DEF paramsVars
<1>2. CASE CallUrl
  BY <1>2, CallOnUrlStep, CallOnMovedFromStep, StepsKeepMoves DEF CallUrl
<1>3. CASE EditParams \/ AssignParams \/ AssignUrls
  BY <1>3, EditParamsMoves, AssignParamsMoves, AssignUrlsMoves
<1>. QED  BY <1>1, <1>2, <1>3 DEF ParamsNext

\* The same when urls have parameter lists: each edit of a list writes the
\* query of its url, with the ends behind it and the spaces that an opaque
\* path has lost, so that the url stays whole; and lists and urls are copied,
\* moved and assigned in every order.
THEOREM LinkedUrlsAreWhole == ParamsSpec /\ []ListsAreTexts => []WholeUnlessMovedFrom
<1>1. ParamsInit => MoveInv /\ LinkInv
  BY MovesInit, LinkInit DEF ParamsInit
<1>2. MoveInv /\ LinkInv /\ ListsAreTexts' /\ [ParamsNext]_paramsVars => MoveInv' /\ LinkInv'
  BY ParamsMovesNext, LinkNext
<1>. QED  BY <1>1, <1>2, MovesAreWhole, PTL DEF ParamsSpec

-----------------------------------------------------------------------------
(* Byte strings, and the characters that are read in them.                 *)

Name == Seq(F!Byte)

\* A character that is read is at least one byte, and within the string,
\* however ill formed it is; and it has a code point.
LEMMA ReadIsWithin ==
    ASSUME NEW s \in Name, NEW i \in 1 .. Len(s)
    PROVE  /\ F!ReadUtf8(s, i).next \in i + 1 .. Len(s) + 1
           /\ F!Value(F!ReadUtf8(s, i)) \in Int
<1>. DEFINE lead == s[i]
            n == F!Trails(lead)
            Fits(k) == F!HasByte(s, i + k) /\ F!ValidTrail(lead, k, F!ByteAt(s, i + k))
            Taken(k) == /\ k =< n \/ k = 0
                        /\ \A j \in 1 .. k : Fits(j)
                        /\ k < n => ~Fits(k + 1)
            taken == CHOOSE k \in 0 .. 3 : Taken(k)
            Point(g) == g = [k \in 0 .. 3 |-> IF k = 0 THEN F!LeadValue(lead)
                                ELSE g[k - 1] * 64 + (F!ByteAt(s, i + k) % 64)]
            cp == CHOOSE g : Point(g)
<1>1. /\ F!ReadUtf8(s, i).next = i + taken + 1
      /\ F!ReadUtf8(s, i).ok = (taken = n)
      /\ F!ReadUtf8(s, i).cp = IF taken = n THEN cp[n] ELSE 0
  BY DEF F!ReadUtf8, F!Read
<1>2. lead \in 0 .. 255 /\ Len(s) \in Nat /\ i \in Nat
  <2>1. s[i] \in F!Byte /\ Len(s) \in Nat /\ i \in Nat
    BY DEF Name
  <2>. QED  BY <2>1 DEF F!Byte
<1>a. \A x \in Int : x % 64 \in Int /\ x % 32 \in Int /\ x % 16 \in Int
  OBVIOUS
<1>3. n \in -1 .. 3
  BY <1>2 DEF F!Trails
<1>4. F!LeadValue(lead) \in Int
  <2>. HIDE DEF lead
  <2>0. lead \in Int
    BY <1>2
  <2>1. lead \in Int /\ lead % 32 \in Int /\ lead % 16 \in Int /\ lead - 240 \in Int
    BY <2>0, <1>a
  <2>2. F!LeadValue(lead) \in {lead, lead % 32, lead % 16, lead - 240}
    BY DEF F!LeadValue
  <2>. QED  BY <2>1, <2>2
<1>5. \A k \in Nat : F!ByteAt(s, i + k) \in 0 .. 255
  <2>1. \A j \in 1 .. Len(s) : s[j] \in 0 .. 255
    <3>1. \A j \in 1 .. Len(s) : s[j] \in F!Byte
      BY DEF Name
    <3>. QED  BY <3>1 DEF F!Byte
  <2>. QED  BY <1>2, <2>1 DEF F!ByteAt
<1>6. \A k \in Nat : Fits(k) => i + k =< Len(s)
  BY DEF F!HasByte
<1>. HIDE DEF n, lead, Fits
<1>7. \E k \in 0 .. 3 : Taken(k)
  <2>1. CASE n =< 0 \/ ~Fits(1)
    <3>1. Taken(0)
      BY <1>3, <2>1
    <3>. QED  BY <3>1
  <2>2. CASE n > 0 /\ Fits(1) /\ (n = 1 \/ ~Fits(2))
    <3>1. Taken(1)
      BY <1>3, <2>2
    <3>. QED  BY <3>1
  <2>3. CASE n > 1 /\ Fits(1) /\ Fits(2) /\ (n = 2 \/ ~Fits(3))
    <3>1. Taken(2)
      BY <1>3, <2>3
    <3>. QED  BY <3>1
  <2>4. CASE n > 2 /\ Fits(1) /\ Fits(2) /\ Fits(3)
    <3>1. Taken(3)
      BY <1>3, <2>4
    <3>. QED  BY <3>1
  <2>. QED  BY <1>3, <2>1, <2>2, <2>3, <2>4
<1>8. taken \in 0 .. 3 /\ Taken(taken)
  <2>. HIDE DEF Taken
  <2>. QED  BY <1>7
<1>9. taken = 0 \/ Fits(taken)
  BY <1>8
<1>10. F!ReadUtf8(s, i).next \in i + 1 .. Len(s) + 1
  <2>. HIDE DEF taken
  <2>1. taken \in Nat /\ (taken = 0 \/ i + taken =< Len(s))
    BY <1>6, <1>8, <1>9
  <2>. QED  BY <1>1, <1>2, <1>8, <2>1
<1>11. \E g : Point(g)
  <2>. DEFINE c0 == F!LeadValue(lead)
              c1 == c0 * 64 + (F!ByteAt(s, i + 1) % 64)
              c2 == c1 * 64 + (F!ByteAt(s, i + 2) % 64)
              c3 == c2 * 64 + (F!ByteAt(s, i + 3) % 64)
              g == [k \in 0 .. 3 |-> IF k = 0 THEN c0 ELSE IF k = 1 THEN c1
                                     ELSE IF k = 2 THEN c2 ELSE c3]
  <2>1. g[0] = c0 /\ g[1] = c1 /\ g[2] = c2 /\ g[3] = c3
    OBVIOUS
  <2>2. ASSUME NEW k \in 0 .. 3
        PROVE  g[k] = IF k = 0 THEN F!LeadValue(lead)
                      ELSE g[k - 1] * 64 + (F!ByteAt(s, i + k) % 64)
    <3>. HIDE DEF g
    <3>1. k = 0 \/ k = 1 \/ k = 2 \/ k = 3
      OBVIOUS
    <3>. QED  BY <2>1, <3>1
  <2>3. Point(g)
    BY <2>2
  <2>. HIDE DEF Point
  <2>. QED  BY <2>3
<1>12. Point(cp)
  <2>. HIDE DEF Point
  <2>. QED  BY <1>11
<1>. HIDE DEF cp, taken, Taken
<1>13. \A k \in 0 .. 3 : cp[k] \in Int
  <2>. DEFINE b(k) == F!ByteAt(s, i + k) % 64
  <2>1. b(1) \in Int /\ b(2) \in Int /\ b(3) \in Int
    <3>1. \A k \in Nat : F!ByteAt(s, i + k) \in Int
      <4>1. \A x \in 0 .. 255 : x \in Int
        OBVIOUS
      <4>. QED  BY <1>5, <4>1, Zenon
    <3>2. \A k \in Nat : F!ByteAt(s, i + k) % 64 \in Int
      BY <1>a, <3>1
    <3>. QED  BY <3>2
  <2>2. /\ cp[0] = F!LeadValue(lead)
        /\ cp[1] = cp[0] * 64 + b(1)
        /\ cp[2] = cp[1] * 64 + b(2)
        /\ cp[3] = cp[2] * 64 + b(3)
    BY <1>12
  <2>. HIDE DEF b
  <2>3. cp[0] \in Int
    BY <1>4, <2>2
  <2>4. cp[1] \in Int
    BY <2>1, <2>2, <2>3
  <2>5. cp[2] \in Int
    BY <2>1, <2>2, <2>4
  <2>6. cp[3] \in Int
    BY <2>1, <2>2, <2>5
  <2>7. \A k \in 0 .. 3 : k = 0 \/ k = 1 \/ k = 2 \/ k = 3
    OBVIOUS
  <2>. QED  BY <2>3, <2>4, <2>5, <2>6, <2>7
<1>14. F!ReadUtf8(s, i).ok => n \in 0 .. 3
  BY <1>1, <1>8
<1>15. F!Value(F!ReadUtf8(s, i)) \in Int
  <2>1. F!ReadUtf8(s, i).ok => F!ReadUtf8(s, i).cp \in Int
    BY <1>1, <1>13, <1>14
  <2>. QED  BY <2>1 DEF F!Value, F!Replacement
<1>. QED  BY <1>10, <1>15

-----------------------------------------------------------------------------
(* compare_by_code_units is an order.                                      *)

\* Two characters, of which the first byte is a or b, and the code point x
\* or y.
Difference(a, x, b, y) == IF a < 128 \/ b < 128 THEN a - b ELSE F!UnitDifference(x, y)
Same(a, x, b, y) == IF a < 128 \/ b < 128 THEN a = b ELSE x = y

LEMMA BytesAreInts ==
    ASSUME NEW s \in Name, NEW i \in 1 .. Len(s)
    PROVE  s[i] \in 0 .. 255 /\ s[i] \in Int
<1>1. s[i] \in F!Byte
  BY DEF Name
<1>2. \A b \in F!Byte : b \in 0 .. 255 /\ b \in Int
  BY DEF F!Byte
<1>. QED  BY <1>1, <1>2, Zenon

LEMMA UnitsAreInts ==
    ASSUME NEW x \in Int
    PROVE  F!FirstUnit(x) \in Int /\ x % 1024 \in Int
<1>1. x \div 1024 \in Int /\ x % 1024 \in Int
  OBVIOUS
<1>. DEFINE q == x \div 1024
<1>. HIDE DEF q
<1>2. q + 55232 \in Int
  BY <1>1 DEF q
<1>. QED  BY <1>1, <1>2 DEF F!FirstUnit, q

LEMMA UnitsAreOrdered ==
    ASSUME NEW x \in Int, NEW y \in Int, NEW z \in Int
    PROVE  /\ F!UnitDifference(x, y) < 0 /\ F!UnitDifference(y, z) < 0 =>
                  F!UnitDifference(x, z) < 0
           /\ F!UnitDifference(x, x) = 0
<1>. DEFINE f1 == F!FirstUnit(x)
            f2 == F!FirstUnit(y)
            f3 == F!FirstUnit(z)
            m1 == x % 1024
            m2 == y % 1024
            m3 == z % 1024
<1>1. f1 \in Int /\ f2 \in Int /\ f3 \in Int /\ m1 \in Int /\ m2 \in Int /\ m3 \in Int
  BY UnitsAreInts
<1>2. /\ F!UnitDifference(x, y) = IF f1 = f2 THEN m1 - m2 ELSE f1 - f2
      /\ F!UnitDifference(y, z) = IF f2 = f3 THEN m2 - m3 ELSE f2 - f3
      /\ F!UnitDifference(x, z) = IF f1 = f3 THEN m1 - m3 ELSE f1 - f3
      /\ F!UnitDifference(x, x) = m1 - m1
  BY DEF F!UnitDifference
<1>. HIDE DEF f1, f2, f3, m1, m2, m3
<1>. QED  BY <1>1, <1>2

LEMMA CharactersAreOrdered ==
    ASSUME NEW a \in Int, NEW b \in Int, NEW c \in Int,
           NEW x \in Int, NEW y \in Int, NEW z \in Int
    PROVE  /\ Difference(a, x, b, y) < 0 /\ Difference(b, y, c, z) < 0 =>
                  Difference(a, x, c, z) < 0
           /\ Difference(a, x, b, y) < 0 /\ Same(b, y, c, z) => Difference(a, x, c, z) < 0
           /\ Same(a, x, b, y) /\ Difference(b, y, c, z) < 0 => Difference(a, x, c, z) < 0
           /\ Same(a, x, b, y) /\ Same(b, y, c, z) =>
                  /\ Same(a, x, c, z)
                  /\ (a < 128 \/ b < 128) = (a < 128 \/ c < 128)
                  /\ (b < 128 \/ c < 128) = (a < 128 \/ c < 128)
           /\ Difference(a, x, b, y) < 0 => ~Same(a, x, b, y)
           /\ Same(a, x, a, x)
<1>1. /\ F!UnitDifference(x, y) < 0 /\ F!UnitDifference(y, z) < 0 => F!UnitDifference(x, z) < 0
      /\ F!UnitDifference(x, x) = 0
  BY UnitsAreOrdered
<1>. DEFINE xy == F!UnitDifference(x, y)
            yz == F!UnitDifference(y, z)
            xz == F!UnitDifference(x, z)
<1>2. /\ Difference(a, x, b, y) = IF a < 128 \/ b < 128 THEN a - b ELSE xy
      /\ Difference(b, y, c, z) = IF b < 128 \/ c < 128 THEN b - c ELSE yz
      /\ Difference(a, x, c, z) = IF a < 128 \/ c < 128 THEN a - c ELSE xz
  BY DEF Difference
<1>3. xy < 0 /\ yz < 0 => xz < 0
  BY <1>1
<1>4. /\ x = y => xy = 0 /\ xz = yz
      /\ y = z => xy = xz
  BY <1>1
<1>. HIDE DEF xy, yz, xz
<1>5. Difference(a, x, b, y) < 0 /\ Difference(b, y, c, z) < 0 => Difference(a, x, c, z) < 0
  BY <1>2, <1>3
<1>6. Difference(a, x, b, y) < 0 /\ Same(b, y, c, z) => Difference(a, x, c, z) < 0
  BY <1>2, <1>4 DEF Same
<1>7. Same(a, x, b, y) /\ Difference(b, y, c, z) < 0 => Difference(a, x, c, z) < 0
  BY <1>2, <1>4 DEF Same
<1>8. Same(a, x, b, y) /\ Same(b, y, c, z) =>
                  /\ Same(a, x, c, z)
                  /\ (a < 128 \/ b < 128) = (a < 128 \/ c < 128)
                  /\ (b < 128 \/ c < 128) = (a < 128 \/ c < 128)
  BY DEF Same
<1>9. Difference(a, x, b, y) < 0 => ~Same(a, x, b, y)
  BY <1>2, <1>4 DEF Same
<1>10. Same(a, x, a, x)
  BY DEF Same
<1>. QED  BY <1>5, <1>6, <1>7, <1>8, <1>9, <1>10

ValueAt(s, i) == F!Value(F!ReadUtf8(s, i))
SameCharAt(s, i, t, j) == Same(s[i], ValueAt(s, i), t[j], ValueAt(t, j))
DifferenceAt(s, i, t, j) == Difference(s[i], ValueAt(s, i), t[j], ValueAt(t, j))

\* Where s goes on after its character at i, when t is at j.
NextAt(s, i, t, j) == IF s[i] < 128 \/ t[j] < 128 THEN i + 1 ELSE F!ReadUtf8(s, i).next

\* The result from i and j on, given those from later positions.
CompareFrom(g, s, i, t, j) ==
    CASE i > Len(s) /\ j > Len(t) -> 0
      [] i =< Len(s) /\ j > Len(t) -> 1
      [] i > Len(s) /\ j =< Len(t) -> -1
      [] OTHER -> IF SameCharAt(s, i, t, j) THEN g[NextAt(s, i, t, j)][NextAt(t, j, s, i)]
                  ELSE DifferenceAt(s, i, t, j)

Comparison(g, s, t) ==
    g = [i \in 1 .. Len(s) + 1 |-> [j \in 1 .. Len(t) + 1 |-> CompareFrom(g, s, i, t, j)]]

LEMMA NextIsLater ==
    ASSUME NEW s \in Name, NEW t \in Name, NEW i \in 1 .. Len(s), NEW j \in 1 .. Len(t)
    PROVE  /\ NextAt(s, i, t, j) \in i + 1 .. Len(s) + 1
           /\ NextAt(t, j, s, i) \in j + 1 .. Len(t) + 1
<1>1. /\ F!ReadUtf8(s, i).next \in i + 1 .. Len(s) + 1
      /\ F!ReadUtf8(t, j).next \in j + 1 .. Len(t) + 1
  BY ReadIsWithin
<1>2. Len(s) \in Nat /\ Len(t) \in Nat
  BY DEF Name
<1>3. i + 1 \in i + 1 .. Len(s) + 1 /\ j + 1 \in j + 1 .. Len(t) + 1
  BY <1>2
<1>. QED  BY <1>1, <1>3 DEF NextAt

LEMMA ComparisonExists ==
    ASSUME NEW s \in Name, NEW t \in Name
    PROVE  \E g : Comparison(g, s, t)
<1>. DEFINE n == Len(s) + 1
            Row(g, i) == [j \in 1 .. Len(t) + 1 |-> CompareFrom(g, s, i, t, j)]
            FromOn(g, m) == g = [i \in m .. n |-> Row(g, i)]
            found == {m \in 1 .. n + 1 : \E g : FromOn(g, m)}
<1>0. Len(s) \in Nat /\ Len(t) \in Nat /\ n \in Nat
  BY DEF Name
<1>1. ASSUME NEW m \in 1 .. n + 1, \A j \in m + 1 .. n + 1 : j \in found
      PROVE  m \in found
  <2>1. CASE m = n + 1
    <3>. DEFINE none == [i \in m .. n |-> 0]
    <3>. HIDE DEF n
    <3>1. m .. n = {}
      BY <1>0, <2>1
    <3>2. FromOn(none, m)
      BY <3>1
    <3>. HIDE DEF FromOn
    <3>. QED  BY <3>2
  <2>2. CASE m # n + 1
    <3>. HIDE DEF n
    <3>1. m + 1 \in m + 1 .. n + 1 /\ m \in 1 .. n
      BY <1>0, <2>2
    <3>2. PICK g : FromOn(g, m + 1)
      BY <1>1, <3>1
    <3>. DEFINE h == [i \in m .. n |-> IF i = m THEN Row(g, m) ELSE g[i]]
    <3>3. \A k \in m + 1 .. n : h[k] = g[k]
      BY <3>1
    <3>4. ASSUME NEW i \in m .. n, NEW j \in 1 .. Len(t) + 1
          PROVE  CompareFrom(h, s, i, t, j) = CompareFrom(g, s, i, t, j)
      <4>1. CASE i =< Len(s) /\ j =< Len(t)
        <5>1. i \in 1 .. Len(s) /\ j \in 1 .. Len(t)
          BY <1>0, <3>1, <4>1
        <5>2. NextAt(s, i, t, j) \in i + 1 .. n
          BY <5>1, NextIsLater DEF n
        <5>3. NextAt(s, i, t, j) \in m + 1 .. n
          BY <1>0, <3>1, <5>1, <5>2
        <5>4. h[NextAt(s, i, t, j)] = g[NextAt(s, i, t, j)]
          BY <3>3, <5>3
        <5>. HIDE DEF h
        <5>. QED  BY <5>4 DEF CompareFrom
      <4>2. CASE ~(i =< Len(s) /\ j =< Len(t))
        <5>. HIDE DEF h
        <5>1. i \in Int /\ j \in Int
          BY <1>0
        <5>. QED  BY <1>0, <4>2, <5>1 DEF CompareFrom
      <4>. QED  BY <4>1, <4>2
    <3>5. \A i \in m .. n : Row(h, i) = Row(g, i)
      <4>. HIDE DEF h
      <4>. QED  BY <3>4
    <3>6. \A i \in m + 1 .. n : g[i] = Row(g, i)
      <4>. HIDE DEF Row
      <4>. QED  BY <3>2
    <3>7. \A i \in m .. n : h[i] = Row(h, i)
      <4>1. \A i \in m .. n : i = m \/ i \in m + 1 .. n
        BY <1>0, <3>1
      <4>2. \A i \in m .. n : h[i] = Row(g, i)
        <5>. HIDE DEF Row
        <5>. QED  BY <3>6, <4>1
      <4>. HIDE DEF h, Row
      <4>. QED  BY <3>5, <4>2
    <3>8. FromOn(h, m)
      <4>. HIDE DEF Row
      <4>. QED  BY <3>7
    <3>. HIDE DEF FromOn
    <3>. QED  BY <3>8
  <2>. QED  BY <2>1, <2>2
<1>2. 1 \in found
  <2>1. n + 1 \in Nat /\ 1 \in 1 .. n + 1
    BY <1>0
  <2>. HIDE DEF found, n
  <2>. QED  BY <1>1, <2>1, FromTheEnd
<1>. QED  BY <1>2 DEF Comparison

\* What compare_by_code_units returns, by the function that it is read from.
LEMMA CompareIsComparison ==
    ASSUME NEW s \in Name, NEW t \in Name
    PROVE  \E g : /\ F!CompareByCodeUnits(s, t) = g[1][1]
                  /\ \A i \in 1 .. Len(s) + 1, j \in 1 .. Len(t) + 1 :
                        g[i][j] = CompareFrom(g, s, i, t, j)
<1>. DEFINE Cell(g, i, j) ==
              CASE i > Len(s) /\ j > Len(t) -> 0
                [] i =< Len(s) /\ j > Len(t) -> 1
                [] i > Len(s) /\ j =< Len(t) -> -1
                [] OTHER ->
                     IF s[i] < 128 \/ t[j] < 128
                     THEN IF s[i] = t[j] THEN g[i + 1][j + 1] ELSE s[i] - t[j]
                     ELSE IF ValueAt(s, i) = ValueAt(t, j)
                          THEN g[F!ReadUtf8(s, i).next][F!ReadUtf8(t, j).next]
                          ELSE F!UnitDifference(ValueAt(s, i), ValueAt(t, j))
            Function(g) ==
              g = [i \in 1 .. Len(s) + 1 |-> [j \in 1 .. Len(t) + 1 |-> Cell(g, i, j)]]
            compare == CHOOSE g : Function(g)
<1>1. F!CompareByCodeUnits(s, t) = compare[1][1]
  BY DEF F!CompareByCodeUnits, ValueAt
<1>2. ASSUME NEW g, NEW i \in 1 .. Len(s) + 1, NEW j \in 1 .. Len(t) + 1
      PROVE  Cell(g, i, j) = CompareFrom(g, s, i, t, j)
  <2>0. i \in Int /\ j \in Int /\ Len(s) \in Int /\ Len(t) \in Int
    BY DEF Name
  <2>1. CASE i > Len(s) \/ j > Len(t)
    BY <2>0, <2>1 DEF CompareFrom
  <2>2. CASE ~(i > Len(s)) /\ ~(j > Len(t))
    <3>1. CASE s[i] < 128 \/ t[j] < 128
      BY <2>0, <2>2, <3>1 DEF CompareFrom, SameCharAt, Same, NextAt, DifferenceAt, Difference
    <3>2. CASE ~(s[i] < 128 \/ t[j] < 128)
      BY <2>0, <2>2, <3>2 DEF CompareFrom, SameCharAt, Same, NextAt, DifferenceAt, Difference
    <3>. QED  BY <3>1, <3>2
  <2>. QED  BY <2>1, <2>2
<1>3. \E g : Function(g)
  <2>1. PICK g : Comparison(g, s, t)
    BY ComparisonExists
  <2>. HIDE DEF Cell
  <2>2. Function(g)
    <3>. DEFINE Mine(i) == [j \in 1 .. Len(t) + 1 |-> Cell(g, i, j)]
                Yours(i) == [j \in 1 .. Len(t) + 1 |-> CompareFrom(g, s, i, t, j)]
    <3>1. \A i \in 1 .. Len(s) + 1 : Mine(i) = Yours(i)
      BY <1>2
    <3>2. g = [i \in 1 .. Len(s) + 1 |-> Yours(i)]
      BY <2>1 DEF Comparison
    <3>3. g = [i \in 1 .. Len(s) + 1 |-> Mine(i)]
      <4>. HIDE DEF Mine, Yours
      <4>. QED  BY <3>1, <3>2
    <3>. QED  BY <3>3
  <2>. HIDE DEF Function
  <2>. QED  BY <2>2
<1>4. Function(compare)
  <2>. HIDE DEF Function
  <2>. QED  BY <1>3
<1>. HIDE DEF compare, Cell
<1>5. \A i \in 1 .. Len(s) + 1, j \in 1 .. Len(t) + 1 : compare[i][j] = Cell(compare, i, j)
  <2>1. \A i \in 1 .. Len(s) + 1 :
            compare[i] = [j \in 1 .. Len(t) + 1 |-> Cell(compare, i, j)]
    BY <1>4
  <2>. QED  BY <2>1, Zenon
<1>. QED  BY <1>1, <1>2, <1>5

\* The order of names: compare_by_code_units of ill-formed strings, too, is
\* never less of a string and itself, and it is transitive.
LEMMA LessIsTransitive ==
    ASSUME NEW s \in Name, NEW t \in Name, NEW u \in Name, Less(s, t), Less(t, u)
    PROVE  Less(s, u)
<1>1. PICK st : /\ F!CompareByCodeUnits(s, t) = st[1][1]
                /\ \A i \in 1 .. Len(s) + 1, j \in 1 .. Len(t) + 1 :
                      st[i][j] = CompareFrom(st, s, i, t, j)
  BY CompareIsComparison
<1>2. PICK tu : /\ F!CompareByCodeUnits(t, u) = tu[1][1]
                /\ \A i \in 1 .. Len(t) + 1, j \in 1 .. Len(u) + 1 :
                      tu[i][j] = CompareFrom(tu, t, i, u, j)
  BY CompareIsComparison
<1>3. PICK su : /\ F!CompareByCodeUnits(s, u) = su[1][1]
                /\ \A i \in 1 .. Len(s) + 1, j \in 1 .. Len(u) + 1 :
                      su[i][j] = CompareFrom(su, s, i, u, j)
  BY CompareIsComparison
<1>4. Len(s) \in Nat /\ Len(t) \in Nat /\ Len(u) \in Nat
  BY DEF Name
<1>. DEFINE n == Len(s) + 1
            T == {i \in 1 .. n : \A j \in 1 .. Len(t) + 1, k \in 1 .. Len(u) + 1 :
                                    st[i][j] < 0 /\ tu[j][k] < 0 => su[i][k] < 0}
<1>5. ASSUME NEW i \in 1 .. n, \A h \in i + 1 .. n : h \in T
      PROVE  i \in T
  <2>1. SUFFICES ASSUME NEW j \in 1 .. Len(t) + 1, NEW k \in 1 .. Len(u) + 1,
                        st[i][j] < 0, tu[j][k] < 0
                 PROVE  su[i][k] < 0
    OBVIOUS
  <2>2. /\ st[i][j] = CompareFrom(st, s, i, t, j)
        /\ tu[j][k] = CompareFrom(tu, t, j, u, k)
        /\ su[i][k] = CompareFrom(su, s, i, u, k)
    BY <1>1, <1>2, <1>3
  <2>3. i \in Int /\ j \in Int /\ k \in Int
    BY <1>4
  <2>4. j =< Len(t)
    BY <1>4, <2>1, <2>2, <2>3 DEF CompareFrom
  <2>5. k =< Len(u)
    BY <1>4, <2>1, <2>2, <2>3, <2>4 DEF CompareFrom
  <2>6. CASE i > Len(s)
    BY <1>4, <2>2, <2>3, <2>5, <2>6 DEF CompareFrom
  <2>7. CASE i =< Len(s)
    <3>1. i \in 1 .. Len(s) /\ j \in 1 .. Len(t) /\ k \in 1 .. Len(u)
      BY <1>4, <2>3, <2>4, <2>5, <2>7
    <3>2. /\ st[i][j] = IF SameCharAt(s, i, t, j) THEN st[NextAt(s, i, t, j)][NextAt(t, j, s, i)]
                        ELSE DifferenceAt(s, i, t, j)
          /\ tu[j][k] = IF SameCharAt(t, j, u, k) THEN tu[NextAt(t, j, u, k)][NextAt(u, k, t, j)]
                        ELSE DifferenceAt(t, j, u, k)
          /\ su[i][k] = IF SameCharAt(s, i, u, k) THEN su[NextAt(s, i, u, k)][NextAt(u, k, s, i)]
                        ELSE DifferenceAt(s, i, u, k)
      BY <1>4, <2>2, <2>3, <2>4, <2>5, <2>7 DEF CompareFrom
    <3>3. /\ s[i] \in Int /\ t[j] \in Int /\ u[k] \in Int
          /\ ValueAt(s, i) \in Int /\ ValueAt(t, j) \in Int /\ ValueAt(u, k) \in Int
      BY <3>1, BytesAreInts, ReadIsWithin DEF ValueAt
    <3>4. /\ DifferenceAt(s, i, t, j) < 0 /\ DifferenceAt(t, j, u, k) < 0 => DifferenceAt(s, i, u, k) < 0
          /\ DifferenceAt(s, i, t, j) < 0 /\ SameCharAt(t, j, u, k) => DifferenceAt(s, i, u, k) < 0
          /\ SameCharAt(s, i, t, j) /\ DifferenceAt(t, j, u, k) < 0 => DifferenceAt(s, i, u, k) < 0
      <4>. DEFINE a == s[i]
                  b == t[j]
                  c == u[k]
                  x == ValueAt(s, i)
                  y == ValueAt(t, j)
                  z == ValueAt(u, k)
      <4>1. /\ a \in Int /\ b \in Int /\ c \in Int
            /\ x \in Int /\ y \in Int /\ z \in Int
        BY <3>3
      <4>. HIDE DEF a, b, c, x, y, z
      <4>2. /\ Difference(a, x, b, y) < 0 /\ Difference(b, y, c, z) < 0 => Difference(a, x, c, z) < 0
            /\ Difference(a, x, b, y) < 0 /\ Same(b, y, c, z) => Difference(a, x, c, z) < 0
            /\ Same(a, x, b, y) /\ Difference(b, y, c, z) < 0 => Difference(a, x, c, z) < 0
        BY <4>1, CharactersAreOrdered
      <4>. QED  BY <4>2 DEF SameCharAt, DifferenceAt, a, b, c, x, y, z
    <3>a. DifferenceAt(s, i, u, k) < 0 => ~SameCharAt(s, i, u, k)
      BY <3>3, CharactersAreOrdered DEF SameCharAt, DifferenceAt
    <3>5. CASE ~(SameCharAt(s, i, t, j) /\ SameCharAt(t, j, u, k))
      BY <2>1, <3>2, <3>4, <3>5, <3>a
    <3>6. CASE SameCharAt(s, i, t, j) /\ SameCharAt(t, j, u, k)
      <4>1. /\ SameCharAt(s, i, u, k)
            /\ (s[i] < 128 \/ t[j] < 128) = (s[i] < 128 \/ u[k] < 128)
            /\ (t[j] < 128 \/ u[k] < 128) = (s[i] < 128 \/ u[k] < 128)
        BY <3>3, <3>6, CharactersAreOrdered DEF SameCharAt
      <4>2. /\ NextAt(s, i, t, j) = NextAt(s, i, u, k)
            /\ NextAt(t, j, s, i) = NextAt(t, j, u, k)
            /\ NextAt(u, k, t, j) = NextAt(u, k, s, i)
        BY <4>1 DEF NextAt
      <4>3. /\ NextAt(s, i, t, j) \in i + 1 .. n
            /\ NextAt(t, j, s, i) \in j + 1 .. Len(t) + 1
            /\ NextAt(u, k, t, j) \in k + 1 .. Len(u) + 1
        BY <3>1, NextIsLater
      <4>. DEFINE i2 == NextAt(s, i, t, j)
                  j2 == NextAt(t, j, s, i)
                  k2 == NextAt(u, k, t, j)
      <4>4. i2 \in T /\ j2 \in 1 .. Len(t) + 1 /\ k2 \in 1 .. Len(u) + 1
        <5>. HIDE DEF T, n, i2, j2, k2
        <5>1. i2 \in i + 1 .. n /\ j2 \in j + 1 .. Len(t) + 1 /\ k2 \in k + 1 .. Len(u) + 1
          BY <4>3 DEF i2, j2, k2
        <5>. QED  BY <1>4, <1>5, <3>1, <5>1
      <4>5. st[i][j] = st[i2][j2] /\ tu[j][k] = tu[j2][k2] /\ su[i][k] = su[i2][k2]
        BY <3>2, <3>6, <4>1, <4>2
      <4>. HIDE DEF i2, j2, k2
      <4>. QED  BY <2>1, <4>4, <4>5
    <3>. QED  BY <3>5, <3>6
  <2>. QED  BY <1>4, <2>3, <2>6, <2>7
<1>6. 1 \in T
  <2>1. n \in Nat /\ 1 \in 1 .. n
    BY <1>4
  <2>. HIDE DEF T, n
  <2>. QED  BY <1>5, <2>1, FromTheEnd
<1>7. 1 \in 1 .. Len(t) + 1 /\ 1 \in 1 .. Len(u) + 1
  BY <1>4
<1>8. st[1][1] < 0 /\ tu[1][1] < 0
  BY <1>1, <1>2 DEF Less
<1>9. su[1][1] < 0
  BY <1>6, <1>7, <1>8
<1>. QED  BY <1>3, <1>9 DEF Less

LEMMA LessIsIrreflexive ==
    ASSUME NEW s \in Name
    PROVE  ~Less(s, s)
<1>1. PICK g : /\ F!CompareByCodeUnits(s, s) = g[1][1]
               /\ \A i \in 1 .. Len(s) + 1, j \in 1 .. Len(s) + 1 :
                     g[i][j] = CompareFrom(g, s, i, s, j)
  BY CompareIsComparison
<1>2. Len(s) \in Nat
  BY DEF Name
<1>. DEFINE n == Len(s) + 1
            T == {i \in 1 .. n : g[i][i] = 0}
<1>3. ASSUME NEW i \in 1 .. n, \A h \in i + 1 .. n : h \in T
      PROVE  i \in T
  <2>1. g[i][i] = CompareFrom(g, s, i, s, i) /\ i \in Int
    BY <1>1, <1>2
  <2>2. CASE i > Len(s)
    BY <2>1, <2>2 DEF CompareFrom
  <2>3. CASE ~(i > Len(s))
    <3>1. i \in 1 .. Len(s)
      BY <1>2, <2>3
    <3>2. s[i] \in Int /\ ValueAt(s, i) \in Int
      BY <3>1, BytesAreInts, ReadIsWithin DEF ValueAt
    <3>3. SameCharAt(s, i, s, i)
      BY <3>2, CharactersAreOrdered DEF SameCharAt
    <3>4. g[i][i] = g[NextAt(s, i, s, i)][NextAt(s, i, s, i)]
      BY <1>2, <2>1, <2>3, <3>3 DEF CompareFrom
    <3>5. NextAt(s, i, s, i) \in i + 1 .. n
      BY <3>1, NextIsLater
    <3>6. NextAt(s, i, s, i) \in T
      <4>. HIDE DEF T
      <4>. QED  BY <1>3, <3>5
    <3>. QED  BY <3>4, <3>6
  <2>. QED  BY <2>2, <2>3
<1>4. 1 \in T
  <2>1. n \in Nat /\ 1 \in 1 .. n
    BY <1>2
  <2>. HIDE DEF T, n
  <2>. QED  BY <1>3, <2>1, FromTheEnd
<1>. QED  BY <1>1, <1>4 DEF Less

-----------------------------------------------------------------------------
(* Lists in the order of their names.                                      *)

NamedPair == Name \X Name
List == Seq(NamedPair)

NamesInOrder(list) ==
    \A i, j \in 1 .. Len(list) : i < j => ~Less(list[j][1], list[i][1])

LEMMA NamesOfList ==
    ASSUME NEW list \in List
    PROVE  /\ Len(list) \in Nat
           /\ \A i \in 1 .. Len(list) : list[i] \in NamedPair /\ list[i][1] \in Name
<1>1. Len(list) \in Nat /\ \A i \in 1 .. Len(list) : list[i] \in NamedPair
  BY DEF List
<1>2. \A p \in NamedPair : p[1] \in Name
  BY DEF NamedPair
<1>. QED  BY <1>1, <1>2

LEMMA EmptyList == <<>> \in List /\ NamesInOrder(<<>>)
<1>1. <<>> \in List /\ Len(<<>>) = 0
  BY DEF List
<1>2. 1 .. 0 = {}
  OBVIOUS
<1>. QED  BY <1>1, <1>2 DEF NamesInOrder

LEMMA SplitList ==
    ASSUME NEW l \in List, NEW at \in 1 .. Len(l) + 1
    PROVE  /\ SubSeq(l, 1, at - 1) \in List /\ SubSeq(l, at, Len(l)) \in List
           /\ Len(SubSeq(l, 1, at - 1)) = at - 1
           /\ Len(SubSeq(l, at, Len(l))) = Len(l) + 1 - at
           /\ \A k \in 1 .. at - 1 : SubSeq(l, 1, at - 1)[k] = l[k]
           /\ \A k \in 1 .. Len(l) + 1 - at : SubSeq(l, at, Len(l))[k] = l[at + k - 1]
<1>1. Len(l) \in Nat
  BY NamesOfList
<1>2. \A k \in 1 .. Len(l) : l[k] \in NamedPair
  BY NamesOfList
<1>3. /\ SubSeq(l, 1, at - 1) \in Seq(NamedPair)
      /\ Len(SubSeq(l, 1, at - 1)) = IF 1 =< at - 1 THEN at - 1 - 1 + 1 ELSE 0
      /\ \A k \in 1 .. at - 1 - 1 + 1 : SubSeq(l, 1, at - 1)[k] = l[1 + k - 1]
  <2>1. \A k \in 1 .. at - 1 : l[k] \in NamedPair
    BY <1>1, <1>2
  <2>2. 1 \in Int /\ at - 1 \in Int
    BY <1>1
  <2>. QED  BY <2>1, <2>2, SubSeqProperties DEF List
<1>4. /\ SubSeq(l, at, Len(l)) \in Seq(NamedPair)
      /\ Len(SubSeq(l, at, Len(l))) = IF at =< Len(l) THEN Len(l) - at + 1 ELSE 0
      /\ \A k \in 1 .. Len(l) - at + 1 : SubSeq(l, at, Len(l))[k] = l[at + k - 1]
  <2>1. \A k \in at .. Len(l) : l[k] \in NamedPair
    BY <1>1, <1>2
  <2>2. at \in Int /\ Len(l) \in Int
    BY <1>1
  <2>. QED  BY <2>1, <2>2, SubSeqProperties DEF List
<1>. DEFINE n == Len(l)
            before == SubSeq(l, 1, at - 1)
            after == SubSeq(l, at, Len(l))
<1>5. n \in Nat /\ at \in 1 .. n + 1
  BY <1>1
<1>6. /\ before \in List /\ after \in List
      /\ Len(before) = IF 1 =< at - 1 THEN at - 1 - 1 + 1 ELSE 0
      /\ \A k \in 1 .. at - 1 - 1 + 1 : before[k] = l[1 + k - 1]
      /\ Len(after) = IF at =< n THEN n - at + 1 ELSE 0
      /\ \A k \in 1 .. n - at + 1 : after[k] = l[at + k - 1]
  BY <1>3, <1>4 DEF List
<1>. HIDE DEF n, before, after
<1>7. /\ Len(before) = at - 1
      /\ Len(after) = n + 1 - at
      /\ \A k \in 1 .. at - 1 : before[k] = l[k]
      /\ \A k \in 1 .. n + 1 - at : after[k] = l[at + k - 1]
  BY <1>5, <1>6
<1>. QED  BY <1>6, <1>7 DEF n, before, after

\* A pair that is put before the first one of a greater name is in order.
LEMMA InsertedInOrder ==
    ASSUME NEW l \in List, NamesInOrder(l), NEW pair \in NamedPair
    PROVE  Inserted(l, pair) \in List /\ NamesInOrder(Inserted(l, pair))
<1>. DEFINE n == Len(l)
            greater == {i \in 1 .. n : Less(pair[1], l[i][1])}
            least == CHOOSE i \in greater : \A j \in greater : i =< j
            at == IF greater = {} THEN n + 1 ELSE least
            before == SubSeq(l, 1, at - 1)
            after == SubSeq(l, at, n)
            m == before \o <<pair>> \o after
<1>1. Inserted(l, pair) = m
  BY DEF Inserted
<1>2. n \in Nat /\ pair[1] \in Name /\ \A i \in 1 .. n : l[i] \in NamedPair /\ l[i][1] \in Name
  BY NamesOfList DEF NamedPair
<1>3. /\ at \in 1 .. n + 1
      /\ \A i \in 1 .. n : i < at => ~Less(pair[1], l[i][1])
      /\ at =< n => Less(pair[1], l[at][1])
  <2>. HIDE DEF n
  <2>1. CASE greater = {}
    BY <1>2, <2>1
  <2>2. CASE greater # {}
    <3>1. least \in greater /\ \A j \in greater : least =< j
      <4>1. greater \subseteq Nat
        BY <1>2
      <4>2. \E i \in greater : \A j \in greater : i =< j
        <5>. HIDE DEF greater
        <5>. QED  BY <2>2, <4>1, Smallest
      <4>. HIDE DEF greater
      <4>. QED  BY <4>2
    <3>2. at = least
      BY <2>2
    <3>. HIDE DEF least, at
    <3>3. least \in 1 .. n /\ Less(pair[1], l[least][1])
      BY <3>1
    <3>4. \A i \in 1 .. n : i < least => ~Less(pair[1], l[i][1])
      BY <1>2, <3>1, <3>3
    <3>. QED  BY <1>2, <3>2, <3>3, <3>4
  <2>. QED  BY <2>1, <2>2
<1>. HIDE DEF at, greater, least
<1>4. /\ before \in List /\ after \in List
      /\ Len(before) = at - 1 /\ Len(after) = n + 1 - at
      /\ \A k \in 1 .. at - 1 : before[k] = l[k]
      /\ \A k \in 1 .. n + 1 - at : after[k] = l[at + k - 1]
  BY <1>3, SplitList
<1>. HIDE DEF before, after
<1>5. /\ m \in List /\ Len(m) = n + 1
      /\ \A k \in 1 .. n + 1 : m[k] = IF k < at THEN before[k] ELSE IF k = at THEN pair
                                      ELSE after[k - at]
  <2>. DEFINE head == before \o <<pair>>
  <2>1. <<pair>> \in List /\ Len(<<pair>>) = 1 /\ <<pair>>[1] = pair
    BY DEF List
  <2>2. head \in List /\ Len(head) = at
        /\ \A k \in 1 .. at : head[k] = IF k < at THEN before[k] ELSE pair
    <3>. HIDE DEF n
    <3>. QED  BY <1>2, <1>3, <1>4, <2>1 DEF List
  <2>. HIDE DEF head
  <2>3. m = head \o after
    BY DEF head
  <2>4. /\ head \o after \in List /\ Len(head \o after) = at + (n + 1 - at)
        /\ \A k \in 1 .. at + (n + 1 - at) :
              (head \o after)[k] = IF k =< at THEN head[k] ELSE after[k - at]
    <3>. HIDE DEF n
    <3>1. head \in Seq(NamedPair) /\ after \in Seq(NamedPair)
      BY <1>4, <2>2 DEF List
    <3>2. /\ head \o after \in Seq(NamedPair)
          /\ Len(head \o after) = Len(head) + Len(after)
          /\ \A k \in 1 .. Len(head) + Len(after) :
                (head \o after)[k] = IF k =< Len(head) THEN head[k] ELSE after[k - Len(head)]
      BY <3>1, ConcatProperties
    <3>. QED  BY <1>4, <2>2, <3>2 DEF List
  <2>5. at + (n + 1 - at) = n + 1
    BY <1>2, <1>3
  <2>. HIDE DEF m, n
  <2>6. \A k \in 1 .. n + 1 : m[k] = IF k =< at THEN head[k] ELSE after[k - at]
    BY <2>3, <2>4, <2>5
  <2>7. \A k \in 1 .. n + 1 : k =< at => k \in 1 .. at
    BY <1>2, <1>3
  <2>8. ASSUME NEW k \in 1 .. n + 1
        PROVE  m[k] = IF k < at THEN before[k] ELSE IF k = at THEN pair ELSE after[k - at]
    <3>1. k \in Int /\ at \in Int
      BY <1>2, <1>3
    <3>. QED  BY <2>2, <2>6, <2>7, <3>1
  <2>. QED  BY <2>3, <2>4, <2>5, <2>8
<1>. HIDE DEF m, n
<1>6. \A k \in 1 .. n + 1 : m[k] = IF k < at THEN l[k] ELSE IF k = at THEN pair ELSE l[k - 1]
  <2>1. \A k \in 1 .. n + 1 : k < at => k \in 1 .. at - 1
    BY <1>2, <1>3
  <2>2. \A k \in 1 .. n + 1 : k > at => k - at \in 1 .. n + 1 - at /\ at + (k - at) - 1 = k - 1
    BY <1>2, <1>3
  <2>3. \A k \in 1 .. n + 1 : k > at => after[k - at] = l[k - 1]
    BY <1>4, <2>2
  <2>4. \A k \in 1 .. n + 1 : k < at \/ k = at \/ k > at
    BY <1>2, <1>3
  <2>. QED  BY <1>3, <1>4, <1>5, <2>1, <2>3, <2>4
<1>7. \A i, j \in 1 .. n : i < j => ~Less(l[j][1], l[i][1])
  BY DEF NamesInOrder, n
<1>8. \A j \in 1 .. n : j >= at => ~Less(l[j][1], pair[1])
  <2>1. SUFFICES ASSUME NEW j \in 1 .. n, j >= at, Less(l[j][1], pair[1]) PROVE FALSE
    OBVIOUS
  <2>2. at \in 1 .. n /\ Less(pair[1], l[at][1])
    BY <1>2, <1>3, <2>1
  <2>3. Less(l[j][1], l[at][1])
    BY <1>2, <2>1, <2>2, LessIsTransitive
  <2>4. CASE j = at
    BY <1>2, <2>3, <2>4, LessIsIrreflexive
  <2>5. CASE j # at
    BY <1>3, <1>7, <2>1, <2>2, <2>3, <2>5
  <2>. QED  BY <2>4, <2>5
<1>9. ASSUME NEW i \in 1 .. n + 1, NEW j \in 1 .. n + 1, i < j
      PROVE  ~Less(m[j][1], m[i][1])
  <2>1. CASE j < at
    <3>1. m[i] = l[i] /\ m[j] = l[j] /\ i \in 1 .. n /\ j \in 1 .. n
      BY <1>2, <1>3, <1>6, <1>9, <2>1
    <3>. QED  BY <1>7, <1>9, <3>1
  <2>2. CASE j = at
    <3>1. m[i] = l[i] /\ m[j] = pair /\ i \in 1 .. n /\ i < at
      BY <1>2, <1>3, <1>6, <1>9, <2>2
    <3>. QED  BY <1>3, <3>1
  <2>3. CASE j > at /\ i = at
    <3>1. m[i] = pair /\ m[j] = l[j - 1] /\ j - 1 \in 1 .. n /\ j - 1 >= at
      BY <1>2, <1>3, <1>6, <1>9, <2>3
    <3>. QED  BY <1>8, <3>1
  <2>4. CASE j > at /\ i > at
    <3>1. m[i] = l[i - 1] /\ m[j] = l[j - 1] /\ i - 1 \in 1 .. n /\ j - 1 \in 1 .. n /\ i - 1 < j - 1
      BY <1>2, <1>3, <1>6, <1>9, <2>4
    <3>. QED  BY <1>7, <3>1
  <2>5. CASE j > at /\ i < at
    <3>1. m[i] = l[i] /\ m[j] = l[j - 1] /\ i \in 1 .. n /\ j - 1 \in 1 .. n /\ i < j - 1
      BY <1>2, <1>3, <1>6, <1>9, <2>5
    <3>. QED  BY <1>7, <3>1
  <2>. QED  BY <1>2, <1>3, <1>9, <2>1, <2>2, <2>3, <2>4, <2>5
<1>. QED  BY <1>1, <1>5, <1>9 DEF NamesInOrder

\* A function that is defined from earlier positions, with all its values
\* sort() puts every list in order.
LEMMA SortedInOrder ==
    ASSUME NEW list \in List
    PROVE  SortedList(list) \in List /\ NamesInOrder(SortedList(list))
<1>. DEFINE n == Len(list)
            V == {v \in List : NamesInOrder(v)}
            Function(g) == g = [k \in 0 .. n |-> IF k = 0 THEN <<>>
                                                 ELSE Inserted(g[k - 1], list[k])]
            sort == CHOOSE g : Function(g)
            step == [k \in 1 .. n |-> [v \in V |-> Inserted(v, list[k])]]
<1>1. SortedList(list) = sort[n]
  BY DEF SortedList
<1>2. n \in Nat /\ \A k \in 1 .. n : list[k] \in NamedPair
  BY NamesOfList
<1>3. <<>> \in V
  BY EmptyList
<1>4. \A k \in 1 .. n : \A v \in V : Inserted(v, list[k]) \in V
  BY <1>2, InsertedInOrder
<1>. HIDE DEF n, V
<1>5. \A k \in 1 .. n : \A v \in V : step[k][v] = Inserted(v, list[k]) /\ step[k][v] \in V
  BY <1>4
<1>6. \E g : Function(g)
  <2>1. PICK g : Ascent(g, n, <<>>, step) /\ \A k \in 0 .. n : g[k] \in V
    <3>. HIDE DEF step
    <3>. QED  BY <1>2, <1>3, <1>5, AscentInto
  <2>2. g = [k \in 0 .. n |-> IF k = 0 THEN <<>> ELSE step[k][g[k - 1]]]
    BY <2>1 DEF Ascent
  <2>. HIDE DEF step
  <2>3. ASSUME NEW k \in 0 .. n, k # 0
        PROVE  step[k][g[k - 1]] = Inserted(g[k - 1], list[k])
    <3>1. k \in 1 .. n /\ k - 1 \in 0 .. n
      BY <1>2, <2>3
    <3>. QED  BY <1>5, <2>1, <3>1
  <2>4. Function(g)
    BY <2>2, <2>3
  <2>. HIDE DEF Function
  <2>. QED  BY <2>4
<1>7. Function(sort)
  <2>. HIDE DEF Function
  <2>. QED  BY <1>6
<1>. HIDE DEF sort
<1>8. /\ sort[0] = <<>>
      /\ \A k \in 1 .. n : sort[k] = Inserted(sort[k - 1], list[k])
  <2>1. \A k \in 0 .. n : sort[k] = IF k = 0 THEN <<>> ELSE Inserted(sort[k - 1], list[k])
    BY <1>7
  <2>2. 0 \in 0 .. n /\ \A k \in 1 .. n : k \in 0 .. n /\ k # 0
    BY <1>2
  <2>. QED  BY <2>1, <2>2
<1>. DEFINE T == {k \in 0 .. n : sort[k] \in V}
<1>9. \A k \in 0 .. n : k \in T
  <2>1. 0 \in T
    BY <1>2, <1>3, <1>8
  <2>2. \A k \in 1 .. n : k - 1 \in T => k \in T
    BY <1>4, <1>8
  <2>. HIDE DEF T
  <2>. QED  BY <1>2, <2>1, <2>2, FromTheStart
<1>10. sort[n] \in V
  BY <1>2, <1>9
<1>. QED  BY <1>1, <1>10 DEF V

\* A list that is made of some of the pairs of another, or of pairs of the
\* same names, has them in the same order.
LEMMA ThinnedInOrder ==
    ASSUME NEW list \in List, NEW g, g[0] = <<>>,
           \A k \in 1 .. Len(list) : g[k - 1] \in List =>
              \/ g[k] = g[k - 1]
              \/ \E p \in NamedPair : p[1] = list[k][1] /\ g[k] = Append(g[k - 1], p)
    PROVE  /\ \A k \in 0 .. Len(list) : g[k] \in List
           /\ NamesInOrder(list) => NamesInOrder(g[Len(list)])
<1>. DEFINE n == Len(list)
            NamesFrom(l, k) == \A i \in 1 .. Len(l) : \E j \in 1 .. k : l[i][1] = list[j][1]
            T == {k \in 0 .. n : /\ g[k] \in List /\ NamesFrom(g[k], k)
                                 /\ NamesInOrder(list) => NamesInOrder(g[k])}
<1>1. n \in Nat /\ \A k \in 1 .. n : list[k] \in NamedPair
  BY NamesOfList
<1>2. 0 \in T
  <2>1. Len(g[0]) = 0 /\ g[0] \in List
    BY EmptyList
  <2>2. NamesFrom(g[0], 0)
    BY <2>1
  <2>. HIDE DEF NamesFrom
  <2>. QED  BY <1>1, <2>1, <2>2, EmptyList
<1>3. ASSUME NEW k \in 1 .. n, k - 1 \in T
      PROVE  k \in T
  <2>. DEFINE l == g[k - 1]
              m == g[k]
  <2>1. l \in List /\ NamesFrom(l, k - 1) /\ (NamesInOrder(list) => NamesInOrder(l))
    BY <1>3
  <2>2. \/ m = l
        \/ \E p \in NamedPair : p[1] = list[k][1] /\ m = Append(l, p)
    BY <1>3, <2>1
  <2>3. NamesFrom(l, k)
    <3>. HIDE DEF l
    <3>1. \A j \in 1 .. k - 1 : j \in 1 .. k
      BY <1>1
    <3>. QED  BY <2>1, <3>1
  <2>4. k \in 0 .. n
    BY <1>1
  <2>5. CASE m = l
    <3>. HIDE DEF NamesFrom
    <3>. QED  BY <2>1, <2>3, <2>4, <2>5
  <2>6. CASE m # l
    <3>1. PICK p \in NamedPair : p[1] = list[k][1] /\ m = Append(l, p)
      BY <2>2, <2>6
    <3>. HIDE DEF l
    <3>2. Append(l, p) \in List /\ Len(Append(l, p)) = Len(l) + 1
          /\ (\A i \in 1 .. Len(l) : Append(l, p)[i] = l[i]) /\ Append(l, p)[Len(l) + 1] = p
      BY <2>1, AppendProperties DEF List
    <3>. HIDE DEF m
    <3>3. /\ m \in List /\ Len(m) = Len(l) + 1 /\ m[Len(l) + 1] = p
          /\ \A i \in 1 .. Len(l) : m[i] = l[i]
      BY <3>1, <3>2
    <3>4. Len(l) \in Nat
      BY <2>1, NamesOfList
    <3>5. \A i \in 1 .. Len(m) : i \in 1 .. Len(l) \/ i = Len(l) + 1
      BY <3>3, <3>4
    <3>6. NamesFrom(m, k)
      <4>1. k \in 1 .. k
        BY <1>1
      <4>. QED  BY <2>3, <3>1, <3>3, <3>5, <4>1
    <3>7. ASSUME NamesInOrder(list), NEW i \in 1 .. Len(m), NEW j \in 1 .. Len(m), i < j
          PROVE  ~Less(m[j][1], m[i][1])
      <4>1. i \in 1 .. Len(l)
        BY <3>3, <3>4, <3>5, <3>7
      <4>2. CASE j \in 1 .. Len(l)
        <5>1. ~Less(l[j][1], l[i][1])
          BY <2>1, <3>7, <4>1, <4>2 DEF NamesInOrder
        <5>. QED  BY <3>3, <4>1, <4>2, <5>1
      <4>3. CASE j = Len(l) + 1
        <5>1. PICK h \in 1 .. k - 1 : l[i][1] = list[h][1]
          BY <2>1, <4>1
        <5>2. h \in 1 .. n /\ k \in 1 .. n /\ h < k
          BY <1>1, <5>1
        <5>3. ~Less(list[k][1], list[h][1])
          BY <3>7, <5>2 DEF NamesInOrder, n
        <5>. QED  BY <3>1, <3>3, <4>1, <4>3, <5>1, <5>3
      <4>. QED  BY <3>5, <4>2, <4>3
    <3>8. NamesInOrder(list) => NamesInOrder(m)
      BY <3>7 DEF NamesInOrder
    <3>. HIDE DEF NamesFrom
    <3>. QED  BY <2>4, <3>3, <3>6, <3>8 DEF m
  <2>. QED  BY <2>5, <2>6
<1>4. \A k \in 0 .. n : k \in T
  <2>. HIDE DEF T, n
  <2>. QED  BY <1>1, <1>2, <1>3, FromTheStart
<1>5. n \in T
  <2>. HIDE DEF T, n
  <2>1. n \in 0 .. n
    BY <1>1
  <2>. QED  BY <1>4, <2>1
<1>. QED  BY <1>4, <1>5

\* set() replaces a pair by one of the same name, and drops others.
LEMMA SetInOrder ==
    ASSUME NEW list \in List, NEW pair \in NamedPair
    PROVE  /\ SetFirst(list, pair) \in List
           /\ NamesInOrder(list) => NamesInOrder(SetFirst(list, pair))
<1>. DEFINE n == Len(list)
            Turn(v, k) == IF list[k][1] # pair[1] THEN Append(v, list[k])
                          ELSE IF \E j \in 1 .. k - 1 : list[j][1] = pair[1] THEN v
                          ELSE Append(v, pair)
            Function(g) == g = [k \in 0 .. n |-> IF k = 0 THEN <<>> ELSE Turn(g[k - 1], k)]
            loop == CHOOSE g : Function(g)
            step == [k \in 1 .. n |-> [v \in List |-> Turn(v, k)]]
<1>1. SetFirst(list, pair) = loop[n]
  BY DEF SetFirst
<1>2. n \in Nat /\ \A k \in 1 .. n : list[k] \in NamedPair
  BY NamesOfList
<1>. HIDE DEF n
<1>3. ASSUME NEW k \in 1 .. n, NEW v \in List
      PROVE  /\ Turn(v, k) \in List
             /\ \/ Turn(v, k) = v
                \/ \E p \in NamedPair : p[1] = list[k][1] /\ Turn(v, k) = Append(v, p)
  <2>1. Append(v, list[k]) \in List /\ Append(v, pair) \in List
    BY <1>2, AppendProperties DEF List
  <2>. QED  BY <1>2, <2>1
<1>. HIDE DEF Turn
<1>4. \A k \in 1 .. n : \A v \in List : step[k][v] = Turn(v, k) /\ step[k][v] \in List
  BY <1>3
<1>5. \E g : Function(g)
  <2>1. PICK g : Ascent(g, n, <<>>, step) /\ \A k \in 0 .. n : g[k] \in List
    <3>. HIDE DEF step
    <3>. QED  BY <1>2, <1>4, EmptyList, AscentInto
  <2>2. g = [k \in 0 .. n |-> IF k = 0 THEN <<>> ELSE step[k][g[k - 1]]]
    BY <2>1 DEF Ascent
  <2>. HIDE DEF step
  <2>3. ASSUME NEW k \in 0 .. n, k # 0
        PROVE  step[k][g[k - 1]] = Turn(g[k - 1], k)
    <3>1. k \in 1 .. n /\ k - 1 \in 0 .. n
      BY <1>2, <2>3
    <3>. QED  BY <1>4, <2>1, <3>1
  <2>4. Function(g)
    BY <2>2, <2>3
  <2>. HIDE DEF Function
  <2>. QED  BY <2>4
<1>6. Function(loop)
  <2>. HIDE DEF Function
  <2>. QED  BY <1>5
<1>. HIDE DEF loop
<1>7. loop[0] = <<>> /\ \A k \in 1 .. n : loop[k] = Turn(loop[k - 1], k)
  <2>1. \A k \in 0 .. n : loop[k] = IF k = 0 THEN <<>> ELSE Turn(loop[k - 1], k)
    BY <1>6
  <2>2. 0 \in 0 .. n /\ \A k \in 1 .. n : k \in 0 .. n /\ k # 0
    BY <1>2
  <2>. QED  BY <2>1, <2>2
<1>8. \A k \in 1 .. n : loop[k - 1] \in List =>
          \/ loop[k] = loop[k - 1]
          \/ \E p \in NamedPair : p[1] = list[k][1] /\ loop[k] = Append(loop[k - 1], p)
  BY <1>3, <1>7
<1>9. n \in 0 .. n
  BY <1>2
<1>. QED  BY <1>1, <1>7, <1>8, <1>9, ThinnedInOrder DEF n

\* del() and remove() drop pairs.
LEMMA WithoutInOrder ==
    ASSUME NEW list \in List, NEW pair, NEW byName
    PROVE  /\ WithoutPair(list, pair, byName) \in List
           /\ NamesInOrder(list) => NamesInOrder(WithoutPair(list, pair, byName))
<1>. DEFINE n == Len(list)
            Turn(v, k) == IF list[k] = pair \/ (byName /\ list[k][1] = pair[1]) THEN v
                          ELSE Append(v, list[k])
            Function(g) == g = [k \in 0 .. n |-> IF k = 0 THEN <<>> ELSE Turn(g[k - 1], k)]
            loop == CHOOSE g : Function(g)
            step == [k \in 1 .. n |-> [v \in List |-> Turn(v, k)]]
<1>1. WithoutPair(list, pair, byName) = loop[n]
  BY DEF WithoutPair
<1>2. n \in Nat /\ \A k \in 1 .. n : list[k] \in NamedPair
  BY NamesOfList
<1>. HIDE DEF n
<1>3. ASSUME NEW k \in 1 .. n, NEW v \in List
      PROVE  /\ Turn(v, k) \in List
             /\ \/ Turn(v, k) = v
                \/ \E p \in NamedPair : p[1] = list[k][1] /\ Turn(v, k) = Append(v, p)
  <2>1. Append(v, list[k]) \in List
    BY <1>2, AppendProperties DEF List
  <2>2. Turn(v, k) \in {v, Append(v, list[k])}
    OBVIOUS
  <2>. HIDE DEF Turn
  <2>. QED  BY <1>2, <2>1, <2>2
<1>. HIDE DEF Turn
<1>4. \A k \in 1 .. n : \A v \in List : step[k][v] = Turn(v, k) /\ step[k][v] \in List
  BY <1>3
<1>5. \E g : Function(g)
  <2>1. PICK g : Ascent(g, n, <<>>, step) /\ \A k \in 0 .. n : g[k] \in List
    <3>. HIDE DEF step
    <3>. QED  BY <1>2, <1>4, EmptyList, AscentInto
  <2>2. g = [k \in 0 .. n |-> IF k = 0 THEN <<>> ELSE step[k][g[k - 1]]]
    BY <2>1 DEF Ascent
  <2>. HIDE DEF step
  <2>3. ASSUME NEW k \in 0 .. n, k # 0
        PROVE  step[k][g[k - 1]] = Turn(g[k - 1], k)
    <3>1. k \in 1 .. n /\ k - 1 \in 0 .. n
      BY <1>2, <2>3
    <3>. QED  BY <1>4, <2>1, <3>1
  <2>4. Function(g)
    BY <2>2, <2>3
  <2>. HIDE DEF Function
  <2>. QED  BY <2>4
<1>6. Function(loop)
  <2>. HIDE DEF Function
  <2>. QED  BY <1>5
<1>. HIDE DEF loop
<1>7. loop[0] = <<>> /\ \A k \in 1 .. n : loop[k] = Turn(loop[k - 1], k)
  <2>1. \A k \in 0 .. n : loop[k] = IF k = 0 THEN <<>> ELSE Turn(loop[k - 1], k)
    BY <1>6
  <2>2. 0 \in 0 .. n /\ \A k \in 1 .. n : k \in 0 .. n /\ k # 0
    BY <1>2
  <2>. QED  BY <2>1, <2>2
<1>8. \A k \in 1 .. n : loop[k - 1] \in List =>
          \/ loop[k] = loop[k - 1]
          \/ \E p \in NamedPair : p[1] = list[k][1] /\ loop[k] = Append(loop[k - 1], p)
  BY <1>3, <1>7
<1>9. n \in 0 .. n
  BY <1>2
<1>. QED  BY <1>1, <1>7, <1>8, <1>9, ThinnedInOrder DEF n

-----------------------------------------------------------------------------
(* What is parsed of a query.                                              *)

LEMMA PartsOfName ==
    ASSUME NEW s \in Name, NEW i \in Nat \ {0}, NEW j \in 0 .. Len(s)
    PROVE  SubSeq(s, i, j) \in Name
<1>1. Len(s) \in Nat /\ \A k \in 1 .. Len(s) : s[k] \in F!Byte
  BY DEF Name
<1>2. \A k \in i .. j : s[k] \in F!Byte
  BY <1>1
<1>3. i \in Int /\ j \in Int
  OBVIOUS
<1>. QED  BY <1>2, <1>3, SubSeqProperties DEF Name

LEMMA JoinedNames ==
    ASSUME NEW s \in Name, NEW t \in Name
    PROVE  s \o t \in Name
BY ConcatProperties DEF Name

\* check_fix_utf8 makes bytes of bytes.
LEMMA FixedName ==
    ASSUME NEW s \in Name
    PROVE  F!CheckFixUtf8(s) \in Name
<1>. DEFINE last == Len(s) + 1
            Read(i) == F!ReadUtf8(s, i)
            Good(g) == g = [it \in 1 .. last |->
                              IF it = last THEN last
                              ELSE IF Read(it).ok THEN g[Read(it).next] ELSE it]
            good == CHOOSE g : Good(g)
            Run(g, bgn) ==
                SubSeq(s, bgn, good[bgn] - 1)
                  \o (IF good[bgn] = last THEN <<>>
                      ELSE F!ReplacementUtf8 \o g[Read(good[bgn]).next])
            Rest(g) == g = [bgn \in 1 .. last |-> Run(g, bgn)]
            rest == CHOOSE g : Rest(g)
            first == good[1]
<1>1. F!CheckFixUtf8(s) = IF first = last THEN s
                          ELSE SubSeq(s, 1, first - 1) \o F!ReplacementUtf8 \o rest[Read(first).next]
  BY DEF F!CheckFixUtf8
<1>2. Len(s) \in Nat /\ last \in Nat /\ 1 \in 1 .. last
  BY DEF Name
<1>3. \A i \in 1 .. last : i # last => Read(i).next \in i + 1 .. last
  <2>1. \A i \in 1 .. last : i # last => i \in 1 .. Len(s)
    BY <1>2
  <2>. QED  BY <2>1, ReadIsWithin
<1>. HIDE DEF Read, last
<1>4. \E g : Good(g)
  <2>. DEFINE known == {i \in 1 .. last : i = last \/ ~Read(i).ok}
              value == [i \in 1 .. last |-> i]
              next == [i \in 1 .. last |-> Read(i).next]
              step == [i \in 1 .. last |-> [v \in 1 .. last |-> v]]
              V == 1 .. last
  <2>1. /\ \A i \in 1 .. last : i \in known => value[i] \in V
        /\ \A i \in 1 .. last : i \notin known =>
              next[i] \in i + 1 .. last /\ \A v \in V : step[i][v] \in V
    BY <1>3
  <2>2. PICK g : Descent(g, last, known, value, next, step) /\ \A i \in 1 .. last : g[i] \in V
    <3>. HIDE DEF known, value, next, step, V
    <3>. QED  BY <1>2, <2>1, DescentInto
  <2>3. g = [i \in 1 .. last |-> IF i \in known THEN value[i] ELSE step[i][g[next[i]]]]
    BY <2>2 DEF Descent, DescentAt
  <2>4. ASSUME NEW i \in 1 .. last
        PROVE  (IF i \in known THEN value[i] ELSE step[i][g[next[i]]])
                  = IF i = last THEN last ELSE IF Read(i).ok THEN g[Read(i).next] ELSE i
    <3>1. CASE i \in known
      BY <3>1
    <3>2. CASE i \notin known
      <4>1. next[i] = Read(i).next /\ Read(i).next \in 1 .. last /\ i # last /\ Read(i).ok
        BY <1>2, <1>3, <3>2
      <4>. QED  BY <2>2, <3>2, <4>1
    <3>. QED  BY <3>1, <3>2
  <2>. HIDE DEF known, value, next, step
  <2>5. Good(g)
    BY <2>3, <2>4
  <2>. HIDE DEF Good
  <2>. QED  BY <2>5
<1>5. Good(good)
  <2>. HIDE DEF Good
  <2>. QED  BY <1>4
<1>. HIDE DEF good
<1>6. \A i \in 1 .. last : good[i] \in i .. last
  <2>. DEFINE T == {i \in 1 .. last : good[i] \in i .. last}
  <2>1. ASSUME NEW i \in 1 .. last, \A j \in i + 1 .. last : j \in T
        PROVE  i \in T
    <3>1. good[i] = IF i = last THEN last ELSE IF Read(i).ok THEN good[Read(i).next] ELSE i
      BY <1>5
    <3>2. CASE i = last \/ ~Read(i).ok
      BY <1>2, <3>1, <3>2
    <3>3. CASE i # last /\ Read(i).ok
      <4>1. Read(i).next \in i + 1 .. last
        BY <1>3, <3>3
      <4>2. good[Read(i).next] \in Read(i).next .. last
        BY <2>1, <4>1
      <4>3. Read(i).next .. last \subseteq i .. last
        BY <1>2, <4>1
      <4>. QED  BY <3>1, <3>3, <4>2, <4>3
    <3>. QED  BY <3>2, <3>3
  <2>2. \A i \in 1 .. last : i \in T
    <3>. HIDE DEF T
    <3>. QED  BY <1>2, <2>1, FromTheEnd
  <2>. QED  BY <2>2
<1>7. F!ReplacementUtf8 \in Name
  <2>1. 239 \in F!Byte /\ 191 \in F!Byte /\ 189 \in F!Byte
    BY DEF F!Byte
  <2>. QED  BY <2>1 DEF F!ReplacementUtf8, Name
<1>8. \A i \in 1 .. last : good[i] # last => Read(good[i]).next \in i + 1 .. last
  <2>1. SUFFICES ASSUME NEW i \in 1 .. last, good[i] # last
                 PROVE  Read(good[i]).next \in i + 1 .. last
    OBVIOUS
  <2>2. good[i] \in i .. last /\ good[i] \in 1 .. last
    BY <1>2, <1>6
  <2>3. Read(good[i]).next \in good[i] + 1 .. last
    BY <1>3, <2>1, <2>2
  <2>. QED  BY <1>2, <2>2, <2>3
<1>9. \A i \in 1 .. last : SubSeq(s, i, good[i] - 1) \in Name
  <2>1. SUFFICES ASSUME NEW i \in 1 .. last
                 PROVE  SubSeq(s, i, good[i] - 1) \in Name
    OBVIOUS
  <2>2. i \in Nat \ {0} /\ good[i] - 1 \in 0 .. Len(s)
    BY <1>2, <1>6 DEF last
  <2>. QED  BY <2>2, PartsOfName
<1>10. <<>> \in Name
  BY DEF Name
<1>11. ASSUME NEW i \in 1 .. last, NEW g, good[i] # last => g[Read(good[i]).next] \in Name
       PROVE  Run(g, i) \in Name
  <2>1. F!ReplacementUtf8 \o g[Read(good[i]).next] \in Name \/ good[i] = last
    <3>1. CASE good[i] # last
      <4>. DEFINE v == g[Read(good[i]).next]
      <4>1. v \in Name
        BY <1>11, <3>1
      <4>. HIDE DEF v
      <4>2. F!ReplacementUtf8 \o v \in Name
        BY <1>7, <4>1, JoinedNames
      <4>. QED  BY <4>2 DEF v
    <3>. QED  BY <3>1
  <2>. DEFINE tail == IF good[i] = last THEN <<>> ELSE F!ReplacementUtf8 \o g[Read(good[i]).next]
              head == SubSeq(s, i, good[i] - 1)
  <2>2. tail \in Name
    BY <1>10, <2>1
  <2>3. head \in Name
    BY <1>9
  <2>. HIDE DEF tail, head
  <2>4. head \o tail \in Name
    BY <2>2, <2>3, JoinedNames
  <2>. QED  BY <2>4 DEF head, tail
<1>12. \E g : Rest(g)
  <2>. DEFINE known == {i \in 1 .. last : good[i] = last}
              value == [i \in 1 .. last |-> SubSeq(s, i, good[i] - 1) \o <<>>]
              next == [i \in 1 .. last |-> Read(good[i]).next]
              step == [i \in 1 .. last |->
                         [v \in Name |-> SubSeq(s, i, good[i] - 1) \o (F!ReplacementUtf8 \o v)]]
  <2>1. \A i \in 1 .. last : i \in known => value[i] \in Name
    BY <1>9, <1>10, JoinedNames
  <2>2. ASSUME NEW i \in 1 .. last, i \notin known
        PROVE  next[i] \in i + 1 .. last /\ \A v \in Name : step[i][v] \in Name
    <3>1. next[i] \in i + 1 .. last
      BY <1>8, <2>2
    <3>2. \A v \in Name : F!ReplacementUtf8 \o v \in Name
      BY <1>7, JoinedNames
    <3>3. \A v \in Name : SubSeq(s, i, good[i] - 1) \o (F!ReplacementUtf8 \o v) \in Name
      BY <1>9, <3>2, JoinedNames
    <3>. QED  BY <3>1, <3>3
  <2>3. PICK g : Descent(g, last, known, value, next, step) /\ \A i \in 1 .. last : g[i] \in Name
    <3>. HIDE DEF known, value, next, step
    <3>. QED  BY <1>2, <2>1, <2>2, DescentInto
  <2>4. g = [i \in 1 .. last |-> IF i \in known THEN value[i] ELSE step[i][g[next[i]]]]
    BY <2>3 DEF Descent, DescentAt
  <2>5. ASSUME NEW i \in 1 .. last
        PROVE  (IF i \in known THEN value[i] ELSE step[i][g[next[i]]]) = Run(g, i)
    <3>1. CASE i \in known
      BY <3>1
    <3>2. CASE i \notin known
      <4>1. next[i] = Read(good[i]).next /\ Read(good[i]).next \in 1 .. last /\ good[i] # last
        BY <1>2, <1>8, <3>2
      <4>. QED  BY <2>3, <3>2, <4>1
    <3>. QED  BY <3>1, <3>2
  <2>. HIDE DEF known, value, next, step, Run
  <2>6. Rest(g)
    BY <2>4, <2>5
  <2>. HIDE DEF Rest
  <2>. QED  BY <2>6
<1>13. Rest(rest)
  <2>. HIDE DEF Rest
  <2>. QED  BY <1>12
<1>. HIDE DEF rest, Run
<1>14. \A i \in 1 .. last : rest[i] \in Name
  <2>. DEFINE T == {i \in 1 .. last : rest[i] \in Name}
  <2>1. ASSUME NEW i \in 1 .. last, \A j \in i + 1 .. last : j \in T
        PROVE  i \in T
    <3>1. rest[i] = Run(rest, i)
      BY <1>13
    <3>2. good[i] # last => rest[Read(good[i]).next] \in Name
      BY <1>8, <2>1
    <3>. QED  BY <1>11, <3>1, <3>2
  <2>2. \A i \in 1 .. last : i \in T
    <3>. HIDE DEF T
    <3>. QED  BY <1>2, <2>1, FromTheEnd
  <2>. QED  BY <2>2
<1>15. CASE first # last
  <2>1. Read(first).next \in 1 .. last
    BY <1>2, <1>8, <1>15
  <2>. DEFINE head == SubSeq(s, 1, first - 1)
              tail == rest[Read(first).next]
  <2>2. head \in Name /\ tail \in Name
    BY <1>2, <1>9, <1>14, <2>1
  <2>. HIDE DEF head, tail
  <2>3. head \o F!ReplacementUtf8 \o tail \in Name
    BY <1>7, <2>2, JoinedNames
  <2>. QED  BY <1>1, <1>15, <2>3 DEF head, tail
<1>. QED  BY <1>1, <1>15

-----------------------------------------------------------------------------
(* do_parse.                                                               *)

\* decode_hex_to_byte gives a byte.
LEMMA HexByteIsByte ==
    ASSUME NEW s \in Name, NEW i \in Nat \ {0}, F!HasHex(s, i)
    PROVE  F!HexByte(s, i) \in F!Byte /\ i + 1 =< Len(s)
<1>1. i + 1 =< Len(s) /\ F!IsHex(s[i]) /\ F!IsHex(s[i + 1])
  BY DEF F!HasHex
<1>2. \A c : F!IsHex(c) => F!HexValue(c) \in 0 .. 15
  <2>1. SUFFICES ASSUME NEW c, F!IsHex(c)
                 PROVE  F!HexValue(c) \in 0 .. 15
    OBVIOUS
  <2>2. c \in 48 .. 57 \/ c \in 65 .. 70 \/ c \in 97 .. 102
    BY <2>1 DEF F!IsHex, F!AsciiDigit
  <2>3. CASE c \in 48 .. 57
    <3>1. c \div 32 = 1
      BY <2>3
    <3>2. F!HexValue(c) = c - 48
      BY <3>1 DEF F!HexValue
    <3>. QED  BY <2>3, <3>2
  <2>4. CASE c \in 65 .. 70
    <3>1. c \div 32 = 2
      BY <2>4
    <3>2. F!HexValue(c) = c - 55
      BY <3>1 DEF F!HexValue
    <3>. QED  BY <2>4, <3>2
  <2>5. CASE c \in 97 .. 102
    <3>1. c \div 32 = 3
      BY <2>5
    <3>2. F!HexValue(c) = c - 87
      BY <3>1 DEF F!HexValue
    <3>. QED  BY <2>5, <3>2
  <2>. QED  BY <2>2, <2>3, <2>4, <2>5
<1>. DEFINE high == F!HexValue(s[i])
            low == F!HexValue(s[i + 1])
<1>3. high \in 0 .. 15 /\ low \in 0 .. 15
  BY <1>1, <1>2
<1>4. F!HexByte(s, i) = 16 * high + low
  BY DEF F!HexByte
<1>. HIDE DEF high, low
<1>5. F!HexByte(s, i) \in 0 .. 255
  BY <1>3, <1>4
<1>. QED  BY <1>1, <1>5 DEF F!Byte

\* The fields of the state of the loop may be written.
LEMMA WrittenForm ==
    ASSUME NEW f \in F!FormState
    PROVE  /\ \A k \in Nat \ {0} : [f EXCEPT !.it = k] \in F!FormState /\ [f EXCEPT !.it = k].it = k
           /\ \A k \in Nat \ {0} : /\ [f EXCEPT !.start = k] \in F!FormState
                                   /\ [f EXCEPT !.start = k].it = f.it
           /\ \A b \in BOOLEAN : /\ [f EXCEPT !.inValue = b] \in F!FormState
                                 /\ [f EXCEPT !.inValue = b].it = f.it
           /\ \A s \in Name : [f EXCEPT !.name = s] \in F!FormState /\ [f EXCEPT !.name = s].it = f.it
           /\ \A s \in Name : [f EXCEPT !.value = s] \in F!FormState /\ [f EXCEPT !.value = s].it = f.it
           /\ \A l \in List : [f EXCEPT !.list = l] \in F!FormState /\ [f EXCEPT !.list = l].it = f.it
<1>. DEFINE Pos == Nat \ {0}
            Truth == BOOLEAN
<1>1. F!FormState = [it : Pos, start : Pos, inValue : Truth, name : Name, value : Name, list : List]
  BY DEF F!FormState, Name, NamedPair, List
<1>. HIDE DEF Pos, Truth
<1>2. \A k \in Pos : [f EXCEPT !.it = k] \in F!FormState /\ [f EXCEPT !.it = k].it = k
  BY <1>1
<1>3. \A k \in Pos : [f EXCEPT !.start = k] \in F!FormState /\ [f EXCEPT !.start = k].it = f.it
  BY <1>1
<1>4. \A b \in Truth : [f EXCEPT !.inValue = b] \in F!FormState /\ [f EXCEPT !.inValue = b].it = f.it
  BY <1>1
<1>5. \A s \in Name : [f EXCEPT !.name = s] \in F!FormState /\ [f EXCEPT !.name = s].it = f.it
  BY <1>1
<1>6. \A s \in Name : [f EXCEPT !.value = s] \in F!FormState /\ [f EXCEPT !.value = s].it = f.it
  BY <1>1
<1>7. \A l \in List : [f EXCEPT !.list = l] \in F!FormState /\ [f EXCEPT !.list = l].it = f.it
  BY <1>1
<1>. QED  BY <1>2, <1>3, <1>4, <1>5, <1>6, <1>7 DEF Pos, Truth

LEMMA FormFields ==
    ASSUME NEW f \in F!FormState
    PROVE  /\ f.it \in Nat \ {0} /\ f.start \in Nat \ {0} /\ f.inValue \in BOOLEAN
           /\ f.name \in Name /\ f.value \in Name /\ f.list \in List
BY DEF F!FormState, Name, NamedPair, List

LEMMA PushedForm ==
    ASSUME NEW f \in F!FormState, NEW b \in F!Byte
    PROVE  F!Push(f, b) \in F!FormState /\ F!Push(f, b).it = f.it
<1>. DEFINE name == Append(f.name, b)
            value == Append(f.value, b)
<1>1. name \in Name /\ value \in Name
  BY FormFields, AppendProperties DEF Name
<1>2. F!Push(f, b) = IF f.inValue THEN [f EXCEPT !.value = value] ELSE [f EXCEPT !.name = name]
  BY DEF F!Push
<1>. HIDE DEF name, value
<1>3. /\ [f EXCEPT !.name = name] \in F!FormState /\ [f EXCEPT !.name = name].it = f.it
      /\ [f EXCEPT !.value = value] \in F!FormState /\ [f EXCEPT !.value = value].it = f.it
  BY <1>1, WrittenForm
<1>4. CASE f.inValue
  BY <1>2, <1>3, <1>4
<1>5. CASE ~f.inValue
  BY <1>2, <1>3, <1>5
<1>. QED  BY <1>4, <1>5

LEMMA PairAddedForm ==
    ASSUME NEW f \in F!FormState
    PROVE  F!AddPair(f) \in F!FormState /\ F!AddPair(f).it = f.it
<1>. DEFINE pair == <<F!CheckFixUtf8(f.name), F!CheckFixUtf8(f.value)>>
            list == Append(f.list, pair)
            g == [f EXCEPT !.list = list]
            h == [g EXCEPT !.name = <<>>]
            k == [h EXCEPT !.value = <<>>]
<1>1. F!CheckFixUtf8(f.name) \in Name /\ F!CheckFixUtf8(f.value) \in Name
  BY FormFields, FixedName
<1>2. pair \in NamedPair
  BY <1>1 DEF NamedPair
<1>3. <<>> \in Name
  BY DEF Name
<1>4. F!AddPair(f) = IF f.start = f.it THEN f ELSE k
  BY DEF F!AddPair
<1>. HIDE DEF pair
<1>5. list \in List
  BY <1>2, FormFields, AppendProperties DEF List
<1>. HIDE DEF list
<1>6. g \in F!FormState /\ g.it = f.it
  BY <1>5, WrittenForm
<1>. HIDE DEF g
<1>7. h \in F!FormState /\ h.it = f.it
  BY <1>3, <1>6, WrittenForm
<1>. HIDE DEF h
<1>8. k \in F!FormState /\ k.it = f.it
  BY <1>3, <1>7, WrittenForm
<1>. HIDE DEF k
<1>. QED  BY <1>4, <1>8

\* A turn of the loop goes forward.
LEMMA TurnedForm ==
    ASSUME NEW s \in Name, NEW f \in F!FormState, f.it =< Len(s)
    PROVE  F!OnByte(f, s) \in F!FormState /\ F!OnByte(f, s).it > f.it
<1>. DEFINE i == f.it
            Later(g) == g \in F!FormState /\ g.it > i
<1>1. i \in Nat \ {0} /\ i \in 1 .. Len(s)
  <2>1. Len(s) \in Nat
    BY DEF Name
  <2>. QED  BY <2>1, FormFields
<1>2. s[i] \in F!Byte
  BY <1>1 DEF Name
<1>3. \A b \in F!Byte : F!Push(f, b) \in F!FormState /\ F!Push(f, b).it = i
  BY PushedForm
<1>4. ASSUME NEW g \in F!FormState, g.it = i, NEW m \in {1, 3}
      PROVE  Later([g EXCEPT !.it = g.it + m])
  <2>. DEFINE k == g.it + m
  <2>1. k \in Nat \ {0} /\ k > i
    BY <1>1, <1>4
  <2>. HIDE DEF k, i
  <2>2. [g EXCEPT !.it = k] \in F!FormState /\ [g EXCEPT !.it = k].it = k
    BY <2>1, WrittenForm
  <2>. DEFINE h == [g EXCEPT !.it = k]
  <2>3. h \in F!FormState /\ h.it = k
    BY <2>2
  <2>. HIDE DEF h
  <2>4. Later(h)
    BY <2>1, <2>3
  <2>. QED  BY <2>4 DEF h, k
<1>5. 61 \in F!Byte /\ 32 \in F!Byte
  BY DEF F!Byte
<1>6. Later(F!OnEqual(f))
  <2>1. CASE f.inValue
    <3>. DEFINE g == F!Push(f, F!EqualSign)
    <3>1. g \in F!FormState /\ g.it = i
      BY <1>3, <1>5 DEF F!EqualSign
    <3>2. F!OnEqual(f) = [g EXCEPT !.it = g.it + 1]
      BY <2>1 DEF F!OnEqual
    <3>. HIDE DEF g, i, Later
    <3>. QED  BY <1>4, <3>1, <3>2
  <2>2. CASE ~f.inValue
    <3>. DEFINE g == [f EXCEPT !.inValue = TRUE]
    <3>1. g \in F!FormState /\ g.it = i
      BY WrittenForm
    <3>2. F!OnEqual(f) = [g EXCEPT !.it = f.it + 1]
      BY <2>2 DEF F!OnEqual
    <3>. HIDE DEF g
    <3>3. F!OnEqual(f) = [g EXCEPT !.it = g.it + 1]
      BY <3>1, <3>2
    <3>. HIDE DEF i, Later
    <3>. QED  BY <1>4, <3>1, <3>3
  <2>. QED  BY <2>1, <2>2
<1>7. Later(F!OnAmpersand(f))
  <2>. DEFINE g == F!AddPair(f)
              h == [g EXCEPT !.inValue = FALSE]
              k == [h EXCEPT !.start = i + 1]
  <2>1. g \in F!FormState /\ g.it = i
    BY PairAddedForm
  <2>2. F!OnAmpersand(f) = [k EXCEPT !.it = g.it + 1]
    BY DEF F!OnAmpersand
  <2>. HIDE DEF g
  <2>3. h \in F!FormState /\ h.it = i
    BY <2>1, WrittenForm
  <2>. HIDE DEF h
  <2>4. k \in F!FormState /\ k.it = i
    <3>1. i + 1 \in Nat \ {0}
      BY <1>1
    <3>. HIDE DEF i
    <3>. QED  BY <2>3, <3>1, WrittenForm
  <2>. HIDE DEF k
  <2>5. F!OnAmpersand(f) = [k EXCEPT !.it = k.it + 1]
    BY <2>1, <2>2, <2>4
  <2>. HIDE DEF i, Later
  <2>. QED  BY <1>4, <2>4, <2>5
<1>8. ASSUME NEW b \in F!Byte, NEW m \in {1, 3}
      PROVE  Later([F!Push(f, b) EXCEPT !.it = @ + m])
  <2>. DEFINE g == F!Push(f, b)
  <2>1. g \in F!FormState /\ g.it = i
    BY <1>3
  <2>. HIDE DEF g, i, Later
  <2>2. Later([g EXCEPT !.it = g.it + m])
    BY <1>4, <2>1
  <2>. QED  BY <2>2 DEF g
<1>9. F!HasHex(s, i + 1) => F!HexByte(s, i + 1) \in F!Byte
  <2>1. i + 1 \in Nat \ {0}
    BY <1>1
  <2>. QED  BY <2>1, HexByteIsByte
<1>10. \/ F!OnByte(f, s) = F!OnEqual(f)
       \/ F!OnByte(f, s) = F!OnAmpersand(f)
       \/ F!OnByte(f, s) = [F!Push(f, 32) EXCEPT !.it = @ + 1]
       \/ /\ F!HasHex(s, i + 1)
          /\ F!OnByte(f, s) = [F!Push(f, F!HexByte(s, i + 1)) EXCEPT !.it = @ + 3]
       \/ F!OnByte(f, s) = [F!Push(f, s[i]) EXCEPT !.it = @ + 1]
  BY DEF F!OnByte
<1>. HIDE DEF Later, i
<1>11. Later(F!OnByte(f, s))
  BY <1>2, <1>5, <1>6, <1>7, <1>8, <1>9, <1>10
<1>. QED  BY <1>11 DEF Later, i

\* do_parse gives a list, whatever the bytes are.
LEMMA ParsedList ==
    ASSUME NEW remQmark, NEW s \in Name
    PROVE  F!FormParse(remQmark, s) \in List
<1>. DEFINE b == IF remQmark /\ s # <<>> /\ s[1] = F!QuestionMark THEN 2 ELSE 1
            first == [it |-> b, start |-> b, inValue |-> FALSE, name |-> <<>>, value |-> <<>>,
                      list |-> <<>>]
            Function(g) == g = [f \in F!FormState |->
                                  IF f.it > Len(s) THEN F!AddPair(f) ELSE g[F!OnByte(f, s)]]
            loop == CHOOSE g : Function(g)
            S == F!FormState
            n == Len(s)
            known == {f \in S : f.it > n}
            value == [f \in S |-> F!AddPair(f)]
            next == [f \in S |-> F!OnByte(f, s)]
            size == [f \in S |-> IF f.it > n THEN 0 ELSE n + 1 - f.it]
<1>1. F!FormParse(remQmark, s) = loop[first].list
  BY DEF F!FormParse
<1>2. n \in Nat
  BY DEF Name
<1>3. \A f \in S : f.it \in Nat \ {0}
  BY FormFields
<1>4. first \in S
  <2>1. <<>> \in Name /\ <<>> \in Seq(Name \X Name) /\ b \in Nat \ {0}
    BY DEF Name
  <2>. HIDE DEF b
  <2>. QED  BY <2>1 DEF F!FormState, Name
<1>5. \A f \in S : value[f] \in S
  BY PairAddedForm
<1>6. ASSUME NEW f \in S, f \notin known
      PROVE  next[f] \in S /\ next[f].it > f.it
  <2>1. f.it =< Len(s)
    BY <1>2, <1>3, <1>6
  <2>2. F!OnByte(f, s) \in F!FormState /\ F!OnByte(f, s).it > f.it
    BY <2>1, TurnedForm
  <2>. QED  BY <2>2
<1>. HIDE DEF S, n, first
<1>7. \A f \in S : size[f] \in 0 .. n
  BY <1>2, <1>3
<1>8. ASSUME NEW f \in S, f \notin known
      PROVE  next[f] \in S /\ size[next[f]] < size[f]
  <2>. DEFINE e == next[f]
  <2>1. e \in S /\ e.it > f.it
    BY <1>6, <1>8
  <2>. HIDE DEF next, e
  <2>2. f.it =< n /\ f.it \in Nat \ {0} /\ e.it \in Nat \ {0}
    BY <1>2, <1>3, <1>8, <2>1
  <2>3. size[f] = n + 1 - f.it /\ size[e] = IF e.it > n THEN 0 ELSE n + 1 - e.it
    BY <1>2, <2>1, <2>2
  <2>4. size[e] < size[f]
    <3>. HIDE DEF size
    <3>. QED  BY <1>2, <2>1, <2>2, <2>3
  <2>. QED  BY <2>1, <2>4 DEF e
<1>a. Nearer(S, known, next, size, n)
  <2>. HIDE DEF known, next, size
  <2>. QED  BY <1>7, <1>8 DEF Nearer
<1>9. \E g : Loop(g, S, known, value, next)
  <2>. HIDE DEF known, value, next, size
  <2>. QED  BY <1>2, <1>a, LoopExists
<1>10. \A g : Function(g) <=> Loop(g, S, known, value, next)
  <2>1. SUFFICES ASSUME NEW g
                 PROVE  Function(g) <=> Loop(g, S, known, value, next)
    OBVIOUS
  <2>2. \A f \in S : (IF f \in known THEN value[f] ELSE g[next[f]])
                       = IF f.it > n THEN F!AddPair(f) ELSE g[F!OnByte(f, s)]
    OBVIOUS
  <2>. HIDE DEF known, value, next
  <2>3. [f \in S |-> IF f \in known THEN value[f] ELSE g[next[f]]]
          = [f \in S |-> IF f.it > n THEN F!AddPair(f) ELSE g[F!OnByte(f, s)]]
    BY <2>2
  <2>. QED  BY <2>3 DEF Loop, S, n
<1>11. Loop(loop, S, known, value, next)
  <2>1. Function(loop)
    <3>1. \E g : Function(g)
      <4>. HIDE DEF Function
      <4>. QED  BY <1>9, <1>10
    <3>. HIDE DEF Function
    <3>. QED  BY <3>1
  <2>. QED  BY <1>10, <2>1
<1>12. loop[first] \in S
  <2>. HIDE DEF known, value, next, size, loop
  <2>1. \A f \in S : f \in known => value[f] \in S
    BY <1>5
  <2>2. \A f \in S : loop[f] \in S
    BY <1>2, <1>11, <1>a, <2>1, LoopInto
  <2>. QED  BY <1>4, <2>2
<1>. HIDE DEF loop
<1>. QED  BY <1>1, <1>12, FormFields DEF S

-----------------------------------------------------------------------------
(* The query of a url, as a list.                                          *)

LEMMA CharactersAreBytes ==
    ASSUME NEW c \in DOMAIN CharBytes
    PROVE  CharBytes[c] \in Name
<1>1. \A b \in 0 .. 255 : b \in F!Byte
  BY DEF F!Byte
<1>2. \A b \in F!Byte : <<b>> \in Name
  BY DEF Name
<1>3. \A b1, b2, b3 \in F!Byte : <<b1, b2, b3>> \in Name
  BY DEF Name
<1>4. /\ 97 \in F!Byte /\ 98 \in F!Byte /\ 61 \in F!Byte /\ 38 \in F!Byte /\ 43 \in F!Byte
      /\ 37 \in F!Byte /\ 50 \in F!Byte /\ 54 \in F!Byte /\ 51 \in F!Byte /\ 68 \in F!Byte
      /\ 70 \in F!Byte /\ 69 \in F!Byte /\ 66 \in F!Byte
  BY <1>1
<1>. DEFINE bytes == {<<97>>, <<98>>, <<61>>, <<38>>, <<43>>, <<37, 50, 54>>, <<37, 51, 68>>,
                      <<37, 70, 70>>, <<37, 69, 70>>, <<37, 66, 70>>, <<37, 66, 68>>}
<1>5. CharBytes[c] \in bytes
  BY DEF CharBytes
<1>6. \A s \in bytes : s \in Name
  BY <1>2, <1>3, <1>4
<1>. QED  BY <1>5, <1>6

LEMMA BytesOfQuery ==
    ASSUME NEW text \in Seq(DOMAIN CharBytes)
    PROVE  QueryBytes(text) \in Name
<1>. DEFINE n == Len(text)
            Function(g) == g = [k \in 0 .. n |-> IF k = 0 THEN <<>>
                                                 ELSE g[k - 1] \o CharBytes[text[k]]]
            bytes == CHOOSE g : Function(g)
            step == [k \in 1 .. n |-> [v \in Name |-> v \o CharBytes[text[k]]]]
<1>1. QueryBytes(text) = bytes[n]
  BY DEF QueryBytes
<1>2. n \in Nat /\ \A k \in 1 .. n : CharBytes[text[k]] \in Name
  <2>1. n \in Nat /\ \A k \in 1 .. n : text[k] \in DOMAIN CharBytes
    OBVIOUS
  <2>. QED  BY <2>1, CharactersAreBytes
<1>3. <<>> \in Name
  BY DEF Name
<1>4. \A k \in 1 .. n : \A v \in Name : v \o CharBytes[text[k]] \in Name
  BY <1>2, JoinedNames
<1>. HIDE DEF n
<1>5. \A k \in 1 .. n : \A v \in Name :
         step[k][v] = v \o CharBytes[text[k]] /\ step[k][v] \in Name
  BY <1>4
<1>6. \E g : Function(g)
  <2>1. PICK g : Ascent(g, n, <<>>, step) /\ \A k \in 0 .. n : g[k] \in Name
    <3>. HIDE DEF step
    <3>. QED  BY <1>2, <1>3, <1>5, AscentInto
  <2>2. g = [k \in 0 .. n |-> IF k = 0 THEN <<>> ELSE step[k][g[k - 1]]]
    BY <2>1 DEF Ascent
  <2>. HIDE DEF step
  <2>3. ASSUME NEW k \in 0 .. n, k # 0
        PROVE  step[k][g[k - 1]] = g[k - 1] \o CharBytes[text[k]]
    <3>1. k \in 1 .. n /\ k - 1 \in 0 .. n
      BY <1>2, <2>3
    <3>. QED  BY <1>5, <2>1, <3>1
  <2>4. Function(g)
    BY <2>2, <2>3
  <2>. HIDE DEF Function
  <2>. QED  BY <2>4
<1>7. Function(bytes)
  <2>. HIDE DEF Function
  <2>. QED  BY <1>6
<1>. HIDE DEF bytes
<1>8. /\ bytes[0] = <<>>
      /\ \A k \in 1 .. n : bytes[k] = bytes[k - 1] \o CharBytes[text[k]]
  <2>1. \A k \in 0 .. n : bytes[k] = IF k = 0 THEN <<>>
                                     ELSE bytes[k - 1] \o CharBytes[text[k]]
    BY <1>7
  <2>2. 0 \in 0 .. n /\ \A k \in 1 .. n : k \in 0 .. n /\ k # 0
    BY <1>2
  <2>. QED  BY <2>1, <2>2
<1>. DEFINE T == {k \in 0 .. n : bytes[k] \in Name}
<1>9. \A k \in 0 .. n : k \in T
  <2>1. 0 \in T
    BY <1>2, <1>3, <1>8
  <2>2. ASSUME NEW k \in 1 .. n, k - 1 \in T
        PROVE  k \in T
    <3>1. bytes[k] = bytes[k - 1] \o CharBytes[text[k]] /\ bytes[k - 1] \in Name
      BY <1>8, <2>2
    <3>2. bytes[k] \in Name
      BY <1>4, <3>1
    <3>. QED  BY <1>2, <3>2
  <2>. HIDE DEF T
  <2>. QED  BY <1>2, <2>1, <2>2, FromTheStart
<1>10. bytes[n] \in Name
  BY <1>2, <1>9
<1>. QED  BY <1>1, <1>10

\* The query of u is made of characters that stand for bytes.
QueryIsText(u) == View(u, QUERY) \in Seq(DOMAIN CharBytes)

LEMMA ParsedQuery ==
    ASSUME NEW u, QueryIsText(u)
    PROVE  ListOf(u) \in List
<1>1. QueryBytes(View(u, QUERY)) \in Name
  BY BytesOfQuery DEF QueryIsText
<1>. QED  BY <1>1, ParsedList DEF ListOf

-----------------------------------------------------------------------------
(* Steps on lists that are in order when their flags say so.               *)

FlagIsTrue(p) == p.list \in List /\ (p.sorted => NamesInOrder(p.list))

ListsOrdered == LinkInv /\ \A o \in Object : FlagIsTrue(params[o])

LEMMA ListWritten ==
    ASSUME NEW p, NEW o, Linked(p, o), NEW l \in List
    PROVE  /\ (p.sorted => NamesInOrder(l)) => FlagIsTrue([p EXCEPT !.list = l])
           /\ \A b : (b => NamesInOrder(l)) => FlagIsTrue([p EXCEPT !.list = l, !.sorted = b])
<1>. DEFINE m == p.made
            s == p.sorted
            w == p.owner
            q == [p EXCEPT !.list = l]
<1>1. p = [made |-> m, list |-> p.list, sorted |-> s, owner |-> w]
  BY DEF Linked, ListRecord
<1>2. q = [made |-> m, list |-> l, sorted |-> s, owner |-> w]
  <2>. HIDE DEF m, s, w
  <2>. QED  BY <1>1
<1>. HIDE DEF m, w, q
<1>3. (s => NamesInOrder(l)) => FlagIsTrue(q)
  BY <1>2 DEF FlagIsTrue
<1>4. ASSUME NEW b, b => NamesInOrder(l)
      PROVE  FlagIsTrue([q EXCEPT !.sorted = b])
  <2>1. [q EXCEPT !.sorted = b] = [made |-> m, list |-> l, sorted |-> b, owner |-> w]
    BY <1>2
  <2>. QED  BY <1>4, <2>1 DEF FlagIsTrue
<1>. QED  BY <1>3, <1>4 DEF q

LEMMA EmptyWritten ==
    ASSUME NEW p, NEW o, Linked(p, o)
    PROVE  /\ FlagIsTrue([p EXCEPT !.list = <<>>])
           /\ FlagIsTrue([p EXCEPT !.list = <<>>, !.sorted = TRUE])
BY EmptyList, ListWritten

LEMMA NewOrdered ==
    /\ FlagIsTrue(NoParams)
    /\ \A l \in List : \A b : (b => NamesInOrder(l)) => FlagIsTrue(FreeParams(l, b))
BY EmptyList DEF FlagIsTrue, NoParams, FreeParams

LEMMA TakenOrdered ==
    ASSUME NEW o, NEW p, Linked(p, o), FlagIsTrue(p), NEW to
    PROVE  FlagIsTrue(LinkedTo(p, to))
<1>1. CASE p.made
  <2>1. LinkedTo(p, to) = [made |-> p.made, list |-> p.list, sorted |-> p.sorted, owner |-> to]
    BY <1>1 DEF LinkedTo, Linked, ListRecord
  <2>. QED  BY <2>1 DEF FlagIsTrue
<1>2. CASE ~p.made
  BY <1>2 DEF LinkedTo
<1>. QED  BY <1>1, <1>2

LEMMA CopyOrdered ==
    ASSUME NEW o, NEW p, Linked(p, o), FlagIsTrue(p), NEW from, FlagIsTrue(from), NEW u, QueryIsText(u)
    PROVE  FlagIsTrue(CopiedParams(p, from, u))
<1>1. CASE ~p.made
  BY <1>1 DEF CopiedParams
<1>2. CASE p.made /\ from.made
  <2>1. FlagIsTrue([p EXCEPT !.list = from.list, !.sorted = from.sorted])
    BY ListWritten DEF FlagIsTrue
  <2>2. CopiedParams(p, from, u) = [p EXCEPT !.list = from.list, !.sorted = from.sorted]
    BY <1>2 DEF CopiedParams
  <2>. QED  BY <2>1, <2>2, Zenon
<1>3. CASE p.made /\ ~from.made
  <2>1. FlagIsTrue([p EXCEPT !.list = ListOf(u), !.sorted = FALSE])
    BY ParsedQuery, ListWritten
  <2>2. CopiedParams(p, from, u) = [p EXCEPT !.list = ListOf(u), !.sorted = FALSE]
    BY <1>3 DEF CopiedParams
  <2>. QED  BY <2>1, <2>2, Zenon
<1>. QED  BY <1>1, <1>2, <1>3

LEMMA OneOrdered ==
    ASSUME ListsOrdered, NEW o \in Object, NEW p, FlagIsTrue(p), params' = [params EXCEPT ![o] = p]
    PROVE  \A e \in Object : FlagIsTrue(params'[e])
<1>1. params'[o] = p /\ \A e \in Object : e # o => params'[e] = params[e]
  BY DEF ListsOrdered, LinkInv
<1>2. \A e \in Object : FlagIsTrue(params[e])
  BY DEF ListsOrdered
<1>. QED  BY <1>1, <1>2

LEMMA TwoOrdered ==
    ASSUME ListsOrdered, NEW o \in Object, NEW p, FlagIsTrue(p),
           NEW e \in Object, NEW q, FlagIsTrue(q), e # o,
           params' = [params EXCEPT ![o] = p, ![e] = q]
    PROVE  \A r \in Object : FlagIsTrue(params'[r])
<1>1. params'[o] = p /\ params'[e] = q
  BY DEF ListsOrdered, LinkInv
<1>2. \A r \in Object : r # o /\ r # e => params'[r] = params[r]
  BY DEF ListsOrdered, LinkInv
<1>3. \A r \in Object : FlagIsTrue(params[r])
  BY DEF ListsOrdered
<1>. QED  BY <1>1, <1>2, <1>3

LEMMA EditedOrdered ==
    ASSUME ListsOrdered, NEW o \in Object, NEW p, FlagIsTrue(p), Edited(o, p)
    PROVE  \A e \in Object : FlagIsTrue(params'[e])
<1>1. params' = [params EXCEPT ![o] = p]
  BY DEF Edited
<1>. QED  BY <1>1, OneOrdered

\* Append() leaves the flag down; set(), del() and remove() leave it as it
\* is; sort() and clear() put it up.
LEMMA EditParamsOrdered ==
    ASSUME ListsOrdered, EditParams
    PROVE  \A e \in Object : FlagIsTrue(params'[e])
<1>1. PICK o \in Object : \/ AppendParam(o) \/ SetParam(o) \/ DelParam(o)
                          \/ SortParams(o) \/ ClearParams(o) \/ ParseParams(o)
  BY DEF EditParams
<1>. DEFINE p == params[o]
<1>2. /\ Linked(p, o) /\ p.list \in List /\ (p.sorted => NamesInOrder(p.list))
      /\ FlagIsTrue(p)
  BY DEF ListsOrdered, LinkInv, FlagIsTrue
<1>3. ASSUME NEW pair \in Pairs
      PROVE  pair \in NamedPair
  BY <1>3, ParamsAssumption DEF NamedPair, Name
<1>4. ASSUME NEW pair \in Pairs
      PROVE  FlagIsTrue(Appended(p, pair))
  <2>1. Append(p.list, pair) \in List
    BY <1>2, <1>3, AppendProperties DEF List
  <2>2. FlagIsTrue([p EXCEPT !.list = Append(p.list, pair), !.sorted = FALSE])
    BY <1>2, <2>1, ListWritten
  <2>. QED  BY <2>2 DEF Appended
<1>5. CASE AppendParam(o)
  BY <1>4, <1>5, EditedOrdered DEF AppendParam
<1>6. CASE SetParam(o)
  <2>1. PICK pair \in Pairs : \/ Edited(o, [p EXCEPT !.list = SetFirst(p.list, pair)])
                              \/ Edited(o, Appended(p, pair))
    BY <1>6 DEF SetParam
  <2>2. FlagIsTrue([p EXCEPT !.list = SetFirst(p.list, pair)])
    BY <1>2, <1>3, SetInOrder, ListWritten
  <2>. QED  BY <1>4, <2>1, <2>2, EditedOrdered
<1>7. CASE DelParam(o)
  <2>1. PICK pair \in Pairs, byName \in BOOLEAN :
           Edited(o, [p EXCEPT !.list = WithoutPair(p.list, pair, byName)])
    BY <1>7 DEF DelParam
  <2>2. FlagIsTrue([p EXCEPT !.list = WithoutPair(p.list, pair, byName)])
    BY <1>2, WithoutInOrder, ListWritten
  <2>. QED  BY <2>1, <2>2, EditedOrdered
<1>8. CASE SortParams(o)
  <2>1. \/ Edited(o, p)
        \/ Edited(o, [p EXCEPT !.list = SortedList(p.list), !.sorted = TRUE])
    BY <1>8 DEF SortParams
  <2>2. FlagIsTrue([p EXCEPT !.list = SortedList(p.list), !.sorted = TRUE])
    BY <1>2, SortedInOrder, ListWritten
  <2>. QED  BY <1>2, <2>1, <2>2, EditedOrdered
<1>9. CASE ClearParams(o)
  <2>1. Edited(o, [p EXCEPT !.list = <<>>, !.sorted = TRUE])
    BY <1>9 DEF ClearParams
  <2>2. FlagIsTrue([p EXCEPT !.list = <<>>, !.sorted = TRUE])
    BY <1>2, EmptyWritten
  <2>. QED  BY <2>1, <2>2, EditedOrdered
<1>10. CASE ParseParams(o)
  <2>1. PICK text \in QueryTexts :
           Edited(o, [p EXCEPT !.list = F!FormParse(TRUE, text), !.sorted = FALSE])
    BY <1>10 DEF ParseParams
  <2>2. F!FormParse(TRUE, text) \in List
    BY ParamsAssumption, ParsedList DEF Name
  <2>3. FlagIsTrue([p EXCEPT !.list = F!FormParse(TRUE, text), !.sorted = FALSE])
    BY <1>2, <2>2, ListWritten
  <2>. QED  BY <2>1, <2>3, EditedOrdered
<1>. QED  BY <1>1, <1>5, <1>6, <1>7, <1>8, <1>9, <1>10

\* The queries that lists are parsed from are made of characters that stand
\* for bytes, as those are that the parser and update() write.
QueriesAreTexts ==
    \A o \in Owner \ stale : (o = "url" => AtRest) => QueryIsText(Obj(o))

LEMMA AssignParamsOrdered ==
    ASSUME ListsOrdered, QueriesAreTexts, AssignParams
    PROVE  \A e \in Object : FlagIsTrue(params'[e])
<1>. USE DEF Owner, Object
<1>1. ASSUME NEW o \in Object
      PROVE  /\ Linked(params[o], o) /\ FlagIsTrue(params[o]) /\ params[o].list \in List
             /\ params[o].sorted => NamesInOrder(params[o].list)
  BY DEF ListsOrdered, LinkInv, FlagIsTrue
<1>2. ASSUME NEW o \in Owner, Between, o \notin stale
      PROVE  ListOf(Obj(o)) \in List
  BY <1>2, ParsedQuery DEF QueriesAreTexts, Between, AtRest
<1>3. ASSUME NEW o \in Owner, TakeParams(o)
      PROVE  \A e \in Object : FlagIsTrue(params'[e])
  <2>. DEFINE p == [made |-> TRUE, list |-> ListOf(Obj(o)), sorted |-> FALSE, owner |-> o]
  <2>1. params' = [params EXCEPT ![o] = p] /\ Between /\ o \notin stale
    BY <1>3 DEF TakeParams
  <2>2. FlagIsTrue(p)
    BY <1>2, <2>1 DEF FlagIsTrue
  <2>. HIDE DEF p
  <2>. QED  BY <2>1, <2>2, OneOrdered
<1>4. ASSUME NEW o \in Owner, MoveToFree(o)
      PROVE  \A e \in Object : FlagIsTrue(params'[e])
  <2>. DEFINE p == ListMovedOut(o)
              q == [params[o] EXCEPT !.list = <<>>]
  <2>1. Between /\ o \notin stale
    BY <1>4 DEF MoveToFree
  <2>2. FlagIsTrue(p)
    BY <1>1, <1>2, <2>1, NewOrdered DEF ListMovedOut
  <2>3. FlagIsTrue(q)
    BY <1>1, EmptyWritten
  <2>4. params' = [params EXCEPT !["free"] = p, ![o] = q]
    BY <1>4 DEF MoveToFree, ListsOrdered, LinkInv
  <2>. HIDE DEF p, q
  <2>. QED  BY <2>2, <2>3, <2>4, TwoOrdered
<1>5. CASE MakeFree
  <2>1. PICK list \in FreeLists : Edited("free", FreeParams(list, FALSE))
    BY <1>5 DEF MakeFree
  <2>2. list \in List
    BY ParamsAssumption DEF List, NamedPair, Name
  <2>3. FlagIsTrue(FreeParams(list, FALSE))
    BY <2>2, NewOrdered
  <2>. QED  BY <2>1, <2>3, EditedOrdered
<1>6. ASSUME NEW o \in Owner, CopyToFree(o)
      PROVE  \A e \in Object : FlagIsTrue(params'[e])
  <2>1. FlagIsTrue(FreeParams(params[o].list, params[o].sorted))
    BY <1>1, NewOrdered
  <2>. QED  BY <1>6, <2>1, EditedOrdered DEF CopyToFree
<1>7. ASSUME NEW o \in Owner
      PROVE  FlagIsTrue([params[o] EXCEPT !.list = params["free"].list,
                                       !.sorted = params["free"].sorted])
  BY <1>1, ListWritten
<1>8. ASSUME NEW o \in Owner, CopyFromFree(o)
      PROVE  \A e \in Object : FlagIsTrue(params'[e])
  BY <1>7, <1>8, EditedOrdered DEF CopyFromFree
<1>9. ASSUME NEW o \in Owner, SafeAssignFromFree(o)
      PROVE  \A e \in Object : FlagIsTrue(params'[e])
  <2>. DEFINE p == [params[o] EXCEPT !.list = params["free"].list,
                                     !.sorted = params["free"].sorted]
              q == [params["free"] EXCEPT !.list = <<>>]
  <2>1. params' = [params EXCEPT ![o] = p, !["free"] = q]
    BY <1>9 DEF SafeAssignFromFree, ListsOrdered, LinkInv
  <2>2. FlagIsTrue(p) /\ FlagIsTrue(q)
    BY <1>1, <1>7, EmptyWritten
  <2>. HIDE DEF p, q
  <2>. QED  BY <2>1, <2>2, TwoOrdered
<1>. QED  BY <1>3, <1>4, <1>5, <1>6, <1>8, <1>9 DEF AssignParams

LEMMA AssignUrlsOrdered ==
    ASSUME ListsOrdered, QueriesAreTexts, AssignUrls
    PROVE  \A e \in Object : FlagIsTrue(params'[e])
<1>. USE DEF Owner, Object
<1>1. ASSUME NEW o \in Object
      PROVE  Linked(params[o], o) /\ FlagIsTrue(params[o])
  BY DEF ListsOrdered, LinkInv
<1>2. /\ FlagIsTrue(LinkedTo(params["url"], "other"))
      /\ FlagIsTrue(LinkedTo(params["other"], "url"))
  BY <1>1, TakenOrdered
<1>3. CASE params' = MoveParamsOut
  BY <1>2, <1>3, NewOrdered, TwoOrdered DEF MoveParamsOut
<1>4. CASE params' = MoveParamsIn
  BY <1>2, <1>4, NewOrdered, TwoOrdered DEF MoveParamsIn
<1>5. CASE params' = SwapParams
  BY <1>2, <1>5, TwoOrdered DEF SwapParams
<1>6. ASSUME NEW o \in Owner, Between, Other(o) \notin stale
      PROVE  FlagIsTrue(CopiedParams(params[o], params[Other(o)], Obj(Other(o))))
  <2>. DEFINE e == Other(o)
  <2>1. e \in Owner
    BY DEF Other
  <2>2. QueryIsText(Obj(e))
    BY <1>6, <2>1 DEF QueriesAreTexts, Between, AtRest
  <2>. HIDE DEF e
  <2>3. FlagIsTrue(CopiedParams(params[o], params[e], Obj(e)))
    BY <1>1, <2>1, <2>2, CopyOrdered
  <2>. QED  BY <2>3 DEF e
<1>7. ASSUME NEW o \in Owner, CopyUrl(o)
      PROVE  \A e \in Object : FlagIsTrue(params'[e])
  <2>. DEFINE p == CopiedParams(params[o], params[Other(o)], Obj(Other(o)))
  <2>1. params' = [params EXCEPT ![o] = p] /\ Between /\ Other(o) \notin stale
    BY <1>7 DEF CopyUrl, ListsOrdered, LinkInv
  <2>2. FlagIsTrue(p)
    BY <1>6, <2>1
  <2>. HIDE DEF p
  <2>. QED  BY <2>1, <2>2, OneOrdered
<1>8. CASE CopyConstruct
  <2>1. params' = [params EXCEPT !["other"] = NoParams]
    BY <1>8 DEF CopyConstruct
  <2>. QED  BY <2>1, NewOrdered, OneOrdered
<1>9. ASSUME NEW o \in Owner, SafeAssign(o)
      PROVE  \A e \in Object : FlagIsTrue(params'[e])
  <2>1. CASE ~params[o].made
    <3>1. params' = params
      BY <1>9, <2>1 DEF SafeAssign
    <3>. QED  BY <1>1, <3>1
  <2>2. CASE params[o].made
    <3>. DEFINE e == Other(o)
                p == CopiedParams(params[o], params[e], Obj(e))
                q == [params[e] EXCEPT !.list = <<>>]
    <3>1. e \in Object /\ e # o
      BY DEF Other
    <3>2. params' = [params EXCEPT ![o] = p, ![e] = q] /\ Between /\ e \notin stale
      BY <1>9, <2>2, <3>1 DEF SafeAssign, ListsOrdered, LinkInv
    <3>3. FlagIsTrue(p)
      BY <1>6, <3>2
    <3>4. FlagIsTrue(q)
      BY <1>1, <3>1, EmptyWritten
    <3>. HIDE DEF e, p, q
    <3>. QED  BY <3>1, <3>2, <3>3, <3>4, TwoOrdered
  <2>. QED  BY <2>1, <2>2
<1>. QED  BY <1>3, <1>4, <1>5, <1>7, <1>8, <1>9 DEF AssignUrls

\* While a call works on a url that was moved from, it is href().
HrefWhenStale == "url" \in stale /\ ~AtRest => op = "href"

LEMMA StepKeepsOp ==
    ASSUME Step, ~AtRest
    PROVE  op' = op
<1>1. InBlock => op' = op
  BY DEF InBlock, callVars
<1>2. CanParseReturns \/ ParseReturns \/ SetterReturns => op' = op
  BY DEF CanParseReturns, ParseReturns, SetterReturns, callVars
<1>3. ~Resume
  BY DEF Resume, AtRest
<1>. QED  BY <1>1, <1>2, <1>3, BlocksKeepCall

\* What calls do to a url that was moved from.
LEMMA CallWhenStale ==
    ASSUME HrefWhenStale, CallUrl, "url" \in stale'
    PROVE  /\ "url" \in stale /\ ~Renewed
           /\ ~AtRest' => op' = "href"
           /\ pc' = "done" /\ pc # "done" => op' \in {"clear", "href"}
<1>1. Keep
  BY DEF CallUrl, CallOnUrl, CallOnMovedFrom
<1>2. "url" \in stale /\ ~Renewed
  BY <1>1 DEF Keep
<1>3. CASE CallOnMovedFrom
  <2>1. CASE Clear
    BY <1>2, <2>1 DEF Clear, Called, Done, AtRest
  <2>2. ASSUME NEW text, SetHref(text)
        PROVE  op' = "href"
    BY <2>2 DEF SetHref, Called
  <2>. QED  BY <1>2, <1>3, <2>1, <2>2 DEF CallOnMovedFrom
<1>4. CASE Step /\ ~AtRest
  BY <1>2, <1>4, StepKeepsOp DEF HrefWhenStale
<1>5. CASE Step /\ AtRest
  <2>1. pc' = "idle"
    BY <1>5, ResumedFromRest DEF Resume
  <2>. QED  BY <1>2, <2>1 DEF AtRest
<1>. QED  BY <1>2, <1>3, <1>4, <1>5 DEF CallUrl, CallOnUrl

LEMMA RestsBetween ==
    ASSUME EditParams \/ AssignParams \/ AssignUrls
    PROVE  pc' = "idle"
<1>1. ASSUME NEW o, NEW u, SetObj(o, u), pc = "idle"
      PROVE  pc' = "idle"
  BY <1>1 DEF SetObj, Assign, vars
<1>2. ASSUME NEW o, NEW p, Edited(o, p), pc = "idle"
      PROVE  pc' = "idle"
  BY <1>1, <1>2 DEF Edited, vars
<1>3. EditParams => pc' = "idle"
  BY <1>2
  DEF EditParams, AppendParam, SetParam, DelParam, SortParams, ClearParams, ParseParams, MayEdit,
      Between
<1>4. ASSUME NEW o, TakeParams(o) \/ MoveToFree(o) \/ SafeAssignFromFree(o)
      PROVE  pc' = "idle"
  BY <1>1, <1>4
  DEF TakeParams, MoveToFree, SafeAssignFromFree, MayEdit, Between, allVars, vars
<1>5. AssignParams => pc' = "idle"
  BY <1>2, <1>4 DEF AssignParams, MakeFree, CopyToFree, CopyFromFree, MayEdit, Between
<1>6. AssignUrls => pc' = "idle"
  BY <1>1
  DEF AssignUrls, MoveOut, MoveIn, Swap, CopyUrl, CopyConstruct, SafeAssign, Assign, Between
<1>. QED  BY <1>3, <1>5, <1>6

LEMMA HrefWhenStaleNext ==
    ASSUME HrefWhenStale, [ParamsNext]_paramsVars
    PROVE  HrefWhenStale'
<1>1. CASE UNCHANGED paramsVars
  BY <1>1 DEF paramsVars, allVars, moveVars, vars, callVars, HrefWhenStale, AtRest
<1>2. CASE CallUrl
  BY <1>2, CallWhenStale DEF HrefWhenStale
<1>3. CASE EditParams \/ AssignParams \/ AssignUrls
  BY <1>3, RestsBetween DEF HrefWhenStale, AtRest
<1>. QED  BY <1>1, <1>2, <1>3 DEF ParamsNext

\* A call that has parsed a query leaves the flag of the list down.
LEMMA CallOrdered ==
    ASSUME ListsOrdered, HrefWhenStale, QueriesAreTexts', CallUrl
    PROVE  \A e \in Object : FlagIsTrue(params'[e])
<1>. USE DEF Owner, Object
<1>. DEFINE p == params["url"]
            parsed == /\ pc' = "done" /\ pc # "done"
                      /\ op' = "search" \/ (res' = "ok" /\ op' \in {"parse", "reparse", "href"})
<1>1. params' = [params EXCEPT !["url"] = Carried(p)]
  BY DEF CallUrl, ParamsFollow, ListsOrdered, LinkInv
<1>2. Linked(p, "url") /\ FlagIsTrue(p)
  BY DEF ListsOrdered, LinkInv
<1>3. Carried(p) \in {Cleared(p), NoParams, p} \/ (parsed /\ Carried(p) = Parsed(p, url'))
  BY DEF Carried
<1>4. FlagIsTrue(Cleared(p))
  <2>1. FlagIsTrue([p EXCEPT !.list = <<>>, !.sorted = TRUE])
    BY <1>2, EmptyWritten
  <2>. QED  BY <1>2, <2>1 DEF Cleared
<1>5. ASSUME parsed
      PROVE  FlagIsTrue(Parsed(p, url'))
  <2>1. "url" \notin stale'
    <3>1. SUFFICES ASSUME "url" \in stale' PROVE FALSE
      OBVIOUS
    <3>2. ~Renewed /\ op' \in {"clear", "href"}
      BY <1>5, <3>1, CallWhenStale
    <3>. QED  BY <1>5, <3>2 DEF Renewed
  <2>2. AtRest'
    BY <1>5 DEF AtRest
  <2>3. QueryIsText(url')
    BY <2>1, <2>2 DEF QueriesAreTexts, Obj, QueryIsText
  <2>4. FlagIsTrue([p EXCEPT !.list = ListOf(url'), !.sorted = FALSE])
    BY <1>2, <2>3, ParsedQuery, ListWritten
  <2>. QED  BY <1>2, <2>4 DEF Parsed
<1>6. FlagIsTrue(Carried(p))
  BY <1>2, <1>3, <1>4, <1>5, NewOrdered
<1>. QED  BY <1>1, <1>6, OneOrdered

LEMMA OrderedInit == ParamsInit => ListsOrdered
<1>. SUFFICES ASSUME ParamsInit
              PROVE  ListsOrdered
  OBVIOUS
<1>1. FlagIsTrue(NoParams) /\ FlagIsTrue(FreeParams(<<>>, FALSE))
  BY NewOrdered, EmptyList
<1>2. params = [o \in Object |-> IF o = "free" THEN FreeParams(<<>>, FALSE) ELSE NoParams]
  BY DEF ParamsInit
<1>. QED  BY <1>1, <1>2, LinkInit DEF ListsOrdered

LEMMA OrderedNext ==
    ASSUME ListsOrdered, HrefWhenStale, QueriesAreTexts, QueriesAreTexts',
           [ParamsNext]_paramsVars
    PROVE  ListsOrdered'
<1>1. LinkInv'
  BY LinkNext DEF ListsOrdered
<1>2. CASE UNCHANGED paramsVars
  BY <1>1, <1>2 DEF paramsVars, ListsOrdered, FlagIsTrue, NamesInOrder, List
<1>3. \A o \in Object : FlagIsTrue(params'[o]) => FlagIsTrue(params[o])'
  BY DEF FlagIsTrue, NamesInOrder, List, Less
<1>4. CASE ParamsNext
  BY <1>1, <1>4, <1>3, EditParamsOrdered, AssignParamsOrdered, AssignUrlsOrdered, CallOrdered
  DEF ParamsNext, ListsOrdered
<1>. QED  BY <1>2, <1>4

\* However lists are appended to, set, thinned, sorted, cleared, parsed,
\* copied, moved and carried by the calls of their urls: a list that is marked
\* as sorted is in the order of its names, so that sort() may skip it.  It
\* rests on the order itself: compare_by_code_units is a strict order on all
\* byte strings, also on those that are no UTF-8, so that an insertion at the
\* first greater name keeps the order of all pairs.
THEOREM SortedFlagsAreTrue == ParamsSpec /\ []QueriesAreTexts => []SortedFlagIsTrue
<1>1. ParamsInit => ListsOrdered /\ HrefWhenStale
  BY OrderedInit DEF ParamsInit, MoveInit, HrefWhenStale
<1>2. ListsOrdered /\ HrefWhenStale /\ QueriesAreTexts /\ QueriesAreTexts'
        /\ [ParamsNext]_paramsVars => ListsOrdered' /\ HrefWhenStale'
  BY OrderedNext, HrefWhenStaleNext
<1>3. ListsOrdered => SortedFlagIsTrue
  BY DEF ListsOrdered, FlagIsTrue, NamesInOrder, SortedFlagIsTrue
<1>. QED  BY <1>1, <1>2, <1>3, PTL DEF ParamsSpec
=============================================================================
