------------------------------ MODULE UrlQuery ------------------------------
(***************************************************************************)
(* What url_search_params promises together with url: each of two urls has *)
(* a list of parameters, there is a list that belongs to no url, and a     *)
(* list is changed by the edits of it, by the calls that give its url a    *)
(* query, and by nothing else.  Whether a list is kept, or parsed from the *)
(* query when it is asked for, cannot be told.                             *)
(***************************************************************************)
EXTENDS Integers, Sequences, FiniteSets

CONSTANTS
    Pairs,          \* the pairs <<name, value>> that are appended and set
    Lists,          \* the lists that texts and containers stand for
    Less(_, _)      \* the order of names

VARIABLES
    lists,          \* the lists of "url", "other" and "free"
    known,          \* the objects that have one: "free", and valid urls
    call            \* the call of "url" that is in progress, or "none"

vars == <<lists, known, call>>

Objects == {"url", "other", "free"}

\* The calls that give "url" a query.
QueryCalls == {"parse", "parse_with_base", "reparse", "href", "search"}

Init == lists = [url |-> <<>>, other |-> <<>>, free |-> <<>>] /\ known = {"free"} /\ call = "none"

-----------------------------------------------------------------------------
(* Edits of a list.                                                        *)

WithoutName(l, name) == SelectSeq(l, LAMBDA p : p[1] # name)
WithoutPair(l, pair) == SelectSeq(l, LAMBDA p : p # pair)

\* The first pair of that name gets the value, later ones go.
IsSet(l, m, pair) ==
    \/ /\ \A i \in 1 .. Len(l) : l[i][1] # pair[1]
       /\ m = Append(l, pair)
    \/ \E i \in 1 .. Len(l) :
         /\ l[i][1] = pair[1]
         /\ \A j \in 1 .. i - 1 : l[j][1] # pair[1]
         /\ m = SubSeq(l, 1, i - 1) \o <<pair>>
                  \o WithoutName(SubSeq(l, i + 1, Len(l)), pair[1])

\* m has the pairs of l by name, those of one name in the order of l.
IsStableSort(l, m) ==
    /\ Len(m) = Len(l)
    /\ \E p \in [1 .. Len(l) -> 1 .. Len(l)] :
         /\ \A i \in 1 .. Len(l) : m[i] = l[p[i]]
         /\ \A i, j \in 1 .. Len(l) : i < j =>
              \/ Less(m[i][1], m[j][1])
              \/ ~Less(m[j][1], m[i][1]) /\ p[i] < p[j]

IsEdit(l, m) ==
    \/ m = <<>>
    \/ m \in Lists
    \/ \E pair \in Pairs : \/ m = Append(l, pair) \/ IsSet(l, m, pair)
                           \/ m = WithoutName(l, pair[1]) \/ m = WithoutPair(l, pair)
    \/ IsStableSort(l, m)

-----------------------------------------------------------------------------
(* Steps, from the lists l to the lists m.                                 *)

OthersAreKept(l, m, o) == \A p \in Objects \ {o} : m[p] = l[p]

Edit(l, m, o) ==
    /\ o \in known /\ known' = known
    /\ OthersAreKept(l, m, o) /\ IsEdit(l[o], m[o])

\* The list of the object "to" becomes that of the object "from".  What is
\* moved from is left without a list, or with an empty one.
KnownAs(from, to) == IF from \in known THEN known \cup {to} ELSE known \ {to}

CopyList(l, m, from, to) ==
    /\ known' = KnownAs(from, to)
    /\ m = [l EXCEPT ![to] = l[from]]

MoveList(l, m, from, to) ==
    /\ known' = (KnownAs(from, to) \ {from}) \cup {"free"}
    /\ m = [l EXCEPT ![to] = l[from], ![from] = <<>>]

Swapped(o) == CASE o = "url" -> "other" [] o = "other" -> "url" [] o = "free" -> "free"

SwapLists(l, m) ==
    /\ known' = {Swapped(o) : o \in known}
    /\ \A o \in Objects : m[o] = l[Swapped(o)]

\* Nothing is promised of the list of a url that is not valid.
TakeUnknown(l, m) == known # Objects /\ known' = known /\ OthersAreKept(l, m, "free")

Clear(l, m) ==
    /\ known' = known \ {"url"}
    /\ m = [l EXCEPT !["url"] = <<>>]

\* Calls of "url".  Only some of them may bring another list.
Begin(l, m) == call' # "none" /\ known' = known /\ m = l

Return(l, m) ==
    IF call \in QueryCalls
    THEN known' \ {"url"} = known \ {"url"} /\ OthersAreKept(l, m, "url")
    ELSE known' = known /\ m = l

Change(l, m) ==
    \/ \E o \in Objects : Edit(l, m, o)
    \/ \E from, to \in Objects : from # to /\ (CopyList(l, m, from, to) \/ MoveList(l, m, from, to))
    \/ SwapLists(l, m) \/ TakeUnknown(l, m) \/ Clear(l, m)

Next ==
    LET l == lists
        m == lists'
    IN \/ call = "none" /\ call' = "none" /\ Change(l, m)
       \/ call = "none" /\ Begin(l, m)
       \/ call # "none" /\ call' = "none" /\ Return(l, m)

Spec == Init /\ [][Next]_vars
=============================================================================
