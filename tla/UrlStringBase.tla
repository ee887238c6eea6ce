--------------------------- MODULE UrlStringBase ---------------------------
(***************************************************************************)
(* can_parse(str_url, str_base) and parse(str_url, str_base) of class url  *)
(* (include/upa/url.h), where the base is a text too.  parse() parses the  *)
(* base and then the url.  can_parse() runs the parser on both without     *)
(* writing, so that its base is an object that holds little more than a    *)
(* scheme: url_parse must not read anything else of it.                    *)
(***************************************************************************)
EXTENDS UrlCorrect

VARIABLES
    stage,     \* which of the four runs of url_parse is under way
    argBase,   \* the text of the base
    half       \* the base as for_can_parse() leaves it

stringVars == <<stage, argBase, half>>
allVars == <<vars, stringVars>>

StringInit == Init /\ stage = "none" /\ argBase = <<>> /\ half = EmptyUrl

\* Each object is a new one: a run starts from the empty url.
Run(save, text, b, isBase) == BeginParse(EmptyUrl, save, text, b, isBase)

CallWithStrings(text, baseText) ==
    /\ pc = "idle"
    /\ Called("parse_with_base", text) /\ argBase' = baseText
    /\ stage' = "can_base" /\ half' = EmptyUrl
    /\ Run(FALSE, baseText, EmptyUrl, FALSE)

\* base.for_can_parse() is over: it decides, or the url is next.
CanBaseReturns ==
    /\ pc = "return" /\ stage = "can_base"
    /\ IF res = "ok"
       THEN /\ stage' = "can" /\ half' = Validated(url) /\ can' = can
            /\ Run(FALSE, arg, Validated(url), TRUE)
       ELSE /\ stage' = "base" /\ half' = url /\ can' = res
            /\ Run(TRUE, argBase, EmptyUrl, FALSE)
    /\ UNCHANGED <<op, arg, old, argBase>>

\* can_parse() has its answer; parse() begins with its base.
CanReturns ==
    /\ pc = "return" /\ stage = "can"
    /\ stage' = "base" /\ can' = res
    /\ Run(TRUE, argBase, EmptyUrl, FALSE)
    /\ UNCHANGED <<op, arg, old, argBase, half>>

BaseReturns ==
    /\ pc = "return" /\ stage = "base"
    /\ IF res = "ok"
       THEN stage' = "parse" /\ Run(TRUE, arg, Validated(url), TRUE)
       ELSE stage' = "none" /\ Done(res, old) /\ UNCHANGED parserVars
    /\ UNCHANGED <<callVars, argBase, half>>

UrlReturns ==
    /\ stage = "parse" /\ ParseReturns
    /\ stage' = "none" /\ UNCHANGED <<argBase, half>>

\* The blocks of url_parse, and the caller that has seen the result.
ParserBlock == pc \notin {"return", "done"} /\ Step /\ UNCHANGED stringVars

Forget ==
    /\ pc = "done"
    /\ urls' = NewSerializer(EmptyUrl, TRUE)
    /\ pc' = "idle" /\ res' = "ok"
    /\ ptr' = <<>> /\ override' = FALSE
    /\ base' = EmptyUrl /\ hasBase' = FALSE
    /\ op' = "none" /\ arg' = <<>> /\ old' = EmptyUrl /\ can' = "none"
    /\ stage' = "none" /\ argBase' = <<>> /\ half' = EmptyUrl

StringStep ==
    CanBaseReturns \/ CanReturns \/ BaseReturns \/ UrlReturns \/ ParserBlock

StringNext ==
    \/ \E text \in Input["parse_with_base"], baseText \in Input["parse"] :
          CallWithStrings(text, baseText)
    \/ StringStep \/ Forget

\* The program does not stop within a call.
StringSpec == StringInit /\ [][StringNext]_allVars /\ WF_allVars(StringStep)

-----------------------------------------------------------------------------

\* can_parse() of two texts gives the answer of parse() of them, although
\* its base was never written.
CanParseStringsAgrees == Returned({"parse_with_base"}) => (can = "ok") = (res = "ok")

\* The base that for_can_parse() leaves has, before its text is complete,
\* all that url_parse looks at when it does not write: the scheme, whether
\* the path is opaque and whether the base is valid.
HalfBaseIsEnough ==
    stage = "parse" =>
        /\ IsValid(half) /\ IsValid(base)
        /\ View(half, SCHEME) = View(base, SCHEME) /\ half.inf = base.inf
        /\ HasOpaquePath(half) = HasOpaquePath(base)
=============================================================================
