-------------------------------- MODULE Idna --------------------------------
(***************************************************************************)
(* domain_to_ascii and domain_to_unicode (src/url_idna.cpp): ICU is called *)
(* with the room that the output buffer has, and called again with what it *)
(* asked for.  ICU itself is external: what it makes of a domain is a      *)
(* constant, whether there is room for it is not.                          *)
(***************************************************************************)
EXTENDS SimpleBuffer

CONSTANTS
    Domain,      \* records of the length of the source, what ICU makes of it
                 \* (out), whether it reports errors for labels (errors) and
                 \* whether it fails for other reasons (failure)
    NonAscii,    \* the values that are not ASCII
    Int32Max,    \* the limit of ICU's lengths
    IcuVersion   \* icu_version_major

VARIABLES
    handle,      \* uidna_ptr: "unopened", "open" or "closed"
    conv,        \* where the conversion is, "none" when there is none
    mode,        \* "ascii" or "unicode"
    domain,      \* its argument
    result       \* its validation_errc, or the exception

idnaVars == <<handle, conv, mode, domain, result>>
allVars == <<bufferVars, idnaVars>>

ASSUME IdnaAssumption ==
    /\ Int32Max \in 0 .. MaxSize /\ IcuVersion \in Nat
    /\ \A d \in Domain :
         /\ d.length \in Nat /\ d.errors \in BOOLEAN /\ d.failure \in BOOLEAN
         /\ d.out \in Seq(Value) /\ Len(d.out) =< Int32Max

\* The values of validation_errc that conversions return on ICU's errors
IcuError == IF mode = "ascii" THEN "domain_to_ascii" ELSE "domain_to_unicode"

NoDomain == [length |-> 0, out |-> <<>>, errors |-> FALSE, failure |-> FALSE]

Go(to) == conv' = to /\ UNCHANGED <<handle, mode, domain, result>>

ReturnCode(code) == conv' = "done" /\ result' = code /\ UNCHANGED <<handle, mode, domain>>

-----------------------------------------------------------------------------

\* The checks before the loop.  get_uidna() opens the handle once.  Callers
\* give a buffer that is not too large, and do not call after idna_close().
Convert(m, d) ==
    /\ conv \in {"none", "done"} /\ call \in Ended
    /\ capacity =< Int32Max
    /\ handle # "closed"
    /\ mode' = m /\ domain' = d
    /\ IF d.length > Int32Max
       THEN conv' = "done" /\ result' = "overflow" /\ UNCHANGED handle
       ELSE conv' = "icu" /\ result' = "none" /\ handle' = "open"
    /\ UNCHANGED bufferVars

\* uidna_nameToASCII and uidna_nameToUnicodeUTF8: what they write when the
\* room is not enough is not known, except that it is within the room.
Icu(n) == Write(SubSeq(domain.out, 1, n)) /\ UNCHANGED <<fixed, capacity, onHeap, heap, control>>

\* Only the conversion to ASCII looks at the errors of labels.
Refused == mode = "ascii" /\ domain.errors

\* One round of the loop, up to what it does with the buffer
CallIcu ==
    /\ conv = "icu"
    /\ LET length == Len(domain.out)
           room == length =< capacity
       IN /\ IF domain.failure THEN Icu(0)
             ELSE IF room THEN Icu(length) ELSE \E n \in 0 .. capacity : Icu(n)
          /\ IF domain.failure \/ Refused THEN ReturnCode(IcuError)
             ELSE Go(IF room THEN "resize" ELSE "reserve")

\* output.resize(output_length)
ResizeOutput == conv = "resize" /\ CallResize(Len(domain.out)) /\ Go("resizing")

\* What is asked for when the room was not enough.
Needed == Len(domain.out)

\* output.reserve(output_length)
ReserveOutput == conv = "reserve" /\ CallReserve(Needed) /\ Go("reserving")

ConversionStep == conv \in {"resizing", "reserving"} /\ Step /\ UNCHANGED idnaVars

\* ICU before version 68 leaves some labels that are not ASCII.
\* Mutant: the check is made for newer versions.
CheckedWhenNew == IcuVersion > 67

Checked == IcuVersion < 68

\* What the output is refused for, after it was written
OutputRefused ==
    /\ mode = "ascii"
    /\ \/ size = 0
       \/ Checked /\ \E i \in 1 .. size : cells[i] \in NonAscii

AfterResize ==
    /\ conv = "resizing" /\ call \in Ended
    /\ IF call = "ok" THEN ReturnCode(IF OutputRefused THEN IcuError ELSE "ok")
       ELSE ReturnCode(call)
    /\ UNCHANGED bufferVars

AfterReserve ==
    /\ conv = "reserving" /\ call \in Ended
    /\ IF call = "ok" THEN Go("icu") ELSE ReturnCode(call)
    /\ UNCHANGED bufferVars

\* idna_close: a handle that is not open is left.
IdnaClose ==
    /\ conv \in {"none", "done"} /\ call \in Ended
    /\ handle' = IF handle = "open" THEN "closed" ELSE handle
    /\ UNCHANGED <<bufferVars, conv, mode, domain, result>>

-----------------------------------------------------------------------------

IdnaInit ==
    /\ Init
    /\ handle = "unopened" /\ conv = "none"
    /\ mode = "ascii" /\ domain = NoDomain /\ result = "none"

\* Other uses of the buffer, between conversions
UseBuffer ==
    /\ conv \in {"none", "done"}
    /\ Next
    /\ conv' = "none" /\ mode' = "ascii" /\ domain' = NoDomain /\ result' = "none"
    /\ UNCHANGED handle

Conversion ==
    \/ CallIcu \/ ResizeOutput \/ ReserveOutput
    \/ ConversionStep \/ AfterResize \/ AfterReserve

IdnaNext ==
    \/ \E m \in {"ascii", "unicode"}, d \in Domain : Convert(m, d)
    \/ Conversion \/ UseBuffer \/ IdnaClose

\* The program does not stop within a call.
InCall == (conv = "none" /\ Step /\ UNCHANGED idnaVars) \/ Conversion

IdnaSpec == IdnaInit /\ [][IdnaNext]_allVars /\ WF_allVars(InCall)

-----------------------------------------------------------------------------
(* Correctness.                                                            *)

\* What a conversion of d must give, however much room there was.
IsBad(d) == \/ d.failure \/ d.errors \/ d.out = <<>>
            \/ IcuVersion < 68 /\ \E i \in 1 .. Len(d.out) : d.out[i] \in NonAscii

Expected(m, d) ==
    CASE d.length > Int32Max -> "overflow"
      [] d.length =< Int32Max /\ m = "ascii" -> IF IsBad(d) THEN "domain_to_ascii" ELSE "ok"
      [] d.length =< Int32Max /\ m = "unicode" -> IF d.failure THEN "domain_to_unicode" ELSE "ok"

\* A conversion returns the code, and leaves the text, that ICU has for the
\* domain, whatever the buffer held and however often ICU was called; only
\* an allocation that failed may end it otherwise.  The capacity that ICU is
\* told is a 32-bit number.
ConversionIsRight ==
    /\ conv = "icu" => capacity =< Int32Max
    /\ conv = "done" /\ result # "bad_alloc" =>
         /\ result = Expected(mode, domain)
         /\ result = "ok" => TextOf(cells, size) = domain.out

\* Every conversion ends: the room that was asked for is enough; and so does
\* every call of the buffer, also from a capacity of 0, which doubling keeps.
ConversionsEnd == CallsEnd /\ (conv \notin {"none", "done"} ~> conv = "done")
=============================================================================
