----------------------------- MODULE BufferText -----------------------------
(***************************************************************************)
(* What simple_buffer promises: it holds a text.  A call that adds to the  *)
(* text adds all of it, or fails and adds nothing; where the text is kept, *)
(* and when it is moved to a larger place, cannot be told.                 *)
(***************************************************************************)
EXTENDS Integers, Sequences

CONSTANTS
    Cell,       \* what a character of the text may be
    MaxSize     \* the longest text of which the allocator knows

VARIABLES
    text,
    call,       \* the call in progress, or how the last one ended
    todo        \* what the call in progress adds to the text

vars == <<text, call, todo>>

Ended == {"none", "ok", "length_error", "bad_alloc"}

Init == text = <<>> /\ call = "none" /\ todo = <<>>

\* append, push_back, reserve and resize may take several steps.
Begin ==
    /\ call \in Ended
    /\ call' \in {"append", "reserve", "resize"}
    /\ todo' \in Seq(Cell)
    /\ UNCHANGED text

\* A text that fills less than half of what there may be always fits.
Fail ==
    /\ call \notin Ended
    /\ \/ call' = "bad_alloc"
       \/ call = "append" /\ call' = "length_error" /\ 2 * (Len(text) + Len(todo)) > MaxSize
    /\ todo' = <<>>
    /\ UNCHANGED text

Add == call = "append" /\ call' = "ok" /\ text' = text \o todo /\ todo' = <<>>

Reserve == call = "reserve" /\ call' = "ok" /\ text' = text /\ todo' = <<>>

\* The characters that both lengths have are kept.
Resize ==
    /\ call = "resize" /\ call' = "ok" /\ todo' = <<>>
    /\ text' \in Seq(Cell)
    /\ \A i \in 1 .. Len(text) : i \in 1 .. Len(text') => text'[i] = text[i]

Pop == call \in Ended /\ text # <<>> /\ text' = SubSeq(text, 1, Len(text) - 1) /\ UNCHANGED <<call, todo>>

Clear == call \in Ended /\ text' = <<>> /\ UNCHANGED <<call, todo>>

\* Somebody writes through data().
Write ==
    /\ call \in Ended /\ UNCHANGED <<call, todo>>
    /\ text' \in Seq(Cell) /\ Len(text') = Len(text)

Next == Begin \/ Fail \/ Add \/ Reserve \/ Resize \/ Pop \/ Clear \/ Write

Spec == Init /\ [][Next]_vars
=============================================================================
