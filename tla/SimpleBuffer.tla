---------------------------- MODULE SimpleBuffer ----------------------------
(***************************************************************************)
(* simple_buffer (include/upa/buffer.h): characters in an inline array     *)
(* until they do not fit, then in a block of the heap.  The loop of grow() *)
(* takes one step for each doubling, and every allocation may fail.        *)
(***************************************************************************)
EXTENDS Integers, Sequences

CONSTANTS
    Value,             \* characters
    Unset,             \* what a character is before it was written
    FixedCapacities,   \* the fixed_capacity of the instantiations
    MaxSize,           \* max_size() of the allocator
    kMinBufferLen,     \* 16 in the code
    Pieces             \* what callers append and write

VARIABLES
    fixed,      \* fixed_capacity of this buffer
    cells,      \* what data_ points to
    size,
    capacity,
    onHeap,     \* data_ # fixed_buffer()
    heap,       \* the capacities of the blocks that were not deallocated
    call,       \* the call in progress, or how the last one ended
    pc,         \* where it is
    todo,       \* what append() adds
    minCap,     \* the size that the text or the block is to have
    newCap      \* new_cap

storage == <<fixed, cells, size, capacity, onHeap, heap>>
control == <<call, pc, todo, minCap, newCap>>
bufferVars == <<storage, control>>

Cell == Value \cup {Unset}

\* How calls end: returning, or throwing std::length_error or std::bad_alloc.
Ended == {"none", "ok", "length_error", "bad_alloc"}

ASSUME BufferAssumption ==
    /\ MaxSize \in Nat /\ kMinBufferLen \in Nat \ {0}
    /\ 2 * kMinBufferLen =< MaxSize
    /\ FixedCapacities \subseteq 0 .. MaxSize
    /\ Pieces \subseteq Seq(Value)

-----------------------------------------------------------------------------
(* The text, and what becomes of it.                                       *)

TextOf(c, n) == [i \in 1 .. n |-> c[i]]

\* The cells of a new block, after the first n of the old ones were copied.
\* Mutant: the first one is left behind.
MovedButFirst(c, n, cap) == [i \in 1 .. cap |-> IF i \in 2 .. n THEN c[i] ELSE Unset]

Moved(c, n, cap) == [i \in 1 .. cap |-> IF i =< n THEN c[i] ELSE Unset]

\* The cells after the n-th one become the piece.
Copied(c, n, piece) ==
    [i \in DOMAIN c |-> IF i > n /\ i =< n + Len(piece) THEN piece[i - n] ELSE c[i]]

-----------------------------------------------------------------------------
(* The start of a call.                                                    *)

Begin(op, at, piece, count, cap) ==
    /\ call \in Ended
    /\ call' = op /\ pc' = at /\ todo' = piece /\ minCap' = count /\ newCap' = cap
    /\ UNCHANGED storage

\* append(), and push_back() of one character
CallAppend(piece) == Begin("append", "add_sizes", piece, 0, 0)

CallReserve(n) == Begin("reserve", "reserve", <<>>, n, n)

\* resize() reserves what it needs, without doubling.
CallResize(n) == Begin("resize", "reserve", <<>>, n, n)

-----------------------------------------------------------------------------
(* Its steps.                                                              *)

Return(how) == call' = how /\ pc' = "idle" /\ todo' = <<>> /\ minCap' = 0 /\ newCap' = 0

Throw(what) == Return(what) /\ UNCHANGED storage

\* Mutant: the characters that the buffer holds are not counted.
FitsAlone(n) == n - size =< capacity

Fits(n) == n =< capacity

\* Where the loop of grow() starts; the capacity may be 0.
\* Mutant: as if it were never 0.
CapacityAsItIs == capacity

FirstCapacity == IF capacity = 0 THEN kMinBufferLen ELSE capacity

AddSizes ==
    /\ pc = "add_sizes"
    /\ IF MaxSize - size < Len(todo) THEN Throw("length_error")
       ELSE LET new_size == size + Len(todo)
            IN /\ minCap' = new_size
               /\ IF Fits(new_size) THEN pc' = "finish" /\ newCap' = 0
                  ELSE pc' = "grow" /\ newCap' = FirstCapacity
               /\ UNCHANGED <<storage, call, todo>>

\* One round of the loop of grow()
Grow ==
    /\ pc = "grow"
    /\ IF newCap > MaxSize \div 2 THEN Throw("length_error")
       ELSE /\ newCap' = newCap * 2
            /\ pc' = IF newCap * 2 < minCap THEN "grow" ELSE "reserve"
            /\ UNCHANGED <<storage, call, todo, minCap>>

\* grow_capacity() deallocates the old block, if it is one.
Freed == IF onHeap THEN {capacity} ELSE {}

Allocate ==
    /\ capacity' = newCap /\ onHeap' = TRUE
    /\ cells' = Moved(cells, size, newCap)
    /\ heap' = (heap \ Freed) \cup {newCap}
    /\ pc' = "finish" /\ newCap' = 0
    /\ UNCHANGED <<fixed, size, call, todo, minCap>>

\* The allocation comes before every change of the buffer.
Reserve ==
    /\ pc = "reserve"
    /\ IF newCap > capacity THEN Allocate \/ Throw("bad_alloc")
       ELSE pc' = "finish" /\ newCap' = 0 /\ UNCHANGED <<storage, call, todo, minCap>>

Finish ==
    /\ pc = "finish"
    /\ Return("ok")
    /\ CASE call = "append" -> cells' = Copied(cells, size, todo) /\ size' = minCap
         [] call = "reserve" -> UNCHANGED <<cells, size>>
         [] call = "resize" -> size' = minCap /\ UNCHANGED cells
    /\ UNCHANGED <<fixed, capacity, onHeap, heap>>

Step == AddSizes \/ Grow \/ Reserve \/ Finish

-----------------------------------------------------------------------------
(* Calls that end at once.                                                 *)

AtOnce(c, n) == call \in Ended /\ cells' = c /\ size' = n

\* Callers do not call it on an empty buffer.
PopBack == size > 0 /\ AtOnce(cells, size - 1)

ClearBuffer == AtOnce(cells, 0)

\* Callers write through data(), up to the capacity.
Write(piece) == Len(piece) =< capacity /\ AtOnce(Copied(cells, 0, piece), size)

Instant ==
    /\ PopBack \/ ClearBuffer \/ (\E piece \in Pieces : Write(piece))
    /\ UNCHANGED <<fixed, capacity, onHeap, heap, control>>

-----------------------------------------------------------------------------

\* The constructors: with fixed_capacity, or with a larger initial capacity.
Init ==
    /\ fixed \in FixedCapacities
    /\ capacity \in fixed .. MaxSize
    /\ onHeap = (capacity > fixed)
    /\ heap = (IF onHeap THEN {capacity} ELSE {})
    /\ cells = [i \in 1 .. capacity |-> Unset]
    /\ size = 0
    /\ call = "none" /\ pc = "idle" /\ todo = <<>> /\ minCap = 0 /\ newCap = 0

Calls ==
    \/ \E piece \in Pieces : CallAppend(piece)
    \/ \E n \in 0 .. MaxSize : CallReserve(n) \/ CallResize(n)
    \/ Instant

Next == Calls \/ Step

Spec == Init /\ [][Next]_bufferVars /\ WF_bufferVars(Step)

-----------------------------------------------------------------------------
(* Correctness.                                                            *)

TypeOK ==
    /\ fixed \in FixedCapacities
    /\ capacity \in 0 .. MaxSize /\ size \in 0 .. capacity
    /\ cells \in [1 .. capacity -> Cell]
    /\ onHeap \in BOOLEAN
    /\ call \in Ended \cup {"append", "reserve", "resize"}
    /\ pc \in {"idle", "add_sizes", "grow", "reserve", "finish"}
    /\ todo \in Seq(Value) /\ minCap \in 0 .. MaxSize /\ newCap \in 0 .. MaxSize

\* A text and the piece that is added to it lie within the block: the copy at
\* the end of append(), and the new size of resize(), never pass its end.
CopiesFit ==
    pc = "finish" =>
        /\ minCap =< capacity
        /\ call = "append" => size + Len(todo) = minCap

\* The block that data_ points to is the only one that is allocated, with the
\* capacity that it will be deallocated with.
HeapIsOwned == heap = IF onHeap THEN {capacity} ELSE {}

\* What the loop of grow() relies on to end, and not to fail too early.
GrowInv ==
    /\ pc = "idle" <=> call \in Ended
    /\ pc \in {"add_sizes", "grow"} => call = "append"
    /\ pc = "grow" => /\ minCap = size + Len(todo) /\ capacity < minCap
                      /\ newCap > 0 /\ capacity =< newCap
                      /\ newCap < minCap \/ 2 * newCap =< MaxSize
    /\ pc = "reserve" => /\ minCap =< newCap
                         /\ call = "append" => minCap = size + Len(todo)

\* The buffer keeps its text within its block, owns that block alone, and
\* grows to what was asked for: buffer.h in all states, also within calls.
BufferInv == TypeOK /\ CopiesFit /\ HeapIsOwned /\ GrowInv

Text == INSTANCE BufferText WITH text <- TextOf(cells, size)

\* The buffer implements BufferText: append() adds the whole piece or, when
\* it throws, nothing, and never fails for a text of half of max_size();
\* growing, with its copy and its deallocation, is not seen.
BufferIsText == Text!Spec

\* Every call ends: the loop of grow() doubles something.
CallsEnd == call \notin Ended ~> call \in Ended
=============================================================================
