--------------------------- MODULE BufferTheorems ---------------------------
(***************************************************************************)
(* simple_buffer keeps BufferInv and implements BufferText, for every      *)
(* capacity, limit and piece.  Callers may do a little more here than Next *)
(* lets them, so that conversions are covered too.                         *)
(***************************************************************************)
EXTENDS Idna, SequenceTheorems, TLAPS

\* What lemmas about steps say of writes and appends of any piece.
AtOnceStep == UNCHANGED <<fixed, capacity, onHeap, heap, control>>

AnyNext ==
    \/ \E piece \in Seq(Value) : CallAppend(piece)
    \/ \E n \in 0 .. MaxSize : CallReserve(n) \/ CallResize(n)
    \/ PopBack /\ AtOnceStep
    \/ ClearBuffer /\ AtOnceStep
    \/ \E piece \in Seq(Value) : Write(piece) /\ AtOnceStep
    \/ Step

LEMMA NextIsAny == Next => AnyNext
BY BufferAssumption DEF Next, Calls, Instant, AnyNext, AtOnceStep

-----------------------------------------------------------------------------
(* The invariant.                                                          *)

LEMMA InitKeepsInv == Init => BufferInv
<1> SUFFICES ASSUME Init PROVE BufferInv
  OBVIOUS
<1>1. TypeOK
  BY BufferAssumption DEF Init, TypeOK, Cell, Ended
<1>2. CopiesFit /\ HeapIsOwned /\ GrowInv
  BY DEF Init, CopiesFit, HeapIsOwned, GrowInv, Ended
<1> QED
  BY <1>1, <1>2 DEF BufferInv

\* A piece that is copied leaves a block of the same cells.
LEMMA CopiedType ==
    ASSUME NEW cap \in Nat, NEW c \in [1 .. cap -> Cell], NEW n \in Nat, NEW piece \in Seq(Value)
    PROVE  Copied(c, n, piece) \in [1 .. cap -> Cell]
<1> SUFFICES ASSUME NEW i \in 1 .. cap, i > n, i =< n + Len(piece)
             PROVE  piece[i - n] \in Cell
  BY DEF Copied, Cell
<1>1. i - n \in 1 .. Len(piece)
  OBVIOUS
<1>2. piece[i - n] \in Value
  BY <1>1
<1> QED
  BY <1>2 DEF Cell

LEMMA MovedType ==
    ASSUME NEW cap \in Nat, NEW c \in [1 .. cap -> Cell], NEW n \in 0 .. cap, NEW new \in Nat
    PROVE  Moved(c, n, new) \in [1 .. new -> Cell]
BY DEF Moved, Cell

LEMMA BeginKeepsInv ==
    ASSUME BufferInv, NEW piece \in Seq(Value), NEW n \in 0 .. MaxSize,
           CallAppend(piece) \/ CallReserve(n) \/ CallResize(n)
    PROVE  BufferInv'
<1> USE DEF CallAppend, CallReserve, CallResize, Begin, storage, Ended
<1>1. TypeOK'
  <2>1. <<>> \in Seq(Value) /\ 0 \in 0 .. MaxSize
    BY BufferAssumption
  <2> QED
    BY <2>1 DEF BufferInv, TypeOK
<1>2. CopiesFit' /\ HeapIsOwned'
  BY DEF BufferInv, CopiesFit, HeapIsOwned
<1>3. GrowInv'
  BY DEF GrowInv
<1> QED
  BY <1>1, <1>2, <1>3 DEF BufferInv

LEMMA AtOnceKeepsInv ==
    ASSUME BufferInv, AtOnceStep,
           PopBack \/ ClearBuffer \/ \E piece \in Seq(Value) : Write(piece)
    PROVE  BufferInv'
<1> USE DEF AtOnceStep, control, AtOnce
<1>1. call \in Ended /\ pc = "idle"
  BY DEF BufferInv, GrowInv, PopBack, ClearBuffer, Write
<1>2. cells' \in [1 .. capacity -> Cell] /\ size' \in 0 .. capacity
  <2>1. CASE PopBack
    BY <2>1 DEF PopBack, BufferInv, TypeOK
  <2>2. CASE ClearBuffer
    BY <2>2 DEF ClearBuffer, BufferInv, TypeOK
  <2>3. CASE \E piece \in Seq(Value) : Write(piece)
    <3> PICK piece \in Seq(Value) : Write(piece)
      BY <2>3
    <3>1. capacity \in Nat /\ cells \in [1 .. capacity -> Cell] /\ 0 \in Nat
      BY DEF BufferInv, TypeOK
    <3>2. Copied(cells, 0, piece) \in [1 .. capacity -> Cell]
      BY ONLY <3>1, CopiedType, piece \in Seq(Value)
    <3> QED
      BY <3>2 DEF Write, BufferInv, TypeOK
  <2> QED
    BY <2>1, <2>2, <2>3
<1>3. TypeOK'
  BY <1>2 DEF BufferInv, TypeOK
<1>4. CopiesFit' /\ HeapIsOwned' /\ GrowInv'
  BY <1>1 DEF BufferInv, CopiesFit, HeapIsOwned, GrowInv, Ended
<1> QED
  BY <1>3, <1>4 DEF BufferInv

\* What throws, and what ends, leaves the storage as it was.
LEMMA ThrowKeepsInv ==
    ASSUME BufferInv, NEW what \in Ended, Throw(what)
    PROVE  BufferInv'
<1> USE DEF Throw, Return, storage
<1>1. TypeOK'
  <2>1. <<>> \in Seq(Value) /\ 0 \in 0 .. MaxSize
    BY BufferAssumption
  <2> QED
    BY <2>1 DEF BufferInv, TypeOK
<1>2. CopiesFit' /\ HeapIsOwned' /\ GrowInv'
  BY DEF BufferInv, CopiesFit, HeapIsOwned, GrowInv, Ended
<1> QED
  BY <1>1, <1>2 DEF BufferInv

LEMMA AddSizesKeepsInv ==
    ASSUME BufferInv, AddSizes PROVE BufferInv'
<1>1. CASE MaxSize - size < Len(todo)
  BY <1>1, ThrowKeepsInv DEF AddSizes, Ended
<1>2. CASE ~(MaxSize - size < Len(todo))
  <2> USE DEF AddSizes, storage
  <2>1. /\ size + Len(todo) \in 0 .. MaxSize
        /\ minCap' = size + Len(todo)
        /\ UNCHANGED <<storage, call, todo>>
        /\ IF Fits(size + Len(todo)) THEN pc' = "finish" /\ newCap' = 0
                                     ELSE pc' = "grow" /\ newCap' = FirstCapacity
    BY <1>2, BufferAssumption DEF BufferInv, TypeOK
  <2>2. FirstCapacity \in 1 .. MaxSize /\ capacity =< FirstCapacity
        /\ (FirstCapacity = capacity \/ 2 * FirstCapacity =< MaxSize)
    BY BufferAssumption DEF FirstCapacity, BufferInv, TypeOK
  <2>3. call = "append"
    BY DEF BufferInv, GrowInv
  <2>4. TypeOK'
    BY <2>1, <2>2, BufferAssumption DEF BufferInv, TypeOK
  <2>5. CopiesFit' /\ HeapIsOwned'
    BY <2>1 DEF BufferInv, CopiesFit, HeapIsOwned, Fits
  <2>6. GrowInv'
    BY <2>1, <2>2, <2>3 DEF BufferInv, TypeOK, GrowInv, Ended, Fits
  <2> QED
    BY <2>4, <2>5, <2>6 DEF BufferInv
<1> QED
  BY <1>1, <1>2

LEMMA GrowKeepsInv ==
    ASSUME BufferInv, Grow PROVE BufferInv'
<1>1. CASE newCap > MaxSize \div 2
  BY <1>1, ThrowKeepsInv DEF Grow, Ended
<1>2. CASE ~(newCap > MaxSize \div 2)
  <2> USE DEF Grow, storage
  <2>1. newCap \in Nat /\ 2 * newCap =< MaxSize
    BY <1>2, BufferAssumption DEF BufferInv, TypeOK
  <2>2. /\ newCap' = newCap * 2 /\ UNCHANGED <<storage, call, todo, minCap>>
        /\ pc' = IF newCap * 2 < minCap THEN "grow" ELSE "reserve"
    BY <1>2
  <2>3. TypeOK'
    BY <2>1, <2>2, BufferAssumption DEF BufferInv, TypeOK
  <2>4. CopiesFit' /\ HeapIsOwned'
    BY <2>2 DEF BufferInv, CopiesFit, HeapIsOwned
  <2>5. GrowInv'
    BY <2>1, <2>2 DEF BufferInv, TypeOK, GrowInv, Ended
  <2> QED
    BY <2>3, <2>4, <2>5 DEF BufferInv
<1> QED
  BY <1>1, <1>2

LEMMA ReserveKeepsInv ==
    ASSUME BufferInv, Reserve PROVE BufferInv'
<1>1. CASE Throw("bad_alloc")
  BY <1>1, ThrowKeepsInv DEF Ended
<1>2. CASE newCap > capacity /\ Allocate
  <2> USE DEF Allocate
  <2>1. Moved(cells, size, newCap) \in [1 .. newCap -> Cell]
    BY MovedType, BufferAssumption DEF BufferInv, TypeOK
  <2>2. TypeOK'
    BY <1>2, <2>1, BufferAssumption DEF BufferInv, TypeOK
  <2>3. CopiesFit' /\ GrowInv'
    BY <1>2 DEF BufferInv, CopiesFit, GrowInv, Ended, Reserve
  <2>4. HeapIsOwned'
    BY <1>2 DEF BufferInv, HeapIsOwned, Freed
  <2> QED
    BY <2>2, <2>3, <2>4 DEF BufferInv
<1>3. CASE ~(newCap > capacity) /\ pc' = "finish" /\ newCap' = 0
           /\ UNCHANGED <<storage, call, todo, minCap>>
  <2>1. TypeOK'
    BY <1>3, BufferAssumption DEF BufferInv, TypeOK, storage
  <2>2. CopiesFit' /\ HeapIsOwned' /\ GrowInv'
    BY <1>3 DEF BufferInv, TypeOK, CopiesFit, HeapIsOwned, GrowInv, Ended, Reserve, storage
  <2> QED
    BY <2>1, <2>2 DEF BufferInv
<1> QED
  BY <1>1, <1>2, <1>3 DEF Reserve

LEMMA FinishKeepsInv ==
    ASSUME BufferInv, Finish PROVE BufferInv'
<1> USE DEF Finish, Return
<1>1. call \in {"append", "reserve", "resize"} /\ minCap =< capacity
  BY DEF BufferInv, TypeOK, GrowInv, CopiesFit
<1>2. Copied(cells, size, todo) \in [1 .. capacity -> Cell]
  <2>1. /\ capacity \in Nat /\ cells \in [1 .. capacity -> Cell]
        /\ size \in Nat /\ todo \in Seq(Value)
    BY DEF BufferInv, TypeOK
  <2> QED
    BY ONLY <2>1, CopiedType
<1>3. cells' \in [1 .. capacity -> Cell] /\ size' \in 0 .. capacity
  <2>1. /\ cells \in [1 .. capacity -> Cell] /\ size \in 0 .. capacity
        /\ minCap \in 0 .. capacity
    BY <1>1 DEF BufferInv, TypeOK
  <2>2. CASE call = "append"
    BY <1>2, <2>1, <2>2
  <2>3. CASE call = "reserve"
    BY <2>1, <2>3
  <2>4. CASE call = "resize"
    BY <2>1, <2>4
  <2> QED
    BY <1>1, <2>2, <2>3, <2>4
<1>4. TypeOK'
  <2>1. <<>> \in Seq(Value) /\ 0 \in 0 .. MaxSize
    BY BufferAssumption
  <2> QED
    BY <1>3, <2>1 DEF BufferInv, TypeOK, Ended
<1>5. CopiesFit' /\ HeapIsOwned' /\ GrowInv'
  BY DEF BufferInv, CopiesFit, HeapIsOwned, GrowInv, Ended
<1> QED
  BY <1>4, <1>5 DEF BufferInv

LEMMA AnyKeepsInv == BufferInv /\ [AnyNext]_bufferVars => BufferInv'
<1> SUFFICES ASSUME BufferInv, [AnyNext]_bufferVars PROVE BufferInv'
  OBVIOUS
<1>1. CASE UNCHANGED bufferVars
  BY <1>1 DEF bufferVars, storage, control, BufferInv, TypeOK, CopiesFit, HeapIsOwned, GrowInv
<1>2. CASE \E piece \in Seq(Value) : CallAppend(piece)
  <2>1. 0 \in 0 .. MaxSize
    BY BufferAssumption
  <2> QED
    BY <1>2, <2>1, BeginKeepsInv
<1>3. CASE \E n \in 0 .. MaxSize : CallReserve(n) \/ CallResize(n)
  <2>1. <<>> \in Seq(Value)
    OBVIOUS
  <2> QED
    BY <1>3, <2>1, BeginKeepsInv
<1>4. CASE AtOnceStep /\ (PopBack \/ ClearBuffer \/ \E piece \in Seq(Value) : Write(piece))
  BY <1>4, AtOnceKeepsInv
<1>5. CASE Step
  BY <1>5, AddSizesKeepsInv, GrowKeepsInv, ReserveKeepsInv, FinishKeepsInv DEF Step
<1> QED
  BY <1>1, <1>2, <1>3, <1>4, <1>5 DEF AnyNext

\* In every reachable state the buffer keeps its text within its block, owns
\* that block alone, and grows to what was asked for (buffer.h).
THEOREM BufferIsSafe == Spec => []BufferInv
<1>1. BufferInv /\ [Next]_bufferVars => BufferInv'
  BY NextIsAny, AnyKeepsInv
<1> QED
  BY <1>1, InitKeepsInv, PTL DEF Spec

-----------------------------------------------------------------------------
(* The refinement.                                                         *)

LEMMA TextOfIsText ==
    ASSUME NEW cap \in Nat, NEW c \in [1 .. cap -> Cell], NEW n \in 0 .. cap
    PROVE  /\ TextOf(c, n) \in Seq(Cell)
           /\ Len(TextOf(c, n)) = n
           /\ \A i \in 1 .. n : TextOf(c, n)[i] = c[i]
BY DEF TextOf

\* The storage, as the lemmas on texts want it.
LEMMA StorageType ==
    ASSUME BufferInv
    PROVE  /\ capacity \in Nat /\ cells \in [1 .. capacity -> Cell]
           /\ size \in 0 .. capacity /\ todo \in Seq(Value) /\ todo \in Seq(Cell)
<1>1. Value \subseteq Cell
  BY DEF Cell
<1> QED
  BY <1>1 DEF BufferInv, TypeOK

LEMMA BeginRefines ==
    ASSUME NEW piece \in Seq(Value), NEW n,
           CallAppend(piece) \/ CallReserve(n) \/ CallResize(n)
    PROVE  Text!Begin
<1>1. piece \in Seq(Cell) /\ <<>> \in Seq(Cell)
  BY DEF Cell
<1> QED
  BY <1>1 DEF CallAppend, CallReserve, CallResize, Begin, storage, Ended, Text!Begin, Text!Ended

LEMMA PopRefines ==
    ASSUME BufferInv, PopBack, AtOnceStep PROVE Text!Pop
<1> DEFINE t == TextOf(cells, size)
<1>1. t \in Seq(Cell) /\ Len(t) = size /\ size \in Nat /\ size > 0
  BY StorageType, TextOfIsText DEF PopBack
<1>2. t # <<>>
  BY <1>1
<1>3. TextOf(cells, size - 1) = SubSeq(t, 1, size - 1)
  BY <1>1 DEF TextOf
<1> QED
  BY <1>1, <1>2, <1>3 DEF PopBack, AtOnce, AtOnceStep, control, Ended, Text!Pop, Text!Ended

LEMMA ClearRefines ==
    ASSUME ClearBuffer, AtOnceStep PROVE Text!Clear
<1>1. TextOf(cells, 0) = <<>>
  BY DEF TextOf
<1> QED
  BY <1>1 DEF ClearBuffer, AtOnce, AtOnceStep, control, Ended, Text!Clear, Text!Ended

LEMMA WriteRefines ==
    ASSUME BufferInv, NEW piece \in Seq(Value), Write(piece), AtOnceStep PROVE Text!Write
<1>1. Copied(cells, 0, piece) \in [1 .. capacity -> Cell]
  BY StorageType, CopiedType, 0 \in Nat
<1>2. /\ TextOf(cells', size') \in Seq(Cell)
      /\ Len(TextOf(cells', size')) = Len(TextOf(cells, size))
  BY <1>1, StorageType, TextOfIsText DEF Write, AtOnce
<1> QED
  BY <1>2 DEF Write, AtOnce, AtOnceStep, control, Ended, Text!Write, Text!Ended

LEMMA BadAllocRefines ==
    ASSUME Throw("bad_alloc"), call \notin Ended PROVE Text!Fail
BY DEF Throw, Return, storage, Ended, Text!Fail, Text!Ended

\* append() throws only what BufferText allows it to.
LEMMA LengthErrorRefines ==
    ASSUME BufferInv, Throw("length_error"), call = "append", 2 * (size + Len(todo)) > MaxSize
    PROVE  Text!Fail
<1>1. Len(TextOf(cells, size)) = size
  BY StorageType, TextOfIsText
<1> QED
  BY <1>1 DEF Throw, Return, storage, Ended, Text!Fail, Text!Ended

LEMMA AddSizesRefines ==
    ASSUME BufferInv, AddSizes PROVE Text!Fail \/ UNCHANGED Text!vars
<1>1. CASE MaxSize - size < Len(todo)
  <2>1. 2 * (size + Len(todo)) > MaxSize /\ call = "append"
    BY <1>1, StorageType, BufferAssumption DEF BufferInv, TypeOK, GrowInv, AddSizes
  <2> QED
    BY <1>1, <2>1, LengthErrorRefines DEF AddSizes
<1>2. CASE ~(MaxSize - size < Len(todo))
  BY <1>2 DEF AddSizes, storage, Text!vars
<1> QED
  BY <1>1, <1>2

LEMMA GrowRefines ==
    ASSUME BufferInv, Grow PROVE Text!Fail \/ UNCHANGED Text!vars
<1>1. CASE newCap > MaxSize \div 2
  <2>1. 2 * newCap > MaxSize /\ newCap \in Nat
    BY <1>1, BufferAssumption DEF BufferInv, TypeOK
  <2>2. newCap < size + Len(todo) /\ call = "append"
    BY <2>1, BufferAssumption DEF BufferInv, TypeOK, GrowInv, Grow
  <2>3. 2 * (size + Len(todo)) > MaxSize
    BY <2>1, <2>2, StorageType, BufferAssumption
  <2> QED
    BY <1>1, <2>2, <2>3, LengthErrorRefines DEF Grow
<1>2. CASE ~(newCap > MaxSize \div 2)
  BY <1>2 DEF Grow, storage, Text!vars
<1> QED
  BY <1>1, <1>2

LEMMA ReserveRefines ==
    ASSUME BufferInv, Reserve PROVE Text!Fail \/ UNCHANGED Text!vars
<1>1. CASE Throw("bad_alloc")
  BY <1>1, BadAllocRefines DEF BufferInv, GrowInv, Reserve
<1>2. CASE newCap > capacity /\ Allocate
  <2>1. TextOf(Moved(cells, size, newCap), size) = TextOf(cells, size)
    BY <1>2, StorageType, BufferAssumption DEF BufferInv, TypeOK, TextOf, Moved
  <2> QED
    BY <1>2, <2>1 DEF Allocate, Text!vars
<1>3. CASE UNCHANGED <<storage, call, todo, minCap>>
  BY <1>3 DEF storage, Text!vars
<1> QED
  BY <1>1, <1>2, <1>3 DEF Reserve

\* The copy at the end of append() is a concatenation.
LEMMA CopiedIsConcatenation ==
    ASSUME NEW cap \in Nat, NEW c \in [1 .. cap -> Cell], NEW n \in Nat,
           NEW piece \in Seq(Cell), n + Len(piece) =< cap
    PROVE  TextOf(Copied(c, n, piece), n + Len(piece)) = TextOf(c, n) \o piece
<1> DEFINE t == TextOf(c, n)
<1> DEFINE u == [i \in 1 .. n + Len(piece) |-> IF i =< n THEN c[i] ELSE piece[i - n]]
<1>1. t \in Seq(Cell) /\ Len(t) = n /\ \A i \in 1 .. n : t[i] = c[i]
  BY TextOfIsText
<1>2. TextOf(Copied(c, n, piece), n + Len(piece)) = u
  BY DEF TextOf, Copied
<1>3. t \o piece = u
  <2>1. u \in Seq(Cell) /\ Len(u) = n + Len(piece)
    <3>1. \A i \in 1 .. n + Len(piece) : i > n => i - n \in 1 .. Len(piece)
      OBVIOUS
    <3>2. u \in [1 .. n + Len(piece) -> Cell]
      BY <3>1
    <3> QED
      BY <3>2
  <2>2. t \o piece \in Seq(Cell) /\ Len(t \o piece) = n + Len(piece)
    <3> HIDE DEF t
    <3> QED
      BY <1>1, ConcatProperties
  <2>3. \A i \in 1 .. Len(u) : u[i] = (t \o piece)[i]
    <3> SUFFICES ASSUME NEW i \in 1 .. n + Len(piece) PROVE u[i] = (t \o piece)[i]
      BY <2>1
    <3>1. u[i] = IF i =< n THEN c[i] ELSE piece[i - n]
      OBVIOUS
    <3> HIDE DEF t, u
    <3>2. (t \o piece)[i] = IF i =< Len(t) THEN t[i] ELSE piece[i - Len(t)]
      BY <1>1, ConcatProperties
    <3> QED
      BY <1>1, <3>1, <3>2
  <2> HIDE DEF t, u
  <2> QED
    BY <2>1, <2>2, <2>3, SeqEqual
<1> QED
  BY <1>2, <1>3

LEMMA FinishRefines ==
    ASSUME BufferInv, Finish PROVE Text!Add \/ Text!Reserve \/ Text!Resize
<1>1. call \in {"append", "reserve", "resize"} /\ minCap \in 0 .. capacity
  BY DEF BufferInv, TypeOK, GrowInv, CopiesFit, Finish
<1>2. call' = "ok" /\ todo' = <<>>
  BY DEF Finish, Return
<1>3. CASE call = "append"
  <2>1. minCap = size + Len(todo) /\ cells' = Copied(cells, size, todo) /\ size' = minCap
    BY <1>3 DEF BufferInv, CopiesFit, Finish
  <2>2. TextOf(cells', size') = TextOf(cells, size) \o todo
    <3>1. /\ capacity \in Nat /\ cells \in [1 .. capacity -> Cell] /\ size \in Nat
          /\ todo \in Seq(Cell) /\ size + Len(todo) =< capacity
      BY <1>1, <2>1, StorageType
    <3>2. TextOf(Copied(cells, size, todo), size + Len(todo)) = TextOf(cells, size) \o todo
      BY ONLY <3>1, CopiedIsConcatenation
    <3> QED
      BY <2>1, <3>2
  <2> QED
    BY <1>2, <1>3, <2>2 DEF Text!Add
<1>4. CASE call = "reserve"
  BY <1>2, <1>4 DEF Finish, Text!Reserve
<1>5. CASE call = "resize"
  <2>1. cells' = cells /\ size' = minCap
    BY <1>5 DEF Finish
  <2>2. /\ TextOf(cells', size') \in Seq(Cell) /\ Len(TextOf(cells', size')) = minCap
        /\ \A i \in 1 .. minCap : TextOf(cells', size')[i] = cells[i]
    BY <1>1, <2>1, StorageType, TextOfIsText
  <2>3. /\ Len(TextOf(cells, size)) = size
        /\ \A i \in 1 .. size : TextOf(cells, size)[i] = cells[i]
    BY StorageType, TextOfIsText
  <2> QED
    BY <1>2, <1>5, <2>2, <2>3 DEF Text!Resize
<1> QED
  BY <1>1, <1>3, <1>4, <1>5

LEMMA InitRefines == Init => Text!Init
BY DEF Init, Text!Init, TextOf

LEMMA AnyRefines == BufferInv /\ [AnyNext]_bufferVars => [Text!Next]_Text!vars
<1> SUFFICES ASSUME BufferInv, [AnyNext]_bufferVars PROVE [Text!Next]_Text!vars
  OBVIOUS
<1> USE DEF Text!Next
<1>1. CASE UNCHANGED bufferVars
  BY <1>1 DEF bufferVars, storage, control, Text!vars
<1>2. CASE \E piece \in Seq(Value) : CallAppend(piece)
  BY <1>2, BeginRefines
<1>3. CASE \E n \in 0 .. MaxSize : CallReserve(n) \/ CallResize(n)
  <2>1. <<>> \in Seq(Value)
    OBVIOUS
  <2> QED
    BY <1>3, <2>1, BeginRefines
<1>4. CASE PopBack /\ AtOnceStep
  BY <1>4, PopRefines
<1>5. CASE ClearBuffer /\ AtOnceStep
  BY <1>5, ClearRefines
<1>6. CASE \E piece \in Seq(Value) : Write(piece) /\ AtOnceStep
  BY <1>6, WriteRefines
<1>7. CASE Step
  BY <1>7, AddSizesRefines, GrowRefines, ReserveRefines, FinishRefines DEF Step
<1> QED
  BY <1>1, <1>2, <1>3, <1>4, <1>5, <1>6, <1>7 DEF AnyNext

\* simple_buffer implements BufferText: append() adds the whole piece or,
\* when it throws, nothing; growing is not seen (buffer.h).
THEOREM BufferImplementsText == Spec => BufferIsText
<1>1. BufferInv /\ [Next]_bufferVars => BufferInv'
  BY NextIsAny, AnyKeepsInv
<1>2. BufferInv /\ [Next]_bufferVars => [Text!Next]_Text!vars
  BY NextIsAny, AnyRefines
<1> QED
  BY <1>1, <1>2, InitKeepsInv, InitRefines, PTL DEF Spec, BufferIsText, Text!Spec

-----------------------------------------------------------------------------
(* Conversions of domains: they use the buffer as its callers may, and give *)
(* what ICU has for the domain, for every domain and every buffer.          *)

LEMMA PrefixType ==
    ASSUME NEW d \in Domain, NEW n \in 0 .. Len(d.out)
    PROVE  /\ SubSeq(d.out, 1, n) \in Seq(Value) /\ Len(SubSeq(d.out, 1, n)) = n
           /\ \A i \in 1 .. n : SubSeq(d.out, 1, n)[i] = d.out[i]
<1>1. d.out \in Seq(Value)
  BY IdnaAssumption
<1> QED
  BY <1>1, SubSeqProperties

-----------------------------------------------------------------------------
(* The invariant.                                                          *)

Running == {"icu", "resize", "resizing", "reserve", "reserving"}

\* What holds of the arguments, and of the capacity that ICU is told.
ArgumentInv ==
    /\ conv \in Running \cup {"none", "done"}
    /\ conv # "none" => domain \in Domain /\ mode \in {"ascii", "unicode"}
    /\ conv \in Running => domain.length =< Int32Max /\ capacity =< Int32Max
    /\ conv \in {"icu", "resize", "reserve"} => call \in Ended
    /\ conv \in {"resize", "resizing", "reserve", "reserving"} =>
         ~domain.failure /\ ~Refused

\* The output was written in front, and is the text next.
Written == TextOf(cells, Len(domain.out)) = domain.out

ResizeInv ==
    conv \in {"resize", "resizing"} =>
        /\ Len(domain.out) =< capacity /\ Written
        /\ conv = "resizing" =>
             \/ call = "resize" /\ minCap = Len(domain.out) /\ newCap =< capacity
             \/ call = "ok" /\ size = Len(domain.out)

ReserveInv ==
    conv = "reserving" =>
        \/ call = "reserve" /\ newCap =< Int32Max
        \/ call \in {"ok", "bad_alloc"}

DoneInv ==
    conv = "done" /\ result # "bad_alloc" =>
        /\ result = Expected(mode, domain)
        /\ result = "ok" => TextOf(cells, size) = domain.out

ConversionInv == ArgumentInv /\ ResizeInv /\ ReserveInv /\ DoneInv

IdnaInv == BufferInv /\ ConversionInv

-----------------------------------------------------------------------------
(* Conversions use the buffer as any caller.                               *)

LEMMA IcuIsAny ==
    ASSUME NEW n \in 0 .. Len(domain.out), domain \in Domain, Icu(n)
    PROVE  AnyNext
<1>1. SubSeq(domain.out, 1, n) \in Seq(Value)
  BY PrefixType
<1> QED
  BY <1>1 DEF Icu, AnyNext, AtOnceStep

LEMMA CallIcuWrites ==
    ASSUME IdnaInv, CallIcu
    PROVE  \E n \in 0 .. Len(domain.out) :
             /\ Icu(n)
             /\ ~domain.failure /\ Len(domain.out) =< capacity => n = Len(domain.out)
<1> DEFINE length == Len(domain.out)
<1>1. domain \in Domain /\ length \in Nat /\ capacity \in Nat /\ domain.failure \in BOOLEAN
  BY IdnaAssumption, StorageType DEF IdnaInv, ConversionInv, ArgumentInv, CallIcu, Running
<1>2. CASE domain.failure
  BY <1>1, <1>2 DEF CallIcu
<1>3. CASE ~domain.failure /\ length =< capacity
  BY <1>1, <1>3 DEF CallIcu
<1>4. CASE ~domain.failure /\ ~(length =< capacity)
  <2>1. PICK n \in 0 .. capacity : Icu(n)
    BY <1>4 DEF CallIcu
  <2>2. n \in 0 .. length
    BY <1>1, <1>4
  <2> QED
    BY <1>4, <2>1, <2>2
<1> QED
  BY <1>2, <1>3, <1>4

LEMMA IdnaNextIsAny == IdnaInv /\ [IdnaNext]_allVars => [AnyNext]_bufferVars
<1> SUFFICES ASSUME IdnaInv, [IdnaNext]_allVars PROVE [AnyNext]_bufferVars
  OBVIOUS
<1>1. CASE UNCHANGED allVars
  BY <1>1 DEF allVars
<1>2. CASE \E m \in {"ascii", "unicode"}, d \in Domain : Convert(m, d)
  BY <1>2 DEF Convert
<1>3. CASE CallIcu
  <2>1. domain \in Domain
    BY <1>3 DEF IdnaInv, ConversionInv, ArgumentInv, CallIcu, Running
  <2> QED
    BY <1>3, <2>1, CallIcuWrites, IcuIsAny
<1>4. CASE ResizeOutput \/ ReserveOutput
  <2>1. domain \in Domain
    BY <1>4 DEF IdnaInv, ConversionInv, ArgumentInv, ResizeOutput, ReserveOutput, Running
  <2>2. Len(domain.out) \in 0 .. MaxSize
    BY <2>1, IdnaAssumption, BufferAssumption
  <2> QED
    BY <1>4, <2>2 DEF ResizeOutput, ReserveOutput, Needed, AnyNext
<1>5. CASE ConversionStep
  BY <1>5 DEF ConversionStep, AnyNext
<1>6. CASE AfterResize \/ AfterReserve \/ IdnaClose
  BY <1>6 DEF AfterResize, AfterReserve, IdnaClose
<1>7. CASE UseBuffer
  BY <1>7, NextIsAny DEF UseBuffer
<1> QED
  BY <1>1, <1>2, <1>3, <1>4, <1>5, <1>6, <1>7 DEF IdnaNext, Conversion

-----------------------------------------------------------------------------
(* The steps of a conversion.                                              *)

LEMMA ConvertKeeps ==
    ASSUME IdnaInv, NEW m \in {"ascii", "unicode"}, NEW d \in Domain, Convert(m, d)
    PROVE  ConversionInv'
<1> USE DEF Convert, ConversionInv, Running
<1>1. call \in Ended /\ UNCHANGED <<capacity, call>>
  BY DEF bufferVars, storage, control
<1>2. CASE d.length > Int32Max
  <2>1. domain' = d /\ result' = "overflow"
    BY <1>2
  <2>2. Expected(mode', d) = "overflow"
    BY <1>2, IdnaAssumption, BufferAssumption DEF Expected
  <2>3. DoneInv'
    BY <2>1, <2>2 DEF DoneInv
  <2> QED
    BY <1>2, <2>3 DEF ArgumentInv, ResizeInv, ReserveInv
<1>3. CASE ~(d.length > Int32Max)
  <2>1. d.length =< Int32Max
    BY <1>3, IdnaAssumption, BufferAssumption
  <2> QED
    BY <1>1, <1>3, <2>1 DEF ArgumentInv, ResizeInv, ReserveInv, DoneInv
<1> QED
  BY <1>2, <1>3

\* ICU's answer, when it was an error
LEMMA IcuErrorIsExpected ==
    ASSUME IdnaInv, conv = "icu", domain.failure \/ Refused
    PROVE  IcuError = Expected(mode, domain)
<1>1. mode \in {"ascii", "unicode"} /\ domain.length =< Int32Max /\ domain \in Domain
  BY DEF IdnaInv, ConversionInv, ArgumentInv, Running
<1>2. ~(domain.length > Int32Max)
  BY <1>1, IdnaAssumption, BufferAssumption
<1> QED
  BY <1>1, <1>2 DEF IcuError, Expected, IsBad, Refused

LEMMA CallIcuKeeps ==
    ASSUME IdnaInv, CallIcu PROVE ConversionInv'
<1> USE DEF ConversionInv, Running
<1>1. conv = "icu" /\ domain \in Domain /\ call \in Ended /\ domain.length =< Int32Max
      /\ mode \in {"ascii", "unicode"} /\ capacity =< Int32Max
  BY DEF IdnaInv, ArgumentInv, CallIcu
<1>2. PICK n \in 0 .. Len(domain.out) :
        /\ Icu(n)
        /\ ~domain.failure /\ Len(domain.out) =< capacity => n = Len(domain.out)
  BY CallIcuWrites
<1>3. UNCHANGED <<capacity, call, size, domain, mode>> /\ n =< capacity
      /\ cells' = Copied(cells, 0, SubSeq(domain.out, 1, n))
  <2>1. Len(SubSeq(domain.out, 1, n)) = n
    BY <1>1, PrefixType
  <2>2. UNCHANGED <<domain, mode>>
    BY DEF CallIcu, ReturnCode, Go
  <2> QED
    BY <1>2, <2>1, <2>2 DEF Icu, Write, AtOnce, control
<1>4. CASE domain.failure \/ Refused
  <2>1. conv' = "done" /\ result' = IcuError
    BY <1>4 DEF CallIcu, ReturnCode
  <2>2. IcuError = Expected(mode, domain) /\ IcuError # "ok"
    BY <1>1, <1>4, IcuErrorIsExpected DEF IcuError
  <2>3. Expected(mode', domain') = Expected(mode, domain)
    BY <1>3
  <2> QED
    BY <1>1, <1>3, <2>1, <2>2, <2>3 DEF ArgumentInv, ResizeInv, ReserveInv, DoneInv
<1>5. CASE ~(domain.failure \/ Refused) /\ Len(domain.out) =< capacity
  <2>1. conv' = "resize" /\ n = Len(domain.out)
    BY <1>2, <1>5 DEF CallIcu, Go
  <2>2. Written'
    <3>1. /\ SubSeq(domain.out, 1, n) \in Seq(Value) /\ Len(SubSeq(domain.out, 1, n)) = n
          /\ \A i \in 1 .. n : SubSeq(domain.out, 1, n)[i] = domain.out[i]
      BY <1>1, PrefixType
    <3>2. DOMAIN cells = 1 .. capacity /\ capacity \in Nat
      BY StorageType DEF IdnaInv
    <3>3. \A i \in 1 .. n : Copied(cells, 0, SubSeq(domain.out, 1, n))[i] = domain.out[i]
      BY <1>3, <3>1, <3>2 DEF Copied
    <3>4. domain.out = [i \in 1 .. n |-> domain.out[i]]
      BY <1>1, <2>1, IdnaAssumption
    <3>5. TextOf(cells', n) = domain.out
      BY <1>3, <3>3, <3>4 DEF TextOf
    <3> QED
      BY <1>3, <2>1, <3>5 DEF Written
  <2>3. ~domain'.failure /\ ~Refused'
    BY <1>3, <1>5 DEF Refused
  <2> QED
    BY <1>1, <1>3, <1>5, <2>1, <2>2, <2>3 DEF ArgumentInv, ResizeInv, ReserveInv, DoneInv
<1>6. CASE ~(domain.failure \/ Refused) /\ ~(Len(domain.out) =< capacity)
  <2>1. conv' = "reserve"
    BY <1>6 DEF CallIcu, Go
  <2>2. ~domain'.failure /\ ~Refused'
    BY <1>3, <1>6 DEF Refused
  <2> QED
    BY <1>1, <1>3, <2>1, <2>2 DEF ArgumentInv, ResizeInv, ReserveInv, DoneInv
<1> QED
  BY <1>4, <1>5, <1>6

LEMMA ResizeOutputKeeps ==
    ASSUME IdnaInv, ResizeOutput PROVE ConversionInv'
<1> USE DEF ConversionInv, Running
<1>1. conv = "resize" /\ conv' = "resizing" /\ UNCHANGED <<cells, capacity, domain, mode, result>>
      /\ call' = "resize" /\ minCap' = Len(domain.out) /\ newCap' = Len(domain.out)
  BY DEF ResizeOutput, CallResize, Begin, Go, storage
<1>2. Refused' <=> Refused
  BY <1>1 DEF Refused
<1>3. Written' <=> Written
  BY <1>1 DEF Written
<1>4. ArgumentInv'
  BY <1>1, <1>2 DEF IdnaInv, ArgumentInv
<1>5. ResizeInv'
  BY <1>1, <1>3 DEF IdnaInv, ResizeInv
<1> QED
  BY <1>1, <1>4, <1>5 DEF ReserveInv, DoneInv

LEMMA ReserveOutputKeeps ==
    ASSUME IdnaInv, ReserveOutput PROVE ConversionInv'
<1> USE DEF ConversionInv, Running
<1>1. conv = "reserve" /\ conv' = "reserving" /\ UNCHANGED <<capacity, domain, mode, result>>
      /\ call' = "reserve" /\ newCap' = Len(domain.out)
  BY DEF ReserveOutput, Needed, CallReserve, Begin, Go, storage
<1>2. Refused' <=> Refused
  BY <1>1 DEF Refused
<1>3. ArgumentInv'
  BY <1>1, <1>2 DEF IdnaInv, ArgumentInv
<1>4. ReserveInv'
  BY <1>1, IdnaAssumption DEF IdnaInv, ArgumentInv, ReserveInv
<1> QED
  BY <1>1, <1>3, <1>4 DEF ResizeInv, DoneInv

\* Steps of the buffer within resize() and reserve()
LEMMA ConversionStepKeeps ==
    ASSUME IdnaInv, ConversionStep PROVE ConversionInv'
<1> USE DEF ConversionInv, Running
<1>1. UNCHANGED <<conv, mode, domain, result>> /\ conv \in {"resizing", "reserving"}
  BY DEF ConversionStep, idnaVars
<1>2. call \notin Ended /\ call \in {"resize", "reserve"} /\ (Reserve \/ Finish)
  <2>1. call \notin Ended
    BY DEF ConversionStep, Step, AddSizes, Grow, Reserve, Finish, IdnaInv, BufferInv, GrowInv
  <2>2. call \in {"resize", "reserve"}
    BY <1>1, <2>1 DEF IdnaInv, ResizeInv, ReserveInv, Ended
  <2> QED
    BY <2>1, <2>2 DEF ConversionStep, Step, AddSizes, Grow, IdnaInv, BufferInv, GrowInv
<1>3. Refused' <=> Refused
  BY <1>1 DEF Refused
<1>4. CASE conv = "resizing"
  <2>1. call = "resize" /\ minCap = Len(domain.out) /\ newCap =< capacity /\ Written
        /\ Len(domain.out) =< capacity
    BY <1>2, <1>4 DEF IdnaInv, ResizeInv, Ended
  <2>2. ~(newCap > capacity)
    BY <2>1, BufferAssumption DEF IdnaInv, BufferInv, TypeOK
  <2>3. CASE Reserve
    <3>1. UNCHANGED <<cells, size, capacity, call, minCap>> /\ newCap' = 0
      BY <2>2, <2>3 DEF Reserve, storage
    <3>2. Written' /\ 0 =< capacity
      BY <2>1, <1>1, <3>1 DEF Written, IdnaInv, BufferInv, TypeOK
    <3> QED
      BY <1>1, <1>3, <1>4, <2>1, <3>1, <3>2 DEF IdnaInv, ArgumentInv, ResizeInv, ReserveInv, DoneInv
  <2>4. CASE Finish
    <3>1. UNCHANGED <<cells, capacity>> /\ size' = Len(domain.out) /\ call' = "ok"
      BY <2>1, <2>4 DEF Finish, Return
    <3>2. Written'
      BY <1>1, <2>1, <3>1 DEF Written
    <3> QED
      BY <1>1, <1>3, <1>4, <2>1, <3>1, <3>2 DEF IdnaInv, ArgumentInv, ResizeInv, ReserveInv, DoneInv
  <2> QED
    BY <1>2, <2>3, <2>4
<1>5. CASE conv = "reserving"
  <2>1. call = "reserve" /\ newCap =< Int32Max /\ capacity =< Int32Max
    BY <1>2, <1>5 DEF IdnaInv, ArgumentInv, ReserveInv, Ended
  <2>2. /\ capacity' =< Int32Max
        /\ (call' = "reserve" /\ newCap' =< Int32Max) \/ call' \in {"ok", "bad_alloc"}
    <3>1. CASE Reserve
      BY <2>1, <3>1, IdnaAssumption, BufferAssumption
         DEF Reserve, Allocate, Throw, Return, storage, IdnaInv, BufferInv, TypeOK
    <3>2. CASE Finish
      BY <2>1, <3>2 DEF Finish, Return
    <3> QED
      BY <1>2, <3>1, <3>2
  <2> QED
    BY <1>1, <1>3, <1>5, <2>2 DEF IdnaInv, ArgumentInv, ResizeInv, ReserveInv, DoneInv
<1> QED
  BY <1>1, <1>4, <1>5

\* When the output is checked it is what ICU has for the domain.
LEMMA AfterResizeKeeps ==
    ASSUME IdnaInv, AfterResize PROVE ConversionInv'
<1> USE DEF ConversionInv, Running
<1>1. conv = "resizing" /\ call = "ok" /\ size = Len(domain.out) /\ TextOf(cells, size) = domain.out
  BY DEF AfterResize, IdnaInv, ResizeInv, Written, Ended
<1>2. /\ conv' = "done" /\ UNCHANGED <<mode, domain, cells, size, capacity>>
      /\ result' = IF OutputRefused THEN IcuError ELSE "ok"
  BY <1>1 DEF AfterResize, ReturnCode, bufferVars, storage
<1>3. domain \in Domain /\ mode \in {"ascii", "unicode"} /\ domain.length =< Int32Max
      /\ ~domain.failure /\ ~Refused
  BY <1>1 DEF IdnaInv, ArgumentInv
<1>4. OutputRefused <=> mode = "ascii" /\ IsBad(domain)
  <2>1. domain.out \in Seq(Value) /\ size \in Nat
    BY <1>3, IdnaAssumption, StorageType DEF IdnaInv
  <2>2. size = 0 <=> domain.out = <<>>
    BY <1>1, <2>1
  <2>3. \A i \in 1 .. size : domain.out[i] = cells[i]
    <3>1. \A i \in 1 .. size : TextOf(cells, size)[i] = cells[i]
      BY DEF TextOf
    <3> QED
      BY <1>1, <3>1
  <2> QED
    BY <1>1, <1>3, <2>2, <2>3 DEF OutputRefused, IsBad, Refused, Checked
<1>5. result' = Expected(mode, domain)
  <2>1. ~(domain.length > Int32Max)
    BY <1>3, IdnaAssumption, BufferAssumption
  <2> QED
    BY <1>2, <1>3, <1>4, <2>1 DEF Expected, IcuError
<1>6. Expected(mode', domain') = Expected(mode, domain) /\ TextOf(cells', size') = TextOf(cells, size)
  BY <1>2
<1> QED
  BY <1>1, <1>2, <1>3, <1>5, <1>6 DEF ArgumentInv, ResizeInv, ReserveInv, DoneInv

LEMMA AfterReserveKeeps ==
    ASSUME IdnaInv, AfterReserve PROVE ConversionInv'
<1> USE DEF ConversionInv, Running
<1>1. conv = "reserving" /\ call \in {"ok", "bad_alloc"} /\ UNCHANGED <<capacity, call, mode, domain>>
  BY DEF AfterReserve, Go, ReturnCode, IdnaInv, ReserveInv, Ended, bufferVars, storage, control
<1>2. conv' = "icu" \/ (conv' = "done" /\ result' = "bad_alloc")
  BY <1>1 DEF AfterReserve, Go, ReturnCode
<1> QED
  BY <1>1, <1>2 DEF AfterReserve, IdnaInv, ArgumentInv, ResizeInv, ReserveInv, DoneInv

LEMMA IdnaInitKeeps == IdnaInit => IdnaInv
<1>1. IdnaInit => BufferInv
  BY InitKeepsInv DEF IdnaInit
<1> QED
  BY <1>1 DEF IdnaInit, IdnaInv, ConversionInv, ArgumentInv, ResizeInv, ReserveInv, DoneInv, Running

LEMMA IdnaKeeps == IdnaInv /\ [IdnaNext]_allVars => IdnaInv'
<1> SUFFICES ASSUME IdnaInv, [IdnaNext]_allVars PROVE IdnaInv'
  OBVIOUS
<1>1. BufferInv'
  BY IdnaNextIsAny, AnyKeepsInv DEF IdnaInv
<1>2. ConversionInv'
  <2>1. CASE UNCHANGED allVars
    <3>1. UNCHANGED <<conv, mode, domain, result, cells, size, capacity, call, minCap, newCap>>
      BY <2>1 DEF allVars, bufferVars, storage, control, idnaVars
    <3>2. (Refused' <=> Refused) /\ (Written' <=> Written)
          /\ Expected(mode', domain') = Expected(mode, domain)
      BY <3>1 DEF Refused, Written
    <3> QED
      BY <3>1, <3>2 DEF IdnaInv, ConversionInv, ArgumentInv, ResizeInv, ReserveInv, DoneInv
  <2>2. CASE \E m \in {"ascii", "unicode"}, d \in Domain : Convert(m, d)
    BY <2>2, ConvertKeeps
  <2>3. CASE Conversion
    BY <2>3, CallIcuKeeps, ResizeOutputKeeps, ReserveOutputKeeps, ConversionStepKeeps,
       AfterResizeKeeps, AfterReserveKeeps DEF Conversion
  <2>4. CASE UseBuffer
    BY <2>4 DEF UseBuffer, ConversionInv, ArgumentInv, ResizeInv, ReserveInv, DoneInv, Running
  <2>5. CASE IdnaClose
    <3>1. UNCHANGED <<conv, mode, domain, result, cells, size, capacity, call>>
          /\ conv \in {"none", "done"}
      BY <2>5 DEF IdnaClose, bufferVars, storage, control
    <3>2. Expected(mode', domain') = Expected(mode, domain)
      BY <3>1
    <3> QED
      BY <3>1, <3>2 DEF IdnaInv, ConversionInv, ArgumentInv, ResizeInv, ReserveInv, DoneInv, Running
  <2> QED
    BY <2>1, <2>2, <2>3, <2>4, <2>5 DEF IdnaNext
<1> QED
  BY <1>1, <1>2 DEF IdnaInv

-----------------------------------------------------------------------------
(* The theorems.                                                           *)

\* The buffer stays as it must be while conversions and other callers use it
\* (buffer.h, url_idna.cpp).
THEOREM IdnaKeepsBuffer == IdnaSpec => []BufferInv
<1>1. IdnaInv => BufferInv
  BY DEF IdnaInv
<1> QED
  BY <1>1, IdnaInitKeeps, IdnaKeeps, PTL DEF IdnaSpec

\* A conversion returns the code and leaves the text that ICU has for the
\* domain, however much room there was and however often ICU was called
\* (domain_to_ascii and domain_to_unicode, url_idna.cpp).
THEOREM ConversionsAreRight == IdnaSpec => []ConversionIsRight
<1>1. IdnaInv => ConversionIsRight
  BY DEF IdnaInv, ConversionInv, ArgumentInv, DoneInv, ConversionIsRight, Running
<1> QED
  BY <1>1, IdnaInitKeeps, IdnaKeeps, PTL DEF IdnaSpec

\* Conversions and other callers together see a buffer that is a text
\* (buffer.h, url_idna.cpp).
THEOREM IdnaImplementsText == IdnaSpec => BufferIsText
<1>1. IdnaInit => Text!Init
  BY InitRefines DEF IdnaInit
<1>2. IdnaInv /\ [IdnaNext]_allVars => [Text!Next]_Text!vars
  BY IdnaNextIsAny, AnyRefines DEF IdnaInv
<1> QED
  BY <1>1, <1>2, IdnaInitKeeps, IdnaKeeps, PTL DEF IdnaSpec, BufferIsText, Text!Spec
=============================================================================
