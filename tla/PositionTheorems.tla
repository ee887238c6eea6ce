------------------------- MODULE PositionTheorems --------------------------
(***************************************************************************)
(* Searches for a first or last position, and functions that are defined   *)
(* recursively on positions: that there is such a function, and that what  *)
(* each step keeps holds at every position.                                *)
(***************************************************************************)
EXTENDS Integers, Sequences, SequenceTheorems, WellFoundedInduction, TLAPS

\* A set of natural numbers that is not empty has a smallest element.
LEMMA Smallest ==
    ASSUME NEW T, T \subseteq Nat, T # {}
    PROVE  \E i \in T : \A j \in T : i =< j
<1>. DEFINE R == OpToRel(<, Nat)
<1>1. \A i, j \in Nat : j < i => <<j, i>> \in R
  BY DEF OpToRel
<1>2. IsWellFoundedOn(R, Nat)
  BY NatLessThanWellFounded
<1>. HIDE DEF R
<1>3. PICK i \in T : \A j \in T : <<j, i>> \notin R
  BY <1>2, WFMin
<1>4. \A j \in T : i =< j
  <2>1. SUFFICES ASSUME NEW j \in T, ~(i =< j) PROVE FALSE
    OBVIOUS
  <2>2. i \in Nat /\ j \in Nat
    OBVIOUS
  <2>3. j < i
    BY <2>1, <2>2
  <2>. QED  BY <1>1, <1>3, <2>2, <2>3
<1>. QED  BY <1>4

\* A bounded one has a largest element.
LEMMA Largest ==
    ASSUME NEW n \in Nat, NEW T, T \subseteq 1 .. n, T # {}
    PROVE  \E i \in T : \A j \in T : j =< i
<1>. DEFINE U == {n - i : i \in T}
<1>1. \A i \in T : i \in 1 .. n /\ n - i \in Nat /\ n - i \in U
  OBVIOUS
<1>2. U \subseteq Nat /\ U # {}
  BY <1>1
<1>3. \E m \in U : \A k \in U : m =< k
  <2>. HIDE DEF U
  <2>. QED  BY <1>2, Smallest
<1>4. PICK i \in T : \A k \in U : n - i =< k
  BY <1>3
<1>5. \A j \in T : n - i =< n - j
  BY <1>1, <1>4
<1>. QED  BY <1>1, <1>5

-----------------------------------------------------------------------------
(* Functions that are defined from a later position.                       *)

\* What holds of a position when it holds of all later ones, holds of all.
LEMMA FromTheEnd ==
    ASSUME NEW n \in Nat, NEW T,
           \A i \in 1 .. n : (\A j \in i + 1 .. n : j \in T) => i \in T
    PROVE  \A i \in 1 .. n : i \in T
<1>. DEFINE missing == {i \in 1 .. n : i \notin T}
<1>1. missing = {}
  <2>1. SUFFICES ASSUME missing # {} PROVE FALSE
    OBVIOUS
  <2>2. missing \subseteq 1 .. n
    OBVIOUS
  <2>3. PICK i \in missing : \A j \in missing : j =< i
    <3>. HIDE DEF missing
    <3>. QED  BY <2>1, <2>2, Largest
  <2>4. i \in 1 .. n /\ i \notin T
    OBVIOUS
  <2>5. \A j \in i + 1 .. n : j \in 1 .. n /\ ~(j =< i)
    BY <2>4
  <2>6. \A j \in i + 1 .. n : j \in T
    BY <2>3, <2>5
  <2>. QED  BY <2>4, <2>6
<1>. QED  BY <1>1

\* The value at a position is known, or is made of that at a later one.
DescentAt(g, i, known, value, next, step) ==
    IF i \in known THEN value[i] ELSE step[i][g[next[i]]]

Descent(g, n, known, value, next, step) ==
    g = [i \in 1 .. n |-> DescentAt(g, i, known, value, next, step)]

\* There is such a function.
LEMMA DescentExists ==
    ASSUME NEW n \in Nat, NEW known, NEW value, NEW next, NEW step,
           \A i \in 1 .. n : i \notin known => next[i] \in i + 1 .. n
    PROVE  \E g : Descent(g, n, known, value, next, step)
<1>. DEFINE FromOn(g, m) ==
              g = [i \in m .. n |-> DescentAt(g, i, known, value, next, step)]
            found == {m \in 1 .. n + 1 : \E g : FromOn(g, m)}
<1>1. ASSUME NEW m \in 1 .. n + 1, \A j \in m + 1 .. n + 1 : j \in found
      PROVE  m \in found
  <2>1. CASE m = n + 1
    <3>. DEFINE none == [i \in n + 1 .. n |-> 0]
    <3>1. n + 1 .. n = {}
      OBVIOUS
    <3>2. FromOn(none, n + 1)
      BY <3>1
    <3>. QED  BY <2>1, <3>2
  <2>2. CASE m # n + 1
    <3>1. m + 1 \in m + 1 .. n + 1 /\ m \in 1 .. n
      BY <2>2
    <3>2. PICK g : FromOn(g, m + 1)
      BY <1>1, <3>1
    <3>. DEFINE h == [i \in m .. n |-> IF i = m THEN DescentAt(g, m, known, value, next, step)
                                       ELSE g[i]]
    <3>3. ASSUME NEW i \in m .. n
          PROVE  h[i] = DescentAt(h, i, known, value, next, step)
      <4>1. i \in 1 .. n
        BY <3>1
      <4>2. i \notin known => next[i] \in i + 1 .. n
        BY <4>1
      <4>3. i \notin known => next[i] \in m + 1 .. n
        BY <4>1, <4>2
      <4>4. i \notin known => h[next[i]] = g[next[i]]
        BY <4>3
      <4>5. DescentAt(h, i, known, value, next, step)
              = DescentAt(g, i, known, value, next, step)
        BY <4>4 DEF DescentAt
      <4>6. i # m => g[i] = DescentAt(g, i, known, value, next, step)
        <5>1. i # m => i \in m + 1 .. n
          BY <3>1
        <5>. QED  BY <3>2, <5>1
      <4>. QED  BY <4>5, <4>6
    <3>4. FromOn(h, m)
      BY <3>3
    <3>. QED  BY <3>4
  <2>. QED  BY <2>1, <2>2
<1>2. 1 \in found
  <2>1. n + 1 \in Nat /\ 1 \in 1 .. n + 1
    OBVIOUS
  <2>. HIDE DEF found
  <2>. QED  BY <1>1, <2>1, FromTheEnd
<1>. QED  BY <1>2 DEF Descent

\* All its values are in V.
LEMMA DescentInto ==
    ASSUME NEW n \in Nat, NEW known, NEW value, NEW next, NEW step, NEW V,
           \A i \in 1 .. n : i \in known => value[i] \in V,
           \A i \in 1 .. n : i \notin known =>
              next[i] \in i + 1 .. n /\ \A v \in V : step[i][v] \in V
    PROVE  \E g : Descent(g, n, known, value, next, step) /\ \A i \in 1 .. n : g[i] \in V
<1>1. PICK g : Descent(g, n, known, value, next, step)
  BY DescentExists
<1>2. \A i \in 1 .. n : g[i] = DescentAt(g, i, known, value, next, step)
  BY <1>1 DEF Descent
<1>. DEFINE T == {i \in 1 .. n : g[i] \in V}
<1>3. ASSUME NEW i \in 1 .. n, \A j \in i + 1 .. n : j \in T
      PROVE  i \in T
  <2>1. CASE i \in known
    BY <1>2, <2>1 DEF DescentAt
  <2>2. CASE i \notin known
    <3>1. next[i] \in i + 1 .. n /\ \A v \in V : step[i][v] \in V
      BY <2>2
    <3>2. g[next[i]] \in V
      BY <1>3, <3>1
    <3>3. g[i] = step[i][g[next[i]]]
      BY <1>2, <2>2 DEF DescentAt
    <3>. QED  BY <3>1, <3>2, <3>3
  <2>. QED  BY <2>1, <2>2
<1>4. \A i \in 1 .. n : i \in T
  <2>. HIDE DEF T
  <2>. QED  BY <1>3, FromTheEnd
<1>. QED  BY <1>1, <1>4

-----------------------------------------------------------------------------
(* Functions that are defined from an earlier position.                    *)

LEMMA FromTheStart ==
    ASSUME NEW n \in Nat, NEW T, 0 \in T, \A k \in 1 .. n : k - 1 \in T => k \in T
    PROVE  \A k \in 0 .. n : k \in T
<1>. DEFINE missing == {k \in 0 .. n : k \notin T}
<1>1. missing = {}
  <2>1. SUFFICES ASSUME missing # {} PROVE FALSE
    OBVIOUS
  <2>2. missing \subseteq Nat
    OBVIOUS
  <2>3. PICK k \in missing : \A j \in missing : k =< j
    <3>. HIDE DEF missing
    <3>. QED  BY <2>1, <2>2, Smallest
  <2>4. k \in 0 .. n /\ k \notin T
    OBVIOUS
  <2>5. k \in 1 .. n /\ k - 1 \in 0 .. n /\ ~(k =< k - 1)
    BY <2>4
  <2>6. k - 1 \in T
    BY <2>3, <2>5
  <2>. QED  BY <2>4, <2>5, <2>6
<1>. QED  BY <1>1

Ascent(g, n, first, step) ==
    g = [k \in 0 .. n |-> IF k = 0 THEN first ELSE step[k][g[k - 1]]]

LEMMA AscentExists ==
    ASSUME NEW n \in Nat, NEW first, NEW step
    PROVE  \E g : Ascent(g, n, first, step)
<1>. DEFINE found == {m \in 0 .. n : \E g : Ascent(g, m, first, step)}
<1>1. 0 \in found
  <2>. DEFINE g == [k \in 0 .. 0 |-> first]
  <2>1. \A k \in 0 .. 0 : k = 0
    OBVIOUS
  <2>2. Ascent(g, 0, first, step)
    BY <2>1 DEF Ascent
  <2>. HIDE DEF g
  <2>. QED  BY <2>2
<1>2. ASSUME NEW m \in 1 .. n, m - 1 \in found
      PROVE  m \in found
  <2>1. PICK g : Ascent(g, m - 1, first, step)
    BY <1>2
  <2>. DEFINE h == [k \in 0 .. m |-> IF k = m THEN step[m][g[m - 1]] ELSE g[k]]
  <2>2. \A k \in 0 .. m - 1 : h[k] = g[k]
    OBVIOUS
  <2>3. \A k \in 0 .. m - 1 : g[k] = IF k = 0 THEN first ELSE step[k][g[k - 1]]
    BY <2>1 DEF Ascent
  <2>4. h[m] = step[m][h[m - 1]]
    BY <2>2
  <2>. HIDE DEF h
  <2>5. ASSUME NEW k \in 0 .. m
        PROVE  h[k] = IF k = 0 THEN first ELSE step[k][h[k - 1]]
    <3>1. CASE k = m
      BY <2>4, <3>1
    <3>2. CASE k # m
      <4>1. k \in 0 .. m - 1 /\ (k # 0 => k - 1 \in 0 .. m - 1)
        BY <3>2
      <4>. QED  BY <2>2, <2>3, <4>1
    <3>. QED  BY <3>1, <3>2
  <2>6. Ascent(h, m, first, step)
    BY <2>5 DEF Ascent, h
  <2>. QED  BY <2>6
<1>3. n \in found
  <2>. HIDE DEF found
  <2>. QED  BY <1>1, <1>2, FromTheStart
<1>. QED  BY <1>3

\* in V.
LEMMA AscentInto ==
    ASSUME NEW n \in Nat, NEW V, NEW first \in V, NEW step,
           \A k \in 1 .. n : \A v \in V : step[k][v] \in V
    PROVE  \E g : Ascent(g, n, first, step) /\ \A k \in 0 .. n : g[k] \in V
<1>1. PICK g : Ascent(g, n, first, step)
  BY AscentExists
<1>2. \A k \in 0 .. n : g[k] = IF k = 0 THEN first ELSE step[k][g[k - 1]]
  BY <1>1 DEF Ascent
<1>. DEFINE T == {k \in 0 .. n : g[k] \in V}
<1>3. 0 \in T
  BY <1>2
<1>4. ASSUME NEW k \in 1 .. n, k - 1 \in T
      PROVE  k \in T
  <2>1. k \in 0 .. n /\ k # 0
    OBVIOUS
  <2>2. g[k] = step[k][g[k - 1]]
    BY <1>2, <2>1
  <2>. QED  BY <1>4, <2>1, <2>2
<1>5. \A k \in 0 .. n : k \in T
  <2>. HIDE DEF T
  <2>. QED  BY <1>3, <1>4, FromTheStart
<1>. QED  BY <1>1, <1>5

-----------------------------------------------------------------------------
(* Functions that are defined as loops.                                    *)

\* A loop that goes from state to state until it knows its result.
Loop(g, S, known, value, next) ==
    g = [x \in S |-> IF x \in known THEN value[x] ELSE g[next[x]]]

\* It gets nearer to the end with each turn.
Nearer(S, known, next, size, n) ==
    /\ \A x \in S : size[x] \in 0 .. n
    /\ \A x \in S : x \notin known => next[x] \in S /\ size[next[x]] < size[x]

\* Then it is defined.
LEMMA LoopExists ==
    ASSUME NEW S, NEW known, NEW value, NEW next, NEW size, NEW n \in Nat,
           Nearer(S, known, next, size, n)
    PROVE  \E g : Loop(g, S, known, value, next)
<1>0. /\ \A x \in S : size[x] \in 0 .. n
      /\ \A x \in S : x \notin known => next[x] \in S /\ size[next[x]] < size[x]
  BY DEF Nearer
<1>. DEFINE Upto(k) == {x \in S : size[x] =< k}
            found == {k \in 0 .. n : \E g : Loop(g, Upto(k), known, value, next)}
<1>1. 0 \in found
  <2>. DEFINE g == [x \in Upto(0) |-> value[x]]
  <2>1. \A x \in Upto(0) : x \in known
    <3>1. SUFFICES ASSUME NEW x \in S, size[x] =< 0, x \notin known PROVE FALSE
      OBVIOUS
    <3>2. size[x] \in 0 .. n /\ size[next[x]] \in 0 .. n /\ size[next[x]] < size[x]
      BY <1>0, <3>1
    <3>. QED  BY <3>1, <3>2
  <2>2. Loop(g, Upto(0), known, value, next)
    <3>. HIDE DEF Upto
    <3>. QED  BY <2>1 DEF Loop
  <2>. HIDE DEF g
  <2>. QED  BY <2>2
<1>2. ASSUME NEW k \in 1 .. n, k - 1 \in found
      PROVE  k \in found
  <2>1. PICK g : Loop(g, Upto(k - 1), known, value, next)
    BY <1>2
  <2>. DEFINE h == [x \in Upto(k) |-> IF x \in known THEN value[x] ELSE g[next[x]]]
  <2>2. \A x \in Upto(k) : x \notin known => next[x] \in Upto(k - 1)
    <3>1. SUFFICES ASSUME NEW x \in S, size[x] =< k, x \notin known
                   PROVE  next[x] \in S /\ size[next[x]] =< k - 1
      OBVIOUS
    <3>2. /\ size[x] \in 0 .. n /\ next[x] \in S
          /\ size[next[x]] \in 0 .. n /\ size[next[x]] < size[x]
      BY <1>0, <3>1
    <3>. QED  BY <3>1, <3>2
  <2>3. \A y \in Upto(k - 1) : y \in Upto(k)
    <3>1. \A y \in S : size[y] =< k - 1 => size[y] =< k
      BY <1>0
    <3>. QED  BY <3>1
  <2>. HIDE DEF Upto
  <2>4. \A y \in Upto(k - 1) : h[y] = g[y]
    <3>1. \A y \in Upto(k - 1) : g[y] = IF y \in known THEN value[y] ELSE g[next[y]]
      BY <2>1 DEF Loop
    <3>2. \A y \in Upto(k) : h[y] = IF y \in known THEN value[y] ELSE g[next[y]]
      OBVIOUS
    <3>. QED  BY <2>3, <3>1, <3>2
  <2>5. Loop(h, Upto(k), known, value, next)
    BY <2>2, <2>4 DEF Loop
  <2>. HIDE DEF h
  <2>. QED  BY <2>5
<1>3. n \in found
  <2>1. n \in 0 .. n /\ \A k \in 0 .. n : k \in found
    <3>. HIDE DEF found
    <3>. QED  BY <1>1, <1>2, FromTheStart
  <2>. QED  BY <2>1
<1>4. Upto(n) = S
  <2>1. \A x \in S : size[x] =< n
    BY <1>0
  <2>. QED  BY <2>1
<1>. QED  BY <1>3, <1>4

\* And its results are in V.
LEMMA LoopInto ==
    ASSUME NEW S, NEW known, NEW value, NEW next, NEW size, NEW n \in Nat, NEW V, NEW g,
           Nearer(S, known, next, size, n), Loop(g, S, known, value, next),
           \A x \in S : x \in known => value[x] \in V
    PROVE  \A x \in S : g[x] \in V
<1>0. /\ \A x \in S : size[x] \in 0 .. n
      /\ \A x \in S : x \notin known => next[x] \in S /\ size[next[x]] < size[x]
  BY DEF Nearer
<1>. DEFINE T == {k \in 0 .. n : \A x \in S : size[x] =< k => g[x] \in V}
<1>1. \A x \in S : g[x] = IF x \in known THEN value[x] ELSE g[next[x]]
  BY DEF Loop
<1>2. 0 \in T
  <2>1. SUFFICES ASSUME NEW x \in S, size[x] =< 0
                 PROVE  g[x] \in V
    OBVIOUS
  <2>2. x \in known
    <3>1. SUFFICES ASSUME x \notin known PROVE FALSE
      OBVIOUS
    <3>2. size[x] \in 0 .. n /\ size[next[x]] \in 0 .. n /\ size[next[x]] < size[x]
      BY <1>0, <3>1
    <3>. QED  BY <2>1, <3>2
  <2>. QED  BY <1>1, <2>2
<1>3. ASSUME NEW k \in 1 .. n, k - 1 \in T
      PROVE  k \in T
  <2>1. SUFFICES ASSUME NEW x \in S, size[x] =< k
                 PROVE  g[x] \in V
    OBVIOUS
  <2>2. CASE x \in known
    BY <1>1, <2>2
  <2>3. CASE x \notin known
    <3>1. /\ size[x] \in 0 .. n /\ next[x] \in S
          /\ size[next[x]] \in 0 .. n /\ size[next[x]] < size[x]
      BY <1>0, <2>3
    <3>2. size[next[x]] =< k - 1
      BY <2>1, <3>1
    <3>3. g[next[x]] \in V
      BY <1>3, <3>1, <3>2
    <3>. QED  BY <1>1, <2>3, <3>3
  <2>. QED  BY <2>2, <2>3
<1>4. n \in T
  <2>1. n \in 0 .. n /\ \A k \in 0 .. n : k \in T
    <3>. HIDE DEF T
    <3>. QED  BY <1>2, <1>3, FromTheStart
  <2>. QED  BY <2>1
<1>5. \A x \in S : size[x] =< n
  BY <1>0
<1>. QED  BY <1>4, <1>5
=============================================================================
