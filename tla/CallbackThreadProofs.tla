------------------------ MODULE CallbackThreadProofs ------------------------
(***************************************************************************)
(* CallbackThread never loses a wakeup, a callback or an Action, for any   *)
(* number of objects, of callbacks and of threads that cancel them.        *)
(***************************************************************************)
EXTENDS CallbackThread, NaturalsInduction, WellFoundedInduction, TLAPS

\* NoLostWakeup is not inductive by itself: schedule signals only when idle_
\* is set, so a thread that sleeps must have set it.
WakeupInv == (main = "wait" => idle) /\ NoLostWakeup

\* Every step of CallbackThread preserves WakeupInv: schedule and stop signal
\* when they must, cancel only empties the queue, and main sleeps only after
\* it has looked at both the queue and stop_.
LEMMA WakeupStep == ASSUME WakeupInv, [Next]_vars PROVE WakeupInv'
<1> USE DEF WakeupInv, NoLostWakeup
<1>1. CASE UNCHANGED vars
  BY <1>1, Zenon DEF vars
<1>2. ASSUME NEW x \in Object, Schedule(x) PROVE WakeupInv'
  BY <1>2, Zenon DEF Schedule, Signal
<1>3. ASSUME NEW x \in Object, ForeignCancel(x) PROVE WakeupInv'
  <2>1. CASE queue' = queue
    BY <1>3, <2>1, Zenon DEF ForeignCancel
  <2>2. CASE action[x] \in Range(queue)
    <3>1. queue # <<>>
      BY <2>2 DEF Range
    <3>2. QED
      BY <1>3, <3>1, Zenon DEF ForeignCancel
  <2>3. QED
    BY <1>3, <2>1, <2>2, Zenon DEF ForeignCancel
<1>4. CASE Stop
  BY <1>4, Zenon DEF Stop
<1>5. CASE TakeFirst
  BY <1>5, Zenon DEF TakeFirst, StartNext
<1>6. CASE GoIdle
  BY <1>6, Zenon DEF GoIdle
<1>7. CASE Wake
  BY <1>7, Zenon DEF Wake, StartNext
<1>8. CASE Execute
  BY <1>8, Zenon DEF Execute
<1>9. CASE Finish
  BY <1>9, Zenon DEF Finish
<1>10. QED
  BY <1>1, <1>2, <1>3, <1>4, <1>5, <1>6, <1>7, <1>8, <1>9, Zenon
  DEF Next, Main, WakeSignalled, WakeSpurious

\* While CallbackThread::main sleeps unsignalled, nothing waits for it: there
\* is no callback to execute and stop was not called.
THEOREM WakeupsAreKept == Spec => []NoLostWakeup
<1>1. Init => WakeupInv
  BY Zenon DEF Init, WakeupInv, NoLostWakeup
<1>2. WakeupInv => NoLostWakeup
  BY Zenon DEF WakeupInv
<1>3. QED
  BY <1>1, <1>2, WakeupStep, PTL DEF Spec
-----------------------------------------------------------------------------
(***************************************************************************)
(* What erasing elements of a queue leaves of it.  Without is defined by   *)
(* recursion along the queue; that the recursion has a solution, and what  *)
(* it does, follows from induction on the natural numbers.                 *)
(***************************************************************************)

\* A set of natural numbers that is not empty has a least element.
LEMMA LeastNatural ==
    ASSUME NEW S \in SUBSET Nat, S # {}
    PROVE  \E x \in S : \A y \in S : x <= y
<1> DEFINE R == {ss \in Nat \X Nat : ss[1] < ss[2]}
<1>1. IsWellFoundedOn(R, Nat)
  <2>1. OpToRel(<, Nat) = R
    BY Zenon DEF OpToRel
  <2> QED
    BY <2>1, NatLessThanWellFounded, Zenon
<1> HIDE DEF R
<1>2. PICK x \in S : \A y \in S : <<y, x>> \notin R
  BY <1>1, WFMin, Zenon
<1>3. ASSUME NEW y \in S
      PROVE  x <= y
  <2>1. <<y, x>> \notin R
    BY <1>2, Zenon
  <2>2. x \in Nat /\ y \in Nat /\ ~(y < x)
    BY <2>1, Zenon DEF R
  <2> QED
    BY <2>2
<1> QED
  BY <1>3, Zenon

\* Induction on the natural numbers, for the members of a set.
LEMMA InductiveSet ==
    ASSUME NEW T, 0 \in T, \A n \in Nat : n \in T => n + 1 \in T
    PROVE  \A n \in Nat : n \in T
<1> DEFINE S == Nat \ T
<1> SUFFICES ASSUME S # {} PROVE FALSE
  OBVIOUS
<1>1. S \in SUBSET Nat
  OBVIOUS
<1>2. PICK x \in S : \A y \in S : x <= y
  <2> HIDE DEF S
  <2> QED BY <1>1, LeastNatural, Zenon
<1>3. x \in Nat /\ x # 0
  OBVIOUS
<1>4. x - 1 \in Nat /\ ~(x <= x - 1)
  BY <1>3
<1>5. x - 1 \in T
  BY <1>2, <1>4, Zenon
<1>6. x - 1 + 1 \in T
  BY <1>4, <1>5, Zenon
<1> QED
  BY <1>6, <1>3

\* Induction along a function on 0..n, whose values lie in sets of their own.
LEMMA InductiveValues ==
    ASSUME NEW n \in Nat, NEW c, NEW S, c[0] \in S[0],
           \A i \in 1..n : c[i - 1] \in S[i - 1] => c[i] \in S[i]
    PROVE  \A i \in 0..n : c[i] \in S[i]
<1> DEFINE T == {i \in Nat : i <= n => c[i] \in S[i]}
<1>1. 0 \in T
  OBVIOUS
<1>2. ASSUME NEW i \in Nat, i \in T PROVE i + 1 \in T
  <2> SUFFICES ASSUME i + 1 <= n PROVE c[i + 1] \in S[i + 1]
    OBVIOUS
  <2>1. i + 1 \in 1..n /\ i + 1 - 1 = i /\ c[i] \in S[i]
    BY <1>2
  <2> QED
    BY <2>1
<1>3. \A i \in Nat : i \in T
  <2> HIDE DEF T
  <2> QED
    BY <1>1, <1>2, InductiveSet, Zenon
<1> QED
  BY <1>3

\* Functions that take each value of a recursion to the next.
Steps(n, S) == [1..n -> [S -> S]]

\* k follows the recursion that begins with b and goes on with g.
Follows(k, n, S, b, g) ==
    k \in [0..n -> S] /\ k[0] = b /\ \A i \in 1..n : k[i] = g[i][k[i - 1]]

\* A function on 0..n can be defined by recursion.
LEMMA RecursionExists ==
    ASSUME NEW n \in Nat, NEW S, NEW b \in S, NEW g \in Steps(n, S)
    PROVE  \E k : Follows(k, n, S, b, g)
<1> USE DEF Steps
<1> DEFINE Upto(m, k) == k[0] = b /\ \A i \in 1..m : k[i] = g[i][k[i - 1]]
           T == {m \in Nat : m <= n => \E k \in [0..m -> S] : Upto(m, k)}
<1>1. 0 \in T
  <2>1. [i \in 0..0 |-> b] \in [0..0 -> S] /\ Upto(0, [i \in 0..0 |-> b])
    OBVIOUS
  <2> QED
    BY <2>1, Zenon
<1>2. ASSUME NEW m \in Nat, m \in T PROVE m + 1 \in T
  <2> SUFFICES ASSUME m + 1 <= n PROVE \E k \in [0..(m + 1) -> S] : Upto(m + 1, k)
    OBVIOUS
  <2>1. PICK k \in [0..m -> S] : Upto(m, k)
    BY <1>2
  <2> DEFINE h == [i \in 0..(m + 1) |-> IF i <= m THEN k[i] ELSE g[m + 1][k[m]]]
  <2>2. g[m + 1][k[m]] \in S
    OBVIOUS
  <2>3. h \in [0..(m + 1) -> S]
    BY <2>2
  <2>4. h[0] = b
    BY <2>1
  <2>5. ASSUME NEW i \in 1..(m + 1) PROVE h[i] = g[i][h[i - 1]]
    <3>1. CASE i <= m
      BY <2>1, <3>1
    <3>2. CASE i = m + 1
      <4>1. h[i] = g[m + 1][k[m]] /\ h[i - 1] = k[m]
        BY <3>2
      <4> QED
        BY <3>2, <4>1, Zenon
    <3> QED
      BY <3>1, <3>2
  <2>6. Upto(m + 1, h)
    <3> HIDE DEF h
    <3> QED
      BY <2>4, <2>5, Zenon
  <2> HIDE DEF h, Upto
  <2> QED
    BY <2>3, <2>6, Zenon
<1>3. n \in T
  <2> HIDE DEF T
  <2> QED
    BY <1>1, <1>2, InductiveSet, Zenon
<1>4. PICK k \in [0..n -> S] : Upto(n, k)
  BY <1>3
<1> QED
  BY <1>4, Zenon DEF Follows

\* k is the function that Without defines by recursion.
Kept(q, gone, k) ==
    /\ Without(q, gone) = k[Len(q)]
    /\ k[0] = <<>>
    /\ \A i \in 1..Len(q) :
         k[i] = IF q[i] \in gone THEN k[i - 1] ELSE Append(k[i - 1], q[i])

\* The definition of Without, unfolded: the function exists.
LEMMA WithoutKept ==
    ASSUME NEW E, NEW q \in Seq(E), NEW gone
    PROVE  \E k : Kept(q, gone, k)
<1> DEFINE n == Len(q)
           f(i, s) == IF q[i] \in gone THEN s ELSE Append(s, q[i])
           D(k) == k = [i \in 0..n |-> IF i = 0 THEN <<>> ELSE f(i, k[i - 1])]
           c == CHOOSE k : D(k)
           g == [i \in 1..n |-> [s \in Seq(E) |-> f(i, s)]]
<1>0. n \in Nat /\ <<>> \in Seq(E)
  OBVIOUS
<1>1. ASSUME NEW i \in 1..n, NEW s \in Seq(E) PROVE f(i, s) \in Seq(E) /\ g[i][s] = f(i, s)
  OBVIOUS
<1>2. g \in [1..n -> [Seq(E) -> Seq(E)]]
  <2> HIDE DEF f, n
  <2> QED
    BY <1>1, Zenon
<1>3. PICK k : Follows(k, n, Seq(E), <<>>, g)
  <2>1. g \in Steps(n, Seq(E))
    BY <1>2, Zenon DEF Steps
  <2> HIDE DEF g, n
  <2> QED
    BY <1>0, <2>1, RecursionExists, Zenon
<1>4. Without(q, gone) = c[n]
  BY Zenon DEF Without
<1> HIDE DEF n
<1>5. ASSUME NEW i \in 1..n PROVE k[i] = f(i, k[i - 1])
  <2>1. i - 1 \in 0..n
    BY <1>0
  <2> HIDE DEF g, f
  <2>2. k[i] = g[i][k[i - 1]] /\ k[i - 1] \in Seq(E)
    BY <1>3, <2>1, Zenon DEF Follows
  <2> QED
    BY <1>1, <2>2, Zenon
<1>6. D(k)
  <2> HIDE DEF f
  <2>1. \A i \in 0..n : k[i] = IF i = 0 THEN <<>> ELSE f(i, k[i - 1])
    BY <1>0, <1>3, <1>5 DEF Follows
  <2>2. k = [i \in 0..n |-> k[i]]
    BY <1>3, Zenon DEF Follows
  <2> QED
    BY <2>1, <2>2, Zenon
<1>7. D(c)
  <2> HIDE DEF D
  <2> QED
    BY <1>6, Zenon
<1>8. c[0] = <<>> /\ \A i \in 1..n : c[i] = f(i, c[i - 1])
  <2> HIDE DEF f, c
  <2> QED
    BY <1>0, <1>7
<1>9. Kept(q, gone, c)
  <2> HIDE DEF c
  <2> QED
    BY <1>4, <1>8, Zenon DEF Kept, n
<1> QED
  BY <1>9, Zenon

\* Without keeps the elements that are not gone, in their order: position j of
\* the result is position at[j] of q.
LEMMA WithoutPositions ==
    ASSUME NEW E, NEW q \in Seq(E), NEW gone
    PROVE  /\ Without(q, gone) \in Seq(E)
           /\ \E at \in [1..Len(Without(q, gone)) -> 1..Len(q)] :
                /\ \A j \in 1..Len(Without(q, gone)) :
                     Without(q, gone)[j] = q[at[j]] /\ q[at[j]] \notin gone
                /\ \A i, j \in 1..Len(Without(q, gone)) : i < j => at[i] < at[j]
                /\ \A i \in 1..Len(q) : q[i] \notin gone =>
                     \E j \in 1..Len(Without(q, gone)) : at[j] = i
<1> DEFINE Picks(i, s, at) ==
             /\ \A j \in 1..Len(s) : s[j] = q[at[j]] /\ q[at[j]] \notin gone
             /\ \A m, j \in 1..Len(s) : m < j => at[m] < at[j]
             /\ \A m \in 1..i : q[m] \notin gone => \E j \in 1..Len(s) : at[j] = m
           S == [i \in 0..Len(q) |-> {s \in Seq(E) : \E at \in [1..Len(s) -> 1..i] : Picks(i, s, at)}]
<1>1. PICK k : Kept(q, gone, k)
  BY WithoutKept, Zenon
<1>2. k[0] \in S[0]
  <2>1. k[0] = <<>> /\ Len(<<>>) = 0 /\ <<>> \in Seq(E)
    BY <1>1 DEF Kept
  <2>2. PICK at : at \in [1..Len(<<>>) -> 1..0]
    <3>1. [j \in 1..0 |-> j] \in [1..0 -> 1..0]
      OBVIOUS
    <3> QED
      BY <3>1, <2>1, Zenon
  <2>3. Picks(0, <<>>, at)
    BY <2>1
  <2> HIDE DEF Picks
  <2> QED
    BY <2>1, <2>2, <2>3
<1>3. ASSUME NEW i \in 1..Len(q), k[i - 1] \in S[i - 1] PROVE k[i] \in S[i]
  <2> DEFINE s == k[i - 1]
  <2>0. i - 1 \in 0..Len(q) /\ i - 1 \in Nat /\ i \in Nat
    OBVIOUS
  <2>1. s \in Seq(E) /\ \E at \in [1..Len(s) -> 1..(i - 1)] : Picks(i - 1, s, at)
    <3> HIDE DEF Picks
    <3> QED BY <1>3, <2>0, Zenon
  <2>2. PICK at \in [1..Len(s) -> 1..(i - 1)] : Picks(i - 1, s, at)
    BY <2>1, Zenon
  <2>3. q[i] \in E
    OBVIOUS
  <2> HIDE DEF s
  <2>4. CASE q[i] \in gone
    <3>1. k[i] = s
      BY <1>1, <2>4, Zenon DEF Kept, s
    <3>2. at \in [1..Len(s) -> 1..i]
      BY <2>0
    <3>3. Picks(i, s, at)
      BY <2>0, <2>2, <2>4
    <3> HIDE DEF Picks
    <3> QED
      BY <2>0, <2>1, <3>1, <3>2, <3>3
  <2>5. CASE q[i] \notin gone
    <3> DEFINE t == Append(s, q[i])
               to == [j \in 1..(Len(s) + 1) |-> IF j <= Len(s) THEN at[j] ELSE i]
    <3>1. k[i] = t
      BY <1>1, <2>5, Zenon DEF Kept, s
    <3>2. t \in Seq(E) /\ Len(t) = Len(s) + 1 /\ Len(s) \in Nat
      BY <2>1, <2>3
    <3>3. to \in [1..Len(t) -> 1..i]
      BY <2>0, <3>2
    <3>4. \A j \in 1..Len(t) : t[j] = q[to[j]] /\ q[to[j]] \notin gone
      BY <2>1, <2>2, <2>3, <2>5, <3>2
    <3>5. \A m, j \in 1..Len(t) : m < j => to[m] < to[j]
      BY <2>0, <2>2, <3>2
    <3>6. ASSUME NEW m \in 1..i, q[m] \notin gone PROVE \E j \in 1..Len(t) : to[j] = m
      <4>1. CASE m = i
        <5>1. Len(s) + 1 \in 1..Len(t) /\ to[Len(s) + 1] = i
          BY <3>2
        <5> QED
          BY <4>1, <5>1, Zenon
      <4>2. CASE m \in 1..(i - 1)
        <5>1. PICK j \in 1..Len(s) : at[j] = m
          BY <2>2, <3>6, <4>2, Zenon
        <5>2. j \in 1..Len(t) /\ to[j] = m
          BY <5>1, <3>2
        <5> QED
          BY <5>2, Zenon
      <4> QED
        BY <4>1, <4>2, <2>0
    <3> HIDE DEF t, to
    <3>7. Picks(i, t, to)
      BY <3>4, <3>5, <3>6, Zenon
    <3> HIDE DEF Picks
    <3> QED
      BY <2>0, <3>1, <3>2, <3>3, <3>7
  <2> QED
    BY <2>4, <2>5, Zenon
<1>4. k[Len(q)] \in S[Len(q)]
  <2>1. Len(q) \in Nat
    OBVIOUS
  <2> HIDE DEF S
  <2>2. \A i \in 0..Len(q) : k[i] \in S[i]
    BY <1>2, <1>3, <2>1, InductiveValues, Zenon
  <2> QED
    BY <2>1, <2>2
<1>5. Without(q, gone) = k[Len(q)]
  BY <1>1, Zenon DEF Kept
<1> DEFINE w == Without(q, gone)
<1>6. w \in Seq(E) /\ \E at \in [1..Len(w) -> 1..Len(q)] : Picks(Len(q), w, at)
  <2> HIDE DEF Picks, w
  <2>1. w = k[Len(q)]
    BY <1>5, Zenon DEF w
  <2> QED BY <1>4, <2>1
<1> QED BY <1>6, Zenon

\* What is left of a queue: the elements that are not gone, each as often as it
\* was there; the queue is unchanged when none of them was in it.
LEMMA WithoutProperties ==
    ASSUME NEW E, NEW q \in Seq(E), NEW gone
    PROVE  /\ Without(q, gone) \in Seq(E)
           /\ Range(Without(q, gone)) = Range(q) \ gone
           /\ IsInjective(q) => IsInjective(Without(q, gone))
<1> DEFINE w == Without(q, gone)
<1>1. w \in Seq(E)
  BY WithoutPositions, Zenon
<1>2. PICK at \in [1..Len(w) -> 1..Len(q)] :
                /\ \A j \in 1..Len(w) : w[j] = q[at[j]] /\ q[at[j]] \notin gone
                /\ \A i, j \in 1..Len(w) : i < j => at[i] < at[j]
                /\ \A i \in 1..Len(q) : q[i] \notin gone =>
                     \E j \in 1..Len(w) : at[j] = i
  BY WithoutPositions
<1> HIDE DEF w
<1>3. DOMAIN w = 1..Len(w) /\ DOMAIN q = 1..Len(q) /\ Len(w) \in Nat /\ Len(q) \in Nat
  BY <1>1
<1>4. Range(w) = Range(q) \ gone
  <2>1. ASSUME NEW x \in Range(w) PROVE x \in Range(q) \ gone
    <3>1. PICK j \in 1..Len(w) : x = w[j]
      BY <1>3, Zenon DEF Range
    <3>2. at[j] \in DOMAIN q /\ x = q[at[j]] /\ x \notin gone
      BY <1>2, <1>3, <3>1, Zenon
    <3> QED
      BY <3>2, Zenon DEF Range
  <2>2. ASSUME NEW x \in Range(q) \ gone PROVE x \in Range(w)
    <3>1. PICK i \in 1..Len(q) : x = q[i]
      BY <1>3, Zenon DEF Range
    <3>2. PICK j \in 1..Len(w) : at[j] = i
      BY <1>2, <3>1, Zenon
    <3>3. x = w[j]
      BY <1>2, <3>1, <3>2, Zenon
    <3> QED
      BY <1>3, <3>3, Zenon DEF Range
  <2> QED
    BY <2>1, <2>2, Zenon
<1>5. ASSUME IsInjective(q) PROVE IsInjective(w)
  <2> SUFFICES ASSUME NEW a \in DOMAIN w, NEW b \in DOMAIN w, w[a] = w[b] PROVE a = b
    BY Zenon DEF IsInjective
  <2>1. at[a] = at[b]
    <3>1. q[at[a]] = q[at[b]] /\ at[a] \in DOMAIN q /\ at[b] \in DOMAIN q
      BY <1>2, <1>3, Zenon
    <3> QED
      BY <1>5, <3>1, Zenon DEF IsInjective
  <2>2. ~(a < b) /\ ~(b < a) /\ a \in Nat /\ b \in Nat
    <3>1. at[a] \in Nat /\ at[b] \in Nat /\ a \in 1..Len(w) /\ b \in 1..Len(w)
      BY <1>3
    <3> QED
      BY <1>2, <2>1, <3>1
  <2> QED
    BY <2>2
<1> QED
  BY <1>1, <1>4, <1>5, Zenon DEF w
-----------------------------------------------------------------------------
\* What appending an element to a queue does to the callbacks in it.
LEMMA AppendToQueue ==
    ASSUME NEW E, NEW q \in Seq(E), NEW e \in E
    PROVE  /\ Append(q, e) \in Seq(E)
           /\ Range(Append(q, e)) = Range(q) \cup {e}
           /\ IsInjective(q) /\ e \notin Range(q) => IsInjective(Append(q, e))
<1>1. Append(q, e) \in Seq(E)
  OBVIOUS
<1>2. Range(Append(q, e)) = Range(q) \cup {e}
  <2>1. ASSUME NEW x \in Range(q) PROVE x \in Range(Append(q, e))
    BY DEF Range
  <2>2. e \in Range(Append(q, e))
    <3>1. Len(q) + 1 \in DOMAIN Append(q, e) /\ Append(q, e)[Len(q) + 1] = e
      OBVIOUS
    <3> QED
      BY <3>1, Zenon DEF Range
  <2>3. ASSUME NEW x \in Range(Append(q, e)) PROVE x \in Range(q) \cup {e}
    BY DEF Range
  <2> QED
    BY <2>1, <2>2, <2>3, Zenon
<1>3. ASSUME IsInjective(q), e \notin Range(q) PROVE IsInjective(Append(q, e))
  BY <1>3 DEF IsInjective, Range
<1> QED
  BY <1>1, <1>2, <1>3, Zenon

\* What taking the first element of a queue leaves of it.
LEMMA TakeFromQueue ==
    ASSUME NEW E, NEW q \in Seq(E), q # <<>>
    PROVE  /\ Head(q) \in E /\ Head(q) \in Range(q) /\ Tail(q) \in Seq(E)
           /\ Range(q) = Range(Tail(q)) \cup {Head(q)}
           /\ IsInjective(q) => IsInjective(Tail(q)) /\ Head(q) \notin Range(Tail(q))
<1>1. /\ Len(q) \in Nat /\ 1 \in 1..Len(q) /\ DOMAIN q = 1..Len(q)
      /\ Tail(q) \in Seq(E) /\ DOMAIN Tail(q) = 1..(Len(q) - 1)
      /\ \A i \in DOMAIN Tail(q) : Tail(q)[i] = q[i + 1]
      /\ Head(q) = q[1]
  OBVIOUS
<1>2. Range(q) = Range(Tail(q)) \cup {Head(q)}
  <2>1. ASSUME NEW x \in Range(q) PROVE x \in Range(Tail(q)) \cup {Head(q)}
    <3>1. PICK i \in 1..Len(q) : x = q[i]
      BY <1>1, Zenon DEF Range
    <3>2. CASE i # 1
      <4>1. i - 1 \in DOMAIN Tail(q) /\ Tail(q)[i - 1] = x
        BY <1>1, <3>1, <3>2
      <4> QED
        BY <4>1, Zenon DEF Range
    <3> QED
      BY <1>1, <3>1, <3>2, Zenon
  <2>2. ASSUME NEW x \in Range(Tail(q)) PROVE x \in Range(q)
    <3>1. PICK i \in 1..(Len(q) - 1) : x = q[i + 1]
      BY <1>1, Zenon DEF Range
    <3> QED
      BY <1>1, <3>1 DEF Range
  <2>3. Head(q) \in Range(q)
    BY <1>1, Zenon DEF Range
  <2> QED
    BY <2>1, <2>2, <2>3, Zenon
<1>3. ASSUME IsInjective(q) PROVE IsInjective(Tail(q)) /\ Head(q) \notin Range(Tail(q))
  BY <1>1, <1>3 DEF IsInjective, Range
<1> QED
  BY <1>1, <1>2, <1>3
-----------------------------------------------------------------------------
\* Every step of CallbackThread preserves ThreadInv.  cancel finds its callback
\* because an Action is cleared whenever its callback leaves the queue
\* unexecuted; main finds inflight_ NULL because the callback that executes
\* cancels its own Action, unless a foreign thread has already done so.
LEMMA ThreadStep == ASSUME ThreadInv, [Next]_vars PROVE ThreadInv'
<1> USE CallbackThreadAssumption
<1> USE DEF ThreadInv, ThreadTypeOK, ThreadAsserts, ActionsAreLive, InflightSound
<1>1. CASE UNCHANGED vars
  BY <1>1, Zenon DEF vars
<1> SUFFICES ASSUME Next PROVE ThreadInv'
  BY <1>1, Zenon
<1>0. bad = {} /\ foreign' = foreign
  BY Zenon DEF Next
<1>2. ASSUME NEW x \in Object, Schedule(x) PROVE ThreadInv'
  <2>1. PICK cb \in Callback :
          /\ object[cb] = NULL
          /\ queue' = Append(queue, cb)
          /\ object' = [object EXCEPT ![cb] = x]
          /\ action' = [action EXCEPT ![x] = cb]
    BY <1>2, Zenon DEF Schedule
  <2>2. /\ action[x] = NULL /\ schedules' \in 0..MaxSchedules /\ signalled' \in BOOLEAN
        /\ UNCHANGED <<inflight, idle, stop, main, running, bad>>
    BY <1>2 DEF Schedule, Signal
  <2>3. cb \notin Range(queue) /\ cb # running
    BY <2>1
  <2>4. /\ queue' \in Seq(Callback) /\ Range(queue') = Range(queue) \cup {cb}
        /\ IsInjective(queue')
    BY <2>1, <2>3, AppendToQueue
  <2>5. \A c \in Range(queue) : c \in Callback /\ c # NULL
    BY DEF Range
  <2>6. ThreadTypeOK' /\ ThreadAsserts'
    BY <1>0, <2>1, <2>2, <2>4, Zenon
  <2>7. ActionsAreLive'
    BY <2>1, <2>2, <2>3, <2>4, <2>5
  <2>8. InflightSound'
    BY <1>0, <2>1, <2>2, <2>3, <2>4, <2>5
  <2> QED
    BY <2>6, <2>7, <2>8, Zenon
<1>3. ASSUME NEW x \in Object, ForeignCancel(x) PROVE ThreadInv'
  <2> DEFINE cb == action[x]
  <2>1. /\ x \in foreign /\ cb \in Callback /\ cb # NULL
        /\ action' = [action EXCEPT ![x] = NULL]
        /\ UNCHANGED <<idle, stop, main, signalled, running, schedules>>
    BY <1>3 DEF ForeignCancel
  <2>2. \A c \in Range(queue) : c \in Callback /\ c # NULL
    BY DEF Range
  <2>3. CASE inflight = cb
    <3>1. inflight' = NULL /\ UNCHANGED <<queue, object, bad>>
      BY <1>3, <2>3, Zenon DEF ForeignCancel
    <3>2. main = "execute" /\ running = cb /\ object[running] = x
      BY <2>1, <2>3, Zenon
    <3> QED
      BY <1>0, <2>1, <2>2, <3>1, <3>2
  <2>4. CASE inflight # cb
    <3>1. cb \in Range(queue) /\ object[cb] = x
      BY <2>1, <2>4, Zenon
    <3>2. /\ queue' = Without(queue, {cb})
          /\ object' = [object EXCEPT ![cb] = NULL]
          /\ UNCHANGED <<inflight, bad>>
      BY <1>3, <2>4, <3>1, Zenon DEF ForeignCancel
    <3>3. /\ queue' \in Seq(Callback) /\ Range(queue') = Range(queue) \ {cb}
          /\ IsInjective(queue')
      BY <3>2, WithoutProperties, Zenon
    <3>4. ThreadTypeOK' /\ ThreadAsserts'
      BY <1>0, <2>1, <3>2, <3>3, Zenon
    <3>5. ASSUME NEW y \in Object, y # x, action[y] # NULL
          PROVE  action[y] # cb /\ object'[action[y]] = y
      BY <3>1, <3>2, <3>5
    <3>6. ASSUME NEW c \in Range(queue), c # cb
          PROVE  object'[c] = object[c] /\ object[c] \in Object /\ action'[object[c]] = c
      BY <2>1, <2>2, <3>1, <3>2, <3>6
    <3>7. cb # running /\ (main = "execute" => object[running] # x \/ action[x] # running)
      BY <2>1, <3>1
    <3> HIDE DEF cb
    <3>8. ActionsAreLive'
      BY <2>1, <3>3, <3>5, <3>6
    <3>9. InflightSound'
      <4>1. running # NULL => object'[running] = object[running] /\ object[running] \in Object
        BY <3>2, <3>7
      <4>2. ASSUME main = "execute"
            PROVE  \/ action'[object[running]] = action[object[running]]
                   \/ action[object[running]] # running /\ action'[object[running]] # running
        BY <2>1, <3>7, <4>1, <4>2, Zenon
      <4> QED
        BY <1>0, <2>1, <3>2, <3>3, <3>6, <4>1, <4>2
    <3> QED
      BY <3>4, <3>8, <3>9, Zenon
  <2> QED
    BY <2>3, <2>4, Zenon
<1>4. CASE Stop
  BY <1>0, <1>4, Zenon DEF Stop
<1>5. ASSUME StartNext, queue # <<>>, main \notin {"execute", "executed"},
             idle' \in BOOLEAN, signalled' \in BOOLEAN,
             UNCHANGED <<stop, object, action, bad, schedules>>
      PROVE  ThreadInv'
  <2> DEFINE cb == Head(queue)
  <2>1. main' = "execute" /\ running' = cb /\ inflight' = cb /\ queue' = Tail(queue)
    BY <1>5, Zenon DEF StartNext
  <2>2. /\ cb \in Callback /\ cb \in Range(queue) /\ queue' \in Seq(Callback)
        /\ Range(queue) = Range(queue') \cup {cb}
        /\ IsInjective(queue') /\ cb \notin Range(queue')
    BY <1>5, <2>1, TakeFromQueue, Zenon
  <2>3. object[cb] \in Object /\ action[object[cb]] = cb /\ cb # NULL
    BY <2>2
  <2> HIDE DEF cb
  <2>4. ThreadTypeOK' /\ ThreadAsserts'
    BY <1>0, <1>5, <2>1, <2>2, <2>3, Zenon
  <2>5. ActionsAreLive'
    BY <1>5, <2>1, <2>2, <2>3, Zenon
  <2>6. InflightSound'
    BY <1>0, <1>5, <2>1, <2>2, <2>3, Zenon
  <2> QED
    BY <2>4, <2>5, <2>6, Zenon
<1>6. CASE TakeFirst
  BY <1>5, <1>6, Zenon DEF TakeFirst
<1>7. CASE GoIdle
  BY <1>0, <1>7, Zenon DEF GoIdle
<1>8. CASE Wake
  <2>1. CASE queue = <<>>
    <3>1. /\ main' = (IF stop THEN "exited" ELSE "wait") /\ signalled' = FALSE
          /\ UNCHANGED <<running, inflight, queue, idle, stop, object, action, bad, schedules>>
      BY <1>8, <2>1, Zenon DEF Wake
    <3>2. main = "wait"
      BY <1>8, Zenon DEF Wake
    <3> QED
      BY <1>0, <3>1, <3>2, Zenon
  <2>2. CASE queue # <<>>
    BY <1>5, <1>8, <2>2, Zenon DEF Wake
  <2> QED
    BY <2>1, <2>2, Zenon
<1>9. CASE Execute
  <2> DEFINE x == object[running]
             own == action[x]
  <2>1. /\ main = "execute" /\ main' = "executed" /\ running \in Callback
        /\ UNCHANGED <<idle, stop, signalled, running, schedules>>
    BY <1>9, Zenon DEF Execute
  <2>2. x \in Object /\ running # NULL
    BY <2>1
  <2>3. \A c \in Range(queue) : c \in Callback /\ c # NULL
    BY DEF Range
  <2>4. CASE own = NULL
    <3>1. bad' = bad \cup {"NULL"} /\ UNCHANGED <<queue, inflight, action, object>>
      BY <1>9, <2>4, Zenon DEF Execute
    <3>2. inflight = NULL /\ foreign # {}
      BY <2>1, <2>2, <2>4, Zenon
    <3>3. \A y \in Object : action[y] # running
      BY <2>1, <2>2, <2>4, Zenon
    <3> QED
      BY <1>0, <2>1, <2>2, <3>1, <3>2, <3>3, Zenon
  <2>5. CASE own # NULL
    <3>1. PICK others \in SUBSET {y \in Object \ foreign : action[y] # NULL /\ y # x} :
            LET gone == {action[y] : y \in others} \cup {own} IN
              /\ queue' = Without(queue, gone)
              /\ inflight' = InflightAfter(gone)
              /\ action' = ActionsAfter(x, others)
              /\ object' = [cb \in Callback |->
                              IF cb \in gone /\ cb # running THEN NULL ELSE object[cb]]
              /\ UNCHANGED bad
      BY <1>9, <2>5, Zenon DEF Execute
    <3> DEFINE all == others \cup {x}
               gone == {action[y] : y \in others} \cup {own}
    <3>2. gone = {action[y] : y \in all} /\ all \subseteq Object
      BY <2>2
    <3>3. /\ queue' = Without(queue, gone)
          /\ inflight' = IF inflight \in gone THEN NULL ELSE inflight
          /\ action' = [y \in Object |-> IF y \in all THEN NULL ELSE action[y]]
          /\ object' = [cb \in Callback |->
                          IF cb \in gone /\ cb # running THEN NULL ELSE object[cb]]
          /\ UNCHANGED bad
      BY <3>1, Zenon DEF InflightAfter, ActionsAfter
    <3>4. \A y \in all : action[y] # NULL
      BY <2>5, Zenon
    <3>5. x \in all
      OBVIOUS
    <3> HIDE DEF gone, all
    <3>6. /\ queue' \in Seq(Callback) /\ Range(queue') = Range(queue) \ gone
          /\ IsInjective(queue')
      BY <3>3, WithoutProperties, Zenon
    <3>7. inflight' = NULL
      <4>1. CASE inflight = running
        <5>1. running \in gone
          BY <2>1, <2>2, <3>2, <3>5, <4>1
        <5> QED
          BY <3>3, <4>1, <5>1, Zenon
      <4>2. CASE inflight = NULL
        BY <3>3, <4>2, Zenon
      <4> QED
        BY <2>1, <4>1, <4>2, Zenon
    <3>8. ThreadTypeOK' /\ ThreadAsserts'
      BY <1>0, <2>1, <3>3, <3>6, <3>7, Zenon
    <3>9. ASSUME NEW y \in Object, y \notin all, action[y] # NULL
          PROVE  action[y] \in Range(queue) /\ action[y] \notin gone /\ object'[action[y]] = y
      <4>1. object[action[y]] = y /\ action[y] \in Callback
        BY <3>9
      <4>2. action[y] # running
        BY <2>2, <3>5, <3>9, <4>1
      <4>3. action[y] \notin gone
        BY <3>2, <3>4, <3>9, <4>1
      <4> QED
        BY <3>3, <3>9, <4>1, <4>2, <4>3, Zenon
    <3>10. ASSUME NEW c \in Range(queue), c \notin gone
           PROVE  /\ object'[c] = object[c] /\ object[c] \in Object
                  /\ object[c] \notin all /\ action'[object[c]] = c
      <4>1. c \in Callback /\ object[c] \in Object /\ action[object[c]] = c
        BY <2>3
      <4>2. object[c] \notin all
        BY <3>2, <3>10, <4>1
      <4> QED
        BY <3>3, <3>10, <4>1, <4>2, Zenon
    <3>11. ActionsAreLive'
      BY <3>3, <3>6, <3>9, <3>10
    <3>12. InflightSound'
      BY <2>1, <2>2, <3>3, <3>6, <3>7, <3>10
    <3> QED
      BY <3>8, <3>11, <3>12, Zenon
  <2> QED
    BY <2>4, <2>5, Zenon
<1>10. CASE Finish
  <2>1. /\ main = "executed" /\ main' = "top" /\ running' = NULL /\ running \in Callback
        /\ object' = [object EXCEPT ![running] = NULL]
        /\ UNCHANGED <<queue, inflight, idle, stop, signalled, action, schedules>>
    BY <1>10, Zenon DEF Finish
  <2>2. bad' = bad /\ inflight = NULL
    BY <1>10, <2>1, Zenon DEF Finish
  <2>3. \A c \in Range(queue) : c \in Callback /\ c # NULL
    BY DEF Range
  <2>4. running \notin Range(queue)
    BY <2>1, Zenon
  <2> QED
    BY <1>0, <2>1, <2>2, <2>3, <2>4
<1>11. QED
  BY <1>2, <1>3, <1>4, <1>6, <1>7, <1>8, <1>9, <1>10, Zenon
  DEF Next, Main, WakeSignalled, WakeSpurious

\* No check of CallbackThread fails, except in the race of a cancellation in
\* another thread; Actions, the queue and inflight_ always agree.
THEOREM ThreadIsSound == Spec => []ThreadInv
<1>1. Init => ThreadInv
  <2> SUFFICES ASSUME Init PROVE ThreadInv
    OBVIOUS
  <2>1. Range(queue) = {} /\ IsInjective(queue)
    BY DEF Init, Range, IsInjective
  <2>2. ThreadTypeOK /\ ThreadAsserts
    <3>1. object \in [Callback -> Object \cup {NULL}] /\ action \in [Object -> Callback \cup {NULL}]
      BY Zenon DEF Init
    <3>2. queue \in Seq(Callback) /\ schedules \in 0..MaxSchedules
      BY CallbackThreadAssumption DEF Init
    <3>3. /\ foreign \subseteq Object /\ inflight = NULL /\ running = NULL /\ main = "top"
          /\ idle = FALSE /\ stop = FALSE /\ signalled = FALSE /\ bad = {}
      BY Zenon DEF Init
    <3> QED
      BY <3>1, <3>2, <3>3, Zenon DEF ThreadTypeOK, ThreadAsserts
  <2>3. ActionsAreLive /\ InflightSound
    BY <2>1, Zenon DEF Init, ActionsAreLive, InflightSound
  <2> QED
    BY <2>2, <2>3, Zenon DEF ThreadInv
<1>2. QED
  BY <1>1, ThreadStep, PTL DEF Spec

\* When main leaves its loop, stop was called, no callback waits and no object
\* still holds an Action: nothing that was scheduled is lost.
THEOREM ExitIsClean == Spec => ExitLosesNothing
<1> DEFINE Clean ==
      main # "exited" /\ main' = "exited" =>
        stop /\ queue = <<>> /\ \A x \in Object : action[x] = NULL
<1>1. ASSUME ThreadInv, [Next]_vars PROVE [Clean]_vars
  <2> SUFFICES ASSUME Next, main # "exited", main' = "exited"
               PROVE  stop /\ queue = <<>> /\ \A x \in Object : action[x] = NULL
    BY <1>1, Zenon
  <2>1. stop /\ queue = <<>> /\ main \in {"top", "wait"}
    BY Zenon DEF Next, Main, TakeFirst, StartNext, GoIdle, WakeSignalled, WakeSpurious, Wake,
           Execute, Finish, Stop, Schedule, ForeignCancel
  <2>2. Range(queue) = {}
    BY <2>1 DEF Range
  <2> QED
    BY <1>1, <2>1, <2>2, Zenon DEF ThreadInv, ActionsAreLive
<1>2. QED
  BY <1>1, ThreadIsSound, PTL DEF Spec, ExitLosesNothing
=============================================================================
