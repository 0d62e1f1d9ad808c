---------------------------- MODULE NatRecursion ----------------------------
(***************************************************************************)
(* Induction and recursion over natural numbers in a form that first-order *)
(* provers can use: the predicate of an induction is a set, the step of a  *)
(* recursion is a function.  They are what the proofs about loops of the   *)
(* code need: a poll of several scan codes, the tasks that one tick wakes. *)
(***************************************************************************)
EXTENDS Integers, WellFoundedInduction, TLAPS

\* A set of naturals that is not empty has a least element.
LEMMA LeastNatural ==
    ASSUME NEW T \in SUBSET Nat, T # {}
    PROVE  \E n \in T : \A m \in T : n <= m
<1> DEFINE R == OpToRel(<, Nat)
<1>1. IsWellFoundedOn(R, Nat)
    BY NatLessThanWellFounded
<1>2. \A x, y \in Nat : x < y => <<x, y>> \in R
    BY DEF OpToRel
<1> HIDE DEF R
<1>3. PICK n \in T : \A m \in T : ~ (<<m, n>> \in R)
    BY <1>1, WFMin
<1>4. ASSUME NEW m \in T
      PROVE  n <= m
    <2>1. m \in Nat /\ n \in Nat /\ ~ (m < n)
        BY <1>2, <1>3
    <2>2. QED
        BY <2>1
<1>5. QED
    BY <1>4

\* Induction from 0 up to n.
LEMMA InductionUpTo ==
    ASSUME NEW n \in Nat, NEW S, 0 \in S,
           \A i \in 0 .. n - 1 : i \in S => i + 1 \in S
    PROVE  0 .. n \subseteq S
<1> DEFINE T == (0 .. n) \ S
<1> SUFFICES ASSUME T # {} PROVE FALSE
    OBVIOUS
<1>1. T \in SUBSET Nat
    OBVIOUS
<1>2. PICK m \in T : \A j \in T : m <= j
    BY <1>1, LeastNatural
<1>3. m \in 1 .. n /\ m \notin S
    BY <1>2
<1>4. m - 1 \in 0 .. n - 1 /\ m - 1 \in S
    BY <1>2, <1>3
<1>5. (m - 1) + 1 = m
    BY <1>3
<1>6. QED
    BY <1>3, <1>4, <1>5

\* step computes an element of D from the one before and the number of the
\* turn, 1 .. n; the elements f[0] .. f[n] are computed that way from c.
IsStep(step, n, D) == step \in [D \X (1 .. n) -> D]

IsRun(f, n, D, c, step) ==
    /\ f \in [0 .. n -> D]
    /\ f[0] = c
    /\ \A i \in 1 .. n : f[i] = step[<<f[i - 1], i>>]

\* A recursion of n turns has a result.
LEMMA RunExists ==
    ASSUME NEW n \in Nat, NEW D, NEW c \in D, NEW step, IsStep(step, n, D)
    PROVE  \E f : IsRun(f, n, D, c, step)
<1>0. step \in [D \X (1 .. n) -> D]
    BY DEF IsStep
<1> DEFINE Computes(f, m) == /\ f[0] = c
                             /\ \A i \in 1 .. m : f[i] = step[<<f[i - 1], i>>]
           S == {m \in 0 .. n : \E f \in [0 .. m -> D] : Computes(f, m)}
<1>1. 0 \in S
    <2> DEFINE f == [i \in 0 .. 0 |-> c]
    <2>1. f \in [0 .. 0 -> D] /\ f[0] = c /\ 1 .. 0 = {}
        OBVIOUS
    <2> HIDE DEF f
    <2>2. Computes(f, 0) /\ 0 \in 0 .. n
        BY <2>1
    <2>3. QED
        BY <2>1, <2>2
<1>2. ASSUME NEW m \in 0 .. n - 1, m \in S
      PROVE  m + 1 \in S
    <2>1. PICK f \in [0 .. m -> D] : Computes(f, m)
        BY <1>2
    <2> DEFINE g == [i \in 0 .. m + 1 |-> IF i <= m THEN f[i] ELSE step[<<f[m], m + 1>>]]
    <2>2. m \in 0 .. m /\ f[m] \in D /\ m + 1 \in 1 .. n
        OBVIOUS
    <2>3. step[<<f[m], m + 1>>] \in D
        BY <1>0, <2>2
    <2>4. g \in [0 .. m + 1 -> D]
        BY <2>3
    <2>5. /\ \A i \in 0 .. m : g[i] = f[i]
          /\ g[m + 1] = step[<<f[m], m + 1>>]
        OBVIOUS
    <2> HIDE DEF g
    <2>6. ASSUME NEW i \in 1 .. m + 1
          PROVE  g[i] = step[<<g[i - 1], i>>]
        <3>1. CASE i = m + 1
            BY <2>2, <2>5, <3>1
        <3>2. CASE i \in 1 .. m
            <4>1. i \in 0 .. m /\ i - 1 \in 0 .. m
                BY <3>2
            <4>2. QED
                BY <2>1, <2>5, <3>2, <4>1
        <3>3. QED
            BY <3>1, <3>2
    <2>7. g[0] = c
        BY <2>1, <2>5
    <2>8. Computes(g, m + 1)
        BY <2>6, <2>7
    <2>9. m + 1 \in 0 .. n
        OBVIOUS
    <2>10. QED
        BY <2>4, <2>8, <2>9
<1>3. 0 .. n \subseteq S
    <2> HIDE DEF S
    <2>1. QED
        BY <1>1, <1>2, InductionUpTo
<1>4. n \in S
    BY <1>3
<1>5. QED
    BY <1>4 DEF IsRun

\* A function that computes like step as long as it stays in D is such a run.
LEMMA RunInside ==
    ASSUME NEW n \in Nat, NEW D, NEW c \in D, NEW step, IsStep(step, n, D),
           NEW g, g = [i \in 0 .. n |-> g[i]], g[0] = c,
           \A i \in 1 .. n : g[i - 1] \in D => g[i] = step[<<g[i - 1], i>>]
    PROVE  IsRun(g, n, D, c, step)
<1> DEFINE S == {i \in 0 .. n : g[i] \in D}
<1>1. 0 \in S
    OBVIOUS
<1>2. ASSUME NEW i \in 0 .. n - 1, i \in S
      PROVE  i + 1 \in S
    <2>1. i + 1 \in 1 .. n /\ (i + 1) - 1 = i /\ g[i] \in D
        BY <1>2
    <2>2. g[i + 1] = step[<<g[i], i + 1>>]
        BY <2>1
    <2>3. QED
        BY <2>1, <2>2 DEF IsStep
<1>3. 0 .. n \subseteq S
    <2> HIDE DEF S
    <2>1. QED
        BY <1>1, <1>2, InductionUpTo
<1>4. g \in [0 .. n -> D]
    BY <1>3
<1>5. ASSUME NEW i \in 1 .. n PROVE g[i] = step[<<g[i - 1], i>>]
    <2>1. i - 1 \in 0 .. n
        OBVIOUS
    <2>2. QED
        BY <1>3, <2>1
<1>6. QED
    BY <1>4, <1>5 DEF IsRun

\* Two computations that start alike and step alike have the same result.
LEMMA RunsAgree ==
    ASSUME NEW n \in Nat, NEW f, NEW g, f[0] = g[0],
           \A i \in 0 .. n - 1 : f[i] = g[i] => f[i + 1] = g[i + 1]
    PROVE  f[n] = g[n]
<1> DEFINE S == {i \in 0 .. n : f[i] = g[i]}
<1>1. 0 \in S
    OBVIOUS
<1>2. ASSUME NEW i \in 0 .. n - 1, i \in S PROVE i + 1 \in S
    BY <1>2
<1>3. 0 .. n \subseteq S
    <2> HIDE DEF S
    <2>1. QED
        BY <1>1, <1>2, InductionUpTo
<1>4. QED
    BY <1>3
=============================================================================
