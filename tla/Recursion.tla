------------------------------ MODULE Recursion ------------------------------
(***************************************************************************)
(* Induction over the natural numbers, said of sets and functions so that  *)
(* it can be used of any definition: what the proofs about loops need.     *)
(***************************************************************************)
EXTENDS Integers, WellFoundedInduction, TLAPS

\* Numbers that are not none have a smallest one.
LEMMA SmallestOf ==
    ASSUME NEW T \in SUBSET Nat, T # {}
    PROVE  \E i \in T : \A j \in T : i <= j
<1> DEFINE R == OpToRel(<, Nat)
<1>1. IsWellFoundedOn(R, Nat)
  BY NatLessThanWellFounded
<1>2. \A i, j \in Nat : j < i => <<j, i>> \in R
  BY DEF OpToRel
<1> HIDE DEF R
<1>3. \E i \in T : \A j \in T : ~(<<j, i>> \in R)
  BY <1>1, WFMin
<1>4. \A i, j \in Nat : ~(j < i) => i <= j
  OBVIOUS
<1> QED BY <1>2, <1>3, <1>4, Zenon

\* What holds of 0, and of each number up to n if it holds of the one before.
LEMMA Induction ==
    ASSUME NEW n \in Nat, NEW T, 0 \in T, \A i \in 1 .. n : i - 1 \in T => i \in T
    PROVE  \A i \in 0 .. n : i \in T
<1> SUFFICES ASSUME NEW k \in 0 .. n, k \notin T PROVE FALSE
  OBVIOUS
<1> DEFINE B == {i \in 0 .. n : i \notin T}
<1>1. B \in SUBSET Nat /\ B # {}
  OBVIOUS
<1> HIDE DEF B
<1>2. PICK i \in B : \A j \in B : i <= j
  BY <1>1, SmallestOf
<1> USE DEF B
<1>3. i \in 1 .. n /\ i - 1 \in 0 .. n
  BY <1>2
<1>4. i - 1 \notin B
  BY <1>2, <1>3
<1> QED BY <1>2, <1>3, <1>4

\* The steps of a loop that runs n times over values of S, and its course from base.
Steps(n, S) == [1 .. n -> [S -> S]]
Courses(n, S, base, step) ==
    {f \in [0 .. n -> S] : f[0] = base /\ \A i \in 1 .. n : f[i] = step[i][f[i - 1]]}

\* A loop has a course.
LEMMA CourseExists ==
    ASSUME NEW n \in Nat, NEW S, NEW base \in S, NEW step \in Steps(n, S)
    PROVE  Courses(n, S, base, step) # {}
<1> USE DEF Steps
<1> DEFINE Upto(m) == {f \in [0 .. m -> S] :
                          f[0] = base /\ \A i \in 1 .. m : f[i] = step[i][f[i - 1]]}
           T == {m \in 0 .. n : Upto(m) # {}}
<1>1. 0 \in T
  <2>1. [i \in 0 .. 0 |-> base] \in Upto(0)
    OBVIOUS
  <2> QED BY <2>1
<1>2. ASSUME NEW m \in 1 .. n, m - 1 \in T
      PROVE  m \in T
  <2>1. PICK f \in [0 .. m - 1 -> S] :
            f[0] = base /\ \A i \in 1 .. m - 1 : f[i] = step[i][f[i - 1]]
    BY <1>2
  <2> DEFINE g == [i \in 0 .. m |-> IF i = m THEN step[m][f[m - 1]] ELSE f[i]]
  <2>2. step[m][f[m - 1]] \in S
    BY <2>1
  <2>3. g \in [0 .. m -> S]
    BY <2>1, <2>2
  <2>4. g[0] = base
    BY <2>1
  <2>5. ASSUME NEW i \in 1 .. m
        PROVE  g[i] = step[i][g[i - 1]]
    <3>1. CASE i = m
      BY <3>1
    <3>2. CASE i # m
      <4>1. i \in 1 .. m - 1 /\ i \in 0 .. m /\ i - 1 \in 0 .. m /\ i - 1 # m
        BY <3>2
      <4>2. g[i] = f[i] /\ g[i - 1] = f[i - 1]
        BY <3>2, <4>1
      <4>3. f[i] = step[i][f[i - 1]]
        BY <2>1, <4>1
      <4> QED BY <4>2, <4>3
    <3> QED BY <3>1, <3>2
  <2>6. g \in Upto(m)
    BY <2>3, <2>4, <2>5
  <2> QED BY <2>6
<1> HIDE DEF T
<1>3. \A i \in 0 .. n : i \in T
  BY <1>1, <1>2, Induction, Zenon
<1>4. n \in T
  BY <1>3
<1>5. Upto(n) # {}
  BY <1>4 DEF T
<1> QED BY <1>5 DEF Courses
=============================================================================
