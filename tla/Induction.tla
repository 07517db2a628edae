------------------------------ MODULE Induction ------------------------------
(***************************************************************************)
(* Induction over numbers, and what a recursive function is: a LET         *)
(* definition f[i \in 0 .. n] == IF i = 0 THEN ... ELSE ... f[i - 1] ...   *)
(* stands for a function chosen to satisfy that equation, and says nothing *)
(* unless there is one.                                                    *)
(***************************************************************************)
EXTENDS Naturals, WellFoundedInduction, TLAPS

(* Induction, with a set in the place of a predicate: the provers cannot
   instantiate an operator. *)
LEMMA SetInduction ==
  ASSUME NEW S, 0 \in S, \A n \in Nat : n \in S => n + 1 \in S
  PROVE  Nat \subseteq S
<1> DEFINE T == Nat \ S
<1>1. SUFFICES ASSUME T # {} PROVE FALSE
  OBVIOUS
<1>2. \E x \in T : \A y \in T : ~(<<y, x>> \in OpToRel(<, Nat))
  <2> HIDE DEF T
  <2>1. T \subseteq Nat
    BY DEF T
  <2> QED
    BY <1>1, <2>1, NatLessThanWellFounded, WFMin
<1>3. PICK x \in T : \A y \in T : ~(<<y, x>> \in OpToRel(<, Nat))
  BY <1>2
<1>4. \A y \in T : ~(y < x)
  BY <1>3 DEF OpToRel
<1>5. x # 0 /\ x - 1 \in Nat /\ x - 1 \notin T
  BY <1>4
<1> QED
  BY <1>5

(* A definition by recursion over 0 .. n: step[i] makes the value at i of the one
   before.  It has a solution. *)
Steps(V, n) == [1 .. n -> [V -> V]]

Solves(f, base, step, n) ==
  f[0] = base /\ \A i \in 1 .. n : f[i] = step[i][f[i - 1]]

LEMMA RecursionHasSolution ==
  ASSUME NEW V, NEW base \in V, NEW n \in Nat, NEW step \in Steps(V, n)
  PROVE  \E f \in [0 .. n -> V] : Solves(f, base, step, n)
<1> USE DEF Steps, Solves
<1> DEFINE S == {k \in Nat : k <= n =>
                   \E f \in [0 .. k -> V] : Solves(f, base, step, k)}
<1>1. 0 \in S
  <2>1. [i \in 0 .. 0 |-> base] \in [0 .. 0 -> V]
    OBVIOUS
  <2>2. Solves([i \in 0 .. 0 |-> base], base, step, 0)
    OBVIOUS
  <2> QED
    BY <2>1, <2>2
<1>2. ASSUME NEW k \in Nat, k \in S
      PROVE  k + 1 \in S
  <2>1. SUFFICES ASSUME k + 1 <= n
                 PROVE  \E f \in [0 .. k + 1 -> V] : Solves(f, base, step, k + 1)
    OBVIOUS
  <2>2. PICK f \in [0 .. k -> V] : Solves(f, base, step, k)
    BY <1>2, <2>1
  <2> DEFINE g == [i \in 0 .. k + 1 |-> IF i <= k THEN f[i] ELSE step[k + 1][f[k]]]
  <2>3. k + 1 \in 1 .. n /\ f[k] \in V
    BY <2>1
  <2>4. step[k + 1][f[k]] \in V
    BY <2>3
  <2>5. g \in [0 .. k + 1 -> V]
    BY <2>4
  <2>6. g[0] = base
    BY <2>2
  <2>7. ASSUME NEW i \in 1 .. k + 1
        PROVE  g[i] = step[i][g[i - 1]]
    <3>1. CASE i = k + 1
      BY <3>1
    <3>2. CASE i \in 1 .. k
      <4>1. f[i] = step[i][f[i - 1]]
        BY <2>2, <3>2
      <4> QED
        BY <3>2, <4>1
    <3> QED
      BY <3>1, <3>2
  <2> HIDE DEF g
  <2> QED
    BY <2>5, <2>6, <2>7
<1>3. n \in S
  <2> HIDE DEF S
  <2> QED
    BY <1>1, <1>2, SetInduction
<1> QED
  BY <1>3
=============================================================================
