------------------------- MODULE SubsequenceProofs -------------------------
(***************************************************************************)
(* What a filter keeps of a sequence: the elements at the positions that   *)
(* pass, each once and in their order.  Before that, what the proofs of    *)
(* recursion up to a bound rest on.                                        *)
(***************************************************************************)
EXTENDS Subsequences, WellFoundedInduction, TLAPS

(* Every set of numbers that is not empty has a least element.            *)
LEMMA LeastElement ==
    ASSUME NEW S, S \subseteq Nat, S # {}
    PROVE  \E i \in S : \A k \in S : i <= k
<1> DEFINE R == OpToRel(<, Nat)
<1>1. IsWellFoundedOn(R, Nat)
  BY NatLessThanWellFounded, Zenon
<1>2. PICK x \in S : \A y \in S : ~(<<y, x>> \in R)
  BY <1>1, WFMin
<1>3. \A y \in S : ~(y < x)
  BY <1>2 DEF OpToRel
<1> HIDE DEF R
<1> QED
  BY <1>3

(* Induction up to a bound, over a set. *)
LEMMA UpTo ==
    ASSUME NEW S, NEW n \in Nat, 0 \in S, \A k \in 0 .. n - 1 : k \in S => k + 1 \in S
    PROVE  0 .. n \subseteq S
<1> DEFINE Out == (0 .. n) \ S
<1>1. SUFFICES ASSUME Out # {} PROVE FALSE
  OBVIOUS
<1>2. Out \subseteq Nat
  OBVIOUS
<1>3. PICK i \in Out : \A k \in Out : i <= k
  BY <1>1, <1>2, LeastElement
<1>4. i - 1 \in 0 .. n - 1 /\ i - 1 \notin Out /\ i - 1 + 1 = i
  BY <1>3
<1> QED
  BY <1>3, <1>4

(* f starts at base and goes on by one step after the other.               *)
Steps(n, X) == [1 .. n -> [X -> X]]

Recursion(f, n, X, base, step) ==
    /\ f \in [0 .. n -> X]
    /\ f[0] = base
    /\ \A k \in 1 .. n : f[k] = step[k][f[k - 1]]

(* A function that is defined by recursion up to a bound exists.           *)
LEMMA RecursionUpTo ==
    ASSUME NEW n \in Nat, NEW X, NEW base \in X, NEW step \in Steps(n, X)
    PROVE  \E f : Recursion(f, n, X, base, step)
<1> USE DEF Steps
<1> DEFINE Built(m, f) == f[0] = base /\ \A k \in 1 .. m : f[k] = step[k][f[k - 1]]
           S == {m \in 0 .. n : \E f \in [0 .. m -> X] : Built(m, f)}
<1>1. 0 \in S
  <2>1. [m \in 0 .. 0 |-> base] \in [0 .. 0 -> X] /\ Built(0, [m \in 0 .. 0 |-> base])
    OBVIOUS
  <2> HIDE DEF Built
  <2> QED
    BY <2>1
<1>2. ASSUME NEW k \in 0 .. n - 1, k \in S PROVE k + 1 \in S
  <2>1. PICK f \in [0 .. k -> X] : Built(k, f)
    BY <1>2
  <2> DEFINE g == [m \in 0 .. k + 1 |-> IF m = k + 1 THEN step[k + 1][f[k]] ELSE f[m]]
  <2>2. step[k + 1][f[k]] \in X
    OBVIOUS
  <2>3. g \in [0 .. k + 1 -> X]
    BY <2>2
  <2>4. \A m \in 0 .. k : g[m] = f[m]
    OBVIOUS
  <2>5. g[k + 1] = step[k + 1][f[k]]
    OBVIOUS
  <2> HIDE DEF g
  <2>6. ASSUME NEW m \in 1 .. k + 1 PROVE g[m] = step[m][g[m - 1]]
    <3>1. CASE m = k + 1
      BY <3>1, <2>4, <2>5
    <3>2. CASE m # k + 1
      BY <3>2, <2>1, <2>4
    <3> QED
      BY <3>1, <3>2
  <2>7. Built(k + 1, g)
    BY <2>1, <2>4, <2>6
  <2> HIDE DEF Built
  <2> QED
    BY <2>3, <2>7
<1> HIDE DEF S
<1>3. \A k \in 0 .. n - 1 : k \in S => k + 1 \in S
  BY <1>2
<1>4. 0 .. n \subseteq S
  BY <1>1, <1>3, UpTo
<1>5. n \in S
  BY <1>4
<1> QED
  BY <1>5 DEF S, Recursion

(* What a filter keeps is built position by position. *)
BuildsKept(upTo, T, s, I) ==
    /\ \A n \in 0 .. Len(s) : upTo[n] \in Seq(T)
    /\ upTo[0] = << >>
    /\ \A n \in 1 .. Len(s) :
          upTo[n] = IF n \in I THEN Append(upTo[n - 1], s[n]) ELSE upTo[n - 1]
    /\ Kept(s, I) = upTo[Len(s)]

LEMMA KeptIsBuilt ==
    ASSUME NEW T, NEW s \in Seq(T), NEW I
    PROVE  \E upTo : BuildsKept(upTo, T, s, I)
<1> DEFINE X == Seq(T)
           N == Len(s)
           Grown(n, x) == IF n \in I THEN Append(x, s[n]) ELSE x
           Step == [n \in 1 .. N |-> [x \in X |-> Grown(n, x)]]
           Rec(f) == f = [n \in 0 .. N |-> IF n = 0 THEN << >> ELSE Grown(n, f[n - 1])]
           u == CHOOSE f : Rec(f)
<1>1. N \in Nat /\ << >> \in X
  OBVIOUS
<1>2. \A n \in 1 .. N, x \in X : Grown(n, x) \in X
  OBVIOUS
<1>3. Kept(s, I) = u[N]
  BY DEF Kept
<1> HIDE DEF X, N, Grown
<1>4. Step \in [1 .. N -> [X -> X]] /\ \A n \in 1 .. N, x \in X : Step[n][x] = Grown(n, x)
  BY <1>2
<1> HIDE DEF Step
<1>5. PICK f \in [0 .. N -> X] : f[0] = << >> /\ \A n \in 1 .. N : f[n] = Step[n][f[n - 1]]
  <2>1. Step \in Steps(N, X)
    BY <1>4 DEF Steps
  <2>2. \E f : Recursion(f, N, X, << >>, Step)
    BY <1>1, <2>1, RecursionUpTo
  <2> QED
    BY <2>2 DEF Recursion
<1>6. \A n \in 1 .. N : f[n - 1] \in X
  BY <1>1, <1>5
<1>7. \A n \in 1 .. N : f[n] = Grown(n, f[n - 1])
  BY <1>4, <1>5, <1>6
<1>8. Rec(f)
  BY <1>1, <1>5, <1>7
<1>9. Rec(u)
  BY <1>8
<1> HIDE DEF u
<1>10. u[0] = << >> /\ \A n \in 1 .. N : u[n] = Grown(n, u[n - 1])
  BY <1>1, <1>9
<1> DEFINE S == {n \in 0 .. N : u[n] \in X}
<1>11. 0 \in S
  BY <1>1, <1>10
<1>12. ASSUME NEW k \in 0 .. N - 1, k \in S PROVE k + 1 \in S
  <2>1. k + 1 \in 1 .. N /\ k + 1 - 1 = k /\ k + 1 \in 0 .. N
    BY <1>1
  <2>2. u[k + 1] = Grown(k + 1, u[k])
    BY <1>10, <2>1
  <2> QED
    BY <1>2, <1>12, <2>1, <2>2
<1>13. \A k \in 0 .. N - 1 : k \in S => k + 1 \in S
  BY <1>12
<1> HIDE DEF S
<1>14. 0 .. N \subseteq S
  BY <1>1, <1>11, <1>13, UpTo
<1>15. \A n \in 0 .. N : u[n] \in X
  BY <1>14 DEF S
<1> HIDE DEF Rec
<1> QED
  BY <1>3, <1>10, <1>15 DEF N, X, Grown, BuildsKept

(* p is the increasing enumeration of the positions in I up to n, and w    *)
(* holds the elements of s there.                                          *)
Enumerates(p, len, s, I, n, w) ==
    /\ p \in [1 .. len -> 1 .. n]
    /\ \A k \in 1 .. len : p[k] \in I /\ w[k] = s[p[k]]
    /\ \A j, k \in 1 .. len : j < k => p[j] < p[k]
    /\ \A i \in 1 .. n : i \in I => \E k \in 1 .. len : p[k] = i

LEMMA EnumeratesOneMore ==
    ASSUME NEW s, NEW I, NEW n \in Nat, NEW len \in Nat, NEW p, NEW w, NEW v,
           Enumerates(p, len, s, I, n, w), n + 1 \in I,
           \A k \in 1 .. len : v[k] = w[k], v[len + 1] = s[n + 1]
    PROVE  \E q : Enumerates(q, len + 1, s, I, n + 1, v)
<1> DEFINE q == [k \in 1 .. len + 1 |-> IF k = len + 1 THEN n + 1 ELSE p[k]]
<1>1. \A k \in 1 .. len + 1 : k \in 1 .. len \/ k = len + 1
  OBVIOUS
<1>2. \A k \in 1 .. len : p[k] \in 1 .. n /\ p[k] \in I /\ w[k] = s[p[k]]
  BY DEF Enumerates
<1>3. q[len + 1] = n + 1 /\ \A k \in 1 .. len : q[k] = p[k]
  OBVIOUS
<1>4. q \in [1 .. len + 1 -> 1 .. n + 1]
  <2>1. \A k \in 1 .. len + 1 : (IF k = len + 1 THEN n + 1 ELSE p[k]) \in 1 .. n + 1
    BY <1>1, <1>2
  <2> QED
    BY <2>1
<1> HIDE DEF q
<1>5. \A k \in 1 .. len + 1 : q[k] \in I /\ v[k] = s[q[k]]
  BY <1>1, <1>2, <1>3
<1>6. \A j, k \in 1 .. len + 1 : j < k => q[j] < q[k]
  <2> SUFFICES ASSUME NEW j \in 1 .. len + 1, NEW k \in 1 .. len + 1, j < k
               PROVE  q[j] < q[k]
    OBVIOUS
  <2>1. j \in 1 .. len /\ q[j] = p[j] /\ p[j] \in 1 .. n
    BY <1>1, <1>2, <1>3
  <2>2. CASE k = len + 1
    BY <1>3, <2>1, <2>2
  <2>3. CASE k \in 1 .. len
    BY <1>3, <2>1, <2>3 DEF Enumerates
  <2> QED
    BY <1>1, <2>2, <2>3
<1>7. \A i \in 1 .. n + 1 : i \in I => \E k \in 1 .. len + 1 : q[k] = i
  <2> SUFFICES ASSUME NEW i \in 1 .. n + 1, i \in I PROVE \E k \in 1 .. len + 1 : q[k] = i
    OBVIOUS
  <2>1. CASE i = n + 1
    BY <1>3, <2>1
  <2>2. CASE i # n + 1
    <3>1. PICK k \in 1 .. len : p[k] = i
      BY <2>2 DEF Enumerates
    <3> QED
      BY <1>3, <3>1
  <2> QED
    BY <2>1, <2>2
<1> QED
  BY <1>4, <1>5, <1>6, <1>7 DEF Enumerates

(* A filter keeps the elements at the passing positions, each once and in  *)
(* their order.                                                            *)
LEMMA KeptElements ==
    ASSUME NEW T, NEW s \in Seq(T), NEW I
    PROVE  /\ Kept(s, I) \in Seq(T)
           /\ Len(Kept(s, I)) <= Len(s)
           /\ \E p : Enumerates(p, Len(Kept(s, I)), s, I, Len(s), Kept(s, I))
<1>1. Len(s) \in Nat
  OBVIOUS
<1>2. PICK u : BuildsKept(u, T, s, I)
  BY KeptIsBuilt
<1> DEFINE Good(n) == /\ u[n] \in Seq(T)
                      /\ Len(u[n]) <= n
                      /\ \E p : Enumerates(p, Len(u[n]), s, I, n, u[n])
           S == {n \in 0 .. Len(s) : Good(n)}
<1>3. Good(0)
  <2>1. u[0] \in Seq(T) /\ Len(u[0]) = 0
    BY <1>1, <1>2 DEF BuildsKept
  <2>2. Enumerates([k \in 1 .. 0 |-> 0], 0, s, I, 0, u[0])
    BY DEF Enumerates
  <2> QED
    BY <2>1, <2>2
<1>4. ASSUME NEW n \in 0 .. Len(s) - 1, Good(n) PROVE Good(n + 1)
  <2>1. PICK p : Enumerates(p, Len(u[n]), s, I, n, u[n])
    BY <1>4
  <2>2. /\ u[n] \in Seq(T) /\ s[n + 1] \in T /\ n + 1 \in 1 .. Len(s) /\ n + 1 - 1 = n
        /\ Len(u[n]) \in Nat /\ Len(u[n]) <= n /\ n \in Nat
    BY <1>1, <1>2, <1>4 DEF BuildsKept
  <2>3. u[n + 1] = IF n + 1 \in I THEN Append(u[n], s[n + 1]) ELSE u[n]
    BY <1>2, <2>2 DEF BuildsKept
  <2>4. CASE n + 1 \in I
    <3>1. u[n + 1] = Append(u[n], s[n + 1])
      BY <2>3, <2>4
    <3>2. /\ u[n + 1] \in Seq(T)
          /\ Len(u[n + 1]) = Len(u[n]) + 1
          /\ u[n + 1][Len(u[n]) + 1] = s[n + 1]
          /\ \A k \in 1 .. Len(u[n]) : u[n + 1][k] = u[n][k]
      BY <2>2, <3>1
    <3>3. \E q : Enumerates(q, Len(u[n]) + 1, s, I, n + 1, u[n + 1])
      BY <2>1, <2>2, <2>4, <3>2, EnumeratesOneMore
    <3> QED
      BY <2>2, <3>2, <3>3
  <2>5. CASE n + 1 \notin I
    <3>1. u[n + 1] = u[n]
      BY <2>3, <2>5
    <3>2. Enumerates(p, Len(u[n]), s, I, n + 1, u[n])
      BY <2>1, <2>2, <2>5 DEF Enumerates
    <3> QED
      BY <2>2, <3>1, <3>2
  <2> QED
    BY <2>4, <2>5
<1> HIDE DEF Good
<1>5. 0 \in S /\ \A n \in 0 .. Len(s) - 1 : n \in S => n + 1 \in S
  BY <1>1, <1>3, <1>4
<1> HIDE DEF S
<1>6. 0 .. Len(s) \subseteq S
  BY <1>1, <1>5, UpTo
<1>7. Good(Len(s))
  BY <1>1, <1>6 DEF S
<1> QED
  BY <1>2, <1>7 DEF Good, BuildsKept

(* A filter that everything passes keeps the sequence.                     *)
LEMMA KeptWhole ==
    ASSUME NEW T, NEW s \in Seq(T), NEW I, \A i \in 1 .. Len(s) : i \in I
    PROVE  Kept(s, I) = s
<1>1. Len(s) \in Nat
  OBVIOUS
<1>2. PICK u : BuildsKept(u, T, s, I)
  BY KeptIsBuilt
<1> DEFINE Copied(n) == Len(u[n]) = n /\ \A k \in 1 .. n : u[n][k] = s[k]
           S == {n \in 0 .. Len(s) : Copied(n)}
<1>3. Copied(0)
  BY <1>2 DEF BuildsKept
<1>4. ASSUME NEW n \in 0 .. Len(s) - 1, Copied(n) PROVE Copied(n + 1)
  <2>1. n + 1 \in 1 .. Len(s) /\ n + 1 - 1 = n /\ s[n + 1] \in T /\ n \in Nat
    BY <1>1
  <2>2. u[n + 1] = IF n + 1 \in I THEN Append(u[n], s[n + 1]) ELSE u[n]
    BY <1>2, <2>1 DEF BuildsKept
  <2>3. u[n] \in Seq(T) /\ n + 1 \in I
    BY <1>1, <1>2, <2>1 DEF BuildsKept
  <2>4. /\ Len(u[n + 1]) = n + 1
        /\ u[n + 1][n + 1] = s[n + 1]
        /\ \A k \in 1 .. n : u[n + 1][k] = s[k]
    BY <1>4, <2>1, <2>2, <2>3
  <2> QED
    BY <2>1, <2>4
<1> HIDE DEF Copied
<1>5. 0 \in S /\ \A n \in 0 .. Len(s) - 1 : n \in S => n + 1 \in S
  BY <1>1, <1>3, <1>4
<1> HIDE DEF S
<1>6. 0 .. Len(s) \subseteq S
  BY <1>1, <1>5, UpTo
<1>7. Copied(Len(s)) /\ Kept(s, I) = u[Len(s)] /\ u[Len(s)] \in Seq(T)
  BY <1>1, <1>2, <1>6 DEF S, BuildsKept
<1> QED
  BY <1>1, <1>7 DEF Copied
=============================================================================
