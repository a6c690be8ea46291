------------------------- MODULE TraceChecksProofs -------------------------
(***************************************************************************)
(* Proofs about TraceChecks: that the greedy order check is exact and does *)
(* not depend on spans out of scope, and that the contract accepts exactly *)
(* the forests.                                                            *)
(***************************************************************************)
EXTENDS TraceChecks, SubsequenceProofs, FiniteSetTheorems

(* Min, of a set of numbers that is not empty. *)
LEMMA MinElement ==
    ASSUME NEW S, S \subseteq Nat, S # {}
    PROVE  Min(S) \in S /\ \A k \in S : Min(S) <= k
BY LeastElement DEF Min

(* One round of the loop finds the next occurrence, if there is one.       *)
LEMMA AdvanceFinds ==
    ASSUME NEW A, NEW actual \in Seq(A), NEW cursor \in 1 .. Len(actual) + 2, NEW name
    PROVE  /\ Advance(actual, cursor, name) \in 1 .. Len(actual) + 2
           /\ \A i \in cursor .. Len(actual) :
                 actual[i] = name => Advance(actual, cursor, name) <= i + 1
           /\ Advance(actual, cursor, name) <= Len(actual) + 1 =>
                 /\ cursor < Advance(actual, cursor, name)
                 /\ actual[Advance(actual, cursor, name) - 1] = name
<1> DEFINE hits == {i \in cursor .. Len(actual) : actual[i] = name}
<1>1. Len(actual) \in Nat /\ hits \subseteq Nat
  OBVIOUS
<1>2. CASE hits = {}
  <2>1. Advance(actual, cursor, name) = Len(actual) + 2
    BY <1>2 DEF Advance
  <2> QED
    BY <1>1, <1>2, <2>1
<1>3. CASE hits # {}
  <2>1. Advance(actual, cursor, name) = Min(hits) + 1
    BY <1>3 DEF Advance
  <2>2. Min(hits) \in hits /\ \A k \in hits : Min(hits) <= k
    BY <1>1, <1>3, MinElement
  <2> DEFINE m == Min(hits)
  <2> HIDE DEF m
  <2>3. m \in cursor .. Len(actual) /\ actual[m] = name /\ \A k \in hits : m <= k
    BY <2>2 DEF m
  <2>4. Advance(actual, cursor, name) = m + 1
    BY <2>1 DEF m
  <2> QED
    BY <1>1, <2>3, <2>4
<1> QED
  BY <1>2, <1>3

(* The positions the greedy loop goes through.                             *)
Cursors(c, actual, comparable) ==
    /\ \A k \in 0 .. Len(comparable) : c[k] \in 1 .. Len(actual) + 2
    /\ c[0] = 1
    /\ \A k \in 1 .. Len(comparable) : c[k] = Advance(actual, c[k - 1], comparable[k])
    /\ InRelativeOrder(actual, comparable) <=> c[Len(comparable)] <= Len(actual) + 1

LEMMA LoopIsDefined ==
    ASSUME NEW A, NEW actual \in Seq(A), NEW comparable \in Seq(A)
    PROVE  \E c : Cursors(c, actual, comparable)
<1> DEFINE X == 1 .. Len(actual) + 2
           N == Len(comparable)
           Further(k, x) == Advance(actual, x, comparable[k])
           Step == [k \in 1 .. N |-> [x \in X |-> Further(k, x)]]
           Rec(f) == f = [k \in 0 .. N |-> IF k = 0 THEN 1 ELSE Further(k, f[k - 1])]
           u == CHOOSE f : Rec(f)
<1>1. N \in Nat /\ 1 \in X
  OBVIOUS
<1>2. \A k \in 1 .. N, x \in X : Further(k, x) \in X
  BY AdvanceFinds
<1>3. InRelativeOrder(actual, comparable) <=> u[N] <= Len(actual) + 1
  BY DEF InRelativeOrder
<1> HIDE DEF X, N, Further
<1>4. Step \in [1 .. N -> [X -> X]] /\ \A k \in 1 .. N, x \in X : Step[k][x] = Further(k, x)
  BY <1>2
<1> HIDE DEF Step
<1>5. PICK f \in [0 .. N -> X] : f[0] = 1 /\ \A k \in 1 .. N : f[k] = Step[k][f[k - 1]]
  <2>1. Step \in Steps(N, X)
    BY <1>4 DEF Steps
  <2>2. \E f : Recursion(f, N, X, 1, Step)
    BY <1>1, <2>1, RecursionUpTo
  <2> QED
    BY <2>2 DEF Recursion
<1>6. \A k \in 1 .. N : f[k - 1] \in X
  BY <1>1, <1>5
<1>7. \A k \in 1 .. N : f[k] = Further(k, f[k - 1])
  BY <1>4, <1>5, <1>6
<1>8. Rec(f)
  BY <1>1, <1>5, <1>7
<1>9. Rec(u)
  BY <1>8
<1> HIDE DEF u
<1>10. u[0] = 1 /\ \A k \in 1 .. N : u[k] = Further(k, u[k - 1])
  BY <1>1, <1>9
<1> DEFINE S == {k \in 0 .. N : u[k] \in X}
<1>11. 0 \in S
  BY <1>1, <1>10
<1>12. ASSUME NEW k \in 0 .. N - 1, k \in S PROVE k + 1 \in S
  <2>1. k + 1 \in 1 .. N /\ k + 1 - 1 = k /\ k + 1 \in 0 .. N
    BY <1>1
  <2>2. u[k + 1] = Further(k + 1, u[k])
    BY <1>10, <2>1
  <2> QED
    BY <1>2, <1>12, <2>1, <2>2
<1>13. \A k \in 0 .. N - 1 : k \in S => k + 1 \in S
  BY <1>12
<1> HIDE DEF S
<1>14. 0 .. N \subseteq S
  BY <1>1, <1>11, <1>13, UpTo
<1>15. \A k \in 0 .. N : u[k] \in X
  BY <1>14 DEF S
<1> HIDE DEF Rec
<1> QED
  BY <1>3, <1>10, <1>15 DEF N, X, Further, Cursors

(* An increasing assignment is never behind the loop: the loop succeeds.   *)
LEMMA LoopFindsAnOrder ==
    ASSUME NEW A, NEW actual \in Seq(A), NEW comparable \in Seq(A), Embeds(comparable, actual)
    PROVE  InRelativeOrder(actual, comparable)
<1> DEFINE L == Len(actual)
           N == Len(comparable)
<1>1. L \in Nat /\ N \in Nat
  OBVIOUS
<1>2. PICK c : Cursors(c, actual, comparable)
  BY LoopIsDefined
<1>3. PICK place \in [1 .. N -> 1 .. L] :
         /\ \A i \in 1 .. N : actual[place[i]] = comparable[i]
         /\ \A i, j \in 1 .. N : i < j => place[i] < place[j]
  <2>1. DOMAIN comparable = 1 .. N /\ DOMAIN actual = 1 .. L
    OBVIOUS
  <2> HIDE DEF N, L
  <2> QED
    BY <2>1 DEF Embeds
<1>4. \A k \in 1 .. N : place[k] \in 1 .. L
  BY <1>3
<1> DEFINE S == {k \in 0 .. N : c[k] <= L + 1 /\ (k > 0 => c[k] <= place[k] + 1)}
<1>5. 0 \in S
  BY <1>1, <1>2 DEF Cursors
<1>6. ASSUME NEW k \in 0 .. N - 1, k \in S PROVE k + 1 \in S
  <2>1. k + 1 \in 1 .. N /\ k + 1 - 1 = k /\ k \in 0 .. N
    BY <1>1
  <2>2. c[k] \in 1 .. L + 2 /\ c[k + 1] = Advance(actual, c[k], comparable[k + 1])
    BY <1>2, <2>1 DEF Cursors
  <2>3. place[k + 1] \in 1 .. L /\ actual[place[k + 1]] = comparable[k + 1]
    BY <1>3, <1>4, <2>1
  <2>4. c[k] <= place[k + 1]
    <3>1. CASE k = 0
      BY <1>2, <2>3, <3>1 DEF Cursors
    <3>2. CASE k # 0
      <4>1. k \in 1 .. N /\ place[k] \in 1 .. L /\ place[k] < place[k + 1]
        BY <1>1, <1>3, <1>4, <2>1, <3>2
      <4>2. c[k] <= place[k] + 1
        BY <1>6, <3>2
      <4> QED
        BY <1>1, <2>2, <2>3, <4>1, <4>2
    <3> QED
      BY <3>1, <3>2
  <2>5. place[k + 1] \in c[k] .. L
    BY <1>1, <2>2, <2>3, <2>4
  <2>6. /\ c[k + 1] \in 1 .. L + 2
        /\ \A i \in c[k] .. L : actual[i] = comparable[k + 1] => c[k + 1] <= i + 1
    BY <2>2, AdvanceFinds
  <2>7. c[k + 1] <= place[k + 1] + 1
    BY <2>3, <2>5, <2>6
  <2> QED
    BY <1>1, <2>1, <2>3, <2>6, <2>7
<1>7. \A k \in 0 .. N - 1 : k \in S => k + 1 \in S
  BY <1>6
<1> HIDE DEF S
<1>8. 0 .. N \subseteq S
  BY <1>1, <1>5, <1>7, UpTo
<1>9. c[N] <= L + 1
  BY <1>1, <1>8 DEF S
<1> QED
  BY <1>2, <1>9 DEF Cursors

(* The positions at which a successful loop stopped are an assignment.     *)
LEMMA LoopGivesAnOrder ==
    ASSUME NEW A, NEW actual \in Seq(A), NEW comparable \in Seq(A),
           InRelativeOrder(actual, comparable)
    PROVE  Embeds(comparable, actual)
<1> DEFINE L == Len(actual)
           N == Len(comparable)
<1>1. L \in Nat /\ N \in Nat
  OBVIOUS
<1>2. PICK c : Cursors(c, actual, comparable)
  BY LoopIsDefined
<1>3. \A k \in 0 .. N : c[k] \in 1 .. L + 2
  BY <1>2 DEF Cursors
<1>4. ASSUME NEW k \in 1 .. N, c[k] <= L + 1
      PROVE  c[k - 1] < c[k] /\ actual[c[k] - 1] = comparable[k]
  <2>1. k - 1 \in 0 .. N /\ c[k] = Advance(actual, c[k - 1], comparable[k])
    BY <1>1, <1>2 DEF Cursors
  <2>2. c[k - 1] \in 1 .. L + 2
    BY <1>3, <2>1
  <2> QED
    BY <1>4, <2>1, <2>2, AdvanceFinds
<1> DEFINE S == {d \in 0 .. N : c[N - d] <= L + 1}
<1>5. 0 \in S
  <2>1. c[N] <= L + 1 /\ N - 0 = N
    BY <1>1, <1>2 DEF Cursors
  <2> QED
    BY <1>1, <2>1
<1>6. ASSUME NEW d \in 0 .. N - 1, d \in S PROVE d + 1 \in S
  <2>1. N - d \in 1 .. N /\ N - (d + 1) = (N - d) - 1 /\ N - (d + 1) \in 0 .. N
    BY <1>1
  <2>2. c[N - d] <= L + 1
    BY <1>6
  <2>3. c[N - (d + 1)] < c[N - d]
    BY <1>4, <2>1, <2>2
  <2>4. c[N - (d + 1)] \in 1 .. L + 2 /\ c[N - d] \in 1 .. L + 2
    BY <1>1, <1>3, <2>1
  <2>5. c[N - (d + 1)] <= L + 1
    BY <1>1, <2>2, <2>3, <2>4
  <2> QED
    BY <1>1, <2>5
<1>7. \A d \in 0 .. N - 1 : d \in S => d + 1 \in S
  BY <1>6
<1> HIDE DEF S
<1>8. 0 .. N \subseteq S
  BY <1>1, <1>5, <1>7, UpTo
<1>9. \A k \in 0 .. N : c[k] <= L + 1
  <2> SUFFICES ASSUME NEW k \in 0 .. N PROVE c[k] <= L + 1
    OBVIOUS
  <2>1. N - k \in S /\ N - (N - k) = k
    BY <1>1, <1>8
  <2> QED
    BY <2>1 DEF S
<1>10. \A k \in 1 .. N : c[k - 1] < c[k] /\ actual[c[k] - 1] = comparable[k]
  BY <1>1, <1>4, <1>9
<1> DEFINE R == {k \in 0 .. N : \A i \in 1 .. N : i < k => c[i] < c[k]}
<1>11. 0 \in R
  BY <1>1
<1>12. ASSUME NEW k \in 0 .. N - 1, k \in R PROVE k + 1 \in R
  <2>1. k + 1 \in 1 .. N /\ c[k] < c[k + 1] /\ c[k] \in Int /\ c[k + 1] \in Int
    BY <1>1, <1>3, <1>10
  <2>2. ASSUME NEW i \in 1 .. N, i < k + 1 PROVE c[i] < c[k + 1]
    <3>1. c[i] \in Int
      BY <1>1, <1>3
    <3>2. i < k \/ i = k
      BY <2>2
    <3>3. i < k => c[i] < c[k]
      BY <1>12
    <3> QED
      BY <2>1, <3>1, <3>2, <3>3
  <2> QED
    BY <1>1, <2>1, <2>2
<1>13. \A k \in 0 .. N - 1 : k \in R => k + 1 \in R
  BY <1>12
<1> HIDE DEF R
<1>14. 0 .. N \subseteq R
  BY <1>1, <1>11, <1>13, UpTo
<1>15. \A i, k \in 1 .. N : i < k => c[i] < c[k]
  BY <1>1, <1>14 DEF R
<1> DEFINE place == [k \in 1 .. N |-> c[k] - 1]
<1>16. ASSUME NEW k \in 1 .. N PROVE c[k] - 1 \in 1 .. L
  <2>1. c[k - 1] \in 1 .. L + 2 /\ c[k] \in 1 .. L + 2 /\ c[k] <= L + 1 /\ c[k - 1] < c[k]
    BY <1>1, <1>3, <1>9, <1>10
  <2> QED
    BY <1>1, <2>1
<1>17. place \in [1 .. N -> 1 .. L]
  BY <1>16
<1>18. \A i \in 1 .. N : actual[place[i]] = comparable[i]
  BY <1>10
<1>19. ASSUME NEW i \in 1 .. N, NEW j \in 1 .. N, i < j PROVE place[i] < place[j]
  <2>1. c[i] < c[j] /\ c[i] \in Int /\ c[j] \in Int
    BY <1>1, <1>3, <1>15, <1>19
  <2> QED
    BY <2>1
<1>20. DOMAIN comparable = 1 .. N /\ DOMAIN actual = 1 .. L
  OBVIOUS
<1> HIDE DEF place, N, L
<1> QED
  BY <1>17, <1>18, <1>19, <1>20 DEF Embeds

(* The greedy loop of a subsequence check is exact.                        *)
LEMMA GreedyIsExact ==
    ASSUME NEW A, NEW actual \in Seq(A), NEW comparable \in Seq(A)
    PROVE  InRelativeOrder(actual, comparable) <=> Embeds(comparable, actual)
BY LoopFindsAnOrder, LoopGivesAnOrder

-----------------------------------------------------------------------------
(***************************************************************************)
(* What the checks see of a trace: the contract requires a name of every   *)
(* span, so the first identity of each is its name.                        *)
(***************************************************************************)

LEMMA IdentifiedSpan ==
    ASSUME NEW span \in Identified
    PROVE  /\ FirstIdentity(span) = span.name
           /\ span.name \in Name
           /\ span.name \in Identities(span)
BY ChecksAssumption DEF Identified, FirstIdentity, Identities

LEMMA ActualNames ==
    ASSUME NEW s \in Seq(Identified)
    PROVE  /\ Actual(s) \in Seq(Name \cup Agent)
           /\ Len(Actual(s)) = Len(s)
           /\ \A i \in 1 .. Len(s) : Actual(s)[i] = s[i].name
<1> DEFINE names == [i \in DOMAIN s |-> FirstIdentity(s[i])]
           I == {i \in DOMAIN s : Identities(s[i]) # {}}
<1>1. Len(s) \in Nat /\ DOMAIN s = 1 .. Len(s) /\ \A i \in 1 .. Len(s) : s[i] \in Identified
  OBVIOUS
<1>2. \A i \in 1 .. Len(s) : /\ FirstIdentity(s[i]) = s[i].name
                             /\ s[i].name \in Name
                             /\ Identities(s[i]) # {}
  BY <1>1, IdentifiedSpan
<1>3. names \in [1 .. Len(s) -> Name \cup Agent]
  BY <1>1, <1>2
<1>4. names \in Seq(Name \cup Agent) /\ Len(names) = Len(s)
  BY <1>1, <1>3
<1>5. \A i \in 1 .. Len(s) : names[i] = s[i].name /\ i \in I
  BY <1>1, <1>2
<1>6. Actual(s) = Kept(names, I)
  BY DEF Actual
<1> HIDE DEF names, I
<1>7. Kept(names, I) = names
  BY <1>4, <1>5, KeptWhole
<1> QED
  BY <1>4, <1>5, <1>6, <1>7

(* The spans whose names are the expected ones, in this order.             *)
Placed(q, expected, s) ==
    /\ \A i \in 1 .. Len(expected) : q[i] \in 1 .. Len(s) /\ s[q[i]].name = expected[i]
    /\ \A i, j \in 1 .. Len(expected) : i < j => q[i] < q[j]

LEMMA EmbedsIsPlaced ==
    ASSUME NEW s \in Seq(Identified), NEW expected \in Seq(Name \cup Agent)
    PROVE  Embeds(expected, Actual(s)) <=> \E q : Placed(q, expected, s)
<1> DEFINE N == Len(expected)
           L == Len(s)
<1>1. DOMAIN expected = 1 .. N /\ DOMAIN Actual(s) = 1 .. L
  BY ActualNames
<1>2. \A i \in 1 .. L : Actual(s)[i] = s[i].name
  BY ActualNames
<1> HIDE DEF N, L
<1>3. ASSUME Embeds(expected, Actual(s)) PROVE \E q : Placed(q, expected, s)
  <2>1. PICK place \in [1 .. N -> 1 .. L] :
           /\ \A i \in 1 .. N : Actual(s)[place[i]] = expected[i]
           /\ \A i, j \in 1 .. N : i < j => place[i] < place[j]
    BY <1>1, <1>3 DEF Embeds
  <2>2. Placed(place, expected, s)
    BY <1>2, <2>1 DEF Placed, N, L
  <2> QED
    BY <2>2
<1>4. ASSUME NEW q, Placed(q, expected, s) PROVE Embeds(expected, Actual(s))
  <2> DEFINE place == [i \in 1 .. N |-> q[i]]
  <2>1. \A i \in 1 .. N : q[i] \in 1 .. L /\ s[q[i]].name = expected[i]
    BY <1>4 DEF Placed, N, L
  <2>2. place \in [1 .. N -> 1 .. L]
    BY <2>1
  <2>3. \A i, j \in 1 .. N : i < j => place[i] < place[j]
    BY <1>4 DEF Placed, N
  <2>4. \A i \in 1 .. N : Actual(s)[place[i]] = expected[i]
    BY <1>2, <2>1
  <2> HIDE DEF place
  <2> QED
    BY <1>1, <2>2, <2>3, <2>4 DEF Embeds
<1> QED
  BY <1>3, <1>4

(* Leaving out spans that are not asked for moves the others together and  *)
(* keeps their order.                                                      *)
LEMMA PlacedInScope ==
    ASSUME NEW s \in Seq(Identified), NEW expected \in Seq(Name \cup Agent), NEW I,
           \A i \in 1 .. Len(s) :
              (\E k \in 1 .. Len(expected) : s[i].name = expected[k]) => i \in I
    PROVE  (\E q : Placed(q, expected, Kept(s, I))) <=> (\E q : Placed(q, expected, s))
<1> DEFINE w == Kept(s, I)
           L == Len(s)
           M == Len(w)
           N == Len(expected)
<1>1. L \in Nat /\ M \in Nat /\ N \in Nat
  BY KeptElements
<1>2. PICK p : Enumerates(p, M, s, I, L, w)
  BY KeptElements
<1> HIDE DEF w, L, M, N
<1>3. /\ \A k \in 1 .. M : p[k] \in 1 .. L /\ w[k] = s[p[k]]
      /\ \A j, k \in 1 .. M : j < k => p[j] < p[k]
      /\ \A i \in 1 .. L : i \in I => \E k \in 1 .. M : p[k] = i
  BY <1>2 DEF Enumerates
<1>4. ASSUME NEW q, Placed(q, expected, w) PROVE \E r : Placed(r, expected, s)
  <2> DEFINE r == [i \in 1 .. N |-> p[q[i]]]
  <2>1. /\ \A i \in 1 .. N : q[i] \in 1 .. M /\ w[q[i]].name = expected[i]
        /\ \A i, j \in 1 .. N : i < j => q[i] < q[j]
    BY <1>4 DEF Placed, M, N
  <2>2. \A i \in 1 .. N : r[i] = p[q[i]]
    OBVIOUS
  <2> HIDE DEF r
  <2>3. \A i \in 1 .. N : r[i] \in 1 .. L /\ s[r[i]].name = expected[i]
    BY <1>3, <2>1, <2>2
  <2>4. \A i, j \in 1 .. N : i < j => r[i] < r[j]
    BY <1>3, <2>1, <2>2
  <2> QED
    BY <2>3, <2>4 DEF Placed, N, L
<1>5. ASSUME NEW q, Placed(q, expected, s) PROVE \E r : Placed(r, expected, w)
  <2>1. /\ \A i \in 1 .. N : q[i] \in 1 .. L /\ s[q[i]].name = expected[i]
        /\ \A i, j \in 1 .. N : i < j => q[i] < q[j]
    BY <1>5 DEF Placed, N, L
  <2>2. \A i \in 1 .. N : \E k \in 1 .. M : p[k] = q[i]
    BY <1>3, <2>1 DEF L, N
  <2> DEFINE r == [i \in 1 .. N |-> CHOOSE k \in 1 .. M : p[k] = q[i]]
  <2>3. \A i \in 1 .. N : r[i] \in 1 .. M /\ p[r[i]] = q[i]
    BY <2>2
  <2> HIDE DEF r
  <2>4. \A i \in 1 .. N : w[r[i]].name = expected[i]
    BY <1>3, <2>1, <2>3
  <2>5. ASSUME NEW i \in 1 .. N, NEW j \in 1 .. N, i < j PROVE r[i] < r[j]
    <3>1. r[i] \in 1 .. M /\ r[j] \in 1 .. M /\ p[r[i]] < p[r[j]]
      BY <2>1, <2>3, <2>5
    <3>2. p[r[i]] \in Int /\ p[r[j]] \in Int
      BY <1>1, <1>3, <3>1
    <3>3. ~(r[j] < r[i]) /\ r[j] # r[i]
      BY <1>3, <3>1, <3>2
    <3> QED
      BY <1>1, <3>1, <3>3
  <2>6. Placed(r, expected, w)
    BY <2>3, <2>4, <2>5 DEF Placed, N, M
  <2> QED
    BY <2>6
<1> QED
  BY <1>4, <1>5 DEF w

LEMMA OrderType ==
    ASSUME NEW params \in Checks
    PROVE  /\ params.expected \in Seq(Name \cup Agent)
           /\ Len(params.expected) \in 1 .. MaxOrder
           /\ params.ignoreMissing \in BOOLEAN
<1>1. PICK n \in 1 .. MaxOrder : params.expected \in [1 .. n -> Name \cup Agent]
  BY DEF Checks, Orders
<1>2. n \in Nat
  BY ChecksAssumption
<1> DEFINE e == params.expected
<1>3. e \in Seq(Name \cup Agent) /\ Len(e) = n
  BY <1>1, <1>2
<1> QED
  BY <1>1, <1>3 DEF Checks

LEMMA ScopedIsKept ==
    ASSUME NEW s \in Seq(Identified), NEW wanted
    PROVE  /\ Scope(s, wanted) \in Seq(Identified)
           /\ Len(Scope(s, wanted)) <= Len(s)
           /\ wanted # {} =>
                 Scope(s, wanted) = Kept(s, {i \in DOMAIN s : InScope(s[i], wanted)})
<1>1. Len(s) \in Nat
  OBVIOUS
<1> QED
  BY <1>1, KeptElements DEF Scope

(* A span that has a visible identity is in scope.                         *)
LEMMA PresentInScope ==
    ASSUME NEW s \in Seq(Identified), NEW wanted, NEW name \in wanted
    PROVE  IsPresent(Scope(s, wanted), name) <=> IsPresent(s, name)
<1> DEFINE I == {i \in DOMAIN s : InScope(s[i], wanted)}
           w == Kept(s, I)
           L == Len(s)
           M == Len(w)
<1>1. L \in Nat /\ M \in Nat /\ DOMAIN s = 1 .. L /\ DOMAIN w = 1 .. M
  BY KeptElements
<1>2. PICK p : Enumerates(p, M, s, I, L, w)
  BY KeptElements
<1>3. Scope(s, wanted) = w
  BY ScopedIsKept
<1>4. \A i \in 1 .. L : HasIdentity(s[i], name) => i \in I
  BY <1>1 DEF InScope
<1> HIDE DEF I, w, L, M
<1>5. /\ \A k \in 1 .. M : p[k] \in 1 .. L /\ w[k] = s[p[k]]
      /\ \A i \in 1 .. L : i \in I => \E k \in 1 .. M : p[k] = i
  BY <1>2 DEF Enumerates
<1>6. ASSUME IsPresent(w, name) PROVE IsPresent(s, name)
  BY <1>1, <1>5, <1>6 DEF IsPresent
<1>7. ASSUME IsPresent(s, name) PROVE IsPresent(w, name)
  <2>1. PICK i \in 1 .. L : HasIdentity(s[i], name)
    BY <1>1, <1>7 DEF IsPresent
  <2>2. PICK k \in 1 .. M : p[k] = i
    BY <1>4, <1>5, <2>1
  <2> QED
    BY <1>1, <1>5, <2>1, <2>2 DEF IsPresent
<1> QED
  BY <1>3, <1>6, <1>7

(* The names an order is compared with are expected ones.                  *)
LEMMA PresentElements ==
    ASSUME NEW s, NEW expected \in Seq(Name \cup Agent)
    PROVE  /\ Present(s, expected) \in Seq(Name \cup Agent)
           /\ Len(Present(s, expected)) <= Len(expected)
           /\ \A k \in 1 .. Len(Present(s, expected)) :
                 Present(s, expected)[k] \in ToSet(expected)
<1> DEFINE I == {i \in DOMAIN expected : IsPresent(s, expected[i])}
           w == Kept(expected, I)
           M == Len(w)
           L == Len(expected)
<1>1. w \in Seq(Name \cup Agent) /\ M <= L
  BY KeptElements
<1>2. PICK p : Enumerates(p, M, expected, I, L, w)
  BY KeptElements
<1>3. DOMAIN expected = 1 .. L
  OBVIOUS
<1>4. Present(s, expected) = w
  BY DEF Present
<1> HIDE DEF I, w, L, M
<1>5. \A k \in 1 .. M : p[k] \in 1 .. L /\ w[k] = expected[p[k]]
  BY <1>2 DEF Enumerates
<1>6. \A k \in 1 .. M : w[k] \in ToSet(expected)
  BY <1>3, <1>5 DEF ToSet
<1> QED
  BY <1>1, <1>4, <1>6 DEF M, L

(* Names that are placed are present.                                      *)
LEMMA PlacedIsPresent ==
    ASSUME NEW s \in Seq(Identified), NEW expected \in Seq(Name \cup Agent),
           NEW q, Placed(q, expected, s)
    PROVE  Present(s, expected) = expected
<1> DEFINE I == {i \in DOMAIN expected : IsPresent(s, expected[i])}
           L == Len(s)
           N == Len(expected)
<1>1. DOMAIN s = 1 .. L /\ DOMAIN expected = 1 .. N /\ \A i \in 1 .. L : s[i] \in Identified
  OBVIOUS
<1>2. \A i \in 1 .. N : q[i] \in 1 .. L /\ s[q[i]].name = expected[i]
  BY DEF Placed
<1> HIDE DEF L, N
<1>3. \A i \in 1 .. N : HasIdentity(s[q[i]], expected[i])
  BY <1>1, <1>2, IdentifiedSpan DEF HasIdentity
<1>4. \A i \in 1 .. N : i \in I
  BY <1>1, <1>2, <1>3 DEF IsPresent
<1> HIDE DEF I
<1>5. Kept(expected, I) = expected
  BY <1>4, KeptWhole DEF N
<1> QED
  BY <1>5 DEF Present, I

(* The verdict on an order does not depend on what is out of scope.        *)
LEMMA OrderInScope ==
    ASSUME NEW s \in Seq(Identified), NEW wanted, NEW names \in Seq(Name \cup Agent),
           \A k \in 1 .. Len(names) : names[k] \in wanted, wanted # {}
    PROVE  InRelativeOrder(Actual(Scope(s, wanted)), names) <=> InRelativeOrder(Actual(s), names)
<1> DEFINE I == {i \in DOMAIN s : InScope(s[i], wanted)}
           w == Scope(s, wanted)
<1>1. w = Kept(s, I) /\ w \in Seq(Identified)
  BY ScopedIsKept
<1>2. DOMAIN s = 1 .. Len(s) /\ \A i \in 1 .. Len(s) : s[i] \in Identified
  OBVIOUS
<1>3. \A i \in 1 .. Len(s) : (\E k \in 1 .. Len(names) : s[i].name = names[k]) => i \in I
  <2> SUFFICES ASSUME NEW i \in 1 .. Len(s), NEW k \in 1 .. Len(names), s[i].name = names[k]
               PROVE  InScope(s[i], wanted)
    BY <1>2
  <2>1. s[i].name \in wanted /\ s[i].name \in Identities(s[i])
    BY <1>2, IdentifiedSpan
  <2> QED
    BY <2>1 DEF InScope, HasIdentity
<1> HIDE DEF I, w
<1>4. (\E q : Placed(q, names, w)) <=> (\E q : Placed(q, names, s))
  BY <1>1, <1>3, PlacedInScope
<1>5. Embeds(names, Actual(w)) <=> Embeds(names, Actual(s))
  BY <1>1, <1>4, EmbedsIsPlaced
<1>6. Actual(w) \in Seq(Name \cup Agent) /\ Actual(s) \in Seq(Name \cup Agent)
  BY <1>1, ActualNames
<1>7. InRelativeOrder(Actual(w), names) <=> InRelativeOrder(Actual(s), names)
  BY <1>5, <1>6, GreedyIsExact
<1> QED
  BY <1>7 DEF w

LEMMA SameOutcome ==
    ASSUME NEW s \in Seq(Identified), NEW named, NEW params \in Checks,
           params.mode = "subsequence"
    PROVE  TicketOutcome(Scope(s, Visible(named, params.expected)), named, params)
             = TicketOutcome(s, named, params)
<1> DEFINE e == params.expected
           V == Visible(named, e)
           w == Scope(s, V)
<1>1. e \in Seq(Name \cup Agent) /\ Len(e) \in 1 .. MaxOrder
  BY OrderType
<1>2. DOMAIN e = 1 .. Len(e) /\ 1 \in DOMAIN e
  BY <1>1
<1>3. named \subseteq V /\ ToSet(e) \subseteq V /\ V # {} /\ \A i \in DOMAIN e : e[i] \in V
  BY <1>2 DEF Visible, ToSet
<1> HIDE DEF e, V, w
<1>4. \A name \in V : IsPresent(w, name) <=> IsPresent(s, name)
  BY PresentInScope DEF w
<1>5. Applies(w, named) <=> Applies(s, named)
  BY <1>3, <1>4 DEF Applies
<1>6. Present(w, e) = Present(s, e)
  <2>1. {i \in DOMAIN e : IsPresent(w, e[i])} = {i \in DOMAIN e : IsPresent(s, e[i])}
    BY <1>3, <1>4
  <2> QED
    BY <2>1 DEF Present
<1>7. InRelativeOrder(Actual(w), e) <=> InRelativeOrder(Actual(s), e)
  BY <1>1, <1>2, <1>3, OrderInScope DEF w
<1>8. InRelativeOrder(Actual(w), Present(s, e)) <=> InRelativeOrder(Actual(s), Present(s, e))
  <2>1. \A k \in 1 .. Len(Present(s, e)) : Present(s, e)[k] \in V
    BY <1>1, <1>3, PresentElements
  <2> QED
    BY <1>1, <1>3, <2>1, PresentElements, OrderInScope DEF w
<1>9. OrderOutcome(w, params) = OrderOutcome(s, params)
  <2>1. params.mode # "strict"
    OBVIOUS
  <2> QED
    BY <1>6, <1>7, <1>8, <2>1 DEF OrderOutcome, e
<1>10. TicketOutcome(w, named, params) = TicketOutcome(s, named, params)
  BY <1>5, <1>9 DEF TicketOutcome
<1> QED
  BY <1>10 DEF w, V, e

(* The verdict of a subsequence check is the reference one.                *)
LEMMA OrderIsExact ==
    ASSUME NEW s \in Seq(Identified), NEW params \in Checks, params.mode = "subsequence"
    PROVE  OrderOutcome(s, params).passed <=>
              Embeds(IF params.ignoreMissing THEN Present(s, params.expected)
                                             ELSE params.expected, Actual(s))
<1> DEFINE e == params.expected
           present == Present(s, e)
           actual == Actual(s)
<1>1. e \in Seq(Name \cup Agent) /\ actual \in Seq(Name \cup Agent)
      /\ present \in Seq(Name \cup Agent) /\ params.ignoreMissing \in BOOLEAN
  BY OrderType, ActualNames, PresentElements
<1>2. params.mode # "strict"
  OBVIOUS
<1>3. Embeds(e, actual) => present = e
  BY <1>1, EmbedsIsPlaced, PlacedIsPresent
<1> HIDE DEF e, present, actual
<1>4. /\ InRelativeOrder(actual, e) <=> Embeds(e, actual)
      /\ InRelativeOrder(actual, present) <=> Embeds(present, actual)
  BY <1>1, GreedyIsExact
<1>5. OrderOutcome(s, params).passed <=>
         /\ InRelativeOrder(actual, IF params.ignoreMissing THEN present ELSE e)
         /\ params.ignoreMissing \/ ~(Len(present) < Len(e))
  BY <1>2 DEF OrderOutcome, e, present, actual
<1>6. Len(e) \in Nat
  BY <1>1
<1>7. CASE params.ignoreMissing
  BY <1>4, <1>5, <1>7 DEF e, present, actual
<1>8. CASE ~params.ignoreMissing
  BY <1>3, <1>4, <1>5, <1>6, <1>8 DEF e, present, actual
<1> QED
  BY <1>1, <1>7, <1>8

Outcomes == [passed : BOOLEAN, found : 0 .. MaxOrder, asked : 0 .. MaxOrder,
             why : {"none", "not_applicable"} \cup Explanation]

LEMMA OutcomeType ==
    ASSUME NEW s, NEW named, NEW params \in Checks
    PROVE  /\ TicketOutcome(s, named, params) \in Outcomes
           /\ TicketOutcome(s, named, params).why # "none"
           /\ TicketOutcome(s, named, params).why \in Explanation =>
                 TicketOutcome(s, named, params) = OrderOutcome(s, params)
<1> DEFINE e == params.expected
           present == Present(s, e)
<1>1. Len(e) \in 0 .. MaxOrder /\ Len(present) \in 0 .. MaxOrder
  BY OrderType, PresentElements, ChecksAssumption
<1>2. params.ignoreMissing \in BOOLEAN
  BY OrderType
<1>3. /\ OrderOutcome(s, params) \in Outcomes
      /\ OrderOutcome(s, params).why \in Explanation
  <2>1. \A actual, comparable : InRelativeOrder(actual, comparable) \in BOOLEAN
    BY DEF InRelativeOrder
  <2>2. \A actual, comparable, missing : InStrictOrder(actual, comparable, missing) \in BOOLEAN
    BY DEF InStrictOrder
  <2> HIDE DEF e, present
  <2> QED
    BY <1>1, <1>2, <2>1, <2>2 DEF OrderOutcome, Outcomes, Explanation, e, present
<1>4. CASE Applies(s, named)
  BY <1>3, <1>4 DEF TicketOutcome, Explanation
<1>5. CASE ~Applies(s, named)
  <2>1. TicketOutcome(s, named, params) = NoOutcome("not_applicable")
    BY <1>5 DEF TicketOutcome
  <2> QED
    BY <2>1, ChecksAssumption DEF NoOutcome, Outcomes, Explanation
<1> QED
  BY <1>4, <1>5

-----------------------------------------------------------------------------
(***************************************************************************)
(* The loops of the contract.                                              *)
(***************************************************************************)

Traces == UNION {[1 .. n -> Span] : n \in 0 .. MaxSpans}

LEMMA TraceType ==
    ASSUME spans \in Traces
    PROVE  /\ Len(spans) \in Nat
           /\ Len(spans) <= MaxSpans
           /\ DOMAIN spans = 1 .. Len(spans)
           /\ \A i \in DOMAIN spans : /\ spans[i].id \in SpanId
                                      /\ spans[i].parent \in SpanId \cup {NoParent}
                                      /\ spans[i].sound \in BOOLEAN
           /\ IsFiniteSet(DOMAIN spans)
<1>1. PICK n \in 0 .. MaxSpans : spans \in [1 .. n -> Span]
  BY DEF Traces
<1>2. n \in Nat /\ n <= MaxSpans
  BY TreeAssumption
<1>3. Len(spans) = n /\ DOMAIN spans = 1 .. n
  BY <1>1, <1>2
<1>4. IsFiniteSet(1 .. n)
  BY <1>2, FS_Interval
<1> QED
  BY <1>1, <1>2, <1>3, <1>4 DEF Span

(* The spans E with their depths: every one is a root, or one deeper than  *)
(* a parent that is among them.                                            *)
Grounding(E, depth) ==
    /\ E \subseteq DOMAIN spans
    /\ \A k \in E :
          /\ depth[k] \in Nat
          /\ depth[k] < Cardinality(E)
          /\ \/ spans[k].parent = NoParent /\ depth[k] = 0
             \/ \E j \in E : spans[j].id = spans[k].parent /\ depth[k] = depth[j] + 1

Grounded(W) == \E E, depth : W \subseteq E /\ Grounding(E, depth)

LEMMA GroundedSubset ==
    ASSUME NEW W, NEW V \in SUBSET W, Grounded(W)
    PROVE  Grounded(V)
BY DEF Grounded

LEMMA NothingIsGrounded == spans \in Traces => Grounded({})
<1> SUFFICES ASSUME spans \in Traces PROVE Grounded({})
  OBVIOUS
<1>1. Grounding({}, [k \in {} |-> 0])
  BY DEF Grounding
<1> QED
  BY <1>1 DEF Grounded

(* What hangs below a grounded span, or is a root, can be added.           *)
LEMMA GroundedOneMore ==
    ASSUME spans \in Traces, NEW W, Grounded(W), NEW i \in DOMAIN spans,
           \/ spans[i].parent = NoParent
           \/ \E j \in W : spans[j].id = spans[i].parent
    PROVE  Grounded(W \cup {i})
<1>1. PICK E, depth : W \subseteq E /\ Grounding(E, depth)
  BY DEF Grounded
<1>2. CASE i \in E
  BY <1>1, <1>2 DEF Grounded
<1>3. CASE i \notin E
  <2>1. IsFiniteSet(E) /\ E \subseteq DOMAIN spans
    BY <1>1, TraceType, FS_Subset DEF Grounding
  <2>2. Cardinality(E) \in Nat /\ Cardinality(E \cup {i}) = Cardinality(E) + 1
    BY <1>3, <2>1, FS_CardinalityType, FS_AddElement
  <2>3. \E n \in Nat :
           /\ n < Cardinality(E) + 1
           /\ \/ spans[i].parent = NoParent /\ n = 0
              \/ \E j \in E : spans[j].id = spans[i].parent /\ n = depth[j] + 1
    <3>1. CASE spans[i].parent = NoParent
      BY <2>2, <3>1
    <3>2. CASE \E j \in W : spans[j].id = spans[i].parent
      <4>1. PICK j \in E : spans[j].id = spans[i].parent
        BY <1>1, <3>2
      <4>2. depth[j] \in Nat /\ depth[j] < Cardinality(E)
        BY <1>1 DEF Grounding
      <4>3. depth[j] + 1 \in Nat /\ depth[j] + 1 < Cardinality(E) + 1
        BY <2>2, <4>2
      <4> QED
        BY <4>1, <4>3
    <3> QED
      BY <3>1, <3>2
  <2>4. PICK n \in Nat :
           /\ n < Cardinality(E) + 1
           /\ \/ spans[i].parent = NoParent /\ n = 0
              \/ \E j \in E : spans[j].id = spans[i].parent /\ n = depth[j] + 1
    BY <2>3
  <2> DEFINE F == E \cup {i}
             deeper == [k \in F |-> IF k = i THEN n ELSE depth[k]]
  <2>5. deeper[i] = n /\ (\A k \in E : deeper[k] = depth[k])
    BY <1>3
  <2>6. F \subseteq DOMAIN spans /\ i \in F /\ E \subseteq F /\ Cardinality(F) = Cardinality(E) + 1
    BY <2>1, <2>2
  <2>7. \A k \in F : k \in E \/ k = i
    OBVIOUS
  <2> HIDE DEF deeper, F
  <2>8. ASSUME NEW k \in E
        PROVE  /\ deeper[k] \in Nat
               /\ deeper[k] < Cardinality(F)
               /\ \/ spans[k].parent = NoParent /\ deeper[k] = 0
                  \/ \E j \in F : spans[j].id = spans[k].parent /\ deeper[k] = deeper[j] + 1
    <3>1. /\ depth[k] \in Nat /\ depth[k] < Cardinality(E)
          /\ \/ spans[k].parent = NoParent /\ depth[k] = 0
             \/ \E j \in E : spans[j].id = spans[k].parent /\ depth[k] = depth[j] + 1
      BY <1>1 DEF Grounding
    <3> QED
      BY <2>2, <2>5, <2>6, <3>1
  <2>9. /\ deeper[i] \in Nat
        /\ deeper[i] < Cardinality(F)
        /\ \/ spans[i].parent = NoParent /\ deeper[i] = 0
           \/ \E j \in F : spans[j].id = spans[i].parent /\ deeper[i] = deeper[j] + 1
    BY <2>4, <2>5, <2>6
  <2>10. Grounding(F, deeper)
    BY <2>6, <2>7, <2>8, <2>9 DEF Grounding
  <2>11. W \cup {i} \subseteq F
    BY <1>1 DEF F
  <2> QED
    BY <2>10, <2>11 DEF Grounded
<1> QED
  BY <1>2, <1>3

(* The first loop let every id below n pass once. *)
CleanBelow(n) ==
    \A i \in DOMAIN spans : i < n =>
        /\ spans[i].sound
        /\ \A j \in DOMAIN spans : j < n /\ spans[i].id = spans[j].id => i = j

(* The depths a forest has. *)
Depths(depth) ==
    \A i \in DOMAIN spans :
        /\ depth[i] \in Nat
        /\ \/ spans[i].parent = NoParent /\ depth[i] = 0
           \/ \E j \in DOMAIN spans : spans[j].id = spans[i].parent /\ depth[i] = depth[j] + 1

Accepts == Forest /\ \A i \in DOMAIN spans : spans[i].sound

LEMMA ForestHasDepths ==
    ASSUME spans \in Traces, Forest
    PROVE  /\ \A i, j \in DOMAIN spans : spans[i].id = spans[j].id => i = j
           /\ \E depth : Depths(depth)
<1>1. PICK depth \in [DOMAIN spans -> 0 .. Len(spans)] :
         \A i \in DOMAIN spans :
            \/ spans[i].parent = NoParent /\ depth[i] = 0
            \/ \E j \in DOMAIN spans :
                  spans[j].id = spans[i].parent /\ depth[i] = depth[j] + 1
  BY DEF Forest
<1>2. \A i \in DOMAIN spans : depth[i] \in Nat
  BY <1>1, TraceType
<1>3. Depths(depth)
  BY <1>1, <1>2 DEF Depths
<1> QED
  BY <1>3 DEF Forest

LEMMA GroundedIsForest ==
    ASSUME spans \in Traces, CleanBelow(Len(spans) + 1), Grounded(DOMAIN spans)
    PROVE  Accepts
<1>1. PICK E, depth : DOMAIN spans \subseteq E /\ Grounding(E, depth)
  BY DEF Grounded
<1>2. E = DOMAIN spans
  BY <1>1 DEF Grounding
<1>3. Len(spans) \in Nat /\ DOMAIN spans = 1 .. Len(spans)
  BY TraceType
<1>4. Cardinality(DOMAIN spans) = Len(spans)
  <2> DEFINE n == Len(spans)
  <2>1. n \in Nat /\ DOMAIN spans = 1 .. n
    BY <1>3
  <2> HIDE DEF n
  <2>2. Cardinality(1 .. n) = IF 1 > n THEN 0 ELSE n - 1 + 1
    BY <2>1, FS_Interval
  <2> QED
    BY <2>1, <2>2 DEF n
<1> DEFINE d == [i \in DOMAIN spans |-> depth[i]]
<1>5. \A i \in DOMAIN spans :
         /\ depth[i] \in 0 .. Len(spans)
         /\ \/ spans[i].parent = NoParent /\ depth[i] = 0
            \/ \E j \in DOMAIN spans : spans[j].id = spans[i].parent /\ depth[i] = depth[j] + 1
  BY <1>1, <1>2, <1>3, <1>4 DEF Grounding
<1>6. d \in [DOMAIN spans -> 0 .. Len(spans)] /\ \A i \in DOMAIN spans : d[i] = depth[i]
  BY <1>5
<1> HIDE DEF d
<1>7. \A i \in DOMAIN spans :
         \/ spans[i].parent = NoParent /\ d[i] = 0
         \/ \E j \in DOMAIN spans : spans[j].id = spans[i].parent /\ d[i] = d[j] + 1
  BY <1>5, <1>6
<1>8. \A i \in DOMAIN spans :
         /\ spans[i].sound
         /\ \A j \in DOMAIN spans : spans[i].id = spans[j].id => i = j
  BY <1>3 DEF CleanBelow
<1> QED
  BY <1>6, <1>7, <1>8 DEF Accepts, Forest

(* A forest has a root: its least deep span.                               *)
LEMMA ForestHasRoot ==
    ASSUME spans \in Traces, Forest, DOMAIN spans # {}
    PROVE  HasRoot
<1>1. PICK depth : Depths(depth)
  BY ForestHasDepths
<1> DEFINE S == {depth[i] : i \in DOMAIN spans}
<1>2. S \subseteq Nat /\ S # {}
  BY <1>1 DEF Depths
<1>3. PICK n \in S : \A m \in S : n <= m
  BY <1>2, LeastElement
<1>4. PICK i \in DOMAIN spans : depth[i] = n
  BY <1>3
<1>5. ASSUME NEW j \in DOMAIN spans, depth[i] = depth[j] + 1 PROVE FALSE
  <2>1. depth[j] \in Nat /\ n <= depth[j]
    BY <1>1, <1>3 DEF Depths
  <2> QED
    BY <1>4, <1>5, <2>1
<1>6. spans[i].parent = NoParent
  BY <1>1, <1>5 DEF Depths
<1> QED
  BY <1>6 DEF HasRoot

-----------------------------------------------------------------------------
(***************************************************************************)
(* The inductive invariant of the loops.  Behind the walk everything is    *)
(* grounded; the span the walk has climbed to would ground the one it      *)
(* started from; the parents it has met lie, in a forest, no higher than   *)
(* where it is.                                                            *)
(***************************************************************************)

WouldGround ==
    \A W \in SUBSET DOMAIN spans : Grounded(W \cup {current}) => Grounded(W \cup {at})

MetIsDeeper ==
    \A depth : Depths(depth) =>
        \A i \in DOMAIN spans : spans[i].id \in seen => depth[current] <= depth[i]

RegisterInv == answer = "none" /\ seen = {} /\ CleanBelow(at)

WalkInv ==
    /\ answer = "none"
    /\ CleanBelow(Len(spans) + 1)
    /\ Grounded(1 .. at - 1)
    /\ at <= Len(spans) => current \in DOMAIN spans /\ WouldGround /\ MetIsDeeper

DoneInv ==
    /\ answer \in Refusal \cup {"accepted"}
    /\ answer = "accepted" <=> Accepts

TreeInv ==
    /\ spans \in Traces
    /\ stage \in {"register", "walk", "done"}
    /\ at \in 1 .. Len(spans) + 1
    /\ current \in 1 .. Len(spans) + 1
    /\ seen \subseteq SpanId
    /\ stage = "register" => RegisterInv
    /\ stage = "walk" => WalkInv
    /\ stage = "done" => DoneInv

LEMMA TreeStart == TreeInit => TreeInv
<1> SUFFICES ASSUME TreeInit PROVE TreeInv
  OBVIOUS
<1>1. spans \in Traces
  BY DEF TreeInit, Traces
<1>2. Len(spans) \in Nat /\ DOMAIN spans = 1 .. Len(spans)
  BY <1>1, TraceType
<1>3. CleanBelow(1)
  BY <1>2 DEF CleanBelow
<1> QED
  BY <1>1, <1>2, <1>3 DEF TreeInit, TreeInv, RegisterInv

(* A loop that ends keeps the invariant if its verdict is right.           *)
LEMMA FinishKept ==
    ASSUME TreeInv, NEW verdict \in Refusal \cup {"accepted"}, Finish(verdict), UNCHANGED spans,
           verdict = "accepted" <=> Accepts
    PROVE  TreeInv'
<1>1. spans' = spans /\ stage' = "done" /\ answer' = verdict /\ UNCHANGED <<at, current, seen>>
  BY DEF Finish
<1>2. DoneInv'
  BY <1>1 DEF DoneInv, Accepts, Forest
<1> QED
  BY <1>1, <1>2 DEF TreeInv

LEMMA RegisterKept ==
    ASSUME TreeInv, Register
    PROVE  TreeInv'
<1>1. /\ stage = "register" /\ at \in 1 .. Len(spans) + 1 /\ at <= Len(spans) /\ RegisterInv
      /\ spans' = spans /\ spans \in Traces
  BY DEF Register, TreeInv
<1>2. Len(spans) \in Nat /\ DOMAIN spans = 1 .. Len(spans)
  BY <1>1, TraceType
<1>3. at \in DOMAIN spans
  BY <1>1, <1>2
<1>4. CASE Registered(at)
  <2>1. Finish("duplicate")
    BY <1>4 DEF Register
  <2>2. PICK j \in 1 .. at - 1 : spans[j].id = spans[at].id
    BY <1>4 DEF Registered
  <2>3. j \in DOMAIN spans /\ j # at
    BY <1>1, <1>2
  <2>4. ~Accepts
    BY <1>3, <2>2, <2>3 DEF Accepts, Forest
  <2> QED
    BY <1>1, <2>1, <2>4, FinishKept DEF Refusal
<1>5. CASE ~Registered(at) /\ ~spans[at].sound
  <2>1. Finish("malformed")
    BY <1>5 DEF Register
  <2>2. ~Accepts
    BY <1>3, <1>5 DEF Accepts
  <2> QED
    BY <1>1, <2>1, <2>2, FinishKept DEF Refusal
<1>6. CASE ~Registered(at) /\ spans[at].sound
  <2>1. at' = at + 1 /\ UNCHANGED <<stage, current, seen, answer>>
    BY <1>6 DEF Register
  <2>2. \A j \in 1 .. at - 1 : spans[j].id # spans[at].id
    BY <1>6 DEF Registered
  <2>3. CleanBelow(at)
    BY <1>1 DEF RegisterInv
  <2>4. CleanBelow(at + 1)
    <3> SUFFICES ASSUME NEW i \in DOMAIN spans, i < at + 1
                 PROVE  /\ spans[i].sound
                        /\ \A j \in DOMAIN spans : j < at + 1 /\ spans[i].id = spans[j].id => i = j
      BY DEF CleanBelow
    <3>1. i \in 1 .. at - 1 \/ i = at
      BY <1>1, <1>2
    <3>2. \A j \in DOMAIN spans : j < at + 1 => j \in 1 .. at - 1 \/ j = at
      BY <1>1, <1>2
    <3>3. CASE i = at
      BY <1>6, <2>2, <3>2, <3>3
    <3>4. CASE i \in 1 .. at - 1
      <4>1. i < at
        BY <1>1, <3>4
      <4>2. \A j \in 1 .. at - 1 : j < at
        BY <1>1
      <4> QED
        BY <2>2, <2>3, <3>2, <3>4, <4>1, <4>2 DEF CleanBelow
    <3> QED
      BY <3>1, <3>3, <3>4
  <2>5. CleanBelow(at)'
    BY <1>1, <2>1, <2>4 DEF CleanBelow
  <2>6. at' \in 1 .. Len(spans) + 1
    BY <1>1, <1>2, <2>1
  <2> QED
    BY <1>1, <2>1, <2>5, <2>6 DEF TreeInv, RegisterInv
<1> QED
  BY <1>4, <1>5, <1>6

LEMMA StartWalksKept ==
    ASSUME TreeInv, StartWalks
    PROVE  TreeInv'
<1>1. /\ stage = "register" /\ at \in 1 .. Len(spans) + 1 /\ at > Len(spans) /\ RegisterInv
      /\ spans' = spans /\ spans \in Traces
  BY DEF StartWalks, TreeInv
<1>2. Len(spans) \in Nat /\ DOMAIN spans = 1 .. Len(spans)
  BY <1>1, TraceType
<1>3. CASE spans # << >> /\ ~HasRoot
  <2>1. Finish("rootless")
    BY <1>3 DEF StartWalks
  <2>2. PICK n \in 0 .. MaxSpans : spans \in [1 .. n -> Span]
    BY <1>1 DEF Traces
  <2>3. DOMAIN spans # {}
    <3>1. DOMAIN spans = {} => spans = << >>
      BY <2>2
    <3> QED
      BY <1>3, <3>1
  <2>4. ~Accepts
    BY <1>1, <1>3, <2>3, ForestHasRoot DEF Accepts
  <2> QED
    BY <1>1, <2>1, <2>4, FinishKept DEF Refusal
<1>4. CASE ~(spans # << >> /\ ~HasRoot)
  <2>1. stage' = "walk" /\ at' = 1 /\ current' = 1 /\ UNCHANGED <<seen, answer>>
    BY <1>4 DEF StartWalks
  <2>2. at = Len(spans) + 1
    BY <1>1, <1>2
  <2>3. CleanBelow(Len(spans) + 1)
    BY <1>1, <2>2 DEF RegisterInv
  <2>4. Grounded(1 .. 1 - 1)
    <3>1. 1 .. 1 - 1 = {}
      OBVIOUS
    <3> QED
      BY <1>1, <3>1, NothingIsGrounded
  <2>5. seen = {} /\ answer = "none"
    BY <1>1 DEF RegisterInv
  <2>6. 1 <= Len(spans) => 1 \in DOMAIN spans
    BY <1>2
  <2>7. CleanBelow(Len(spans) + 1)' /\ Grounded(1 .. at - 1)'
    <3>1. CleanBelow(Len(spans) + 1)'
      BY <1>1, <2>3 DEF CleanBelow
    <3>2. at' - 1 = 1 - 1
      BY <2>1
    <3>3. \E E, depth : 1 .. at' - 1 \subseteq E /\ Grounding(E, depth)
      BY <2>4, <3>2 DEF Grounded
    <3>4. \A E, depth : Grounding(E, depth)' <=> Grounding(E, depth)
      BY <1>1 DEF Grounding
    <3> QED
      BY <3>1, <3>3, <3>4 DEF Grounded
  <2>8. WouldGround' /\ MetIsDeeper'
    BY <1>1, <2>1, <2>5 DEF WouldGround, MetIsDeeper
  <2>9. WalkInv'
    BY <1>1, <2>1, <2>5, <2>6, <2>7, <2>8 DEF WalkInv
  <2>10. 1 \in 1 .. Len(spans) + 1
    BY <1>2
  <2> QED
    BY <1>1, <2>1, <2>9, <2>10, <2>5 DEF TreeInv
<1> QED
  BY <1>3, <1>4

LEMMA NextWalkKept ==
    ASSUME TreeInv, NextWalk
    PROVE  TreeInv'
<1>1. /\ stage = "walk" /\ at \in 1 .. Len(spans) + 1 /\ at <= Len(spans) /\ WalkInv
      /\ spans' = spans /\ spans \in Traces /\ spans[current].parent = NoParent
      /\ at' = at + 1 /\ current' = at + 1 /\ seen' = {} /\ UNCHANGED <<stage, answer>>
  BY DEF NextWalk, TreeInv, Walking, AtRoot
<1>2. Len(spans) \in Nat /\ DOMAIN spans = 1 .. Len(spans)
  BY <1>1, TraceType
<1>3. current \in DOMAIN spans /\ WouldGround /\ Grounded(1 .. at - 1)
  BY <1>1 DEF WalkInv
<1>4. Grounded(1 .. at)
  <2>1. Grounded((1 .. at - 1) \cup {current})
    BY <1>1, <1>3, GroundedOneMore
  <2>2. 1 .. at - 1 \in SUBSET DOMAIN spans
    BY <1>1, <1>2
  <2>3. Grounded((1 .. at - 1) \cup {at})
    BY <1>3, <2>1, <2>2 DEF WouldGround
  <2>4. (1 .. at - 1) \cup {at} = 1 .. at
    BY <1>1
  <2> QED
    BY <2>3, <2>4
<1>5. CleanBelow(Len(spans) + 1)'
  BY <1>1 DEF WalkInv, CleanBelow
<1>6. Grounded(1 .. at - 1)'
  <2>1. at' - 1 = at
    BY <1>1
  <2>2. \E E, depth : 1 .. at' - 1 \subseteq E /\ Grounding(E, depth)
    BY <1>4, <2>1 DEF Grounded
  <2> QED
    BY <1>1, <2>2 DEF Grounded, Grounding
<1>7. WouldGround' /\ MetIsDeeper'
  BY <1>1 DEF WouldGround, MetIsDeeper
<1>8. at + 1 \in 1 .. Len(spans) + 1 /\ (at + 1 <= Len(spans) => at + 1 \in DOMAIN spans)
  BY <1>1, <1>2
<1>9. WalkInv'
  BY <1>1, <1>5, <1>6, <1>7, <1>8 DEF WalkInv
<1> QED
  BY <1>1, <1>8, <1>9 DEF TreeInv

LEMMA AcceptKept ==
    ASSUME TreeInv, Accept
    PROVE  TreeInv'
<1>1. /\ stage = "walk" /\ at \in 1 .. Len(spans) + 1 /\ at > Len(spans) /\ WalkInv
      /\ spans' = spans /\ spans \in Traces /\ Finish("accepted")
  BY DEF Accept, TreeInv
<1>2. Len(spans) \in Nat /\ DOMAIN spans = 1 .. Len(spans)
  BY <1>1, TraceType
<1>3. 1 .. at - 1 = DOMAIN spans
  BY <1>1, <1>2
<1>4. Accepts
  BY <1>1, <1>3, GroundedIsForest DEF WalkInv
<1> QED
  BY <1>1, <1>4, FinishKept

LEMMA ClimbKept ==
    ASSUME TreeInv, Climb
    PROVE  TreeInv'
<1> DEFINE parent == spans[current].parent
<1>1. /\ stage = "walk" /\ at \in 1 .. Len(spans) + 1 /\ at <= Len(spans) /\ WalkInv
      /\ spans' = spans /\ spans \in Traces /\ parent # NoParent /\ seen \subseteq SpanId
  BY DEF Climb, TreeInv, Walking, AtRoot
<1>2. Len(spans) \in Nat /\ DOMAIN spans = 1 .. Len(spans)
  BY <1>1, TraceType
<1>3. current \in DOMAIN spans /\ WouldGround /\ MetIsDeeper
  BY <1>1 DEF WalkInv
<1>4. CASE Climbed(parent)
  <2>1. Finish("cycle")
    BY <1>4 DEF Climb
  <2>2. ASSUME Forest PROVE FALSE
    <3>1. PICK depth : Depths(depth)
      BY <1>1, <2>2, ForestHasDepths
    <3>2. PICK j \in DOMAIN spans : spans[j].id = parent /\ depth[current] = depth[j] + 1
      BY <1>1, <1>3, <3>1 DEF Depths
    <3>3. depth[j] \in Nat
      BY <3>1 DEF Depths
    <3>4. CASE parent \in seen
      BY <1>3, <3>1, <3>2, <3>3, <3>4 DEF MetIsDeeper
    <3>5. CASE parent = spans[current].id
      BY <1>3, <2>2, <3>2, <3>3, <3>5 DEF Forest
    <3> QED
      BY <1>4, <3>4, <3>5 DEF Climbed
  <2> QED
    BY <1>1, <2>1, <2>2, FinishKept DEF Refusal, Accepts
<1>5. CASE ~Climbed(parent) /\ Orphan(parent)
  <2>1. Finish("orphan")
    BY <1>5 DEF Climb
  <2>2. \A j \in DOMAIN spans : spans[j].id # parent
    BY <1>5 DEF Orphan, Holders
  <2>3. ~Forest
    BY <1>1, <1>3, <2>2 DEF Forest
  <2> QED
    BY <1>1, <2>1, <2>3, FinishKept DEF Refusal, Accepts
<1>6. CASE ~Climbed(parent) /\ ~Orphan(parent)
  <2> DEFINE j == Min(Holders(parent))
  <2>1. seen' = seen \cup {parent} /\ current' = j /\ UNCHANGED <<stage, at, answer>>
    BY <1>6 DEF Climb
  <2>2. Holders(parent) \subseteq Nat /\ Holders(parent) # {}
    BY <1>2, <1>6 DEF Holders, Orphan
  <2>3. j \in DOMAIN spans /\ spans[j].id = parent
    BY <2>2, MinElement DEF Holders
  <2> HIDE DEF j
  <2>4. \A i \in DOMAIN spans : spans[i].id = parent => i = j
    BY <1>1, <1>2, <2>3 DEF WalkInv, CleanBelow
  <2>5. ASSUME NEW W \in SUBSET DOMAIN spans, Grounded(W \cup {j})
        PROVE  Grounded(W \cup {at})
    <3>1. Grounded((W \cup {j}) \cup {current})
      BY <1>1, <1>3, <2>3, <2>5, GroundedOneMore
    <3>2. Grounded(W \cup {current})
      BY <3>1, GroundedSubset
    <3> QED
      BY <1>3, <3>2 DEF WouldGround
  <2>6. ASSUME NEW depth, Depths(depth), NEW i \in DOMAIN spans, spans[i].id \in seen \cup {parent}
        PROVE  depth[j] <= depth[i]
    <3>1. depth[j] \in Nat /\ depth[i] \in Nat /\ depth[current] \in Nat
      BY <1>3, <2>3, <2>6 DEF Depths
    <3>2. depth[current] = depth[j] + 1
      BY <1>1, <1>3, <2>4, <2>6 DEF Depths
    <3>3. CASE spans[i].id = parent
      BY <2>4, <3>1, <3>3
    <3>4. CASE spans[i].id \in seen
      <4>1. depth[current] <= depth[i]
        BY <1>3, <2>6, <3>4 DEF MetIsDeeper
      <4> QED
        BY <3>1, <3>2, <4>1
    <3> QED
      BY <2>6, <3>3, <3>4
  <2>7. parent \in SpanId
    BY <1>1, <1>3, TraceType
  <2> HIDE DEF parent
  <2>8. CleanBelow(Len(spans) + 1)'
    BY <1>1 DEF WalkInv, CleanBelow
  <2>9. Grounded(1 .. at - 1)'
    <3>1. \E E, depth : 1 .. at - 1 \subseteq E /\ Grounding(E, depth)
      BY <1>1 DEF WalkInv, Grounded
    <3> QED
      BY <1>1, <2>1, <3>1 DEF Grounded, Grounding
  <2>10. WouldGround'
    <3>1. \A E, depth : Grounding(E, depth)' <=> Grounding(E, depth)
      BY <1>1 DEF Grounding
    <3>2. \A W \in SUBSET DOMAIN spans :
             (\E E, depth : W \cup {j} \subseteq E /\ Grounding(E, depth))
                => \E E, depth : W \cup {at} \subseteq E /\ Grounding(E, depth)
      BY <2>5 DEF Grounded
    <3> QED
      BY <1>1, <2>1, <3>1, <3>2 DEF WouldGround, Grounded
  <2>11. MetIsDeeper'
    BY <1>1, <2>1, <2>6 DEF MetIsDeeper, Depths
  <2>12. WalkInv'
    BY <1>1, <2>1, <2>3, <2>8, <2>9, <2>10, <2>11 DEF WalkInv
  <2> QED
    BY <1>1, <1>2, <2>1, <2>3, <2>7, <2>12 DEF TreeInv
<1> QED
  BY <1>4, <1>5, <1>6

-----------------------------------------------------------------------------
(***************************************************************************)
(* What a state records of the check.                                      *)
(***************************************************************************)

CheckInv ==
    IF outcome.why = "none"
      THEN outcome = NoOutcome("none")
      ELSE /\ trace \in Seq(Identified)
           /\ check \in Checks
           /\ outcome = TicketOutcome(Seen, scope, check)

LEMMA CheckKept ==
    ASSUME spans \in Traces, CheckInv, [Next]_vars
    PROVE  CheckInv'
<1>1. CASE UNCHANGED checkVars
  BY <1>1 DEF CheckInv, checkVars, Seen
<1>2. CASE Evaluate
  <2>1. PICK n \in 0 .. MaxSpans : spans \in [1 .. n -> Span]
    BY DEF Traces
  <2>2. trace' \in [1 .. n -> Identified] /\ n \in Nat
    BY <1>2, <2>1, TreeAssumption DEF Evaluate
  <2>3. trace' \in Seq(Identified)
    BY <2>2
  <2>4. check' \in Checks /\ outcome' = TicketOutcome(Seen', scope', check')
    BY <1>2 DEF Evaluate, Seen
  <2>5. outcome'.why # "none"
    BY <2>4, OutcomeType
  <2> QED
    BY <2>3, <2>4, <2>5 DEF CheckInv
<1> QED
  BY <1>1, <1>2 DEF Next, Contract, vars

LEMMA CheckFollows ==
    ASSUME CheckInv
    PROVE  outcome \in Outcomes /\ PassesWhenEmbedded /\ ScopeKeepsVerdict
<1>1. CASE outcome.why = "none"
  <2>1. outcome = NoOutcome("none")
    BY <1>1 DEF CheckInv
  <2> QED
    BY <1>1, <2>1, ChecksAssumption
       DEF NoOutcome, Outcomes, PassesWhenEmbedded, ScopeKeepsVerdict, Evaluated, Explanation
<1>2. CASE outcome.why # "none"
  <2>1. /\ trace \in Seq(Identified) /\ check \in Checks
        /\ outcome = TicketOutcome(Seen, scope, check)
    BY <1>2 DEF CheckInv
  <2>2. Seen \in Seq(Identified)
    BY <2>1, ScopedIsKept DEF Seen
  <2>3. outcome \in Outcomes
    BY <2>1, OutcomeType
  <2>4. ScopeKeepsVerdict
    BY <2>1, SameOutcome DEF ScopeKeepsVerdict, Seen
  <2>5. ASSUME Evaluated, check.mode = "subsequence"
        PROVE  outcome.passed <=> Embeds(Asked, Actual(Seen))
    <3>1. outcome = OrderOutcome(Seen, check)
      BY <2>1, <2>5, OutcomeType DEF Evaluated
    <3> QED
      BY <2>1, <2>2, <2>5, <3>1, OrderIsExact DEF Asked
  <2> QED
    BY <2>3, <2>4, <2>5 DEF PassesWhenEmbedded
<1> QED
  BY <1>1, <1>2

-----------------------------------------------------------------------------
(***************************************************************************)
(* The theorems.                                                           *)
(***************************************************************************)

Inv == TreeInv /\ CheckInv

LEMMA InitInv == Init => Inv
BY TreeStart DEF Init, Inv, CheckInv, NoOutcome

LEMMA NextInv == Inv /\ [Next]_vars => Inv'
<1> SUFFICES ASSUME Inv, [Next]_vars PROVE Inv'
  OBVIOUS
<1>1. CheckInv'
  BY CheckKept DEF Inv, TreeInv
<1>2. CASE TreeStep
  BY <1>1, <1>2, RegisterKept, StartWalksKept, ClimbKept, NextWalkKept, AcceptKept
     DEF Inv, TreeStep
<1>3. CASE UNCHANGED treeVars
  <2>1. UNCHANGED <<spans, stage, at, current, seen, answer>>
    BY <1>3 DEF treeVars
  <2>2. TreeInv
    BY DEF Inv
  <2>3. RegisterInv => RegisterInv'
    BY <2>1 DEF RegisterInv, CleanBelow
  <2>4. DoneInv => DoneInv'
    BY <2>1 DEF DoneInv, Accepts, Forest
  <2>5. WalkInv => WalkInv'
    <3>1. \A E, depth : Grounding(E, depth)' <=> Grounding(E, depth)
      BY <2>1 DEF Grounding
    <3>2. Grounded(1 .. at - 1) => Grounded(1 .. at - 1)'
      BY <2>1, <3>1 DEF Grounded
    <3>3. WouldGround => WouldGround'
      BY <2>1, <3>1 DEF WouldGround, Grounded
    <3>4. MetIsDeeper => MetIsDeeper'
      BY <2>1 DEF MetIsDeeper, Depths
    <3>5. CleanBelow(Len(spans) + 1) => CleanBelow(Len(spans) + 1)'
      BY <2>1 DEF CleanBelow
    <3> QED
      BY <2>1, <3>2, <3>3, <3>4, <3>5 DEF WalkInv
  <2>6. TreeInv'
    BY <2>1, <2>2, <2>3, <2>4, <2>5 DEF TreeInv
  <2> QED
    BY <1>1, <2>6 DEF Inv
<1> QED
  BY <1>2, <1>3 DEF Next, Contract, Evaluate, vars

LEMMA InvHolds == Spec => []Inv
<1>1. Init => Inv
  BY InitInv
<1>2. Inv /\ [Next]_vars => Inv'
  BY NextInv
<1> QED
  BY <1>1, <1>2, PTL DEF Spec

(* The loops stay inside the trace, the contract answers exactly when they *)
(* have ended, and a check never reports more names found than it asked    *)
(* for can be: the bounds hold for every length of trace and of order.     *)
THEOREM TypeCorrect == Spec => []TypeOK
<1>1. Inv => TypeOK
  <2> SUFFICES ASSUME Inv PROVE TypeOK
    OBVIOUS
  <2>1. outcome \in Outcomes
    BY CheckFollows DEF Inv
  <2>2. Len(spans) \in Nat /\ Len(spans) <= MaxSpans
    BY TraceType DEF Inv, TreeInv
  <2>3. at \in 1 .. MaxSpans + 1 /\ current \in 1 .. MaxSpans + 1
    BY <2>2, TreeAssumption DEF Inv, TreeInv
  <2>4. "none" \notin Refusal \cup {"accepted"}
    BY DEF Refusal
  <2>5. answer \in Refusal \cup {"none", "accepted"} /\ (stage = "done" <=> answer # "none")
    BY <2>4 DEF Inv, TreeInv, RegisterInv, WalkInv, DoneInv
  <2> QED
    BY <2>1, <2>3, <2>5 DEF TypeOK, Inv, TreeInv, Outcomes
<1> QED
  BY <1>1, InvHolds, PTL

(* However long the trace and however its parents are linked, the two      *)
(* loops of _validate_span_tree accept it exactly if its spans are         *)
(* well-formed and make a forest.                                          *)
THEOREM AcceptsForestsHolds == Spec => []AcceptsForests
<1>1. Inv => AcceptsForests
  BY DEF Inv, TreeInv, DoneInv, Accepts, AcceptsForests
<1> QED
  BY <1>1, InvHolds, PTL

(* A subsequence check passes exactly when the names it compares can be    *)
(* assigned to positions of the observed sequence in increasing order: the *)
(* greedy loop of workflow_order.py misses no order and invents none.      *)
THEOREM PassesWhenEmbeddedHolds == Spec => []PassesWhenEmbedded
<1>1. Inv => PassesWhenEmbedded
  BY CheckFollows DEF Inv
<1> QED
  BY <1>1, InvHolds, PTL

(* Restricting the payload to the spans a metric names never changes the   *)
(* verdict, the score or the explanation of a relative-order check.        *)
THEOREM ScopeKeepsVerdictHolds == Spec => []ScopeKeepsVerdict
<1>1. Inv => ScopeKeepsVerdict
  BY CheckFollows DEF Inv
<1> QED
  BY <1>1, InvHolds, PTL
=============================================================================
