----------------------------- MODULE QueueProofs -----------------------------
(***************************************************************************)
(* What the operators of Queues return, for any queue.                     *)
(*                                                                         *)
(* Without is a recursive function, so its lemmas need induction: UpTo is  *)
(* induction over an interval of numbers, stated with a set instead of a   *)
(* predicate, and follows from the well-foundedness of < on Nat.           *)
(***************************************************************************)
EXTENDS Queues, WellFoundedInduction, TLAPS

-----------------------------------------------------------------------------
(* Induction.                                                              *)

LEMMA LessIsWellFounded ==
  \E R : IsWellFoundedOn(R, Nat) /\ \A x, y \in Nat : y < x => <<y, x>> \in R
<1>1. \A x, y \in Nat : y < x => <<y, x>> \in OpToRel(<, Nat) BY DEF OpToRel
<1> QED BY <1>1, NatLessThanWellFounded, Zenon

LEMMA LeastNumber ==
  ASSUME NEW T \in SUBSET Nat, T # {} PROVE \E n \in T : \A m \in T : n <= m
<1>1. PICK R : IsWellFoundedOn(R, Nat) /\ \A x, y \in Nat : y < x => <<y, x>> \in R
  BY LessIsWellFounded
<1>2. PICK x \in T : \A y \in T : ~ (<<y, x>> \in R) BY <1>1, WFMin
<1>3. \A m \in T : ~ (m < x) BY <1>1, <1>2
<1> QED BY <1>3

\* A set that has 0, and each number up to n whose predecessor it has, has all of 0 .. n.
LEMMA UpTo ==
  ASSUME NEW n \in Nat, NEW T, 0 \in T, \A m \in 1 .. n : m - 1 \in T => m \in T
  PROVE  \A m \in 0 .. n : m \in T
<1> DEFINE U == {m \in 0 .. n : m \notin T}
<1> SUFFICES ASSUME U # {} PROVE FALSE OBVIOUS
<1>1. PICK m \in U : \A k \in U : m <= k
  <2> U \in SUBSET Nat OBVIOUS
  <2> QED BY LeastNumber
<1>2. m # 0 /\ m - 1 \notin U BY <1>1
<1> QED BY <1>2

-----------------------------------------------------------------------------
(* Without.                                                                *)

\* The function that Without computes, for the first n elements of the queue.
Kept(queue, gone, g, n) ==
  g = [i \in 0 .. n |->
        IF i = 0 THEN <<>>
        ELSE IF queue[i] \in gone THEN g[i - 1] ELSE Append(g[i - 1], queue[i])]

LEMMA KeptExists ==
  ASSUME NEW queue, NEW gone, NEW n \in Nat PROVE \E g : Kept(queue, gone, g, n)
<1> DEFINE T == {m \in Nat : \E g : Kept(queue, gone, g, m)}
<1>1. 0 \in T
  <2> DEFINE g == [i \in 0 .. 0 |-> <<>>]
  <2> Kept(queue, gone, g, 0) BY DEF Kept
  <2> QED OBVIOUS
<1>2. ASSUME NEW m \in 1 .. n, m - 1 \in T PROVE m \in T
  <2>1. PICK g : Kept(queue, gone, g, m - 1) BY <1>2
  <2> DEFINE more == IF queue[m] \in gone THEN g[m - 1] ELSE Append(g[m - 1], queue[m])
             h == [i \in 0 .. m |-> IF i < m THEN g[i] ELSE more]
  <2>2. \A i \in 0 .. m - 1 : h[i] = g[i] OBVIOUS
  <2>3. h[m] = IF queue[m] \in gone THEN h[m - 1] ELSE Append(h[m - 1], queue[m]) BY <2>2
  <2>4. \A i \in 0 .. m - 1 :
          g[i] = IF i = 0 THEN <<>>
                 ELSE IF queue[i] \in gone THEN g[i - 1] ELSE Append(g[i - 1], queue[i])
    BY <2>1 DEF Kept
  <2>5. DOMAIN h = 0 .. m OBVIOUS
  <2>8. h = [i \in 0 .. m |-> h[i]] BY <2>5
  <2> HIDE DEF h
  <2>6. \A i \in 0 .. m :
          h[i] = IF i = 0 THEN <<>>
                 ELSE IF queue[i] \in gone THEN h[i - 1] ELSE Append(h[i - 1], queue[i])
    <3> TAKE i \in 0 .. m
    <3>1. CASE i = m BY <3>1, <2>3
    <3>2. CASE i < m
      <4>1. i \in 0 .. m - 1 /\ (i # 0 => i - 1 \in 0 .. m - 1) BY <3>2
      <4> QED BY <4>1, <2>2, <2>4
    <3> QED BY <3>1, <3>2
  <2>7. Kept(queue, gone, h, m) BY <2>6, <2>8 DEF Kept
  <2> QED BY <2>7
<1> HIDE DEF T
<1>3. n \in T BY <1>1, <1>2, UpTo
<1> QED BY <1>3 DEF T

LEMMA WithoutIs ==
  ASSUME NEW queue, Len(queue) \in Nat, NEW gone
  PROVE  \E g : Kept(queue, gone, g, Len(queue)) /\ Without(queue, gone) = g[Len(queue)]
<1> DEFINE g == CHOOSE g : Kept(queue, gone, g, Len(queue))
<1>1. Kept(queue, gone, g, Len(queue)) BY KeptExists
<1>2. Without(queue, gone) = g[Len(queue)] BY DEF Without, Kept
<1> QED BY <1>1, <1>2

\* f is where the elements of w are in the first n of the queue: in its order,
\* and all of those that are not gone.
Places(queue, gone, w, f, n) ==
  /\ f \in [1 .. Len(w) -> 1 .. n]
  /\ \A i, j \in 1 .. Len(w) : i < j => f[i] < f[j]
  /\ \A i \in 1 .. Len(w) : w[i] = queue[f[i]]
  /\ \A k \in 1 .. n : queue[k] \notin gone <=> \E i \in 1 .. Len(w) : f[i] = k

LEMMA WithoutPlaces ==
  ASSUME NEW S, NEW queue \in Seq(S), NEW gone
  PROVE  LET w == Without(queue, gone) IN
         w \in Seq(S) /\ \E f : Places(queue, gone, w, f, Len(queue))
<1>0. Len(queue) \in Nat /\ DOMAIN queue = 1 .. Len(queue) OBVIOUS
<1>1. PICK g : Kept(queue, gone, g, Len(queue)) /\ Without(queue, gone) = g[Len(queue)]
  BY WithoutIs
<1>2. \A i \in 0 .. Len(queue) :
        g[i] = IF i = 0 THEN <<>>
               ELSE IF queue[i] \in gone THEN g[i - 1] ELSE Append(g[i - 1], queue[i])
  BY <1>1 DEF Kept
<1> DEFINE T == {m \in 0 .. Len(queue) :
                   g[m] \in Seq(S) /\ \E f : Places(queue, gone, g[m], f, m)}
<1>3. 0 \in T
  <2>1. g[0] = <<>> BY <1>2
  <2> DEFINE f == [i \in 1 .. 0 |-> 0]
  <2>2. Places(queue, gone, <<>>, f, 0) BY DEF Places
  <2> HIDE DEF f
  <2>3. <<>> \in Seq(S) /\ 0 \in 0 .. Len(queue) BY <1>0
  <2> QED BY <2>1, <2>2, <2>3
<1>4. ASSUME NEW m \in 1 .. Len(queue), m - 1 \in T PROVE m \in T
  <2>1. PICK f : Places(queue, gone, g[m - 1], f, m - 1) BY <1>4
  <2>2. g[m - 1] \in Seq(S) BY <1>4
  <2>6. m \in 0 .. Len(queue) /\ m # 0 /\ m - 1 \in Nat /\ m \in Nat BY <1>0
  <2> DEFINE w == g[m - 1]
  <2>3. queue[m] \in S OBVIOUS
  <2>4. CASE queue[m] \in gone
    <3>1. g[m] = w BY <1>2, <2>4, <2>6
    <3>2. Places(queue, gone, w, f, m) BY <2>1, <2>4 DEF Places
    <3> QED BY <3>1, <3>2, <2>2, <2>6
  <2>5. CASE queue[m] \notin gone
    <3>1. g[m] = Append(w, queue[m]) BY <1>2, <2>5, <2>6
    <3> DEFINE n == Len(w) + 1
               h == [i \in 1 .. n |-> IF i < n THEN f[i] ELSE m]
               v == Append(w, queue[m])
    <3>2. v \in Seq(S) /\ Len(v) = n /\ n \in Nat /\ v[n] = queue[m] /\ \A i \in 1 .. Len(w) : v[i] = w[i]
      BY <2>2, <2>3
    <3>11. Len(w) \in Nat BY <2>2
    <3>12. \A i \in 1 .. Len(w) : f[i] \in 1 .. m - 1 BY <2>1 DEF Places
    <3>3. \A i \in 1 .. Len(w) : h[i] = f[i] /\ h[i] \in 1 .. m - 1 BY <3>11, <3>12
    <3>4. h[n] = m BY <2>2
    <3>6. \A i \in 1 .. n : i \in 1 .. Len(w) \/ i = n BY <2>2
    <3>13. h = [i \in 1 .. n |-> h[i]] OBVIOUS
    <3> HIDE DEF h, v
    <3>14. \A i \in 1 .. n : h[i] \in 1 .. m
      <4> TAKE i \in 1 .. n
      <4>1. CASE i = n BY <4>1, <3>4, <2>6
      <4>2. CASE i \in 1 .. Len(w) BY <4>2, <3>3, <2>6
      <4> QED BY <4>1, <4>2, <3>6
    <3>5. h \in [1 .. n -> 1 .. m] BY <3>13, <3>14
    <3>7. \A i, j \in 1 .. n : i < j => h[i] < h[j]
      <4> SUFFICES ASSUME NEW i \in 1 .. n, NEW j \in 1 .. n, i < j PROVE h[i] < h[j] OBVIOUS
      <4>1. i \in 1 .. Len(w) BY <3>6, <2>2
      <4>2. CASE j \in 1 .. Len(w) BY <4>1, <4>2, <3>3, <2>1 DEF Places
      <4>3. CASE j = n BY <4>1, <4>3, <3>3, <3>4
      <4> QED BY <4>2, <4>3, <3>6
    <3>8. \A i \in 1 .. n : v[i] = queue[h[i]]
      BY <3>2, <3>3, <3>4, <3>6, <2>1 DEF Places
    <3>9. ASSUME NEW k \in 1 .. m PROVE queue[k] \notin gone <=> \E i \in 1 .. n : h[i] = k
      <4>1. CASE k = m BY <4>1, <2>5, <3>4, <2>2
      <4>2. CASE k # m
        <5>1. k \in 1 .. m - 1 BY <4>2
        <5>2. queue[k] \notin gone <=> \E i \in 1 .. Len(w) : f[i] = k BY <5>1, <2>1 DEF Places
        <5>3. (\E i \in 1 .. Len(w) : f[i] = k) <=> \E i \in 1 .. n : h[i] = k
          BY <4>2, <3>3, <3>4, <3>6, <2>2
        <5> QED BY <5>2, <5>3
      <4> QED BY <4>1, <4>2
    <3>10. Places(queue, gone, v, h, m) BY <3>2, <3>5, <3>7, <3>8, <3>9 DEF Places
    <3> QED BY <3>1, <3>2, <3>10, <2>6 DEF v
  <2> QED BY <2>4, <2>5
<1> HIDE DEF T
<1>6. \A m \in 1 .. Len(queue) : m - 1 \in T => m \in T BY <1>4
<1> DEFINE n == Len(queue)
<1> HIDE DEF n
<1>7. n \in Nat /\ \A m \in 1 .. n : m - 1 \in T => m \in T BY <1>0, <1>6 DEF n
<1>8. \A m \in 0 .. n : m \in T BY <1>3, <1>7, UpTo
<1>5. Len(queue) \in T BY <1>7, <1>8 DEF n
<1> QED BY <1>1, <1>5 DEF T

LEMMA WithoutSet ==
  ASSUME NEW S, NEW queue \in Seq(S), NEW gone
  PROVE  /\ Without(queue, gone) \in Seq(S)
         /\ ToSet(Without(queue, gone)) = ToSet(queue) \ gone
<1> DEFINE w == Without(queue, gone)
<1>1. PICK f : w \in Seq(S) /\ Places(queue, gone, w, f, Len(queue)) BY WithoutPlaces
<1> HIDE DEF w
<1>2. /\ DOMAIN w = 1 .. Len(w) /\ DOMAIN queue = 1 .. Len(queue)
      /\ \A i \in 1 .. Len(w) : f[i] \in 1 .. Len(queue)
  BY <1>1 DEF Places
<1>3. ToSet(w) \subseteq ToSet(queue) \ gone BY <1>1, <1>2 DEF Places, ToSet
<1>4. ToSet(queue) \ gone \subseteq ToSet(w) BY <1>1, <1>2 DEF Places, ToSet
<1> QED BY <1>1, <1>3, <1>4 DEF w

LEMMA WithoutInjective ==
  ASSUME NEW S, NEW queue \in Seq(S), NEW gone, IsInjective(queue)
  PROVE  IsInjective(Without(queue, gone))
<1> DEFINE w == Without(queue, gone)
<1>1. PICK f : w \in Seq(S) /\ Places(queue, gone, w, f, Len(queue)) BY WithoutPlaces
<1> HIDE DEF w
<1>2. /\ DOMAIN w = 1 .. Len(w) /\ DOMAIN queue = 1 .. Len(queue) /\ Len(w) \in Nat
      /\ \A i \in 1 .. Len(w) : f[i] \in 1 .. Len(queue) /\ w[i] = queue[f[i]]
  BY <1>1 DEF Places
<1>3. ASSUME NEW i \in DOMAIN w, NEW j \in DOMAIN w, w[i] = w[j] PROVE i = j
  <2>1. f[i] = f[j] BY <1>2, <1>3 DEF IsInjective
  <2>2. ~ (i < j) /\ ~ (j < i) BY <1>1, <1>2, <2>1 DEF Places
  <2> QED BY <1>2, <2>2
<1> QED BY <1>3 DEF w, IsInjective

\* Of what comes before an element in the queue, what is left comes before it.
LEMMA WithoutOrder ==
  ASSUME NEW S, NEW queue \in Seq(S), NEW gone,
         NEW i \in DOMAIN Without(queue, gone)
  PROVE  \E k \in DOMAIN queue :
           /\ Without(queue, gone)[i] = queue[k]
           /\ \A l \in 1 .. (k - 1) :
                queue[l] \in gone \cup {Without(queue, gone)[j] : j \in 1 .. (i - 1)}
<1> DEFINE w == Without(queue, gone)
<1>1. PICK f : w \in Seq(S) /\ Places(queue, gone, w, f, Len(queue)) BY WithoutPlaces
<1>0. i \in DOMAIN w OBVIOUS
<1> HIDE DEF w
<1>2. /\ DOMAIN w = 1 .. Len(w) /\ DOMAIN queue = 1 .. Len(queue) /\ Len(w) \in Nat /\ Len(queue) \in Nat
      /\ \A j \in 1 .. Len(w) : f[j] \in 1 .. Len(queue) /\ w[j] = queue[f[j]]
  BY <1>1 DEF Places
<1>3. f[i] \in DOMAIN queue /\ w[i] = queue[f[i]] BY <1>0, <1>2
<1>4. ASSUME NEW l \in 1 .. (f[i] - 1), queue[l] \notin gone
      PROVE  queue[l] \in {w[j] : j \in 1 .. (i - 1)}
  <2>1. l \in 1 .. Len(queue) BY <1>2, <1>3
  <2>2. PICK j \in 1 .. Len(w) : f[j] = l BY <2>1, <1>1, <1>4 DEF Places
  <2>3. ~ (i < j) /\ j # i BY <1>0, <1>1, <1>2, <1>3, <2>2 DEF Places
  <2>4. j \in 1 .. (i - 1) BY <1>0, <1>2, <2>3
  <2> QED BY <1>2, <2>2, <2>4
<1> QED BY <1>3, <1>4 DEF w

-----------------------------------------------------------------------------
(* With.                                                                   *)

\* Without goes through the queue in order: an element more is kept at the end
\* or left out.
LEMMA WithoutAppend ==
  ASSUME NEW S, NEW queue \in Seq(S), NEW x \in S, NEW gone
  PROVE  Without(Append(queue, x), gone) =
           IF x \in gone THEN Without(queue, gone) ELSE Append(Without(queue, gone), x)
<1> DEFINE n == Len(queue)
           longer == Append(queue, x)
<1>0. /\ n \in Nat /\ Len(longer) = n + 1 /\ longer[n + 1] = x
      /\ \A i \in 1 .. n : longer[i] = queue[i]
  OBVIOUS
<1>1. PICK g : Kept(queue, gone, g, n) /\ Without(queue, gone) = g[n] BY <1>0, WithoutIs
<1>2. PICK h : Kept(longer, gone, h, n + 1) /\ Without(longer, gone) = h[n + 1]
  <2> HIDE DEF longer
  <2>1. \E h : Kept(longer, gone, h, Len(longer)) /\ Without(longer, gone) = h[Len(longer)]
    BY <1>0, WithoutIs
  <2> QED BY <2>1, <1>0
<1> HIDE DEF n, longer
<1>3. \A i \in 0 .. n :
        g[i] = IF i = 0 THEN <<>>
               ELSE IF queue[i] \in gone THEN g[i - 1] ELSE Append(g[i - 1], queue[i])
  BY <1>1 DEF Kept
<1>4. \A i \in 0 .. n + 1 :
        h[i] = IF i = 0 THEN <<>>
               ELSE IF longer[i] \in gone THEN h[i - 1] ELSE Append(h[i - 1], longer[i])
  BY <1>2 DEF Kept
<1> DEFINE T == {m \in 0 .. n : h[m] = g[m]}
<1>5. 0 \in T BY <1>0, <1>3, <1>4
<1>6. ASSUME NEW m \in 1 .. n, m - 1 \in T PROVE m \in T
  <2>1. m \in 0 .. n /\ m \in 0 .. n + 1 /\ m # 0 BY <1>0
  <2>2. g[m] = IF queue[m] \in gone THEN g[m - 1] ELSE Append(g[m - 1], queue[m])
    BY <2>1, <1>3
  <2>3. h[m] = IF longer[m] \in gone THEN h[m - 1] ELSE Append(h[m - 1], longer[m])
    BY <2>1, <1>4
  <2> QED BY <2>1, <2>2, <2>3, <1>6, <1>0
<1>7. n \in T
  <2> HIDE DEF T
  <2>1. \A m \in 1 .. n : m - 1 \in T => m \in T BY <1>6
  <2>2. \A m \in 0 .. n : m \in T BY <1>0, <1>5, <2>1, UpTo
  <2> QED BY <1>0, <2>2
<1>8. h[n] = g[n] BY <1>7 DEF T
<1>9. h[n + 1] = IF x \in gone THEN h[n] ELSE Append(h[n], x)
  <2>1. n + 1 \in 0 .. n + 1 /\ n + 1 # 0 /\ (n + 1) - 1 = n BY <1>0
  <2> QED BY <2>1, <1>0, <1>4
<1> QED BY <1>1, <1>2, <1>8, <1>9 DEF longer

\* Nothing is left of the empty queue, nor of a queue that is gone as a whole.
LEMMA WithoutAll ==
  ASSUME NEW S, NEW queue \in Seq(S), NEW gone, ToSet(queue) \subseteq gone
  PROVE  Without(queue, gone) = <<>>
<1> DEFINE w == Without(queue, gone)
<1>1. w \in Seq(S) /\ ToSet(w) = {} BY WithoutSet
<1> HIDE DEF w
<1>2. DOMAIN w = 1 .. Len(w) /\ Len(w) \in Nat BY <1>1
<1>3. \A i \in 1 .. Len(w) : w[i] \in ToSet(w) BY <1>2 DEF ToSet
<1>4. Len(w) = 0 BY <1>1, <1>2, <1>3
<1>5. w = <<>> BY <1>1, <1>4
<1> QED BY <1>5 DEF w

\* The first elements of a queue, and one more of them.
LEMMA PrefixAppend ==
  ASSUME NEW S, NEW queue \in Seq(S), NEW n \in 1 .. Len(queue)
  PROVE  /\ SubSeq(queue, 1, n - 1) \in Seq(S) /\ Len(SubSeq(queue, 1, n - 1)) = n - 1
         /\ \A i \in 1 .. n - 1 : SubSeq(queue, 1, n - 1)[i] = queue[i]
         /\ SubSeq(queue, 1, n) = Append(SubSeq(queue, 1, n - 1), queue[n])
<1>0. Len(queue) \in Nat /\ n \in Nat /\ \A i \in 1 .. Len(queue) : queue[i] \in S OBVIOUS
<1>1. ASSUME NEW m \in 0 .. Len(queue)
      PROVE  /\ SubSeq(queue, 1, m) \in Seq(S) /\ Len(SubSeq(queue, 1, m)) = m
             /\ \A i \in 1 .. m : SubSeq(queue, 1, m)[i] = queue[i]
  <2>1. SubSeq(queue, 1, m) = [i \in 1 .. m |-> queue[i]] BY <1>0
  <2>2. [i \in 1 .. m |-> queue[i]] \in Seq(S) /\ Len([i \in 1 .. m |-> queue[i]]) = m BY <1>0
  <2> QED BY <2>1, <2>2
<1> DEFINE s == SubSeq(queue, 1, n - 1)
           t == SubSeq(queue, 1, n)
           u == Append(s, queue[n])
<1>2. /\ s \in Seq(S) /\ Len(s) = n - 1 /\ \A i \in 1 .. n - 1 : s[i] = queue[i]
  <2> n - 1 \in 0 .. Len(queue) BY <1>0
  <2> QED BY <1>1
<1>3. /\ t \in Seq(S) /\ Len(t) = n /\ \A i \in 1 .. n : t[i] = queue[i]
  <2> n \in 0 .. Len(queue) BY <1>0
  <2> QED BY <1>1
<1> HIDE DEF s, t
<1>4. /\ u \in Seq(S) /\ Len(u) = n /\ u[n] = queue[n]
      /\ \A i \in 1 .. n - 1 : u[i] = s[i]
  BY <1>0, <1>2
<1> HIDE DEF u
<1>5. \A i \in 1 .. n : t[i] = u[i]
  <2> TAKE i \in 1 .. n
  <2>1. CASE i = n BY <2>1, <1>0, <1>3, <1>4
  <2>2. CASE i # n
    <3>1. i \in 1 .. n - 1 BY <2>2, <1>0
    <3> QED BY <3>1, <1>2, <1>3, <1>4
  <2> QED BY <2>1, <2>2
<1>6. t = u BY <1>3, <1>4, <1>5
<1> QED BY <1>2, <1>6 DEF s, t, u

LEMMA WithSet ==
  ASSUME NEW S, NEW queue \in Seq(S), NEW more \in Seq(S)
  PROVE  /\ With(queue, more) \in Seq(S)
         /\ ToSet(With(queue, more)) = ToSet(queue) \cup ToSet(more)
<1> DEFINE w == Without(more, ToSet(queue))
<1>1. w \in Seq(S) /\ ToSet(w) = ToSet(more) \ ToSet(queue) BY WithoutSet
<1> HIDE DEF w
<1>2. /\ queue \o w \in Seq(S) /\ Len(queue \o w) = Len(queue) + Len(w)
      /\ DOMAIN queue = 1 .. Len(queue) /\ DOMAIN w = 1 .. Len(w)
      /\ Len(queue) \in Nat /\ Len(w) \in Nat
      /\ DOMAIN (queue \o w) = 1 .. (Len(queue) + Len(w))
      /\ \A i \in 1 .. Len(queue) + Len(w) :
           (queue \o w)[i] = IF i <= Len(queue) THEN queue[i] ELSE w[i - Len(queue)]
  BY <1>1
<1>3. ToSet(queue \o w) \subseteq ToSet(queue) \cup ToSet(w)
  <2> SUFFICES ASSUME NEW i \in 1 .. Len(queue) + Len(w)
               PROVE  (queue \o w)[i] \in ToSet(queue) \cup ToSet(w)
    BY <1>2 DEF ToSet
  <2>1. CASE i <= Len(queue) BY <1>2, <2>1 DEF ToSet
  <2>2. CASE i > Len(queue)
    <3>1. i - Len(queue) \in DOMAIN w BY <1>2, <2>2
    <3> QED BY <1>2, <2>2, <3>1 DEF ToSet
  <2> QED BY <1>2, <2>1, <2>2
<1>4. ToSet(queue) \subseteq ToSet(queue \o w)
  <2>1. \A i \in DOMAIN queue : i \in DOMAIN (queue \o w) /\ (queue \o w)[i] = queue[i] BY <1>2
  <2> QED BY <2>1 DEF ToSet
<1>5. ToSet(w) \subseteq ToSet(queue \o w)
  <2>1. \A i \in DOMAIN w : /\ i + Len(queue) \in DOMAIN (queue \o w)
                            /\ (queue \o w)[i + Len(queue)] = w[i] BY <1>2
  <2> QED BY <2>1 DEF ToSet
<1> QED BY <1>1, <1>2, <1>3, <1>4, <1>5 DEF With, w

\* The queue stays where it is.
LEMMA WithPrefix ==
  ASSUME NEW S, NEW queue \in Seq(S), NEW more \in Seq(S)
  PROVE  /\ Len(queue) <= Len(With(queue, more))
         /\ \A i \in DOMAIN queue : With(queue, more)[i] = queue[i]
<1> DEFINE w == Without(more, ToSet(queue))
<1>1. w \in Seq(S) BY WithoutSet
<1> HIDE DEF w
<1> QED BY <1>1 DEF With, w

LEMMA WithInjective ==
  ASSUME NEW S, NEW queue \in Seq(S), NEW more \in Seq(S), IsInjective(queue), IsInjective(more)
  PROVE  IsInjective(With(queue, more))
<1> DEFINE w == Without(more, ToSet(queue))
           v == queue \o w
<1>1. w \in Seq(S) /\ ToSet(w) = ToSet(more) \ ToSet(queue) BY WithoutSet
<1>2. IsInjective(w) BY WithoutInjective
<1> HIDE DEF w
<1>3. /\ v \in Seq(S)
      /\ DOMAIN queue = 1 .. Len(queue) /\ DOMAIN w = 1 .. Len(w)
      /\ Len(queue) \in Nat /\ Len(w) \in Nat
      /\ DOMAIN v = 1 .. (Len(queue) + Len(w))
      /\ \A i \in DOMAIN queue : v[i] = queue[i]
      /\ \A i \in DOMAIN v \ DOMAIN queue : v[i] = w[i - Len(queue)]
  BY <1>1
<1> HIDE DEF v
<1>7. \A i \in DOMAIN v \ DOMAIN queue : i - Len(queue) \in DOMAIN w BY <1>3
<1>4. \A i \in DOMAIN queue : queue[i] \in ToSet(queue) BY DEF ToSet
<1>5. \A i \in DOMAIN w : w[i] \notin ToSet(queue)
  <2>1. \A i \in DOMAIN w : w[i] \in ToSet(w) BY DEF ToSet
  <2> QED BY <1>1, <2>1
<1>6. ASSUME NEW i \in DOMAIN v, NEW j \in DOMAIN v, v[i] = v[j] PROVE i = j
  <2>1. CASE i \in DOMAIN queue /\ j \in DOMAIN queue
    BY <2>1, <1>3, <1>6 DEF IsInjective
  <2>2. CASE i \notin DOMAIN queue /\ j \notin DOMAIN queue
    <3>1. i - Len(queue) = j - Len(queue) BY <2>2, <1>2, <1>3, <1>6, <1>7 DEF IsInjective
    <3> QED BY <1>3, <3>1
  <2>3. CASE ~ (i \in DOMAIN queue <=> j \in DOMAIN queue)
    BY <2>3, <1>3, <1>4, <1>5, <1>6, <1>7
  <2> QED BY <2>1, <2>2, <2>3
<1> QED BY <1>6 DEF IsInjective, With, v, w

\* Whatever is added comes after the queue and after what came before it.
LEMMA WithOrder ==
  ASSUME NEW S, NEW queue \in Seq(S), NEW more \in Seq(S),
         NEW i \in DOMAIN With(queue, more), i \notin DOMAIN queue
  PROVE  \E k \in DOMAIN more :
           /\ With(queue, more)[i] = more[k]
           /\ \A b \in ToSet(queue) : \E j \in 1 .. (i - 1) : With(queue, more)[j] = b
           /\ \A l \in 1 .. (k - 1) : \E j \in 1 .. (i - 1) : With(queue, more)[j] = more[l]
<1> DEFINE w == Without(more, ToSet(queue))
           v == queue \o w
           n == Len(queue)
<1>1. w \in Seq(S) /\ ToSet(w) = ToSet(more) \ ToSet(queue) BY WithoutSet
<1>2. \A j \in DOMAIN w : \E k \in DOMAIN more :
        /\ w[j] = more[k]
        /\ \A l \in 1 .. (k - 1) : more[l] \in ToSet(queue) \cup {w[x] : x \in 1 .. (j - 1)}
  BY WithoutOrder
<1>3. i \in DOMAIN v BY DEF With
<1> HIDE DEF w
<1>4. /\ DOMAIN queue = 1 .. n /\ DOMAIN w = 1 .. Len(w) /\ n \in Nat /\ Len(w) \in Nat
      /\ DOMAIN v = 1 .. (n + Len(w))
      /\ \A j \in DOMAIN queue : j \in DOMAIN v /\ v[j] = queue[j]
      /\ \A j \in DOMAIN w : n + j \in DOMAIN v /\ v[n + j] = w[j]
  BY <1>1
<1> HIDE DEF v, n
<1>5. i - n \in DOMAIN w /\ v[i] = w[i - n] /\ i \in Int
  <2>1. i - n \in 1 .. Len(w) /\ n + (i - n) = i /\ i \in Int BY <1>3, <1>4
  <2> QED BY <1>4, <2>1
<1>6. PICK k \in DOMAIN more :
        /\ w[i - n] = more[k]
        /\ \A l \in 1 .. (k - 1) :
             more[l] \in ToSet(queue) \cup {w[x] : x \in 1 .. (i - n - 1)}
  BY <1>2, <1>5
<1>7. ToSet(queue) \subseteq {v[j] : j \in 1 .. (i - 1)}
  <2>1. \A j \in DOMAIN queue : j \in 1 .. (i - 1) BY <1>4, <1>5
  <2> QED BY <1>4, <2>1 DEF ToSet
<1>8. {w[x] : x \in 1 .. (i - n - 1)} \subseteq {v[j] : j \in 1 .. (i - 1)}
  <2>1. \A x \in 1 .. (i - n - 1) : x \in DOMAIN w /\ n + x \in 1 .. (i - 1) BY <1>4, <1>5
  <2> QED BY <1>4, <2>1
<1>9. {more[l] : l \in 1 .. (k - 1)} \subseteq {v[j] : j \in 1 .. (i - 1)} BY <1>6, <1>7, <1>8
<1> QED BY <1>5, <1>6, <1>7, <1>9 DEF v, w, With
=============================================================================
