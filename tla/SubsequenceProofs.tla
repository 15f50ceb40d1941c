-------------------------- MODULE SubsequenceProofs --------------------------
(***************************************************************************)
(* Facts about numbers and sequences that the proofs of several components  *)
(* rest on: least elements, induction over a set of numbers, what Kept      *)
(* returns, and that SetToSeq lists a finite set.                          *)
(***************************************************************************)
EXTENDS Subsequences, SequencesExt, FiniteSetTheorems, FunctionTheorems, WellFoundedInduction, TLAPS

(* A set of numbers that is not empty has a least element, one that is     *)
(* bounded has a greatest, and a set that contains 0 and every successor   *)
(* contains every number.                                                  *)
LEMMA LessIsWellFounded == IsWellFoundedOn({ss \in Nat \X Nat : ss[1] < ss[2]}, Nat)
  BY NatLessThanWellFounded, Zenon DEF OpToRel

LEMMA Least ==
    ASSUME NEW T \in SUBSET Nat, T # {}
    PROVE  \E x \in T : \A y \in T : x <= y
<1>1. PICK x \in T : \A y \in T : ~ (<<y, x>> \in {ss \in Nat \X Nat : ss[1] < ss[2]})
  BY LessIsWellFounded, WFMin
<1>2. ASSUME NEW y \in T
      PROVE  x <= y
  <2>1. x \in Nat /\ y \in Nat
    OBVIOUS
  <2>2. ~ (y < x)
    BY <1>1, <2>1
  <2> QED
    BY <2>1, <2>2
<1> QED
  BY <1>2

LEMMA Largest ==
    ASSUME NEW n \in Nat, NEW T \in SUBSET (1 .. n), T # {}
    PROVE  \E x \in T : \A y \in T : y <= x
<1> DEFINE D == { n - x : x \in T }
<1>1. D \in SUBSET Nat /\ D # {}
  <2>1. PICK x : x \in T
    OBVIOUS
  <2>2. n - x \in D
    BY <2>1
  <2>3. \A y \in T : n - y \in Nat
    OBVIOUS
  <2> QED
    BY <2>2, <2>3
<1>2. PICK d \in D : \A e \in D : d <= e
  <2> HIDE DEF D
  <2> QED
    BY <1>1, Least
<1>3. PICK x \in T : d = n - x
  BY <1>2
<1>4. ASSUME NEW y \in T
      PROVE  y <= x
  <2>1. n - y \in D
    OBVIOUS
  <2>2. n - x <= n - y
    BY <1>2, <1>3, <2>1
  <2> QED
    BY <2>2
<1> QED
  BY <1>4

LEMMA Induction ==
    ASSUME NEW T, 0 \in T, \A n \in Nat : n \in T => n + 1 \in T
    PROVE  Nat \subseteq T
<1> SUFFICES ASSUME NEW m \in Nat, m \notin T
             PROVE  FALSE
  OBVIOUS
<1>1. PICK x \in Nat \ T : \A y \in Nat \ T : x <= y
  BY Least
<1>2. x - 1 \in Nat /\ x - 1 \notin Nat \ T
  BY <1>1
<1> QED
  BY <1>1, <1>2

(* The recursive function in Kept exists.                                  *)
KeptFcn(s, I, n, g) ==
    g = [m \in 0 .. n |-> IF m = 0 THEN << >>
                          ELSE IF m \in I THEN Append(g[m - 1], s[m]) ELSE g[m - 1]]

LEMMA KeptFcnExists ==
    ASSUME NEW s, NEW I
    PROVE  \A n \in Nat : \E g : KeptFcn(s, I, n, g)
<1> DEFINE T == { n \in Nat : \E g : KeptFcn(s, I, n, g) }
<1>1. 0 \in T
  <2>1. KeptFcn(s, I, 0, [m \in 0 .. 0 |-> << >>])
    BY DEF KeptFcn
  <2> QED
    BY <2>1
<1>2. ASSUME NEW n \in Nat, n \in T
      PROVE  n + 1 \in T
  <2>1. PICK g : KeptFcn(s, I, n, g)
    BY <1>2
  <2> DEFINE last == IF n + 1 \in I THEN Append(g[n], s[n + 1]) ELSE g[n]
             h == [m \in 0 .. n + 1 |-> IF m = n + 1 THEN last ELSE g[m]]
  <2>2. \A m \in 0 .. n : h[m] = g[m]
    OBVIOUS
  <2>3. h[n + 1] = last
    OBVIOUS
  <2>4. \A m \in 0 .. n : g[m] = IF m = 0 THEN << >>
                          ELSE IF m \in I THEN Append(g[m - 1], s[m]) ELSE g[m - 1]
    BY <2>1, Zenon DEF KeptFcn
  <2>5. ASSUME NEW m \in 0 .. n + 1
        PROVE  h[m] = IF m = 0 THEN << >>
                      ELSE IF m \in I THEN Append(h[m - 1], s[m]) ELSE h[m - 1]
    <3> HIDE DEF h, last
    <3>1. CASE m = n + 1
      <4>1. h[m] = last /\ h[m - 1] = g[n] /\ m # 0 /\ m - 1 = n
        BY <2>2, <2>3, <3>1
      <4> QED
        BY <4>1, <3>1 DEF last
    <3>2. CASE m = 0
      BY <2>2, <2>4, <3>2
    <3>3. CASE m # n + 1 /\ m # 0
      <4>1. m \in 0 .. n /\ m - 1 \in 0 .. n
        BY <3>3
      <4>2. h[m] = g[m] /\ h[m - 1] = g[m - 1]
        BY <4>1, <2>2
      <4> QED
        BY <4>1, <4>2, <2>4, <3>3
    <3> QED
      BY <3>1, <3>2, <3>3
  <2>6. KeptFcn(s, I, n + 1, h)
    <3>1. h = [m \in 0 .. n + 1 |-> h[m]]
      OBVIOUS
    <3> HIDE DEF h
    <3> QED
      BY <2>5, <3>1 DEF KeptFcn
  <2> QED
    BY <2>6
<1>3. Nat \subseteq T
  <2> HIDE DEF T
  <2> QED BY <1>1, <1>2, Induction
<1> QED
  BY <1>3

(* r is the elements of s at the indices of J, and f tells where they are. *)
Selects(S, s, J, r, f) ==
    /\ r \in Seq(S) /\ f \in [1 .. Len(r) -> J]
    /\ \A i \in 1 .. Len(r) : r[i] = s[f[i]]
    /\ \A i, j \in 1 .. Len(r) : i < j => f[i] < f[j]
    /\ \A k \in J : \E i \in 1 .. Len(r) : f[i] = k

LEMMA SelectsNothing ==
    ASSUME NEW S, NEW s
    PROVE  Selects(S, s, {}, << >>, << >>)
  BY DEF Selects

LEMMA SelectsOneMore ==
    ASSUME NEW S, NEW s \in Seq(S), NEW n \in 1 .. Len(s), NEW J \in SUBSET (1 .. n - 1),
           NEW r, NEW f, Selects(S, s, J, r, f)
    PROVE  \E h : Selects(S, s, J \cup {n}, Append(r, s[n]), h)
<1> DEFINE q == Append(r, s[n])
           h == [i \in 1 .. Len(r) + 1 |-> IF i = Len(r) + 1 THEN n ELSE f[i]]
<1>1. /\ r \in Seq(S) /\ Len(r) \in Nat /\ f \in [1 .. Len(r) -> J]
      /\ \A i \in 1 .. Len(r) : r[i] = s[f[i]]
      /\ \A i, j \in 1 .. Len(r) : i < j => f[i] < f[j]
      /\ \A k \in J : \E i \in 1 .. Len(r) : f[i] = k
  BY DEF Selects
<1>2. /\ q \in Seq(S) /\ Len(q) = Len(r) + 1 /\ q[Len(r) + 1] = s[n]
      /\ \A i \in 1 .. Len(r) : q[i] = r[i]
  <2>1. s[n] \in S
    OBVIOUS
  <2> QED
    BY <1>1, <2>1
<1>3. /\ h[Len(r) + 1] = n
      /\ \A i \in 1 .. Len(r) : h[i] = f[i] /\ f[i] \in J
      /\ h = [i \in 1 .. Len(r) + 1 |-> h[i]]
  BY <1>1
<1>4. \A i \in 1 .. Len(r) + 1 : i = Len(r) + 1 \/ i \in 1 .. Len(r)
  BY <1>1
<1> HIDE DEF q, h
<1>5. h \in [1 .. Len(q) -> J \cup {n}]
  BY <1>2, <1>3, <1>4
<1>6. \A i \in 1 .. Len(q) : q[i] = s[h[i]]
  BY <1>1, <1>2, <1>3, <1>4
<1>7. ASSUME NEW i \in 1 .. Len(q), NEW j \in 1 .. Len(q), i < j
      PROVE  h[i] < h[j]
  <2>1. i \in 1 .. Len(r)
    BY <1>1, <1>2, <1>7
  <2>2. CASE j = Len(r) + 1
    <3>1. f[i] \in 1 .. n - 1 /\ h[i] = f[i] /\ h[j] = n
      BY <1>3, <2>1, <2>2
    <3> QED
      BY <3>1
  <2>3. CASE j \in 1 .. Len(r)
    BY <1>1, <1>3, <1>7, <2>1, <2>3
  <2> QED
    BY <1>2, <1>4, <2>2, <2>3
<1>8. \A k \in J \cup {n} : \E i \in 1 .. Len(q) : h[i] = k
  <2>1. Len(r) + 1 \in 1 .. Len(q) /\ 1 .. Len(r) \subseteq 1 .. Len(q)
    BY <1>1, <1>2
  <2> QED
    BY <1>1, <1>3, <2>1
<1>9. Selects(S, s, J \cup {n}, q, h)
  BY <1>2, <1>5, <1>6, <1>7, <1>8 DEF Selects
<1> QED
  BY <1>9, Zenon DEF q

(* Kept(s, I) is the last value of its recursive function.                 *)
LEMMA KeptIsFcn ==
    ASSUME NEW S, NEW s \in Seq(S), NEW I
    PROVE  \E g : KeptFcn(s, I, Len(s), g) /\ Kept(s, I) = g[Len(s)]
<1> DEFINE g == CHOOSE g : g = [n \in 0 .. Len(s) |->
                    IF n = 0 THEN << >>
                    ELSE IF n \in I THEN Append(g[n - 1], s[n]) ELSE g[n - 1]]
<1>1. KeptFcn(s, I, Len(s), g)
  <2>1. \E x : KeptFcn(s, I, Len(s), x)
    <3>1. Len(s) \in Nat
      OBVIOUS
    <3> QED
      BY <3>1, KeptFcnExists, Zenon
  <2> QED
    BY <2>1 DEF KeptFcn
<1>2. Kept(s, I) = g[Len(s)]
  BY DEF Kept
<1> HIDE DEF g
<1> QED
  BY <1>1, <1>2

(* What Kept returns, for every sequence: the elements at the indices of I *)
(* and no others, in their order.                                          *)
LEMMA KeptSelects ==
    ASSUME NEW S, NEW s \in Seq(S), NEW I
    PROVE  \E f : Selects(S, s, (1 .. Len(s)) \cap I, Kept(s, I), f)
<1>1. PICK g : KeptFcn(s, I, Len(s), g) /\ Kept(s, I) = g[Len(s)]
  BY KeptIsFcn
<1>3. \A m \in 0 .. Len(s) : g[m] = IF m = 0 THEN << >>
                          ELSE IF m \in I THEN Append(g[m - 1], s[m]) ELSE g[m - 1]
  BY <1>1, Zenon DEF KeptFcn
<1> DEFINE Is(n) == \E f : Selects(S, s, (1 .. n) \cap I, g[n], f)
           T == { n \in Nat : n <= Len(s) => Is(n) }
<1>4. Is(0)
  <2>1. (1 .. 0) \cap I = {} /\ g[0] = << >>
    BY <1>3
  <2> QED
    BY <2>1, SelectsNothing
<1>5. ASSUME NEW n \in Nat, n + 1 <= Len(s), Is(n)
      PROVE  Is(n + 1)
  <2>1. PICK f : Selects(S, s, (1 .. n) \cap I, g[n], f)
    BY <1>5
  <2>2. /\ n + 1 \in 1 .. Len(s) /\ n + 1 \in 0 .. Len(s)
        /\ (n + 1) - 1 = n /\ n + 1 # 0
    BY <1>5
  <2>3. CASE n + 1 \in I
    <3>1. (1 .. n + 1) \cap I = ((1 .. n) \cap I) \cup {n + 1}
      BY <2>3
    <3>2. g[n + 1] = Append(g[n], s[n + 1])
      BY <1>3, <2>2, <2>3
    <3>3. (1 .. n) \cap I \in SUBSET (1 .. (n + 1) - 1)
      BY <2>2
    <3> DEFINE J == (1 .. n) \cap I
               k == n + 1
               q == g[n]
    <3>4. k \in 1 .. Len(s) /\ J \in SUBSET (1 .. k - 1) /\ Selects(S, s, J, q, f)
      BY <2>1, <2>2, <3>3
    <3> HIDE DEF J, k, q
    <3>5. \E h : Selects(S, s, J \cup {k}, Append(q, s[k]), h)
      BY <3>4, SelectsOneMore
    <3> QED
      BY <3>1, <3>2, <3>5 DEF J, k, q
  <2>4. CASE n + 1 \notin I
    <3>1. (1 .. n + 1) \cap I = (1 .. n) \cap I
      BY <2>4
    <3>2. g[n + 1] = g[n]
      BY <1>3, <2>2, <2>4
    <3> QED
      BY <2>1, <3>1, <3>2
  <2> QED
    BY <2>3, <2>4
<1> HIDE DEF Is
<1>6. Nat \subseteq T
  <2>1. 0 \in T
    BY <1>4
  <2>2. \A n \in Nat : n \in T => n + 1 \in T
    <3> SUFFICES ASSUME NEW n \in Nat, n <= Len(s) => Is(n), n + 1 <= Len(s)
                 PROVE  Is(n + 1)
      OBVIOUS
    <3>1. n <= Len(s)
      OBVIOUS
    <3> QED
      BY <1>5, <3>1
  <2> HIDE DEF T
  <2> QED
    BY <2>1, <2>2, Induction
<1>7. Is(Len(s))
  BY <1>6
<1> QED
  BY <1>1, <1>7 DEF Is

(* As a sequence over S: every element kept is one at an index of I.        *)
LEMMA KeptInSeq ==
    ASSUME NEW S, NEW s \in Seq(S), NEW I
    PROVE  /\ Kept(s, I) \in Seq(S)
           /\ \A i \in DOMAIN Kept(s, I) : \E j \in DOMAIN s : j \in I /\ Kept(s, I)[i] = s[j]
           /\ \A j \in DOMAIN s : j \in I => \E i \in DOMAIN Kept(s, I) : Kept(s, I)[i] = s[j]
<1>1. PICK f : Selects(S, s, (1 .. Len(s)) \cap I, Kept(s, I), f)
  BY KeptSelects
<1>2. PICK q : q = Kept(s, I)
  OBVIOUS
<1>3. /\ q \in Seq(S)
      /\ \A i \in 1 .. Len(q) : f[i] \in (1 .. Len(s)) \cap I /\ q[i] = s[f[i]]
      /\ \A k \in (1 .. Len(s)) \cap I : \E i \in 1 .. Len(q) : f[i] = k
  BY <1>1, <1>2 DEF Selects
<1>4. DOMAIN q = 1 .. Len(q) /\ DOMAIN s = 1 .. Len(s)
  BY <1>3
<1>5. \A i \in DOMAIN q : \E j \in DOMAIN s : j \in I /\ q[i] = s[j]
  BY <1>3, <1>4
<1>6. \A j \in DOMAIN s : j \in I => \E i \in DOMAIN q : q[i] = s[j]
  <2>1. ASSUME NEW j \in DOMAIN s, j \in I
        PROVE  \E i \in DOMAIN q : q[i] = s[j]
    <3>1. PICK i \in 1 .. Len(q) : f[i] = j
      BY <1>3, <1>4, <2>1
    <3> QED
      BY <1>3, <1>4, <3>1
  <2> QED
    BY <2>1
<1> QED
  BY <1>2, <1>3, <1>5, <1>6

(* Two sequences that begin alike and of which the same is kept share the  *)
(* recursive function of the longer one.                                   *)
LEMMA KeptShares ==
    ASSUME NEW S, NEW s \in Seq(S), NEW t \in Seq(S), NEW I, NEW J, Len(s) <= Len(t),
           \A i \in 1 .. Len(s) : (i \in I <=> i \in J) /\ (i \in I => s[i] = t[i])
    PROVE  \E h : /\ KeptFcn(t, J, Len(t), h)
                 /\ Kept(t, J) = h[Len(t)] /\ Kept(s, I) = h[Len(s)]
<1>1. PICK g : KeptFcn(s, I, Len(s), g) /\ Kept(s, I) = g[Len(s)]
  BY KeptIsFcn
<1>2. PICK h : KeptFcn(t, J, Len(t), h) /\ Kept(t, J) = h[Len(t)]
  BY KeptIsFcn
<1>3. \A m \in 0 .. Len(s) : g[m] = IF m = 0 THEN << >>
                          ELSE IF m \in I THEN Append(g[m - 1], s[m]) ELSE g[m - 1]
  BY <1>1, Zenon DEF KeptFcn
<1>4. \A m \in 0 .. Len(t) : h[m] = IF m = 0 THEN << >>
                          ELSE IF m \in J THEN Append(h[m - 1], t[m]) ELSE h[m - 1]
  BY <1>2, Zenon DEF KeptFcn
<1>5. Len(s) \in Nat /\ Len(t) \in Nat
  OBVIOUS
<1> DEFINE T == { n \in Nat : n <= Len(s) => g[n] = h[n] }
<1>6. 0 \in T
  BY <1>3, <1>4, <1>5
<1>7. ASSUME NEW n \in Nat, n \in T, n + 1 <= Len(s)
      PROVE  g[n + 1] = h[n + 1]
  <2>1. /\ n + 1 \in 0 .. Len(s) /\ n + 1 \in 0 .. Len(t) /\ n + 1 \in 1 .. Len(s)
        /\ (n + 1) - 1 = n /\ n + 1 # 0
    BY <1>5, <1>7
  <2>2. g[n] = h[n]
    BY <1>5, <1>7
  <2>3. /\ g[n + 1] = IF n + 1 \in I THEN Append(g[n], s[n + 1]) ELSE g[n]
        /\ h[n + 1] = IF n + 1 \in J THEN Append(h[n], t[n + 1]) ELSE h[n]
    BY <1>3, <1>4, <2>1
  <2>4. (n + 1 \in I <=> n + 1 \in J) /\ (n + 1 \in I => s[n + 1] = t[n + 1])
    BY <2>1
  <2> QED
    BY <2>2, <2>3, <2>4
<1>8. \A n \in Nat : n \in T => n + 1 \in T
  BY <1>7
<1> HIDE DEF T
<1>9. Nat \subseteq T
  BY <1>6, <1>8, Induction
<1>10. g[Len(s)] = h[Len(s)]
  BY <1>5, <1>9 DEF T
<1> QED
  BY <1>1, <1>2, <1>10

(* Kept depends only on the elements it keeps.                             *)
LEMMA KeptAgrees ==
    ASSUME NEW S, NEW s \in Seq(S), NEW t \in Seq(S), NEW I, NEW J, Len(s) = Len(t),
           \A i \in 1 .. Len(s) : (i \in I <=> i \in J) /\ (i \in I => s[i] = t[i])
    PROVE  Kept(s, I) = Kept(t, J)
<1>1. Len(s) <= Len(t)
  OBVIOUS
<1>2. \E h : Kept(t, J) = h[Len(t)] /\ Kept(s, I) = h[Len(s)]
  BY <1>1, KeptShares
<1> QED
  BY <1>2

(* An element more is kept at the end, or is not.                          *)
LEMMA KeptOneMore ==
    ASSUME NEW S, NEW s \in Seq(S), NEW t \in Seq(S), NEW I, NEW J, Len(t) = Len(s) + 1,
           \A i \in 1 .. Len(s) : (i \in I <=> i \in J) /\ (i \in I => s[i] = t[i])
    PROVE  /\ Len(t) \in J => Kept(t, J) = Append(Kept(s, I), t[Len(t)])
           /\ Len(t) \notin J => Kept(t, J) = Kept(s, I)
<1>1. Len(s) <= Len(t)
  OBVIOUS
<1>2. PICK h : /\ KeptFcn(t, J, Len(t), h)
               /\ Kept(t, J) = h[Len(t)] /\ Kept(s, I) = h[Len(s)]
  BY <1>1, KeptShares
<1>3. \A m \in 0 .. Len(t) : h[m] = IF m = 0 THEN << >>
                          ELSE IF m \in J THEN Append(h[m - 1], t[m]) ELSE h[m - 1]
  BY <1>2, Zenon DEF KeptFcn
<1>4. Len(t) \in 0 .. Len(t) /\ Len(t) # 0 /\ Len(t) - 1 = Len(s)
  OBVIOUS
<1> QED
  BY <1>2, <1>3, <1>4

(* What is kept of a beginning of a sequence is a beginning of what is     *)
(* kept of the whole.                                                      *)
LEMMA KeptBegins ==
    ASSUME NEW S, NEW s \in Seq(S), NEW t \in Seq(S), NEW I, NEW J, Len(s) <= Len(t),
           \A i \in 1 .. Len(s) : (i \in I <=> i \in J) /\ (i \in I => s[i] = t[i])
    PROVE  /\ Len(Kept(s, I)) <= Len(Kept(t, J))
           /\ Kept(s, I) = SubSeq(Kept(t, J), 1, Len(Kept(s, I)))
<1>1. PICK h : /\ KeptFcn(t, J, Len(t), h)
               /\ Kept(t, J) = h[Len(t)] /\ Kept(s, I) = h[Len(s)]
  BY KeptShares
<1>2. \A m \in 0 .. Len(t) : h[m] = IF m = 0 THEN << >>
                          ELSE IF m \in J THEN Append(h[m - 1], t[m]) ELSE h[m - 1]
  BY <1>1, Zenon DEF KeptFcn
<1>3. Len(s) \in Nat /\ Len(t) \in Nat /\ \A i \in 1 .. Len(t) : t[i] \in S
  OBVIOUS
<1>4. Kept(s, I) \in Seq(S)
  BY KeptInSeq
<1> DEFINE Begins(q) == /\ q \in Seq(S)
                        /\ Len(h[Len(s)]) <= Len(q) /\ h[Len(s)] = SubSeq(q, 1, Len(h[Len(s)]))
           T == { n \in Nat : Len(s) + n <= Len(t) => Begins(h[Len(s) + n]) }
<1>5. 0 \in T
  BY <1>1, <1>3, <1>4
<1>6. ASSUME NEW n \in Nat, n \in T, Len(s) + (n + 1) <= Len(t)
      PROVE  Begins(h[Len(s) + (n + 1)])
  <2> DEFINE k == Len(s) + (n + 1)
             q == h[Len(s) + n]
  <2>1. /\ k \in 0 .. Len(t) /\ k \in 1 .. Len(t) /\ k # 0 /\ k - 1 = Len(s) + n
    BY <1>3, <1>6
  <2>2. Begins(q)
    <3>1. Len(s) + n <= Len(t)
      BY <1>3, <1>6
    <3> QED
      BY <1>6, <3>1
  <2>3. h[k] = IF k \in J THEN Append(q, t[k]) ELSE q
    BY <1>2, <2>1
  <2> PICK e \in S : e = t[k]
    BY <1>3, <2>1
  <2> PICK w : w = h[Len(s)]
    OBVIOUS
  <2>4. w \in Seq(S)
    BY <1>1, <1>4
  <2> HIDE DEF q
  <2>5. Begins(Append(q, e))
    <3>1. q \in Seq(S) /\ Len(w) <= Len(q) /\ w = SubSeq(q, 1, Len(w))
      BY <2>2
    <3>2. /\ Append(q, e) \in Seq(S) /\ Len(Append(q, e)) = Len(q) + 1
          /\ \A i \in 1 .. Len(q) : Append(q, e)[i] = q[i]
      BY <3>1
    <3>3. SubSeq(Append(q, e), 1, Len(w)) = SubSeq(q, 1, Len(w))
      BY <2>4, <3>1, <3>2
    <3> QED
      BY <2>4, <3>1, <3>2, <3>3
  <2> QED
    BY <2>2, <2>3, <2>5
<1>7. \A n \in Nat : n \in T => n + 1 \in T
  BY <1>6
<1> HIDE DEF T
<1>8. Nat \subseteq T
  BY <1>5, <1>7, Induction
<1> HIDE DEF Begins
<1>9. Begins(h[Len(t)])
  <2>1. PICK n \in Nat : Len(s) + n = Len(t)
    <3>1. Len(t) - Len(s) \in Nat /\ Len(s) + (Len(t) - Len(s)) = Len(t)
      BY <1>3
    <3> QED
      BY <3>1
  <2>2. n \in T /\ Len(s) + n <= Len(t)
    BY <1>3, <1>8, <2>1
  <2> QED
    BY <2>1, <2>2 DEF T
<1> QED
  BY <1>1, <1>4, <1>9 DEF Begins

(* SetToSeq is some listing of the set, which exists when the set is finite. *)
LEMMA SetToSeqLists ==
    ASSUME NEW S, IsFiniteSet(S)
    PROVE  /\ SetToSeq(S) \in Seq(S)
           /\ S = { SetToSeq(S)[i] : i \in DOMAIN SetToSeq(S) }
<1> DEFINE n == Cardinality(S)
           f == SetToSeq(S)
<1>1. n \in Nat /\ ExistsBijection(1 .. n, S)
  BY FS_CardinalityType
<1>2. PICK g : g \in Bijection(1 .. n, S)
  BY <1>1 DEF ExistsBijection
<1>3. \E h \in [1 .. n -> S] : IsInjective(h)
  BY <1>2 DEF Bijection, Injection
<1>4. f \in [1 .. n -> S] /\ IsInjective(f)
  BY <1>3, Zenon DEF SetToSeq
<1>5. f \in Surjection(1 .. n, S)
  <2>1. Cardinality(1 .. n) = n
    BY <1>1, FS_Interval
  <2>2. f \in Injection(1 .. n, S)
    BY <1>4, Zenon DEF Injection
  <2> HIDE DEF f
  <2> QED
    BY <2>1, <2>2, FS_Injection
<1> HIDE DEF f
<1>6. f \in Seq(S) /\ DOMAIN f = 1 .. n
  BY <1>1, <1>4
<1>7. \A x \in S : \E i \in 1 .. n : f[i] = x
  BY <1>5 DEF Surjection
<1>8. S = { f[i] : i \in DOMAIN f }
  BY <1>4, <1>6, <1>7
<1> QED
  BY <1>6, <1>8 DEF f

LEMMA SetToSeqOnce ==
    ASSUME NEW S, IsFiniteSet(S)
    PROVE  \A i, j \in DOMAIN SetToSeq(S) : SetToSeq(S)[i] = SetToSeq(S)[j] => i = j
<1> DEFINE n == Cardinality(S)
           f == SetToSeq(S)
<1>1. n \in Nat /\ ExistsBijection(1 .. n, S)
  BY FS_CardinalityType
<1>2. PICK g : g \in Bijection(1 .. n, S)
  BY <1>1 DEF ExistsBijection
<1>3. \E h \in [1 .. n -> S] : IsInjective(h)
  BY <1>2 DEF Bijection, Injection
<1>4. IsInjective(f)
  BY <1>3, Zenon DEF SetToSeq
<1> HIDE DEF f
<1>5. \A i, j \in DOMAIN f : f[i] = f[j] => i = j
  BY <1>4 DEF IsInjective
<1> QED
  BY <1>5 DEF f
=============================================================================
