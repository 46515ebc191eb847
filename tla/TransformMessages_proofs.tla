---------------------- MODULE TransformMessages_proofs ----------------------
(***************************************************************************)
(* Proofs about the repair of a conversation, for conversations of any       *)
(* length.  Induction runs over sets of numbers and of sequences; the pass   *)
(* is known by what it does with one more message (PassAppend).              *)
(***************************************************************************)
EXTENDS TransformMessages, SequenceTheorems, FiniteSetTheorems, WellFoundedInduction, TLAPS

(* Induction. *)

\* A set of numbers has a least one.
LEMMA LeastNumber ==
    ASSUME NEW S \in SUBSET Nat, S # {}
    PROVE  \E x \in S : \A y \in S : x <= y
<1> DEFINE R == OpToRel(<, Nat)
<1>1. IsWellFoundedOn(R, Nat)
  BY NatLessThanWellFounded
<1>2. \A x, y \in Nat : x < y => <<x, y>> \in R
  BY DEF OpToRel
<1> HIDE DEF R
<1>3. PICK x \in S : \A y \in S : ~(<<y, x>> \in R)
  BY <1>1, WFMin
<1>4. \A y \in S : x \in Nat /\ y \in Nat /\ ~(y < x)
  BY <1>2, <1>3
<1>5. \A y \in S : x <= y
  BY <1>4
<1> QED
  BY <1>5

\* What holds of 0 and of the successor holds of every number.
LEMMA NumbersReached ==
    ASSUME NEW S, 0 \in S, \A n \in Nat : n \in S => n + 1 \in S
    PROVE  Nat \subseteq S
<1> SUFFICES ASSUME Nat \ S # {} PROVE FALSE
  OBVIOUS
<1>1. PICK x \in Nat \ S : \A y \in Nat \ S : x <= y
  BY LeastNumber
<1>2. x # 0 /\ x - 1 \in Nat /\ (x - 1) + 1 = x /\ ~(x <= x - 1)
  BY <1>1
<1>3. x - 1 \in S
  BY <1>1, <1>2
<1> QED
  BY <1>1, <1>2, <1>3

\* What holds of the empty sequence and stays when one is appended to holds of
\* every sequence.
LEMMA SequencesReached ==
    ASSUME NEW T, NEW S, <<>> \in S,
           \A s \in Seq(T) : s \in S => \A x \in T : Append(s, x) \in S
    PROVE  Seq(T) \subseteq S
<1> DEFINE N == {n \in Nat : \A s \in Seq(T) : Len(s) = n => s \in S}
<1>1. 0 \in N
  BY EmptySeq
<1>2. ASSUME NEW n \in Nat, n \in N PROVE n + 1 \in N
  <2>1. ASSUME NEW s \in Seq(T), Len(s) = n + 1 PROVE s \in S
    <3>1. s # <<>>
      BY <2>1, EmptySeq
    <3>2. PICK r \in Seq(T), x \in T : s = Append(r, x)
      BY <3>1, SequenceEmptyOrAppend
    <3>3. Len(r) \in Nat /\ Len(r) + 1 = n + 1
      BY <2>1, <3>2, AppendProperties, LenProperties
    <3> QED BY <1>2, <3>2, <3>3
  <2> QED BY <2>1
<1> HIDE DEF N
<1>3. Nat \subseteq N
  BY <1>1, <1>2, NumbersReached
<1> QED
  BY <1>3, LenProperties DEF N

-----------------------------------------------------------------------------
(* The folds, by their equations. *)

SameUpTo(s, t, n) == \A i \in 1 .. n : s[i] = t[i]

\* A fold from the left looks at the greatest place first.
LEMMA Greatest ==
    ASSUME NEW n \in Nat, NEW S \in SUBSET (1 .. n), S # {}
    PROVE  Max(S) \in S /\ \A y \in S : y <= Max(S)
<1> DEFINE U == {u \in Nat : \A x \in S : x <= u}
<1>1. U \in SUBSET Nat /\ n \in U
  OBVIOUS
<1>2. PICK u \in U : \A v \in U : u <= v
  BY <1>1, LeastNumber
<1>3. u \in S
  <2> SUFFICES ASSUME u \notin S PROVE FALSE
    OBVIOUS
  <2>1. PICK x \in S : x \in 1 .. n
    OBVIOUS
  <2>2. u - 1 \in Nat /\ ~(u <= u - 1)
    BY <2>1
  <2>3. \A y \in S : y \in Nat /\ y <= u /\ y # u
    OBVIOUS
  <2>4. \A y \in S : y <= u - 1
    BY <2>3
  <2> QED BY <1>2, <2>2, <2>4
<1>4. \A y \in S : u >= y
  BY <1>2
<1> HIDE DEF U
<1>5. \E x \in S : \A y \in S : x >= y
  BY <1>3, <1>4
<1>6. Max(S) \in S /\ \A y \in S : Max(S) >= y
  BY <1>5 DEF Max
<1> QED
  BY <1>6

\* The last place of a sequence is the greatest.
LEMMA GreatestOfAll ==
    ASSUME NEW n \in Nat, n > 0
    PROVE  /\ Max(1 .. n) = n
           /\ (1 .. n) \ {n} = 1 .. (n - 1)
           /\ 1 .. n # {}
<1>1. n \in 1 .. n
  OBVIOUS
<1>2. Max(1 .. n) \in 1 .. n /\ n <= Max(1 .. n)
  BY <1>1, Greatest
<1>3. Max(1 .. n) = n
  BY <1>2
<1>4. (1 .. n) \ {n} = 1 .. (n - 1)
  OBVIOUS
<1> QED BY <1>1, <1>3, <1>4

\* What the fold of the pass computes for each set of places.
PassIter(g, s, n) ==
    g = [S \in SUBSET (1 .. n) |->
            IF S = {} THEN PassStart ELSE PassStep(g[S \ {Max(S)}], s[Max(S)])]

\* The fold of the pass can be computed, for the places of any length ...
LEMMA PassIterExists ==
    ASSUME NEW s
    PROVE  \A n \in Nat : \E g : PassIter(g, s, n)
<1> DEFINE N == {n \in Nat : \E g : PassIter(g, s, n)}
<1>1. 0 \in N
  <2>1. \A S \in SUBSET (1 .. 0) : S = {}
    OBVIOUS
  <2>2. PassIter([S \in SUBSET (1 .. 0) |-> PassStart], s, 0)
    BY <2>1 DEF PassIter
  <2> QED BY <2>2
<1>2. ASSUME NEW n \in Nat, n \in N PROVE n + 1 \in N
  <2>1. PICK g : PassIter(g, s, n)
    BY <1>2
  <2> DEFINE h == [S \in SUBSET (1 .. (n + 1)) |->
                     IF n + 1 \in S THEN PassStep(g[S \ {n + 1}], s[n + 1]) ELSE g[S]]
  <2>2. ASSUME NEW S \in SUBSET (1 .. (n + 1))
        PROVE  h[S] = IF S = {} THEN PassStart ELSE PassStep(h[S \ {Max(S)}], s[Max(S)])
    <3>1. CASE n + 1 \in S
      <4>1. n + 1 \in Nat /\ S \in SUBSET (1 .. (n + 1)) /\ S # {}
        BY <3>1
      <4>2. Max(S) = n + 1
        <5>1. Max(S) \in S /\ n + 1 <= Max(S)
          BY <3>1, <4>1, Greatest
        <5>2. Max(S) \in 1 .. (n + 1)
          BY <5>1
        <5> QED BY <5>1, <5>2
      <4>3. S \ {n + 1} \in SUBSET (1 .. (n + 1)) /\ n + 1 \notin S \ {n + 1}
        OBVIOUS
      <4>4. h[S \ {n + 1}] = g[S \ {n + 1}]
        BY <4>3
      <4>5. h[S] = PassStep(g[S \ {n + 1}], s[n + 1])
        BY <3>1
      <4> HIDE DEF h
      <4> QED BY <3>1, <4>2, <4>4, <4>5
    <3>2. CASE n + 1 \notin S
      <4>1. S \in SUBSET (1 .. n)
        BY <3>2
      <4>2. h[S] = g[S]
        BY <3>2
      <4>3. g[S] = IF S = {} THEN PassStart ELSE PassStep(g[S \ {Max(S)}], s[Max(S)])
        BY <2>1, <4>1 DEF PassIter
      <4>4. S \ {Max(S)} \in SUBSET (1 .. (n + 1)) /\ n + 1 \notin S \ {Max(S)}
        BY <3>2
      <4>5. h[S \ {Max(S)}] = g[S \ {Max(S)}]
        BY <4>4
      <4> HIDE DEF h
      <4> QED BY <4>2, <4>3, <4>5
    <3> QED BY <3>1, <3>2
  <2>3. h = [S \in SUBSET (1 .. (n + 1)) |->
               IF S = {} THEN PassStart ELSE PassStep(h[S \ {Max(S)}], s[Max(S)])]
    <3>1. h = [S \in SUBSET (1 .. (n + 1)) |-> h[S]]
      OBVIOUS
    <3> HIDE DEF h
    <3> QED BY <2>2, <3>1
  <2> HIDE DEF h
  <2>4. PassIter(h, s, n + 1)
    BY <2>3 DEF PassIter
  <2> QED BY <2>4
<1> HIDE DEF N
<1>3. Nat \subseteq N
  BY <1>1, <1>2, NumbersReached
<1> QED
  BY <1>3 DEF N

\* ... where the fold at the first k places takes one step from that at the first k - 1 ...
LEMMA PassIterStep ==
    ASSUME NEW s, NEW g, NEW n \in Nat, PassIter(g, s, n), NEW k \in 0 .. n
    PROVE  g[1 .. k] = IF k = 0 THEN PassStart ELSE PassStep(g[1 .. (k - 1)], s[k])
<1>1. 1 .. k \in SUBSET (1 .. n)
  OBVIOUS
<1>2. g[1 .. k] = IF 1 .. k = {} THEN PassStart
                  ELSE PassStep(g[(1 .. k) \ {Max(1 .. k)}], s[Max(1 .. k)])
  BY <1>1 DEF PassIter
<1>3. CASE k = 0
  BY <1>2, <1>3
<1>4. CASE k > 0
  <2>1. k \in Nat /\ k > 0
    BY <1>4
  <2>2. Max(1 .. k) = k /\ (1 .. k) \ {k} = 1 .. (k - 1) /\ 1 .. k # {}
    BY <2>1, GreatestOfAll
  <2>3. (1 .. k) \ {Max(1 .. k)} = 1 .. (k - 1)
    BY <2>2
  <2>4. g[1 .. k] = PassStep(g[1 .. (k - 1)], s[k])
    BY ONLY <1>2, <2>2, <2>3
  <2> QED BY <1>4, <2>4
<1> QED
  BY <1>3, <1>4

\* Where two sequences agree, so do their folds.
LEMMA PassIterAgrees ==
    ASSUME NEW s, NEW t, NEW g, NEW h, NEW n \in Nat, PassIter(g, s, n),
           PassIter(h, t, n + 1), SameUpTo(s, t, n)
    PROVE  g[1 .. n] = h[1 .. n]
<1> DEFINE N == {k \in Nat : k <= n => g[1 .. k] = h[1 .. k]}
<1>1. 0 \in N
  <2>1. 0 \in 0 .. n /\ 0 \in 0 .. (n + 1) /\ n + 1 \in Nat
    OBVIOUS
  <2>2. g[1 .. 0] = PassStart /\ h[1 .. 0] = PassStart
    BY <2>1, PassIterStep
  <2> QED BY <2>2
<1>2. ASSUME NEW k \in Nat, k \in N PROVE k + 1 \in N
  <2>1. SUFFICES ASSUME k + 1 <= n PROVE g[1 .. (k + 1)] = h[1 .. (k + 1)]
    OBVIOUS
  <2>2. /\ n + 1 \in Nat /\ k + 1 \in 0 .. n /\ k + 1 \in 0 .. (n + 1)
        /\ k + 1 # 0 /\ (k + 1) - 1 = k /\ k <= n
    BY <2>1
  <2>3. /\ g[1 .. (k + 1)] = PassStep(g[1 .. k], s[k + 1])
        /\ h[1 .. (k + 1)] = PassStep(h[1 .. k], t[k + 1])
    BY <2>2, PassIterStep
  <2>4. g[1 .. k] = h[1 .. k] /\ s[k + 1] = t[k + 1]
    BY <1>2, <2>2 DEF SameUpTo
  <2> QED BY <2>3, <2>4
<1> HIDE DEF N
<1>3. Nat \subseteq N
  BY <1>1, <1>2, NumbersReached
<1> QED
  BY <1>3 DEF N

\* ... and the pass over a sequence is the fold at all its places.
LEMMA PassIterates ==
    ASSUME NEW T, NEW s \in Seq(T)
    PROVE  \E g : PassIter(g, s, Len(s)) /\ PassState(s) = g[1 .. Len(s)]
<1>1. DOMAIN s = 1 .. Len(s) /\ Len(s) \in Nat
  BY LenProperties
<1> DEFINE iter == CHOOSE g : PassIter(g, s, Len(s))
<1>2. \E g : PassIter(g, s, Len(s))
  BY <1>1, PassIterExists
<1>3. PassIter(iter, s, Len(s))
  BY <1>2
<1>4. PassState(s) = iter[1 .. Len(s)]
  BY <1>1 DEF PassIter, PassState, FoldLeft, MapThenFoldSet
<1> QED
  BY <1>3, <1>4

\* One more message is one more step of the pass (transform-messages.ts:182).
LEMMA PassAppend ==
    ASSUME NEW T, NEW s \in Seq(T), NEW x \in T
    PROVE  PassState(Append(s, x)) = PassStep(PassState(s), x)
<1> DEFINE t == Append(s, x)
           n == Len(s)
<1>1. /\ t \in Seq(T) /\ n \in Nat /\ Len(t) = n + 1 /\ t[n + 1] = x
      /\ \A i \in 1 .. n : s[i] = t[i]
  BY AppendProperties, LenProperties
<1> HIDE DEF t
<1>2. PICK g : PassIter(g, s, n) /\ PassState(s) = g[1 .. n]
  BY PassIterates
<1>3. PICK h : PassIter(h, t, n + 1) /\ PassState(t) = h[1 .. (n + 1)]
  BY <1>1, PassIterates
<1> HIDE DEF n
<1>4. n + 1 \in Nat /\ n <= n + 1 /\ n + 1 \in 0 .. (n + 1) /\ n + 1 # 0 /\ (n + 1) - 1 = n
  BY <1>1
<1>5. g[1 .. n] = h[1 .. n]
  <2>1. SameUpTo(s, t, n)
    BY <1>1 DEF SameUpTo
  <2>2. n \in Nat
    BY <1>1
  <2>3. PassIter(g, s, n) /\ PassIter(h, t, n + 1)
    BY <1>2, <1>3
  <2> QED BY ONLY <2>1, <2>2, <2>3, PassIterAgrees
<1>6. h[1 .. (n + 1)] = PassStep(h[1 .. n], t[n + 1])
  BY <1>3, <1>4, PassIterStep
<1> QED
  BY <1>1, <1>2, <1>3, <1>5, <1>6 DEF t

\* The pass over nothing is where it starts.
LEMMA PassEmpty == PassState(<<>>) = PassStart
<1>1. <<>> \in Seq({}) /\ Len(<<>>) = 0
  BY EmptySeq
<1> SUFFICES PassState(<<>>) = PassStart
  OBVIOUS
<1>2. PICK g : PassIter(g, <<>>, 0) /\ PassState(<<>>) = g[1 .. 0]
  BY <1>1, PassIterates
<1> QED
  BY <1>2, PassIterStep

-----------------------------------------------------------------------------
Keep(K, kept, x) == IF x \in K THEN Append(kept, x) ELSE kept

\* What the fold of Keeping computes for each set of places.
KeepingIter(K, g, s, n) ==
    g = [S \in SUBSET (1 .. n) |->
            IF S = {} THEN <<>> ELSE Keep(K, g[S \ {Max(S)}], s[Max(S)])]

\* The fold of the filter can be computed, for the places of any length ...
LEMMA KeepingIterExists ==
    ASSUME NEW K, NEW s
    PROVE  \A n \in Nat : \E g : KeepingIter(K, g, s, n)
<1> DEFINE N == {n \in Nat : \E g : KeepingIter(K, g, s, n)}
<1>1. 0 \in N
  <2>1. \A S \in SUBSET (1 .. 0) : S = {}
    OBVIOUS
  <2>2. KeepingIter(K, [S \in SUBSET (1 .. 0) |-> <<>>], s, 0)
    BY <2>1 DEF KeepingIter
  <2> QED BY <2>2
<1>2. ASSUME NEW n \in Nat, n \in N PROVE n + 1 \in N
  <2>1. PICK g : KeepingIter(K, g, s, n)
    BY <1>2
  <2> DEFINE h == [S \in SUBSET (1 .. (n + 1)) |->
                     IF n + 1 \in S THEN Keep(K, g[S \ {n + 1}], s[n + 1]) ELSE g[S]]
  <2>2. ASSUME NEW S \in SUBSET (1 .. (n + 1))
        PROVE  h[S] = IF S = {} THEN <<>> ELSE Keep(K, h[S \ {Max(S)}], s[Max(S)])
    <3>1. CASE n + 1 \in S
      <4>1. n + 1 \in Nat /\ S \in SUBSET (1 .. (n + 1)) /\ S # {}
        BY <3>1
      <4>2. Max(S) = n + 1
        <5>1. Max(S) \in S /\ n + 1 <= Max(S)
          BY <3>1, <4>1, Greatest
        <5>2. Max(S) \in 1 .. (n + 1)
          BY <5>1
        <5> QED BY <5>1, <5>2
      <4>3. S \ {n + 1} \in SUBSET (1 .. (n + 1)) /\ n + 1 \notin S \ {n + 1}
        OBVIOUS
      <4>4. h[S \ {n + 1}] = g[S \ {n + 1}]
        BY <4>3
      <4>5. h[S] = Keep(K, g[S \ {n + 1}], s[n + 1])
        BY <3>1
      <4> HIDE DEF h
      <4> QED BY <3>1, <4>2, <4>4, <4>5
    <3>2. CASE n + 1 \notin S
      <4>1. S \in SUBSET (1 .. n)
        BY <3>2
      <4>2. h[S] = g[S]
        BY <3>2
      <4>3. g[S] = IF S = {} THEN <<>> ELSE Keep(K, g[S \ {Max(S)}], s[Max(S)])
        BY <2>1, <4>1 DEF KeepingIter
      <4>4. S \ {Max(S)} \in SUBSET (1 .. (n + 1)) /\ n + 1 \notin S \ {Max(S)}
        BY <3>2
      <4>5. h[S \ {Max(S)}] = g[S \ {Max(S)}]
        BY <4>4
      <4> HIDE DEF h
      <4> QED BY <4>2, <4>3, <4>5
    <3> QED BY <3>1, <3>2
  <2>3. h = [S \in SUBSET (1 .. (n + 1)) |->
               IF S = {} THEN <<>> ELSE Keep(K, h[S \ {Max(S)}], s[Max(S)])]
    <3>1. h = [S \in SUBSET (1 .. (n + 1)) |-> h[S]]
      OBVIOUS
    <3> HIDE DEF h
    <3> QED BY <2>2, <3>1
  <2> HIDE DEF h
  <2>4. KeepingIter(K, h, s, n + 1)
    BY <2>3 DEF KeepingIter
  <2> QED BY <2>4
<1> HIDE DEF N
<1>3. Nat \subseteq N
  BY <1>1, <1>2, NumbersReached
<1> QED
  BY <1>3 DEF N

\* ... where the fold at the first k places takes one step from that at the first k - 1 ...
LEMMA KeepingIterStep ==
    ASSUME NEW K, NEW s, NEW g, NEW n \in Nat, KeepingIter(K, g, s, n), NEW k \in 0 .. n
    PROVE  g[1 .. k] = IF k = 0 THEN <<>> ELSE Keep(K, g[1 .. (k - 1)], s[k])
<1>1. 1 .. k \in SUBSET (1 .. n)
  OBVIOUS
<1>2. g[1 .. k] = IF 1 .. k = {} THEN <<>>
                  ELSE Keep(K, g[(1 .. k) \ {Max(1 .. k)}], s[Max(1 .. k)])
  BY <1>1 DEF KeepingIter
<1>3. CASE k = 0
  BY <1>2, <1>3
<1>4. CASE k > 0
  <2>1. k \in Nat /\ k > 0
    BY <1>4
  <2>2. Max(1 .. k) = k /\ (1 .. k) \ {k} = 1 .. (k - 1) /\ 1 .. k # {}
    BY <2>1, GreatestOfAll
  <2>3. (1 .. k) \ {Max(1 .. k)} = 1 .. (k - 1)
    BY <2>2
  <2>4. g[1 .. k] = Keep(K, g[1 .. (k - 1)], s[k])
    BY ONLY <1>2, <2>2, <2>3
  <2> QED BY <1>4, <2>4
<1> QED
  BY <1>3, <1>4

\* Where two sequences agree, so do their folds.
LEMMA KeepingIterAgrees ==
    ASSUME NEW K, NEW s, NEW t, NEW g, NEW h, NEW n \in Nat, KeepingIter(K, g, s, n),
           KeepingIter(K, h, t, n + 1), SameUpTo(s, t, n)
    PROVE  g[1 .. n] = h[1 .. n]
<1> DEFINE N == {k \in Nat : k <= n => g[1 .. k] = h[1 .. k]}
<1>1. 0 \in N
  <2>1. 0 \in 0 .. n /\ 0 \in 0 .. (n + 1) /\ n + 1 \in Nat
    OBVIOUS
  <2>2. g[1 .. 0] = <<>> /\ h[1 .. 0] = <<>>
    BY <2>1, KeepingIterStep
  <2> QED BY <2>2
<1>2. ASSUME NEW k \in Nat, k \in N PROVE k + 1 \in N
  <2>1. SUFFICES ASSUME k + 1 <= n PROVE g[1 .. (k + 1)] = h[1 .. (k + 1)]
    OBVIOUS
  <2>2. /\ n + 1 \in Nat /\ k + 1 \in 0 .. n /\ k + 1 \in 0 .. (n + 1)
        /\ k + 1 # 0 /\ (k + 1) - 1 = k /\ k <= n
    BY <2>1
  <2>3. /\ g[1 .. (k + 1)] = Keep(K, g[1 .. k], s[k + 1])
        /\ h[1 .. (k + 1)] = Keep(K, h[1 .. k], t[k + 1])
    BY <2>2, KeepingIterStep
  <2>4. g[1 .. k] = h[1 .. k] /\ s[k + 1] = t[k + 1]
    BY <1>2, <2>2 DEF SameUpTo
  <2> QED BY <2>3, <2>4
<1> HIDE DEF N
<1>3. Nat \subseteq N
  BY <1>1, <1>2, NumbersReached
<1> QED
  BY <1>3 DEF N

\* ... and the filter of a sequence is the fold at all its places.
LEMMA KeepingIterates ==
    ASSUME NEW K, NEW T, NEW s \in Seq(T)
    PROVE  \E g : KeepingIter(K, g, s, Len(s)) /\ Keeping(K, s) = g[1 .. Len(s)]
<1>1. DOMAIN s = 1 .. Len(s) /\ Len(s) \in Nat
  BY LenProperties
<1> DEFINE iter == CHOOSE g : KeepingIter(K, g, s, Len(s))
<1>2. \E g : KeepingIter(K, g, s, Len(s))
  BY <1>1, KeepingIterExists
<1>3. KeepingIter(K, iter, s, Len(s))
  BY <1>2
<1>4. Keeping(K, s) = iter[1 .. Len(s)]
  BY <1>1 DEF KeepingIter, Keeping, FoldLeft, MapThenFoldSet, Keep
<1> QED
  BY <1>3, <1>4

\* One more member is kept or not.
LEMMA KeepingAppend ==
    ASSUME NEW K, NEW T, NEW s \in Seq(T), NEW x \in T
    PROVE  Keeping(K, Append(s, x)) = Keep(K, Keeping(K, s), x)
<1> DEFINE t == Append(s, x)
           n == Len(s)
<1>1. /\ t \in Seq(T) /\ n \in Nat /\ Len(t) = n + 1 /\ t[n + 1] = x
      /\ \A i \in 1 .. n : s[i] = t[i]
  BY AppendProperties, LenProperties
<1> HIDE DEF t
<1>2. PICK g : KeepingIter(K, g, s, n) /\ Keeping(K, s) = g[1 .. n]
  BY KeepingIterates
<1>3. PICK h : KeepingIter(K, h, t, n + 1) /\ Keeping(K, t) = h[1 .. (n + 1)]
  BY <1>1, KeepingIterates
<1> HIDE DEF n
<1>4. n + 1 \in Nat /\ n <= n + 1 /\ n + 1 \in 0 .. (n + 1) /\ n + 1 # 0 /\ (n + 1) - 1 = n
  BY <1>1
<1>5. g[1 .. n] = h[1 .. n]
  <2>1. SameUpTo(s, t, n)
    BY <1>1 DEF SameUpTo
  <2>2. n \in Nat
    BY <1>1
  <2>3. KeepingIter(K, g, s, n) /\ KeepingIter(K, h, t, n + 1)
    BY <1>2, <1>3
  <2> QED BY ONLY <2>1, <2>2, <2>3, KeepingIterAgrees
<1>6. h[1 .. (n + 1)] = Keep(K, h[1 .. n], t[n + 1])
  BY <1>3, <1>4, KeepingIterStep
<1> QED
  BY <1>1, <1>2, <1>3, <1>5, <1>6 DEF t

\* Nothing is kept of nothing.
LEMMA KeepingEmpty == \A K : Keeping(K, <<>>) = <<>>
<1>1. <<>> \in Seq({}) /\ Len(<<>>) = 0
  BY EmptySeq
<1> SUFFICES ASSUME NEW K PROVE Keeping(K, <<>>) = <<>>
  OBVIOUS
<1>2. PICK g : KeepingIter(K, g, <<>>, 0) /\ Keeping(K, <<>>) = g[1 .. 0]
  BY <1>1, KeepingIterates
<1> QED
  BY <1>2, KeepingIterStep

\* A sequence with one more member.
LEMMA AppendMembers ==
    ASSUME NEW T, NEW s \in Seq(T), NEW x \in T
    PROVE  ToSet(Append(s, x)) = ToSet(s) \cup {x}
<1>1. /\ DOMAIN s = 1 .. Len(s) /\ Len(s) \in Nat
      /\ DOMAIN Append(s, x) = 1 .. (Len(s) + 1)
      /\ \A i \in 1 .. Len(s) : Append(s, x)[i] = s[i]
      /\ Append(s, x)[Len(s) + 1] = x
  BY AppendProperties, LenProperties
<1> QED
  BY <1>1 DEF ToSet

\* The empty sequence has no members.
LEMMA NoMembers == ToSet(<<>>) = {}
BY DEF ToSet

\* The members of a sequence are of its type.
LEMMA MembersType ==
    ASSUME NEW T, NEW s \in Seq(T)
    PROVE  ToSet(s) \subseteq T
BY LenProperties, ElementOfSeq DEF ToSet

\* What is kept are the members in the set.
LEMMA KeepingMembers ==
    ASSUME NEW K, NEW T, NEW s \in Seq(T)
    PROVE  Keeping(K, s) \in Seq(T) /\ ToSet(Keeping(K, s)) = ToSet(s) \cap K
<1> DEFINE S == {r \in Seq(T) : Keeping(K, r) \in Seq(T)
                                  /\ ToSet(Keeping(K, r)) = ToSet(r) \cap K}
<1>1. <<>> \in S
  BY KeepingEmpty, EmptySeq, NoMembers
<1>2. ASSUME NEW r \in Seq(T), r \in S, NEW x \in T PROVE Append(r, x) \in S
  <2>1. Keeping(K, Append(r, x)) = IF x \in K THEN Append(Keeping(K, r), x) ELSE Keeping(K, r)
    BY KeepingAppend DEF Keep
  <2>2. Append(r, x) \in Seq(T) /\ ToSet(Append(r, x)) = ToSet(r) \cup {x}
    BY AppendMembers, AppendProperties
  <2>3. CASE x \in K
    <3>1. /\ Append(Keeping(K, r), x) \in Seq(T)
          /\ ToSet(Append(Keeping(K, r), x)) = ToSet(Keeping(K, r)) \cup {x}
      BY <1>2, AppendMembers, AppendProperties
    <3> QED BY <1>2, <2>1, <2>2, <2>3, <3>1
  <2>4. CASE x \notin K
    BY <1>2, <2>1, <2>2, <2>4
  <2> QED BY <2>3, <2>4
<1> HIDE DEF S
<1>3. Seq(T) \subseteq S
  BY <1>1, <1>2, SequencesReached
<1> QED
  BY <1>3 DEF S

\* Appending one member to the second of two sequences.
LEMMA ConcatAppend ==
    ASSUME NEW T, NEW s \in Seq(T), NEW t \in Seq(T), NEW x \in T
    PROVE  s \o Append(t, x) = Append(s \o t, x)
<1>1. <<x>> \in Seq(T) /\ s \o t \in Seq(T)
  BY ConcatProperties
<1>2. Append(t, x) = t \o <<x>> /\ Append(s \o t, x) = (s \o t) \o <<x>>
  BY <1>1, AppendIsConcat
<1>3. (s \o t) \o <<x>> = s \o (t \o <<x>>)
  BY <1>1, ConcatAssociative
<1> QED
  BY <1>2, <1>3

\* The filter of two sequences is that of the one and then that of the other.
LEMMA KeepingConcat ==
    ASSUME NEW K, NEW T, NEW s \in Seq(T), NEW t \in Seq(T)
    PROVE  Keeping(K, s \o t) = Keeping(K, s) \o Keeping(K, t)
<1> DEFINE S == {r \in Seq(T) : Keeping(K, s \o r) = Keeping(K, s) \o Keeping(K, r)}
<1>1. <<>> \in S
  <2>1. s \o <<>> = s /\ Keeping(K, s) \o <<>> = Keeping(K, s)
    BY KeepingMembers, ConcatEmptySeq
  <2> QED BY <2>1, KeepingEmpty, EmptySeq
<1>2. ASSUME NEW r \in Seq(T), r \in S, NEW x \in T PROVE Append(r, x) \in S
  <2>1. /\ Keeping(K, s) \in Seq(T) /\ Keeping(K, r) \in Seq(T) /\ s \o r \in Seq(T)
        /\ Append(r, x) \in Seq(T)
    BY KeepingMembers, ConcatProperties, AppendProperties
  <2>2. s \o Append(r, x) = Append(s \o r, x)
    BY ConcatAppend
  <2>3. Keeping(K, Append(s \o r, x))
           = IF x \in K THEN Append(Keeping(K, s \o r), x) ELSE Keeping(K, s \o r)
    <3>1. \A u \in Seq(T) : Keeping(K, Append(u, x)) = Keep(K, Keeping(K, u), x)
      BY KeepingAppend
    <3> QED BY <2>1, <3>1 DEF Keep
  <2>4. Keeping(K, Append(r, x)) = IF x \in K THEN Append(Keeping(K, r), x) ELSE Keeping(K, r)
    BY KeepingAppend DEF Keep
  <2>5. Keeping(K, s) \o Append(Keeping(K, r), x) = Append(Keeping(K, s) \o Keeping(K, r), x)
    BY <2>1, ConcatAppend
  <2> QED BY <1>2, <2>1, <2>2, <2>3, <2>4, <2>5
<1> HIDE DEF S
<1>3. Seq(T) \subseteq S
  BY <1>1, <1>2, SequencesReached
<1> QED
  BY <1>3 DEF S

\* All is kept, or nothing.
LEMMA KeepingAll ==
    ASSUME NEW K, NEW T, NEW s \in Seq(T), ToSet(s) \subseteq K
    PROVE  Keeping(K, s) = s
<1> DEFINE S == {r \in Seq(T) : ToSet(r) \subseteq K => Keeping(K, r) = r}
<1>1. <<>> \in S
  BY KeepingEmpty, EmptySeq
<1>2. ASSUME NEW r \in Seq(T), r \in S, NEW x \in T PROVE Append(r, x) \in S
  <2>1. Keeping(K, Append(r, x)) = IF x \in K THEN Append(Keeping(K, r), x) ELSE Keeping(K, r)
    BY KeepingAppend DEF Keep
  <2>2. Append(r, x) \in Seq(T) /\ ToSet(Append(r, x)) = ToSet(r) \cup {x}
    BY AppendMembers, AppendProperties
  <2> QED BY <1>2, <2>1, <2>2
<1> HIDE DEF S
<1>3. Seq(T) \subseteq S
  BY <1>1, <1>2, SequencesReached
<1> QED
  BY <1>3 DEF S

\* A sequence without members of the set leaves nothing.
LEMMA KeepingNone ==
    ASSUME NEW K, NEW T, NEW s \in Seq(T), ToSet(s) \cap K = {}
    PROVE  Keeping(K, s) = <<>>
<1>1. Keeping(K, s) \in Seq(T) /\ ToSet(Keeping(K, s)) = {}
  BY KeepingMembers
<1> DEFINE k == Keeping(K, s)
<1>2. \A i \in 1 .. Len(k) : k[i] \in ToSet(k)
  BY <1>1, LenProperties DEF ToSet
<1>3. k = <<>>
  <2> HIDE DEF k
  <2> SUFFICES ASSUME k # <<>> PROVE FALSE
    OBVIOUS
  <2>1. k \in Seq(T) /\ ToSet(k) = {}
    BY <1>1 DEF k
  <2>2. Len(k) \in Nat \ {0}
    BY <2>1, EmptySeq
  <2>3. 1 \in 1 .. Len(k)
    BY <2>2
  <2> QED BY <1>2, <2>1, <2>3
<1> QED
  BY <1>3

-----------------------------------------------------------------------------
(* Messages, and what an insertion adds. *)

\* The messages of T call the tools of C; the result of a call is one of them.
Messaging(T, C) ==
    /\ \A m \in T : Role(m) \in {"user", "assistant", "toolResult"}
    /\ \A m \in T : Role(m) = "assistant" => m.calls \in Seq(C)
    /\ \A m \in T : Role(m) = "toolResult" => m.call \in C /\ m = ToolResult(m.call)
    /\ \A c \in C : ToolResult(c) \in T

PassType(T, C) == [out : Seq(T), pending : Seq(C), seen : SUBSET C]

\* What the constructors build.
LEMMA Constructed ==
    /\ \A m : Role(User(m)) = "user" /\ User(m).id = m
    /\ \A ids, stop : Role(Assistant(ids, stop)) = "assistant" /\ Assistant(ids, stop).calls = ids
    /\ \A c : Role(ToolResult(c)) = "toolResult" /\ ToolResult(c).call = c
BY DEF User, Assistant, ToolResult, Role

ResultsOf(ids) == [i \in DOMAIN ids |-> ToolResult(ids[i])]
Missing(s) == Keeping(ToSet(s.pending) \ s.seen, s.pending)

\* The synthetic results are messages, one for each call.
LEMMA ResultsOfCalls ==
    ASSUME NEW T, NEW C, Messaging(T, C), NEW ids \in Seq(C)
    PROVE  /\ ResultsOf(ids) \in Seq(T) /\ Len(ResultsOf(ids)) = Len(ids)
           /\ \A i \in 1 .. Len(ids) : ResultsOf(ids)[i] = ToolResult(ids[i])
<1>1. /\ DOMAIN ids = 1 .. Len(ids) /\ Len(ids) \in Nat
      /\ \A i \in 1 .. Len(ids) : ids[i] \in C
  BY LenProperties, ElementOfSeq
<1>2. \A i \in 1 .. Len(ids) : ToolResult(ids[i]) \in T
  BY <1>1 DEF Messaging
<1>3. ResultsOf(ids) = [i \in 1 .. Len(ids) |-> ToolResult(ids[i])]
  BY <1>1 DEF ResultsOf
<1>4. ResultsOf(ids) \in [1 .. Len(ids) -> T]
  BY <1>2, <1>3
<1> QED
  BY <1>1, <1>3, <1>4

\* insertSyntheticToolResults adds the results of the calls that are missing
\* (transform-messages.ts:162).
LEMMA Inserted ==
    ASSUME NEW T, NEW C, Messaging(T, C), NEW s \in PassType(T, C)
    PROVE  /\ Missing(s) \in Seq(C)
           /\ ToSet(Missing(s)) = ToSet(s.pending) \ s.seen
           /\ InsertSynthetic(s) \in PassType(T, C)
           /\ InsertSynthetic(s).out = s.out \o ResultsOf(Missing(s))
           /\ InsertSynthetic(s).pending = <<>>
<1>1. s.out \in Seq(T) /\ s.pending \in Seq(C) /\ s.seen \in SUBSET C
  BY DEF PassType
<1>2. Missing(s) \in Seq(C) /\ ToSet(Missing(s)) = ToSet(s.pending) \ s.seen
  BY <1>1, KeepingMembers DEF Missing
<1>3. InsertSynthetic(s) = [out |-> s.out \o ResultsOf(Missing(s)), pending |-> <<>>,
                            seen |-> IF s.pending = <<>> THEN s.seen ELSE {}]
  BY DEF InsertSynthetic, Missing, ResultsOf
<1>4. s.out \o ResultsOf(Missing(s)) \in Seq(T)
  BY <1>1, <1>2, ResultsOfCalls, ConcatProperties
<1>5. <<>> \in Seq(C)
  BY EmptySeq
<1> QED
  BY <1>1, <1>2, <1>3, <1>4, <1>5 DEF PassType

\* What one message does to the state of the pass.
LEMMA Passed ==
    ASSUME NEW T, NEW C, Messaging(T, C), NEW s \in PassType(T, C), NEW msg \in T
    PROVE  /\ PassStep(s, msg) \in PassType(T, C)
           /\ Role(msg) = "toolResult" =>
                 PassStep(s, msg) = [out |-> Append(s.out, msg), pending |-> s.pending,
                                     seen |-> s.seen \cup {msg.call}]
           /\ Role(msg) = "user" =>
                 /\ PassStep(s, msg).out = Append(InsertSynthetic(s).out, msg)
                 /\ PassStep(s, msg).pending = <<>>
           /\ Role(msg) = "assistant" /\ IsSkipped(msg) =>
                 PassStep(s, msg) = InsertSynthetic(s)
           /\ Role(msg) = "assistant" /\ ~IsSkipped(msg) =>
                 /\ PassStep(s, msg).out = Append(InsertSynthetic(s).out, msg)
                 /\ PassStep(s, msg).pending = msg.calls
                 /\ msg.calls # <<>> => PassStep(s, msg).seen = {}
<1> DEFINE f == InsertSynthetic(s)
<1>1. f \in PassType(T, C) /\ f.pending = <<>>
  BY Inserted
<1>2. s.out \in Seq(T) /\ f.out \in Seq(T)
  BY <1>1 DEF PassType
<1>3. Append(s.out, msg) \in Seq(T) /\ Append(f.out, msg) \in Seq(T)
  BY <1>2, AppendProperties
<1> HIDE DEF f
<1>4. CASE Role(msg) = "toolResult"
  <2>1. PassStep(s, msg) = [s EXCEPT !.out = Append(@, msg), !.seen = @ \cup {msg.call}]
    BY <1>4 DEF PassStep, PassResult
  <2>2. msg.call \in C
    BY <1>4 DEF Messaging
  <2>3. PassStep(s, msg) = [out |-> Append(s.out, msg), pending |-> s.pending,
                            seen |-> s.seen \cup {msg.call}]
    BY <2>1 DEF PassType
  <2>4. PassStep(s, msg) \in PassType(T, C)
    BY <1>3, <2>2, <2>3 DEF PassType
  <2> QED BY <1>4, <2>3, <2>4
<1>5. CASE Role(msg) = "assistant"
  <2>1. PassStep(s, msg) = PassAssistant(s, msg)
    BY <1>5 DEF PassStep
  <2>2. CASE IsSkipped(msg)
    BY <1>1, <1>5, <2>1, <2>2 DEF PassAssistant, f
  <2>3. CASE ~IsSkipped(msg)
    <3>1. PassStep(s, msg) = [out |-> Append(f.out, msg), pending |-> msg.calls,
                              seen |-> IF msg.calls = <<>> THEN f.seen ELSE {}]
      BY <2>1, <2>3 DEF PassAssistant, f
    <3>2. msg.calls \in Seq(C) /\ f.seen \in SUBSET C
      BY <1>1, <1>5 DEF Messaging, PassType
    <3>3. PassStep(s, msg) \in PassType(T, C)
      BY <1>3, <3>1, <3>2 DEF PassType
    <3> QED BY <1>5, <2>3, <3>1, <3>3 DEF f
  <2> QED BY <2>2, <2>3
<1>6. CASE Role(msg) = "user"
  <2>1. PassStep(s, msg) = [f EXCEPT !.out = Append(@, msg)]
    BY <1>6 DEF PassStep, PassUser, f
  <2>2. PassStep(s, msg) = [out |-> Append(f.out, msg), pending |-> f.pending, seen |-> f.seen]
    BY <1>1, <2>1 DEF PassType
  <2>3. PassStep(s, msg) \in PassType(T, C)
    BY <1>1, <1>3, <2>2 DEF PassType
  <2> QED BY <1>1, <1>6, <2>2, <2>3 DEF f
<1> QED
  BY <1>4, <1>5, <1>6 DEF Messaging

\* The state of the pass has its type.
LEMMA PassTyped ==
    ASSUME NEW T, NEW C, Messaging(T, C), NEW s \in Seq(T)
    PROVE  PassState(s) \in PassType(T, C)
<1> DEFINE S == {r \in Seq(T) : PassState(r) \in PassType(T, C)}
<1>1. <<>> \in S
  <2>1. PassStart \in PassType(T, C)
    BY EmptySeq DEF PassStart, PassType
  <2> QED BY <2>1, PassEmpty, EmptySeq
<1>2. ASSUME NEW r \in Seq(T), r \in S, NEW x \in T PROVE Append(r, x) \in S
  BY <1>2, PassAppend, Passed, AppendProperties
<1> HIDE DEF S
<1>3. Seq(T) \subseteq S
  BY <1>1, <1>2, SequencesReached
<1> QED
  BY <1>3 DEF S

-----------------------------------------------------------------------------
(* Every call is answered.                                                  *)

\* j is in the block of the assistant message i, or every message after i is.
InBlock(conv, i, j) ==
    /\ i < j /\ Role(conv[i]) = "assistant"
    /\ \A l \in (i + 1) .. j : Role(conv[l]) = "toolResult"
Reaches(conv, i) == \A l \in (i + 1) .. Len(conv) : Role(conv[l]) = "toolResult"

AnsweredIn(conv, i, c) == \E j \in 1 .. Len(conv) : InBlock(conv, i, j) /\ conv[j].call = c

\* Every call of a message is answered in its block, or is one of the open ones
\* and the block goes on.
Answering(conv, open) ==
    \A i \in 1 .. Len(conv) :
        Role(conv[i]) = "assistant" =>
            /\ ~IsSkipped(conv[i])
            /\ \A c \in ToSet(conv[i].calls) :
                  AnsweredIn(conv, i, c) \/ (Reaches(conv, i) /\ c \in open)

\* One result more answers its call.
LEMMA AnswerOne ==
    ASSUME NEW T, NEW conv \in Seq(T), NEW open, Answering(conv, open),
           NEW msg \in T, Role(msg) = "toolResult"
    PROVE  Answering(Append(conv, msg), open \ {msg.call})
<1> DEFINE t == Append(conv, msg)
           n == Len(conv)
<1>1. /\ n \in Nat /\ Len(t) = n + 1 /\ t[n + 1] = msg
      /\ \A i \in 1 .. n : t[i] = conv[i]
  BY AppendProperties, LenProperties
<1> HIDE DEF t, n
<1>2. ASSUME NEW i \in 1 .. (n + 1), Role(t[i]) = "assistant"
      PROVE  /\ ~IsSkipped(t[i])
             /\ \A c \in ToSet(t[i].calls) :
                   AnsweredIn(t, i, c) \/ (Reaches(t, i) /\ c \in open \ {msg.call})
  <2>1. i \in 1 .. n /\ t[i] = conv[i]
    BY <1>1, <1>2
  <2>2. ~IsSkipped(conv[i]) /\ \A c \in ToSet(conv[i].calls) :
           AnsweredIn(conv, i, c) \/ (Reaches(conv, i) /\ c \in open)
    BY <1>2, <2>1 DEF Answering, n
  <2>3. ASSUME NEW c, AnsweredIn(conv, i, c) PROVE AnsweredIn(t, i, c)
    <3>1. PICK j \in 1 .. n : InBlock(conv, i, j) /\ conv[j].call = c
      BY <2>3 DEF AnsweredIn, n
    <3>2. j \in 1 .. (n + 1) /\ \A l \in (i + 1) .. j : l \in 1 .. n
      BY <1>1, <2>1
    <3>3. InBlock(t, i, j) /\ t[j].call = c
      BY <1>1, <2>1, <3>1, <3>2 DEF InBlock
    <3> QED BY <1>1, <3>2, <3>3 DEF AnsweredIn
  <2>4. ASSUME Reaches(conv, i) PROVE Reaches(t, i) /\ InBlock(t, i, n + 1)
    <3>1. \A l \in (i + 1) .. (n + 1) : Role(t[l]) = "toolResult"
      BY <1>1, <2>1, <2>4 DEF Reaches, n
    <3> QED BY <1>1, <1>2, <2>1, <3>1 DEF Reaches, InBlock
  <2>5. ASSUME NEW c \in ToSet(t[i].calls), ~AnsweredIn(t, i, c)
        PROVE  Reaches(t, i) /\ c \in open \ {msg.call}
    <3>1. Reaches(conv, i) /\ c \in open
      BY <2>1, <2>2, <2>3, <2>5
    <3>2. InBlock(t, i, n + 1) /\ n + 1 \in 1 .. (n + 1)
      BY <1>1, <2>4, <3>1
    <3>3. c # msg.call
      BY <1>1, <2>5, <3>2 DEF AnsweredIn
    <3> QED BY <2>4, <3>1, <3>3
  <2> QED BY <2>1, <2>2, <2>5
<1> QED
  BY <1>1, <1>2 DEF Answering, t

\* Results for all open calls answer them.
LEMMA AnswerOpen ==
    ASSUME NEW T, NEW C, Messaging(T, C), NEW conv \in Seq(T), NEW ids \in Seq(C),
           Answering(conv, ToSet(ids))
    PROVE  Answering(conv \o ResultsOf(ids), {})
<1> DEFINE t == conv \o ResultsOf(ids)
           n == Len(conv)
           k == Len(ids)
<1>1. /\ n \in Nat /\ k \in Nat /\ Len(t) = n + k
      /\ \A i \in 1 .. n : t[i] = conv[i]
      /\ \A i \in 1 .. k : t[n + i] = ToolResult(ids[i])
  <2>1. /\ ResultsOf(ids) \in Seq(T) /\ Len(ResultsOf(ids)) = k
        /\ \A i \in 1 .. k : ResultsOf(ids)[i] = ToolResult(ids[i])
    BY ResultsOfCalls
  <2>2. n \in Nat /\ k \in Nat
    BY LenProperties
  <2>3. /\ Len(t) = n + k
        /\ \A i \in 1 .. (n + k) : t[i] = IF i <= n THEN conv[i] ELSE ResultsOf(ids)[i - n]
    <3>1. \A r \in Seq(T) :
             /\ Len(conv \o r) = Len(conv) + Len(r)
             /\ \A i \in 1 .. (Len(conv) + Len(r)) :
                   (conv \o r)[i] = IF i <= Len(conv) THEN conv[i] ELSE r[i - Len(conv)]
      BY ConcatProperties
    <3> QED BY <2>1, <3>1
  <2> HIDE DEF t, n, k
  <2>4. \A i \in 1 .. n : i \in 1 .. (n + k) /\ i <= n
    BY <2>2
  <2>5. \A i \in 1 .. k : n + i \in 1 .. (n + k) /\ ~(n + i <= n) /\ (n + i) - n = i
    BY <2>2
  <2> QED BY <2>1, <2>2, <2>3, <2>4, <2>5
<1>2. \A c \in ToSet(ids) : \E i \in 1 .. k : ids[i] = c
  BY LenProperties DEF ToSet
<1> HIDE DEF t, n, k
<1>3. ASSUME NEW i \in 1 .. (n + k), Role(t[i]) = "assistant"
      PROVE  ~IsSkipped(t[i]) /\ \A c \in ToSet(t[i].calls) : AnsweredIn(t, i, c)
  <2>1. i \in 1 .. n /\ t[i] = conv[i]
    <3> SUFFICES ASSUME i \notin 1 .. n PROVE FALSE
      BY <1>1
    <3>1. i - n \in 1 .. k /\ n + (i - n) = i
      BY <1>1
    <3>2. t[i] = ToolResult(ids[i - n])
      BY <1>1, <3>1
    <3> QED BY <1>3, <3>2, Constructed
  <2>2. ~IsSkipped(conv[i]) /\ \A c \in ToSet(conv[i].calls) :
           AnsweredIn(conv, i, c) \/ (Reaches(conv, i) /\ c \in ToSet(ids))
    BY <1>3, <2>1 DEF Answering, n
  <2>3. ASSUME NEW c, AnsweredIn(conv, i, c) PROVE AnsweredIn(t, i, c)
    <3>1. PICK j \in 1 .. n : InBlock(conv, i, j) /\ conv[j].call = c
      BY <2>3 DEF AnsweredIn, n
    <3>2. j \in 1 .. (n + k) /\ \A l \in (i + 1) .. j : l \in 1 .. n
      BY <1>1, <2>1
    <3>3. InBlock(t, i, j) /\ t[j].call = c
      BY <1>1, <2>1, <3>1, <3>2 DEF InBlock
    <3> QED BY <1>1, <3>2, <3>3 DEF AnsweredIn
  <2>4. ASSUME NEW c \in ToSet(ids), Reaches(conv, i) PROVE AnsweredIn(t, i, c)
    <3>1. PICK j \in 1 .. k : ids[j] = c
      BY <1>2
    <3>2. n + j \in 1 .. (n + k) /\ t[n + j].call = c /\ i < n + j
      BY <1>1, <2>1, <3>1, Constructed
    <3>3. \A l \in (i + 1) .. (n + j) : Role(t[l]) = "toolResult"
      <4>1. \A l \in (i + 1) .. n : Role(t[l]) = "toolResult"
        BY <1>1, <2>1, <2>4 DEF Reaches, n
      <4>2. \A l \in 1 .. k : Role(t[n + l]) = "toolResult"
        BY <1>1, Constructed
      <4>3. ASSUME NEW l \in (i + 1) .. (n + j), ~(l <= n) PROVE Role(t[l]) = "toolResult"
        <5>1. l - n \in 1 .. k /\ n + (l - n) = l
          BY <1>1, <2>1, <4>3
        <5> QED BY <4>2, <5>1
      <4> QED BY <1>1, <2>1, <4>1, <4>3
    <3>4. InBlock(t, i, n + j)
      BY <1>3, <3>2, <3>3 DEF InBlock
    <3> QED BY <1>1, <3>2, <3>4 DEF AnsweredIn
  <2> QED BY <2>1, <2>2, <2>3, <2>4
<1> QED
  BY <1>1, <1>3 DEF Answering, t

\* Where nothing is open, a user message or a replayed assistant message begins
\* anew.
LEMMA AnswerAnew ==
    ASSUME NEW T, NEW conv \in Seq(T), Answering(conv, {}), NEW msg \in T,
           NEW open, Role(msg) = "assistant" => ~IsSkipped(msg) /\ ToSet(msg.calls) \subseteq open
    PROVE  Answering(Append(conv, msg), open)
<1> DEFINE t == Append(conv, msg)
           n == Len(conv)
<1>1. /\ n \in Nat /\ Len(t) = n + 1 /\ t[n + 1] = msg
      /\ \A i \in 1 .. n : t[i] = conv[i]
  BY AppendProperties, LenProperties
<1> HIDE DEF t, n
<1>2. ASSUME NEW i \in 1 .. (n + 1), Role(t[i]) = "assistant"
      PROVE  /\ ~IsSkipped(t[i])
             /\ \A c \in ToSet(t[i].calls) : AnsweredIn(t, i, c) \/ (Reaches(t, i) /\ c \in open)
  <2>1. CASE i = n + 1
    <3>1. Reaches(t, i)
      BY <1>1, <2>1 DEF Reaches
    <3> QED BY <1>1, <1>2, <2>1, <3>1
  <2>2. CASE i # n + 1
    <3>1. i \in 1 .. n /\ t[i] = conv[i]
      BY <1>1, <2>2
    <3>2. ~IsSkipped(conv[i]) /\ \A c \in ToSet(conv[i].calls) : AnsweredIn(conv, i, c)
      BY <1>2, <3>1 DEF Answering, n
    <3>3. ASSUME NEW c, AnsweredIn(conv, i, c) PROVE AnsweredIn(t, i, c)
      <4>1. PICK j \in 1 .. n : InBlock(conv, i, j) /\ conv[j].call = c
        BY <3>3 DEF AnsweredIn, n
      <4>2. j \in 1 .. (n + 1) /\ \A l \in (i + 1) .. j : l \in 1 .. n
        BY <1>1, <3>1
      <4>3. InBlock(t, i, j) /\ t[j].call = c
        BY <1>1, <3>1, <4>1, <4>2 DEF InBlock
      <4> QED BY <1>1, <4>2, <4>3 DEF AnsweredIn
    <3> QED BY <3>1, <3>2, <3>3
  <2> QED BY <2>1, <2>2
<1> QED
  BY <1>1, <1>2 DEF Answering, t

Open(s) == ToSet(s.pending) \ s.seen

\* The insertion leaves no call open.
LEMMA InsertedAnswers ==
    ASSUME NEW T, NEW C, Messaging(T, C), NEW s \in PassType(T, C), Answering(s.out, Open(s))
    PROVE  Answering(InsertSynthetic(s).out, {})
<1>1. s.out \in Seq(T) /\ Missing(s) \in Seq(C) /\ ToSet(Missing(s)) = Open(s)
  <2>1. s.out \in Seq(T)
    BY DEF PassType
  <2>2. Missing(s) \in Seq(C) /\ ToSet(Missing(s)) = ToSet(s.pending) \ s.seen
    BY Inserted
  <2> QED BY <2>1, <2>2 DEF Open
<1>2. Answering(s.out, ToSet(Missing(s)))
  BY <1>1
<1>3. Answering(s.out \o ResultsOf(Missing(s)), {})
  BY ONLY Messaging(T, C), <1>1, <1>2, AnswerOpen
<1> QED
  BY <1>3, Inserted

\* After any part of the conversation the calls that are not answered are those
\* of the last replayed message that no result was seen for.
LEMMA PassAnswers ==
    ASSUME NEW T, NEW C, Messaging(T, C), NEW conv \in Seq(T)
    PROVE  Answering(PassState(conv).out, Open(PassState(conv)))
<1> DEFINE S == {r \in Seq(T) : Answering(PassState(r).out, Open(PassState(r)))}
<1>1. <<>> \in S
  BY PassEmpty, EmptySeq DEF PassStart, Answering
<1>2. ASSUME NEW r \in Seq(T), r \in S, NEW x \in T PROVE Append(r, x) \in S
  <2> DEFINE s == PassState(r)
             f == InsertSynthetic(s)
             n == PassStep(s, x)
  <2>1. s \in PassType(T, C) /\ Answering(s.out, Open(s))
    BY <1>2, PassTyped
  <2>2. PassState(Append(r, x)) = n /\ Append(r, x) \in Seq(T)
    BY PassAppend, AppendProperties
  <2> HIDE DEF s
  <2>3. Answering(f.out, {}) /\ f.out \in Seq(T) /\ f.pending = <<>>
    <3>1. f \in PassType(T, C) /\ f.pending = <<>>
      BY <2>1, Inserted
    <3>2. Answering(f.out, {})
      BY <2>1, InsertedAnswers
    <3> QED BY <3>1, <3>2 DEF PassType
  <2>4. Answering(n.out, Open(n))
    <3>1. CASE Role(x) = "toolResult"
      <4>1. s.out \in Seq(T)
        BY <2>1 DEF PassType
      <4>2. Answering(Append(s.out, x), Open(s) \ {x.call})
        BY <2>1, <3>1, <4>1, AnswerOne
      <4>3. n = [out |-> Append(s.out, x), pending |-> s.pending, seen |-> s.seen \cup {x.call}]
        BY <2>1, <3>1, Passed
      <4>4. Open(n) = Open(s) \ {x.call} /\ n.out = Append(s.out, x)
        BY <4>3 DEF Open
      <4> QED BY <4>2, <4>4
    <3>2. CASE Role(x) = "user"
      <4>1. n.out = Append(f.out, x)
        BY <2>1, <3>2, Passed
      <4> QED BY <2>3, <3>2, <4>1, AnswerAnew
    <3>3. CASE Role(x) = "assistant" /\ IsSkipped(x)
      <4>1. n = f
        BY <2>1, <3>3, Passed
      <4>2. Open(f) = {}
        BY <2>3, NoMembers DEF Open
      <4> QED BY <2>3, <4>1, <4>2
    <3>4. CASE Role(x) = "assistant" /\ ~IsSkipped(x)
      <4>1. /\ n.out = Append(f.out, x) /\ n.pending = x.calls
            /\ x.calls # <<>> => n.seen = {}
        BY <2>1, <3>4, Passed
      <4>2. ToSet(x.calls) \subseteq Open(n)
        BY <4>1, NoMembers DEF Open
      <4> QED BY <2>3, <3>4, <4>1, <4>2, AnswerAnew
    <3> QED BY <3>1, <3>2, <3>3, <3>4 DEF Messaging
  <2> QED BY <2>2, <2>4
<1> HIDE DEF S
<1>3. Seq(T) \subseteq S
  BY <1>1, <1>2, SequencesReached
<1> QED
  BY <1>3 DEF S

\* The repaired conversation, its type and what it answers.
LEMMA Repaired ==
    ASSUME NEW T, NEW C, Messaging(T, C), NEW conv \in Seq(T)
    PROVE  Transform(conv) \in Seq(T) /\ Answering(Transform(conv), {})
<1>1. PassState(conv) \in PassType(T, C)
  BY PassTyped
<1>2. InsertSynthetic(PassState(conv)) \in PassType(T, C)
  BY <1>1, Inserted
<1>3. Answering(InsertSynthetic(PassState(conv)).out, {})
  BY <1>1, PassAnswers, InsertedAnswers
<1> QED
  BY <1>2, <1>3 DEF Transform, PassType

-----------------------------------------------------------------------------
(* Blocks.                                                                  *)

\* The block of a message ends somewhere.
LEMMA BlockEnds ==
    ASSUME NEW T, NEW conv \in Seq(T), NEW i \in 1 .. Len(conv)
    PROVE  /\ BlockEnd(conv, i) \in i .. Len(conv)
           /\ \A k \in (i + 1) .. BlockEnd(conv, i) : Role(conv[k]) = "toolResult"
           /\ BlockEnd(conv, i) < Len(conv) => Role(conv[BlockEnd(conv, i) + 1]) # "toolResult"
<1> DEFINE n == Len(conv)
           S == {j \in i .. n : j = n \/ Role(conv[j + 1]) # "toolResult"}
<1>1. n \in Nat /\ i \in Nat /\ n \in S
  BY LenProperties
<1>2. S \in SUBSET Nat /\ S # {}
  BY <1>1
<1>3. PICK j \in S : \A y \in S : j <= y
  BY <1>2, LeastNumber
<1>5. j \in i .. n /\ (j < n => Role(conv[j + 1]) # "toolResult")
  BY <1>1, <1>3
<1>6. \A m \in i .. n : m \notin S => Role(conv[m + 1]) = "toolResult"
  OBVIOUS
<1> HIDE DEF S
<1>4. ASSUME NEW k \in (i + 1) .. j PROVE Role(conv[k]) = "toolResult"
  <2>1. k - 1 \in i .. n /\ k - 1 < j /\ (k - 1) + 1 = k
    BY <1>1, <1>5
  <2>2. PICK m \in i .. n : m < j /\ m + 1 = k
    BY <2>1
  <2>3. m \notin S
    BY <1>1, <1>3, <1>5, <2>2
  <2> QED BY <1>6, <2>2, <2>3
<1> QED
  BY <1>4, <1>5 DEF BlockEnd

\* A place in the block is before its end.
LEMMA BlockReaches ==
    ASSUME NEW T, NEW conv \in Seq(T), NEW i \in 1 .. Len(conv), NEW j \in 1 .. Len(conv),
           InBlock(conv, i, j)
    PROVE  j - i \in 1 .. (BlockEnd(conv, i) - i)
<1> DEFINE e == BlockEnd(conv, i)
<1>1. /\ e \in i .. Len(conv) /\ (e < Len(conv) => Role(conv[e + 1]) # "toolResult")
      /\ Len(conv) \in Nat
  BY BlockEnds, LenProperties
<1> HIDE DEF e
<1>2. ~(e < j)
  <2> SUFFICES ASSUME e < j PROVE FALSE
    OBVIOUS
  <2>1. e + 1 \in (i + 1) .. j /\ e < Len(conv)
    BY <1>1
  <2> QED BY <1>1, <2>1 DEF InBlock
<1>3. i < j
  BY DEF InBlock
<1> QED
  BY <1>1, <1>2, <1>3 DEF e

\* Each call of a replayed assistant message is answered in its block: what the
\* repair promises for every conversation, whatever its history lacks
\* (transform-messages.ts:159).
THEOREM RepairAnswers ==
    ASSUME NEW T, NEW C, Messaging(T, C), NEW conv \in Seq(T), NEW i \in DOMAIN Transform(conv),
           Role(Transform(conv)[i]) = "assistant"
    PROVE  /\ ~IsSkipped(Transform(conv)[i])
           /\ ToSet(Transform(conv)[i].calls) \subseteq ToSet(BlockCalls(Transform(conv), i))
<1> DEFINE out == Transform(conv)
           b == BlockCalls(out, i)
           e == BlockEnd(out, i)
<1>1. out \in Seq(T) /\ Answering(out, {})
  BY Repaired
<1>2. i \in 1 .. Len(out) /\ Role(out[i]) = "assistant"
  BY <1>1, LenProperties
<1> HIDE DEF out
<1>3. ~IsSkipped(out[i]) /\ \A c \in ToSet(out[i].calls) : AnsweredIn(out, i, c)
  BY <1>1, <1>2 DEF Answering
<1>4. ASSUME NEW c \in ToSet(out[i].calls) PROVE c \in ToSet(b)
  <2>1. PICK j \in 1 .. Len(out) : InBlock(out, i, j) /\ out[j].call = c
    BY <1>3 DEF AnsweredIn
  <2>2. j - i \in 1 .. (e - i)
    BY <1>1, <1>2, <2>1, BlockReaches
  <2>3. b = [k \in 1 .. (e - i) |-> out[i + k].call]
    BY DEF BlockCalls
  <2>4. i + (j - i) = j
    BY <1>2
  <2> QED BY <2>1, <2>2, <2>3, <2>4 DEF ToSet
<1> QED
  BY <1>3, <1>4 DEF out

-----------------------------------------------------------------------------
(* What is kept, and how often a call is answered.                          *)

\* The insertion changes nothing that is not a result.
LEMMA InsertKeeps ==
    ASSUME NEW T, NEW C, Messaging(T, C), NEW K, NEW s \in PassType(T, C),
           \A m \in T : m \in K => Role(m) # "toolResult"
    PROVE  Keeping(K, InsertSynthetic(s).out) = Keeping(K, s.out)
<1> DEFINE a == ResultsOf(Missing(s))
<1>1. s.out \in Seq(T) /\ Missing(s) \in Seq(C) /\ InsertSynthetic(s).out = s.out \o a
  BY Inserted DEF PassType
<1>2. /\ a \in Seq(T) /\ Len(a) = Len(Missing(s))
      /\ \A i \in 1 .. Len(a) : a[i] = ToolResult(Missing(s)[i])
  BY <1>1, ResultsOfCalls
<1>3. ASSUME NEW m \in ToSet(a) PROVE m \notin K
  <2>1. PICK i \in 1 .. Len(a) : a[i] = m
    BY <1>2, <1>3, LenProperties DEF ToSet
  <2>2. m \in T /\ Role(m) = "toolResult"
    BY <1>2, <2>1, ElementOfSeq, Constructed
  <2> QED BY <2>2
<1> HIDE DEF a
<1>4. Keeping(K, a) = <<>>
  BY <1>2, <1>3, KeepingNone
<1>5. Keeping(K, s.out \o a) = Keeping(K, s.out) \o Keeping(K, a)
  BY <1>1, <1>2, KeepingConcat
<1>6. Keeping(K, s.out) \o <<>> = Keeping(K, s.out)
  BY <1>1, KeepingMembers, ConcatEmptySeq
<1> QED
  BY <1>1, <1>4, <1>5, <1>6

\* The repair keeps the messages of K, in order: K has no results, and of the
\* assistant messages those that are replayed (transform-messages.ts:183).
LEMMA PassKeeps ==
    ASSUME NEW T, NEW C, Messaging(T, C), NEW K, NEW conv \in Seq(T),
           \A m \in T : m \in K <=> \/ Role(m) = "user"
                                    \/ Role(m) = "assistant" /\ ~IsSkipped(m)
    PROVE  Keeping(K, PassState(conv).out) = Keeping(K, conv)
<1> DEFINE S == {r \in Seq(T) : Keeping(K, PassState(r).out) = Keeping(K, r)}
<1>1. <<>> \in S
  BY PassEmpty, EmptySeq DEF PassStart
<1>2. ASSUME NEW r \in Seq(T), r \in S, NEW x \in T PROVE Append(r, x) \in S
  <2> DEFINE s == PassState(r)
             f == InsertSynthetic(s)
             n == PassStep(s, x)
  <2>1. s \in PassType(T, C) /\ Keeping(K, s.out) = Keeping(K, r)
    BY <1>2, PassTyped
  <2>2. PassState(Append(r, x)) = n /\ Append(r, x) \in Seq(T)
    BY PassAppend, AppendProperties
  <2> HIDE DEF s
  <2>3. f.out \in Seq(T) /\ s.out \in Seq(T) /\ Keeping(K, f.out) = Keeping(K, r)
    <3>1. \A m \in T : m \in K => Role(m) # "toolResult"
      OBVIOUS
    <3>2. Keeping(K, f.out) = Keeping(K, s.out)
      BY <2>1, <3>1, InsertKeeps
    <3>3. f \in PassType(T, C)
      BY <2>1, Inserted
    <3> QED BY <2>1, <3>2, <3>3 DEF PassType
  <2>4. \A u \in Seq(T) : Keeping(K, Append(u, x)) = Keep(K, Keeping(K, u), x)
    BY KeepingAppend
  <2>5. Keeping(K, n.out) = Keeping(K, Append(r, x))
    <3>1. CASE Role(x) = "toolResult"
      <4>1. n.out = Append(s.out, x)
        BY <2>1, <3>1, Passed
      <4> QED BY <2>1, <2>3, <2>4, <4>1
    <3>2. CASE Role(x) = "user" \/ (Role(x) = "assistant" /\ ~IsSkipped(x))
      <4>1. n.out = Append(f.out, x)
        BY <2>1, <3>2, Passed
      <4> QED BY <2>3, <2>4, <4>1
    <3>3. CASE Role(x) = "assistant" /\ IsSkipped(x)
      <4>1. n = f
        BY <2>1, <3>3, Passed
      <4>2. Keeping(K, Append(r, x)) = Keeping(K, r)
        BY <2>4, <3>3 DEF Keep
      <4> QED BY <2>3, <4>1, <4>2
    <3> QED BY <3>1, <3>2, <3>3 DEF Messaging
  <2> QED BY <2>2, <2>5
<1> HIDE DEF S
<1>3. Seq(T) \subseteq S
  BY <1>1, <1>2, SequencesReached
<1> QED
  BY <1>3 DEF S

\* The user's messages and the replayed assistant messages stay, in their order:
\* the repair drops what is not replayed and adds results only
\* (transform-messages.ts:183).
THEOREM RepairKeeps ==
    ASSUME NEW T, NEW C, Messaging(T, C), NEW K, NEW conv \in Seq(T),
           \A m \in T : m \in K <=> \/ Role(m) = "user"
                                    \/ Role(m) = "assistant" /\ ~IsSkipped(m)
    PROVE  Keeping(K, Transform(conv)) = Keeping(K, conv)
<1>1. PassState(conv) \in PassType(T, C) /\ Keeping(K, PassState(conv).out) = Keeping(K, conv)
  BY PassTyped, PassKeeps
<1>2. \A m \in T : m \in K => Role(m) # "toolResult"
  OBVIOUS
<1> QED
  BY <1>1, <1>2, InsertKeeps DEF Transform

\* Where the calls c is answered in a conversation.
Places(conv, c) == {i \in DOMAIN conv : conv[i] = ToolResult(c)}

\* A result is in finitely many places.
LEMMA PlacesFinite ==
    ASSUME NEW T, NEW conv \in Seq(T), NEW c
    PROVE  IsFiniteSet(Places(conv, c)) /\ Cardinality(Places(conv, c)) \in Nat
<1>1. IsFiniteSet(1 .. Len(conv))
  BY FS_Interval, LenProperties
<1>2. Places(conv, c) \subseteq 1 .. Len(conv)
  BY LenProperties DEF Places
<1> QED
  BY <1>1, <1>2, FS_Subset, FS_CardinalityType

\* One message more has no result less.
LEMMA PlacesAppend ==
    ASSUME NEW T, NEW conv \in Seq(T), NEW x \in T, NEW c
    PROVE  Cardinality(Places(Append(conv, x), c))
              = Cardinality(Places(conv, c)) + (IF x = ToolResult(c) THEN 1 ELSE 0)
<1> DEFINE n == Len(conv)
<1>1. /\ n \in Nat /\ DOMAIN conv = 1 .. n /\ DOMAIN Append(conv, x) = 1 .. (n + 1)
      /\ \A i \in 1 .. n : Append(conv, x)[i] = conv[i]
      /\ Append(conv, x)[n + 1] = x
  BY AppendProperties, LenProperties
<1>2. CASE x = ToolResult(c)
  <2>1. Places(Append(conv, x), c) = Places(conv, c) \cup {n + 1} /\ n + 1 \notin Places(conv, c)
    BY <1>1, <1>2 DEF Places
  <2> QED BY <1>2, <2>1, PlacesFinite, FS_AddElement
<1>3. CASE x # ToolResult(c)
  <2>1. Places(Append(conv, x), c) = Places(conv, c)
    BY <1>1, <1>3 DEF Places
  <2> QED BY <1>3, <2>1, PlacesFinite
<1> QED
  BY <1>2, <1>3

\* More messages have no result less.
LEMMA PlacesConcat ==
    ASSUME NEW T, NEW s \in Seq(T), NEW t \in Seq(T), NEW c
    PROVE  Cardinality(Places(s, c)) <= Cardinality(Places(s \o t, c))
<1>1. s \o t \in Seq(T) /\ Len(s \o t) = Len(s) + Len(t) /\ Len(s) \in Nat /\ Len(t) \in Nat
  BY ConcatProperties, LenProperties
<1>2. \A i \in 1 .. Len(s) : (s \o t)[i] = s[i]
  <2>1. \A i \in 1 .. (Len(s) + Len(t)) :
           (s \o t)[i] = IF i <= Len(s) THEN s[i] ELSE t[i - Len(s)]
    BY ConcatProperties
  <2>2. \A i \in 1 .. Len(s) : i \in 1 .. (Len(s) + Len(t)) /\ i <= Len(s)
    BY <1>1
  <2> QED BY <2>1, <2>2
<1>3. Places(s, c) \subseteq Places(s \o t, c)
  BY <1>1, <1>2, LenProperties DEF Places
<1> QED
  BY <1>1, <1>3, PlacesFinite, FS_Subset

\* No result is lost.
LEMMA InsertLosesNone ==
    ASSUME NEW T, NEW C, Messaging(T, C), NEW s \in PassType(T, C), NEW c
    PROVE  Cardinality(Places(s.out, c)) <= Cardinality(Places(InsertSynthetic(s).out, c))
<1>1. s.out \in Seq(T) /\ Missing(s) \in Seq(C)
      /\ InsertSynthetic(s).out = s.out \o ResultsOf(Missing(s))
  BY Inserted DEF PassType
<1>2. ResultsOf(Missing(s)) \in Seq(T)
  BY <1>1, ResultsOfCalls
<1> QED
  BY <1>1, <1>2, PlacesConcat

\* The pass loses no result.
LEMMA PassLosesNone ==
    ASSUME NEW T, NEW C, Messaging(T, C), NEW conv \in Seq(T), NEW c
    PROVE  Cardinality(Places(conv, c)) <= Cardinality(Places(PassState(conv).out, c))
<1> DEFINE S == {r \in Seq(T) :
                   Cardinality(Places(r, c)) <= Cardinality(Places(PassState(r).out, c))}
<1>1. <<>> \in S
  <2>1. PassState(<<>>).out = <<>>
    BY PassEmpty DEF PassStart
  <2>2. Cardinality(Places(<<>>, c)) \in Nat /\ <<>> \in Seq(T)
    BY PlacesFinite, EmptySeq
  <2> QED BY <2>1, <2>2
<1>2. ASSUME NEW r \in Seq(T), r \in S, NEW x \in T PROVE Append(r, x) \in S
  <2> DEFINE s == PassState(r)
             f == InsertSynthetic(s)
             n == PassStep(s, x)
             Count(u) == Cardinality(Places(u, c))
             one == IF x = ToolResult(c) THEN 1 ELSE 0
  <2>1. s \in PassType(T, C) /\ Count(r) <= Count(s.out)
    BY <1>2, PassTyped
  <2>2. PassState(Append(r, x)) = n /\ Append(r, x) \in Seq(T)
    BY PassAppend, AppendProperties
  <2> HIDE DEF s
  <2>3. s.out \in Seq(T) /\ f.out \in Seq(T) /\ Count(s.out) <= Count(f.out)
    BY <2>1, InsertLosesNone, Inserted DEF PassType
  <2>4. \A u \in Seq(T) : Count(u) \in Nat /\ Count(Append(u, x)) = Count(u) + one
    BY PlacesAppend, PlacesFinite
  <2>5. one \in {0, 1} /\ (Role(x) # "toolResult" => one = 0)
    BY Constructed
  <2>6. \/ n.out = Append(s.out, x)
        \/ n.out = Append(f.out, x)
        \/ n.out = f.out /\ one = 0
    BY <2>1, <2>5, Passed DEF Messaging
  <2> HIDE DEF Count, one, f, n
  <2>7. Count(Append(r, x)) <= Count(n.out)
    <3>1. Count(Append(r, x)) = Count(r) + one /\ Count(r) \in Nat
      BY <2>4
    <3>2. /\ Count(Append(s.out, x)) = Count(s.out) + one /\ Count(s.out) \in Nat
          /\ Count(Append(f.out, x)) = Count(f.out) + one /\ Count(f.out) \in Nat
      BY <2>3, <2>4
    <3>3. Count(r) <= Count(s.out) /\ Count(s.out) <= Count(f.out) /\ one \in Nat
      BY <2>1, <2>3, <2>5
    <3>4. CASE n.out = Append(s.out, x)
      BY ONLY <3>1, <3>2, <3>3, <3>4
    <3>5. CASE n.out = Append(f.out, x)
      BY ONLY <3>1, <3>2, <3>3, <3>5
    <3>6. CASE n.out = f.out /\ one = 0
      BY ONLY <3>1, <3>2, <3>3, <3>6
    <3> QED BY <2>6, <3>4, <3>5, <3>6
  <2> QED BY <2>2, <2>7 DEF Count
<1> HIDE DEF S
<1>3. Seq(T) \subseteq S
  BY <1>1, <1>2, SequencesReached
<1> QED
  BY <1>3 DEF S

\* No result of the conversation is lost (transform-messages.ts:202).
THEOREM RepairLosesNone ==
    ASSUME NEW T, NEW C, Messaging(T, C), NEW conv \in Seq(T), NEW c
    PROVE  Cardinality(Places(conv, c)) <= Cardinality(Places(Transform(conv), c))
<1> DEFINE s == PassState(conv)
<1>1. s \in PassType(T, C) /\ Cardinality(Places(conv, c)) <= Cardinality(Places(s.out, c))
  BY PassTyped, PassLosesNone
<1>2. Cardinality(Places(s.out, c)) <= Cardinality(Places(InsertSynthetic(s).out, c))
  BY <1>1, InsertLosesNone
<1>3. s.out \in Seq(T) /\ InsertSynthetic(s).out \in Seq(T)
  BY <1>1, Inserted DEF PassType
<1>4. /\ Cardinality(Places(conv, c)) \in Nat /\ Cardinality(Places(s.out, c)) \in Nat
      /\ Cardinality(Places(InsertSynthetic(s).out, c)) \in Nat
  BY <1>3, PlacesFinite
<1> QED
  BY <1>1, <1>2, <1>4 DEF Transform

-----------------------------------------------------------------------------
(* Conversations whose results follow their calls in order.                 *)

\* The message j places after an assistant message answers its j-th call.
InPlace(conv, i, j) ==
    j - i <= Len(conv[i].calls) /\ conv[j].call = conv[i].calls[j - i]
ResultsOrdered(conv) ==
    \A i, j \in 1 .. Len(conv) : InBlock(conv, i, j) => InPlace(conv, i, j)

\* Each result follows an assistant message that is replayed.
ResultsServed(conv) ==
    \A j \in 1 .. Len(conv) :
        Role(conv[j]) = "toolResult" =>
            \E i \in 1 .. Len(conv) : InBlock(conv, i, j) /\ ~IsSkipped(conv[i])

\* No message makes one call twice.
CallsDistinct(conv) ==
    \A i \in 1 .. Len(conv) :
        Role(conv[i]) = "assistant" =>
            \A k, l \in 1 .. Len(conv[i].calls) :
                conv[i].calls[k] = conv[i].calls[l] => k = l

Orderly(conv) == ResultsOrdered(conv) /\ ResultsServed(conv) /\ CallsDistinct(conv)

\* The empty conversation is orderly.
LEMMA NothingOrderly == Orderly(<<>>)
<1>1. Len(<<>>) = 0
  BY EmptySeq
<1> QED
  BY <1>1 DEF Orderly, ResultsOrdered, ResultsServed, CallsDistinct

\* What is orderly was orderly.
LEMMA OrderlyBefore ==
    ASSUME NEW T, NEW conv \in Seq(T), NEW x \in T, Orderly(Append(conv, x))
    PROVE  Orderly(conv)
<1> DEFINE t == Append(conv, x)
           n == Len(conv)
<1>1. /\ n \in Nat /\ Len(t) = n + 1 /\ 1 .. n \subseteq 1 .. (n + 1)
      /\ \A i \in 1 .. n : t[i] = conv[i]
  BY AppendProperties, LenProperties
<1>2. ResultsOrdered(t) /\ ResultsServed(t) /\ CallsDistinct(t)
  BY DEF Orderly
<1> HIDE DEF t, n
<1>3. ASSUME NEW i \in 1 .. n, NEW j \in 1 .. n PROVE InBlock(conv, i, j) <=> InBlock(t, i, j)
  <2>1. \A l \in (i + 1) .. j : l \in 1 .. n
    BY <1>1
  <2> QED BY <1>1, <2>1 DEF InBlock
<1>4. ResultsOrdered(conv)
  BY <1>1, <1>2, <1>3 DEF ResultsOrdered, InPlace, n
<1>5. ResultsServed(conv)
  <2>1. ASSUME NEW j \in 1 .. n, Role(conv[j]) = "toolResult"
        PROVE  \E i \in 1 .. n : InBlock(conv, i, j) /\ ~IsSkipped(conv[i])
    <3>1. PICK i \in 1 .. (n + 1) : InBlock(t, i, j) /\ ~IsSkipped(t[i])
      BY <1>1, <1>2, <2>1 DEF ResultsServed
    <3>2. i \in 1 .. n
      BY <1>1, <3>1 DEF InBlock
    <3> QED BY <1>1, <1>3, <3>1, <3>2
  <2> QED BY <2>1 DEF ResultsServed, n
<1>6. CallsDistinct(conv)
  BY <1>1, <1>2 DEF CallsDistinct, n
<1> QED
  BY <1>4, <1>5, <1>6 DEF Orderly

\* A message that is no result ends the block before it.
LEMMA OrderlyAppend ==
    ASSUME NEW T, NEW conv \in Seq(T), NEW msg \in T, Orderly(conv), Role(msg) # "toolResult",
           Role(msg) = "assistant" =>
               \A k, l \in 1 .. Len(msg.calls) : msg.calls[k] = msg.calls[l] => k = l
    PROVE  Orderly(Append(conv, msg))
<1> DEFINE t == Append(conv, msg)
           n == Len(conv)
<1>1. /\ n \in Nat /\ Len(t) = n + 1 /\ t[n + 1] = msg
      /\ \A i \in 1 .. n : t[i] = conv[i]
  BY AppendProperties, LenProperties
<1>2. ResultsOrdered(conv) /\ ResultsServed(conv) /\ CallsDistinct(conv)
  BY DEF Orderly
<1> HIDE DEF t, n
<1>3. ASSUME NEW i \in 1 .. n, NEW j \in 1 .. n PROVE InBlock(conv, i, j) <=> InBlock(t, i, j)
  <2>1. \A l \in (i + 1) .. j : l \in 1 .. n
    BY <1>1
  <2> QED BY <1>1, <2>1 DEF InBlock
<1>4. ASSUME NEW i \in 1 .. (n + 1), NEW j \in 1 .. (n + 1), InBlock(t, i, j)
      PROVE  i \in 1 .. n /\ j \in 1 .. n
  <2>1. j # n + 1
    <3>1. j \in (i + 1) .. j
      BY <1>1, <1>4 DEF InBlock
    <3> QED BY <3>1, <1>1, <1>4 DEF InBlock
  <2> QED BY <1>1, <1>4, <2>1 DEF InBlock
<1>5. ResultsOrdered(t)
  <2>1. ASSUME NEW i \in 1 .. n, NEW j \in 1 .. n, InBlock(t, i, j) PROVE InPlace(t, i, j)
    BY <1>1, <1>2, <1>3, <2>1 DEF ResultsOrdered, InPlace, n
  <2> QED BY <1>1, <1>4, <2>1 DEF ResultsOrdered
<1>6. ResultsServed(t)
  <2>1. ASSUME NEW j \in 1 .. n, Role(t[j]) = "toolResult"
        PROVE  \E i \in 1 .. (n + 1) : InBlock(t, i, j) /\ ~IsSkipped(t[i])
    <3>1. PICK i \in 1 .. n : InBlock(conv, i, j) /\ ~IsSkipped(conv[i])
      BY <1>1, <1>2, <2>1 DEF ResultsServed, n
    <3> QED BY <1>1, <1>3, <3>1
  <2>2. \A j \in 1 .. (n + 1) : Role(t[j]) = "toolResult" => j \in 1 .. n
    BY <1>1
  <2> QED BY <1>1, <2>1, <2>2 DEF ResultsServed
<1>7. CallsDistinct(t)
  <2>1. ASSUME NEW i \in 1 .. (n + 1), Role(t[i]) = "assistant"
        PROVE  \A k, l \in 1 .. Len(t[i].calls) : t[i].calls[k] = t[i].calls[l] => k = l
    <3>1. CASE i = n + 1
      BY <1>1, <2>1, <3>1
    <3>2. CASE i # n + 1
      <4>1. i \in 1 .. n
        BY <1>1, <3>2
      <4> QED BY <1>1, <1>2, <2>1, <4>1 DEF CallsDistinct, n
    <3> QED BY <3>1, <3>2
  <2> QED BY <1>1, <2>1 DEF CallsDistinct
<1> QED
  BY <1>5, <1>6, <1>7 DEF Orderly, t

\* The result of the next call of the last message is in its place.
LEMMA OrderlyAnswer ==
    ASSUME NEW T, NEW conv \in Seq(T), NEW msg \in T, Orderly(conv),
           Role(msg) = "toolResult", NEW p \in 1 .. Len(conv), NEW k \in Nat,
           Role(conv[p]) = "assistant", ~IsSkipped(conv[p]), Len(conv) = p + k,
           \A l \in 1 .. k : Role(conv[p + l]) = "toolResult",
           k + 1 <= Len(conv[p].calls), msg.call = conv[p].calls[k + 1]
    PROVE  Orderly(Append(conv, msg))
<1> DEFINE t == Append(conv, msg)
           n == Len(conv)
<1>1. /\ n \in Nat /\ Len(t) = n + 1 /\ t[n + 1] = msg /\ n = p + k /\ p \in 1 .. n
      /\ \A i \in 1 .. n : t[i] = conv[i]
  BY AppendProperties, LenProperties
<1>2. ResultsOrdered(conv) /\ ResultsServed(conv) /\ CallsDistinct(conv)
  BY DEF Orderly
<1> HIDE DEF t, n
<1>3. ASSUME NEW i \in 1 .. n, NEW j \in 1 .. n PROVE InBlock(conv, i, j) <=> InBlock(t, i, j)
  <2>1. \A l \in (i + 1) .. j : l \in 1 .. n
    BY <1>1
  <2> QED BY <1>1, <2>1 DEF InBlock
<1>4. \A l \in (p + 1) .. (n + 1) : Role(t[l]) = "toolResult"
  <2>1. ASSUME NEW l \in (p + 1) .. (n + 1) PROVE Role(t[l]) = "toolResult"
    <3>1. CASE l = n + 1
      BY <1>1, <3>1
    <3>2. CASE l # n + 1
      <4>1. l - p \in 1 .. k /\ p + (l - p) = l /\ l \in 1 .. n
        BY <1>1, <3>2
      <4> QED BY <1>1, <4>1
    <3> QED BY <3>1, <3>2
  <2> QED BY <2>1
<1>5. InBlock(t, p, n + 1) /\ ~IsSkipped(t[p])
  BY <1>1, <1>4 DEF InBlock
<1>6. ASSUME NEW i \in 1 .. (n + 1), InBlock(t, i, n + 1) PROVE i = p
  <2>1. /\ i <= n /\ Role(t[i]) = "assistant"
        /\ \A l \in (i + 1) .. (n + 1) : Role(t[l]) = "toolResult"
    BY <1>1, <1>6 DEF InBlock
  <2>2. ~(i < p)
    <3> SUFFICES ASSUME i < p PROVE FALSE
      OBVIOUS
    <3>1. p \in (i + 1) .. (n + 1)
      BY <1>1
    <3> QED BY <1>1, <2>1, <3>1
  <2>3. ~(p < i)
    <3> SUFFICES ASSUME p < i PROVE FALSE
      OBVIOUS
    <3>1. i \in (p + 1) .. (n + 1)
      BY <1>1
    <3> QED BY <1>4, <2>1, <3>1
  <2> QED BY <1>1, <2>2, <2>3
<1>7. ResultsOrdered(t)
  <2>1. ASSUME NEW i \in 1 .. (n + 1), NEW j \in 1 .. (n + 1), InBlock(t, i, j)
        PROVE  InPlace(t, i, j)
    <3>1. CASE j = n + 1
      <4>1. i = p /\ j - i = k + 1 /\ t[j] = msg /\ t[i] = conv[p]
        BY <1>1, <1>6, <2>1, <3>1
      <4> QED BY <4>1 DEF InPlace
    <3>2. CASE j # n + 1
      <4>1. i \in 1 .. n /\ j \in 1 .. n
        BY <1>1, <2>1, <3>2 DEF InBlock
      <4> QED BY <1>1, <1>2, <1>3, <2>1, <4>1 DEF ResultsOrdered, InPlace, n
    <3> QED BY <3>1, <3>2
  <2> QED BY <1>1, <2>1 DEF ResultsOrdered
<1>8. ResultsServed(t)
  <2>1. ASSUME NEW j \in 1 .. (n + 1), Role(t[j]) = "toolResult"
        PROVE  \E i \in 1 .. (n + 1) : InBlock(t, i, j) /\ ~IsSkipped(t[i])
    <3>1. CASE j = n + 1
      BY <1>1, <1>5, <3>1
    <3>2. CASE j # n + 1
      <4>1. j \in 1 .. n
        BY <1>1, <3>2
      <4>2. PICK i \in 1 .. n : InBlock(conv, i, j) /\ ~IsSkipped(conv[i])
        BY <1>1, <1>2, <2>1, <4>1 DEF ResultsServed, n
      <4> QED BY <1>1, <1>3, <4>1, <4>2
    <3> QED BY <3>1, <3>2
  <2> QED BY <1>1, <2>1 DEF ResultsServed
<1>9. CallsDistinct(t)
  <2>1. \A i \in 1 .. (n + 1) : Role(t[i]) = "assistant" => i \in 1 .. n /\ t[i] = conv[i]
    BY <1>1
  <2> QED BY <1>1, <1>2, <2>1 DEF CallsDistinct, n
<1> QED
  BY <1>7, <1>8, <1>9 DEF Orderly, t

\* A block that is whole: every call is answered, in order, and by nothing else.
Whole(conv, i) ==
    LET e == i + Len(conv[i].calls)
    IN  /\ e <= Len(conv)
        /\ \A k \in 1 .. Len(conv[i].calls) : conv[i + k] = ToolResult(conv[i].calls[k])
        /\ e < Len(conv) => Role(conv[e + 1]) # "toolResult"
Paired(conv) ==
    /\ \A i \in 1 .. Len(conv) : Role(conv[i]) = "assistant" => Whole(conv, i)
    /\ \A j \in 1 .. Len(conv) :
          Role(conv[j]) = "toolResult" =>
              \E i \in 1 .. Len(conv) :
                  i < j /\ Role(conv[i]) = "assistant" /\ j <= i + Len(conv[i].calls)

\* A conversation b, the message m and the results of its first k calls.
Partial(conv, b, m, k) ==
    /\ Len(conv) = Len(b) + 1 + k
    /\ \A i \in 1 .. Len(b) : conv[i] = b[i]
    /\ conv[Len(b) + 1] = m
    /\ \A l \in 1 .. k : conv[Len(b) + 1 + l] = ToolResult(m.calls[l])

\* Paired conversations grow by whole blocks ...
LEMMA PairedBlock ==
    ASSUME NEW T, NEW C, Messaging(T, C), NEW b \in Seq(T), NEW m \in T, NEW conv \in Seq(T),
           Paired(b), Role(m) = "assistant", Partial(conv, b, m, Len(m.calls))
    PROVE  Paired(conv)
<1> DEFINE n == Len(b)
           k == Len(m.calls)
<1>1. n \in Nat /\ k \in Nat
  BY LenProperties DEF Messaging
<1>2. /\ Len(conv) = n + 1 + k /\ conv[n + 1] = m
      /\ \A i \in 1 .. n : conv[i] = b[i]
      /\ \A l \in 1 .. k : conv[n + 1 + l] = ToolResult(m.calls[l])
  BY DEF Partial
<1> HIDE DEF n, k
<1>3. \A l \in (n + 2) .. Len(conv) : conv[l] = ToolResult(m.calls[l - (n + 1)])
  <2>1. ASSUME NEW l \in (n + 2) .. Len(conv)
        PROVE  l - (n + 1) \in 1 .. k /\ n + 1 + (l - (n + 1)) = l
    BY <1>1, <1>2
  <2> QED BY <1>2, <2>1
<1>4. ASSUME NEW i \in 1 .. Len(conv), Role(conv[i]) = "assistant" PROVE Whole(conv, i)
  <2>1. i \in 1 .. n \/ i = n + 1
    <3>1. ~(i \in (n + 2) .. Len(conv))
      BY <1>3, <1>4, Constructed
    <3> QED BY <1>1, <1>2, <3>1
  <2>2. CASE i = n + 1
    <3>1. conv[i].calls = m.calls /\ i + k = Len(conv)
      BY <1>1, <1>2, <2>2
    <3>2. \A l \in 1 .. k : conv[i + l] = ToolResult(conv[i].calls[l])
      BY <1>2, <2>2, <3>1
    <3>3. i + k <= Len(conv) /\ ~(i + k < Len(conv))
      BY <1>1, <1>2, <3>1
    <3> QED BY <3>1, <3>2, <3>3 DEF Whole, k
  <2>3. CASE i \in 1 .. n
    <3> DEFINE c == b[i].calls
    <3>1. conv[i] = b[i] /\ Whole(b, i)
      BY <1>2, <1>4, <2>3 DEF Paired, n
    <3>2. Len(c) \in Nat
      BY <1>4, <3>1, <2>3, ElementOfSeq, LenProperties DEF Messaging, n
    <3>3. /\ i + Len(c) <= n
          /\ \A l \in 1 .. Len(c) : b[i + l] = ToolResult(c[l])
          /\ i + Len(c) < n => Role(b[i + Len(c) + 1]) # "toolResult"
      BY <3>1 DEF Whole, n
    <3> HIDE DEF c
    <3>4. \A l \in 1 .. Len(c) : conv[i + l] = ToolResult(c[l])
      BY <1>1, <1>2, <2>3, <3>2, <3>3
    <3>5. i + Len(c) < Len(conv) => Role(conv[i + Len(c) + 1]) # "toolResult"
      <4>1. CASE i + Len(c) < n
        BY <1>1, <1>2, <2>3, <3>2, <3>3, <4>1
      <4>2. CASE i + Len(c) = n
        BY <1>2, <4>2
      <4> QED BY <1>1, <2>3, <3>2, <3>3, <4>1, <4>2
    <3> QED BY <1>1, <1>2, <2>3, <3>1, <3>2, <3>3, <3>4, <3>5 DEF Whole, c
  <2> QED BY <2>1, <2>2, <2>3
<1>5. ASSUME NEW j \in 1 .. Len(conv), Role(conv[j]) = "toolResult"
      PROVE  \E i \in 1 .. Len(conv) :
                 i < j /\ Role(conv[i]) = "assistant" /\ j <= i + Len(conv[i].calls)
  <2>1. CASE j \in 1 .. n
    <3>1. PICK i \in 1 .. n : i < j /\ Role(b[i]) = "assistant" /\ j <= i + Len(b[i].calls)
      BY <1>2, <1>5, <2>1 DEF Paired, n
    <3>2. conv[i] = b[i] /\ i \in 1 .. Len(conv)
      BY <1>1, <1>2
    <3> QED BY <3>1, <3>2
  <2>2. CASE j \notin 1 .. n
    <3>1. conv[n + 1].calls = m.calls /\ Role(conv[n + 1]) = "assistant" /\ j # n + 1
      BY <1>2, <1>5
    <3>2. n + 1 \in 1 .. Len(conv) /\ n + 1 < j /\ j <= (n + 1) + k
      BY <1>1, <1>2, <2>2, <3>1
    <3> QED BY <3>1, <3>2 DEF k
  <2> QED BY <2>1, <2>2
<1> QED
  BY <1>4, <1>5 DEF Paired

\* ... and by messages of the user.
LEMMA PairedUser ==
    ASSUME NEW T, NEW C, Messaging(T, C), NEW b \in Seq(T), NEW m \in T,
           Paired(b), Role(m) = "user"
    PROVE  Paired(Append(b, m))
<1> DEFINE t == Append(b, m)
           n == Len(b)
<1>1. /\ n \in Nat /\ Len(t) = n + 1 /\ t[n + 1] = m
      /\ \A i \in 1 .. n : t[i] = b[i]
  BY AppendProperties, LenProperties
<1> HIDE DEF t, n
<1>4. ASSUME NEW i \in 1 .. (n + 1), Role(t[i]) = "assistant" PROVE Whole(t, i)
  <2> DEFINE c == b[i].calls
  <2>1. i \in 1 .. n
    BY <1>1, <1>4
  <2>2. t[i] = b[i] /\ Whole(b, i)
    BY <1>1, <1>4, <2>1 DEF Paired, n
  <2>3. Len(c) \in Nat
    BY <1>4, <2>1, <2>2, ElementOfSeq, LenProperties DEF Messaging, n
  <2>4. /\ i + Len(c) <= n
        /\ \A l \in 1 .. Len(c) : b[i + l] = ToolResult(c[l])
        /\ i + Len(c) < n => Role(b[i + Len(c) + 1]) # "toolResult"
    BY <2>2 DEF Whole, n
  <2> HIDE DEF c
  <2>5. \A l \in 1 .. Len(c) : t[i + l] = ToolResult(c[l])
    BY <1>1, <2>1, <2>3, <2>4
  <2>6. Role(t[i + Len(c) + 1]) # "toolResult"
    <3>1. CASE i + Len(c) < n
      BY <1>1, <2>1, <2>3, <2>4, <3>1
    <3>2. CASE i + Len(c) = n
      BY <1>1, <3>2
    <3> QED BY <1>1, <2>1, <2>3, <2>4, <3>1, <3>2
  <2> QED BY <1>1, <2>1, <2>2, <2>3, <2>4, <2>5, <2>6 DEF Whole, c
<1>5. ASSUME NEW j \in 1 .. (n + 1), Role(t[j]) = "toolResult"
      PROVE  \E i \in 1 .. (n + 1) :
                 i < j /\ Role(t[i]) = "assistant" /\ j <= i + Len(t[i].calls)
  <2>1. j \in 1 .. n
    BY <1>1, <1>5
  <2>2. PICK i \in 1 .. n : i < j /\ Role(b[i]) = "assistant" /\ j <= i + Len(b[i].calls)
    BY <1>1, <1>5, <2>1 DEF Paired, n
  <2> QED BY <1>1, <2>2
<1> QED
  BY <1>1, <1>4, <1>5 DEF Paired, t

\* What is paired is what a provider accepts.
LEMMA PairedAccepted ==
    ASSUME NEW T, NEW C, Messaging(T, C), NEW conv \in Seq(T), Paired(conv)
    PROVE  WellPaired(conv)
<1>1. Len(conv) \in Nat /\ DOMAIN conv = 1 .. Len(conv) /\ \A i \in 1 .. Len(conv) : conv[i] \in T
  BY LenProperties, ElementOfSeq
<1>2. ASSUME NEW i \in 1 .. Len(conv), Role(conv[i]) = "assistant"
      PROVE  BlockCalls(conv, i) = conv[i].calls
  <2> DEFINE c == conv[i].calls
             e == BlockEnd(conv, i)
  <2>1. c \in Seq(C) /\ Len(c) \in Nat
    BY <1>1, <1>2, LenProperties DEF Messaging
  <2>2. /\ i + Len(c) <= Len(conv)
        /\ \A k \in 1 .. Len(c) : conv[i + k] = ToolResult(c[k])
        /\ i + Len(c) < Len(conv) => Role(conv[i + Len(c) + 1]) # "toolResult"
    BY <1>2 DEF Paired, Whole
  <2>3. /\ e \in i .. Len(conv) /\ \A k \in (i + 1) .. e : Role(conv[k]) = "toolResult"
        /\ e < Len(conv) => Role(conv[e + 1]) # "toolResult"
    BY BlockEnds
  <2>4. BlockCalls(conv, i) = [k \in 1 .. (e - i) |-> conv[i + k].call]
    BY DEF BlockCalls
  <2> HIDE DEF c, e
  <2>5. e = i + Len(c)
    <3>1. ~(e < i + Len(c))
      <4> SUFFICES ASSUME e < i + Len(c) PROVE FALSE
        OBVIOUS
      <4>1. (e - i) + 1 \in 1 .. Len(c) /\ i + ((e - i) + 1) = e + 1 /\ e < Len(conv)
        BY <1>1, <2>1, <2>2, <2>3
      <4>2. conv[e + 1] = ToolResult(c[(e - i) + 1])
        BY <2>2, <4>1
      <4> QED BY <2>3, <4>1, <4>2, Constructed
    <3>2. ~(i + Len(c) < e)
      <4> SUFFICES ASSUME i + Len(c) < e PROVE FALSE
        OBVIOUS
      <4>1. i + Len(c) + 1 \in (i + 1) .. e /\ i + Len(c) < Len(conv)
        BY <1>1, <2>1, <2>3
      <4> QED BY <2>2, <2>3, <4>1
    <3> QED BY <1>1, <2>1, <2>3, <3>1, <3>2
  <2>6. e - i = Len(c)
    BY <2>1, <2>5
  <2>7. \A k \in 1 .. Len(c) : conv[i + k].call = c[k]
    BY <2>2, Constructed
  <2>8. BlockCalls(conv, i) = [k \in 1 .. Len(c) |-> c[k]]
    BY <2>4, <2>6, <2>7
  <2>9. c = [k \in 1 .. Len(c) |-> c[k]]
    BY <2>1, LenProperties
  <2> QED BY <2>8, <2>9 DEF c
<1>3. AllAnswered(conv)
  BY <1>1, <1>2 DEF AllAnswered
<1>4. ASSUME NEW j \in 1 .. Len(conv), Role(conv[j]) = "toolResult"
      PROVE  \E a \in 1 .. (j - 1) :
                /\ Role(conv[a]) = "assistant"
                /\ conv[j].call \in ToSet(conv[a].calls)
                /\ \A k \in (a + 1) .. j : Role(conv[k]) = "toolResult"
  <2>1. PICK i \in 1 .. Len(conv) :
           i < j /\ Role(conv[i]) = "assistant" /\ j <= i + Len(conv[i].calls)
    BY <1>4 DEF Paired
  <2> DEFINE c == conv[i].calls
  <2>2. c \in Seq(C) /\ Len(c) \in Nat /\ DOMAIN c = 1 .. Len(c)
    BY <1>1, <2>1, LenProperties DEF Messaging
  <2>3. \A k \in 1 .. Len(c) : conv[i + k] = ToolResult(c[k])
    BY <2>1 DEF Paired, Whole
  <2> HIDE DEF c
  <2>4. ASSUME NEW k \in (i + 1) .. j
        PROVE  k - i \in 1 .. Len(c) /\ conv[k] = ToolResult(c[k - i])
    <3>1. k - i \in 1 .. Len(c) /\ i + (k - i) = k
      BY <1>1, <2>1, <2>2 DEF c
    <3> QED BY <2>3, <3>1
  <2>5. \A k \in (i + 1) .. j : Role(conv[k]) = "toolResult"
    BY <2>4, Constructed
  <2>6. conv[j].call \in ToSet(c)
    <3>1. j \in (i + 1) .. j
      BY <2>1
    <3>2. conv[j].call = c[j - i] /\ j - i \in DOMAIN c
      BY <2>2, <2>4, <3>1, Constructed
    <3> QED BY <3>2 DEF ToSet
  <2>7. i \in 1 .. (j - 1)
    BY <2>1
  <2> QED BY <2>1, <2>5, <2>6, <2>7 DEF c
<1>5. NoStrayResult(conv)
  BY <1>1, <1>4 DEF NoStrayResult
<1> QED
  BY <1>3, <1>5 DEF WellPaired

-----------------------------------------------------------------------------
(* The repair of an orderly conversation.                                   *)

\* No call is open, and no message waits for results.
Ready(conv, s) ==
    /\ s.pending = <<>>
    /\ Paired(s.out)
    /\ \/ Len(conv) = 0
       \/ Role(conv[Len(conv)]) = "user"
       \/ Role(conv[Len(conv)]) = "assistant" /\ IsSkipped(conv[Len(conv)])

SeenUpTo(calls, seen, k) == \A l \in 1 .. Len(calls) : calls[l] \in seen <=> l <= k

\* The message at i waits for the results of its calls after the k-th.
Waiting(conv, s, i, b, k) ==
    LET m == conv[i]
    IN  /\ Role(m) = "assistant" /\ ~IsSkipped(m)
        /\ Len(conv) = i + k
        /\ k <= Len(m.calls)
        /\ \A l \in 1 .. k : conv[i + l] = ToolResult(m.calls[l])
        /\ Paired(b)
        /\ Partial(s.out, b, m, k)
        /\ s.pending = m.calls
        /\ SeenUpTo(m.calls, s.seen, k)

InOrder(T, conv, s) ==
    \/ Ready(conv, s)
    \/ \E i \in 1 .. Len(conv), b \in Seq(T), k \in Nat : Waiting(conv, s, i, b, k)

\* The missing calls of the pass are those after the k-th.
MissingFrom(s, k) ==
    /\ Len(Missing(s)) = Len(s.pending) - k
    /\ \A l \in 1 .. (Len(s.pending) - k) : Missing(s)[l] = s.pending[k + l]

\* The calls that are missing are those after the k-th.
LEMMA MissingTail ==
    ASSUME NEW C, NEW s, s.pending \in Seq(C)
    PROVE  \A k \in Nat :
              k <= Len(s.pending) /\ SeenUpTo(s.pending, s.seen, k) => MissingFrom(s, k)
<1> SUFFICES ASSUME NEW k \in Nat, k <= Len(s.pending), SeenUpTo(s.pending, s.seen, k)
             PROVE  MissingFrom(s, k)
  OBVIOUS
<1> DEFINE p == s.pending
           n == Len(p)
           a == [l \in 1 .. k |-> p[l]]
           z == [l \in 1 .. (n - k) |-> p[k + l]]
           K == ToSet(p) \ s.seen
<1>1. n \in Nat /\ DOMAIN p = 1 .. n /\ \A l \in 1 .. n : p[l] \in C
  BY LenProperties, ElementOfSeq
<1>2. \A l \in 1 .. n : p[l] \in s.seen <=> l <= k
  BY DEF SeenUpTo
<1>3. Missing(s) = Keeping(K, p)
  BY DEF Missing
<1>4. p \in Seq(C) /\ k <= n
  OBVIOUS
<1>5. ToSet(p) = {p[l] : l \in 1 .. n}
  BY <1>1 DEF ToSet
<1> HIDE DEF p, n
<1>6. \A l \in 1 .. k : l \in 1 .. n
  BY <1>1, <1>4
<1>7. n - k \in Nat /\ \A l \in 1 .. (n - k) : k + l \in 1 .. n /\ ~(k + l <= k)
  BY <1>1, <1>4
<1>8. a \in Seq(C) /\ Len(a) = k /\ \A l \in 1 .. k : a[l] = p[l]
  <2>1. a \in [1 .. k -> C]
    BY <1>1, <1>6
  <2> QED BY <2>1
<1>9. z \in Seq(C) /\ Len(z) = n - k /\ \A l \in 1 .. (n - k) : z[l] = p[k + l]
  <2>1. z \in [1 .. (n - k) -> C]
    BY <1>1, <1>7
  <2>2. \A j \in Nat : \A w \in [1 .. j -> C] : w \in Seq(C) /\ Len(w) = j
    OBVIOUS
  <2>3. z \in Seq(C) /\ Len(z) = n - k
    <3> HIDE DEF z
    <3> QED BY <1>7, <2>1, <2>2
  <2> QED BY <2>3
<1>10. Keeping(K, a) = <<>>
  <2>1. ToSet(a) \cap K = {}
    <3>1. ASSUME NEW c \in ToSet(a) PROVE c \in s.seen
      <4>1. PICK l \in 1 .. k : c = a[l]
        BY <1>8, LenProperties DEF ToSet
      <4>2. l \in 1 .. n /\ l <= k
        BY <1>6
      <4> QED BY <1>2, <1>8, <4>1, <4>2
    <3> QED BY <3>1
  <2> QED BY <1>8, <2>1, KeepingNone
<1>11. Keeping(K, z) = z
  <2>1. ToSet(z) \subseteq K
    <3>1. ASSUME NEW c \in ToSet(z) PROVE c \in K
      <4>1. PICK l \in 1 .. (n - k) : c = p[k + l]
        BY <1>9, LenProperties DEF ToSet
      <4> QED BY <1>2, <1>5, <1>7, <4>1
    <3> QED BY <3>1
  <2> QED BY <1>9, <2>1, KeepingAll
<1>12. p = a \o z
  <2> HIDE DEF a, z, K
  <2>1. /\ a \o z \in Seq(C) /\ Len(a \o z) = Len(a) + Len(z)
        /\ \A l \in 1 .. (Len(a) + Len(z)) :
              (a \o z)[l] = IF l <= Len(a) THEN a[l] ELSE z[l - Len(a)]
    <3>1. \A u \in Seq(C) :
             /\ a \o u \in Seq(C) /\ Len(a \o u) = Len(a) + Len(u)
             /\ \A l \in 1 .. (Len(a) + Len(u)) :
                   (a \o u)[l] = IF l <= Len(a) THEN a[l] ELSE u[l - Len(a)]
      BY <1>8, ConcatProperties
    <3> QED BY <1>9, <3>1
  <2>2. Len(a) + Len(z) = n
    BY <1>1, <1>4, <1>8, <1>9
  <2>3. ASSUME NEW l \in 1 .. n PROVE p[l] = (a \o z)[l]
    <3>1. CASE l <= k
      <4>1. (a \o z)[l] = a[l] /\ l \in 1 .. k
        BY <1>8, <2>1, <2>2, <3>1
      <4> QED BY <1>8, <4>1
    <3>2. CASE ~(l <= k)
      <4>1. l - k \in 1 .. (n - k) /\ k + (l - k) = l
        BY <1>1, <1>4, <3>2
      <4>2. (a \o z)[l] = z[l - k]
        BY <1>8, <2>1, <2>2, <3>2
      <4> QED BY <1>9, <4>1, <4>2
    <3> QED BY <3>1, <3>2
  <2> QED BY <1>4, <2>1, <2>2, <2>3, SeqEqual DEF n
<1>13. Keeping(K, p) = <<>> \o z
  <2> HIDE DEF a, z, K
  <2>1. Keeping(K, a \o z) = Keeping(K, a) \o Keeping(K, z)
    BY <1>8, <1>9, KeepingConcat
  <2> QED BY <1>10, <1>11, <1>12, <2>1
<1>14. <<>> \o z = z
  BY <1>9, ConcatEmptySeq
<1> QED
  BY <1>3, <1>9, <1>13, <1>14 DEF n, p, MissingFrom

\* The insertion completes the last block.
LEMMA InsertPairs ==
    ASSUME NEW T, NEW C, Messaging(T, C), NEW conv \in Seq(T), NEW s \in PassType(T, C),
           InOrder(T, conv, s)
    PROVE  Paired(InsertSynthetic(s).out)
<1>1. /\ s.out \in Seq(T) /\ s.pending \in Seq(C) /\ Missing(s) \in Seq(C)
      /\ InsertSynthetic(s).out = s.out \o ResultsOf(Missing(s))
      /\ InsertSynthetic(s).out \in Seq(T)
  BY Inserted DEF PassType
<1>2. CASE Ready(conv, s)
  <2>1. Missing(s) = <<>>
    BY <1>2, KeepingEmpty DEF Ready, Missing
  <2>2. ResultsOf(<<>>) \in Seq(T) /\ Len(ResultsOf(<<>>)) = 0
    BY <1>1, <2>1, ResultsOfCalls, EmptySeq
  <2>3. ResultsOf(<<>>) = <<>>
    BY <2>2, EmptySeq
  <2>4. InsertSynthetic(s).out = s.out
    BY <1>1, <2>1, <2>3, ConcatEmptySeq
  <2> QED BY <1>2, <2>4 DEF Ready
<1>3. ASSUME NEW i \in 1 .. Len(conv), NEW b \in Seq(T), NEW k \in Nat, Waiting(conv, s, i, b, k)
      PROVE  Paired(InsertSynthetic(s).out)
  <2> DEFINE m == conv[i]
             n == Len(m.calls)
             z == Missing(s)
             q == Len(b)
             o == s.out
             t == InsertSynthetic(s).out
  <2>1. /\ Role(m) = "assistant" /\ k <= n /\ Paired(b) /\ Partial(o, b, m, k)
        /\ s.pending = m.calls
        /\ SeenUpTo(m.calls, s.seen, k)
    BY <1>3 DEF Waiting
  <2>2. m \in T /\ n \in Nat /\ q \in Nat
    BY <1>1, <2>1, ElementOfSeq, LenProperties
  <2>4. Len(z) = n - k /\ \A l \in 1 .. (n - k) : z[l] = m.calls[k + l]
    <3>1. SeenUpTo(s.pending, s.seen, k)
      BY <2>1
    <3>2. Len(s.pending) = n /\ k <= Len(s.pending)
      BY <2>1
    <3>3. s.pending \in Seq(C) /\ k \in Nat
      BY <1>1
    <3>4. MissingFrom(s, k)
      BY <3>1, <3>2, <3>3, MissingTail
    <3> QED BY <2>1, <3>4 DEF MissingFrom
  <2>5. z \in Seq(C) /\ o \in Seq(T) /\ t \in Seq(T) /\ t = o \o ResultsOf(z)
    BY <1>1
  <2> HIDE DEF z, t, o
  <2>6. /\ ResultsOf(z) \in Seq(T) /\ Len(ResultsOf(z)) = n - k
        /\ \A l \in 1 .. (n - k) : ResultsOf(z)[l] = ToolResult(m.calls[k + l])
    <3>1. /\ ResultsOf(z) \in Seq(T) /\ Len(ResultsOf(z)) = Len(z)
          /\ \A l \in 1 .. Len(z) : ResultsOf(z)[l] = ToolResult(z[l])
      BY ONLY Messaging(T, C), <2>5, ResultsOfCalls
    <3> QED BY <2>4, <3>1
  <2>7. /\ Len(o) = q + 1 + k /\ \A l \in 1 .. q : o[l] = b[l]
        /\ o[q + 1] = m
        /\ \A l \in 1 .. k : o[q + 1 + l] = ToolResult(m.calls[l])
    BY <2>1 DEF Partial
  <2>8. /\ Len(t) = Len(o) + (n - k)
        /\ \A l \in 1 .. (Len(o) + (n - k)) :
              t[l] = IF l <= Len(o) THEN o[l] ELSE ResultsOf(z)[l - Len(o)]
    <3>1. /\ Len(t) = Len(o) + Len(ResultsOf(z))
          /\ \A l \in 1 .. (Len(o) + Len(ResultsOf(z))) :
                t[l] = IF l <= Len(o) THEN o[l] ELSE ResultsOf(z)[l - Len(o)]
      BY ONLY <2>5, <2>6, ConcatProperties
    <3> QED BY <2>6, <3>1
  <2> HIDE DEF q, m, n
  <2>9. Len(t) = q + 1 + n
    BY <2>1, <2>2, <2>7, <2>8
  <2>10. \A l \in 1 .. Len(o) : l \in 1 .. (Len(o) + (n - k)) /\ l <= Len(o)
    BY <2>1, <2>2, <2>7
  <2>11. \A l \in 1 .. Len(o) : t[l] = o[l]
    BY <2>8, <2>10
  <2>12. q + 1 \in 1 .. Len(o) /\ \A l \in 1 .. q : l \in 1 .. Len(o)
    BY <2>2, <2>7
  <2>13. t[q + 1] = m /\ \A l \in 1 .. q : t[l] = b[l]
    BY <2>7, <2>11, <2>12
  <2>14. ASSUME NEW l \in 1 .. n PROVE t[q + 1 + l] = ToolResult(m.calls[l])
    <3>1. CASE l <= k
      <4>1. q + 1 + l \in 1 .. Len(o) /\ l \in 1 .. k
        BY <2>2, <2>7, <3>1
      <4> QED BY <2>7, <2>11, <4>1
    <3>2. CASE ~(l <= k)
      <4>1. /\ q + 1 + l \in 1 .. (Len(o) + (n - k)) /\ ~(q + 1 + l <= Len(o))
            /\ (q + 1 + l) - Len(o) = l - k
            /\ l - k \in 1 .. (n - k) /\ k + (l - k) = l
        BY <2>1, <2>2, <2>7, <3>2
      <4>2. t[q + 1 + l] = ResultsOf(z)[l - k]
        BY <2>8, <4>1
      <4> QED BY <2>6, <4>1, <4>2
    <3> QED BY <3>1, <3>2
  <2>15. Partial(t, b, m, Len(m.calls))
    BY <2>9, <2>13, <2>14 DEF Partial, q, n
  <2> QED BY <2>1, <2>2, <2>5, <2>15, PairedBlock DEF t
<1> QED
  BY <1>2, <1>3 DEF InOrder

\* A result of an orderly conversation is the next one of the message that waits.
LEMMA NextResult ==
    ASSUME NEW T, NEW C, Messaging(T, C), NEW conv \in Seq(T), NEW s \in PassType(T, C),
           InOrder(T, conv, s), NEW x \in T, Role(x) = "toolResult", Orderly(Append(conv, x))
    PROVE  InOrder(T, Append(conv, x), PassStep(s, x))
<1> DEFINE t == Append(conv, x)
           n == Len(conv)
<1>1. /\ n \in Nat /\ Len(t) = n + 1 /\ t[n + 1] = x
      /\ \A l \in 1 .. n : t[l] = conv[l]
  BY AppendProperties, LenProperties
<1>2. PICK a \in 1 .. (n + 1) : InBlock(t, a, n + 1) /\ ~IsSkipped(t[a])
  <2>1. n + 1 \in 1 .. Len(t)
    BY <1>1
  <2> HIDE DEF t, n
  <2> QED BY <1>1, <2>1 DEF Orderly, ResultsServed, t
<1>3. InPlace(t, a, n + 1) /\ CallsDistinct(t)
  <2>1. n + 1 \in 1 .. Len(t) /\ a \in 1 .. Len(t)
    BY <1>1
  <2> HIDE DEF n
  <2> QED BY <1>2, <2>1 DEF Orderly, ResultsOrdered
<1> HIDE DEF t, n
<1>4. /\ a \in 1 .. n /\ t[a] = conv[a] /\ Role(conv[a]) = "assistant" /\ ~IsSkipped(conv[a])
      /\ \A l \in (a + 1) .. n : Role(conv[l]) = "toolResult"
  <2>1. a \in 1 .. n
    BY <1>1, <1>2 DEF InBlock
  <2>2. \A l \in (a + 1) .. n : l \in 1 .. n /\ l \in (a + 1) .. (n + 1)
    BY <1>1, <2>1
  <2> QED BY <1>1, <1>2, <2>1, <2>2 DEF InBlock
<1>5. ~Ready(conv, s)
  <2> SUFFICES ASSUME Ready(conv, s) PROVE FALSE
    OBVIOUS
  <2>1. n # 0 /\ n \in a .. n
    BY <1>1, <1>4
  <2>2. Role(conv[n]) = "user" \/ (Role(conv[n]) = "assistant" /\ IsSkipped(conv[n]))
    BY <2>1 DEF Ready, n
  <2>3. n = a \/ n \in (a + 1) .. n
    BY <1>4, <2>1
  <2> QED BY <1>4, <2>2, <2>3
<1>6. PICK i \in 1 .. n, b \in Seq(T), k \in Nat : Waiting(conv, s, i, b, k)
  BY <1>5 DEF InOrder, n
<1> DEFINE m == conv[i]
<1>7. /\ Role(m) = "assistant" /\ ~IsSkipped(m) /\ n = i + k /\ k <= Len(m.calls)
      /\ \A l \in 1 .. k : conv[i + l] = ToolResult(m.calls[l])
      /\ Paired(b) /\ Partial(s.out, b, m, k) /\ s.pending = m.calls
      /\ SeenUpTo(m.calls, s.seen, k)
  BY <1>6 DEF Waiting, n
<1>8. a = i
  <2>1. ~(a < i)
    <3> SUFFICES ASSUME a < i PROVE FALSE
      OBVIOUS
    <3>1. i \in (a + 1) .. n
      BY <1>4
    <3> QED BY <1>4, <1>7, <3>1
  <2>2. ~(i < a)
    <3> SUFFICES ASSUME i < a PROVE FALSE
      OBVIOUS
    <3>1. a - i \in 1 .. k /\ i + (a - i) = a
      BY <1>4, <1>7
    <3> QED BY <1>4, <1>7, <3>1, Constructed
  <2> QED BY <1>4, <2>1, <2>2
<1>9. m \in T /\ m.calls \in Seq(C) /\ Len(m.calls) \in Nat
  BY <1>7, ElementOfSeq, LenProperties DEF Messaging, n
<1>10. k + 1 <= Len(m.calls) /\ x.call = m.calls[k + 1]
  <2>1. (n + 1) - i = k + 1
    BY <1>1, <1>7
  <2> QED BY <1>1, <1>3, <1>4, <1>8, <2>1 DEF InPlace
<1>11. x = ToolResult(m.calls[k + 1]) /\ x.call \in C
  BY <1>10 DEF Messaging
<1>12. /\ PassStep(s, x).out = Append(s.out, x) /\ PassStep(s, x).pending = s.pending
       /\ PassStep(s, x).seen = s.seen \cup {m.calls[k + 1]}
  <2>1. PassStep(s, x) = [out |-> Append(s.out, x), pending |-> s.pending,
                          seen |-> s.seen \cup {x.call}]
    BY Passed
  <2> HIDE DEF m
  <2> QED BY <1>10, <2>1
<1>13. s.out \in Seq(T)
  BY DEF PassType
<1> DEFINE r == PassStep(s, x)
           o == s.out
           q == Len(b)
<1>14. /\ q \in Nat /\ Len(o) = q + 1 + k /\ o[q + 1] = m
       /\ \A l \in 1 .. q : o[l] = b[l]
       /\ \A l \in 1 .. k : o[q + 1 + l] = ToolResult(m.calls[l])
  BY <1>7, LenProperties DEF Partial
<1>15. /\ Len(r.out) = Len(o) + 1 /\ r.out[Len(o) + 1] = x
       /\ \A l \in 1 .. Len(o) : r.out[l] = o[l]
  BY <1>12, <1>13, AppendProperties
<1> HIDE DEF m, r, o, q
<1>16. Partial(r.out, b, m, k + 1)
  <2>1. Len(r.out) = q + 1 + (k + 1) /\ q + 1 + (k + 1) = Len(o) + 1
    BY <1>14, <1>15
  <2>2. q + 1 \in 1 .. Len(o) /\ \A l \in 1 .. q : l \in 1 .. Len(o)
    BY <1>14
  <2>3. \A l \in 1 .. k : q + 1 + l \in 1 .. Len(o)
    BY <1>14
  <2>4. r.out[q + 1] = m /\ \A l \in 1 .. q : r.out[l] = b[l]
    BY <1>14, <1>15, <2>2
  <2>5. ASSUME NEW l \in 1 .. (k + 1) PROVE r.out[q + 1 + l] = ToolResult(m.calls[l])
    <3>1. CASE l = k + 1
      BY <1>11, <1>15, <2>1, <3>1
    <3>2. CASE l # k + 1
      <4>1. l \in 1 .. k
        BY <3>2
      <4> QED BY <1>14, <1>15, <2>3, <4>1
    <3> QED BY <3>1, <3>2
  <2> QED BY <2>1, <2>4, <2>5 DEF Partial, q
<1>17. SeenUpTo(m.calls, r.seen, k + 1)
  <2>1. \A j, l \in 1 .. Len(m.calls) : m.calls[j] = m.calls[l] => j = l
    <3>1. i \in 1 .. Len(t) /\ t[i] = m
      BY <1>1, <1>4, <1>8 DEF m
    <3> QED BY <1>3, <1>7, <3>1 DEF CallsDistinct
  <2>2. r.seen = s.seen \cup {m.calls[k + 1]}
    BY <1>12 DEF r
  <2>3. k + 1 \in 1 .. Len(m.calls)
    BY <1>9, <1>10
  <2>4. ASSUME NEW l \in 1 .. Len(m.calls) PROVE m.calls[l] \in r.seen <=> l <= k + 1
    <3>1. m.calls[l] \in r.seen <=> l <= k \/ l = k + 1
      BY <1>7, <2>1, <2>2, <2>3 DEF SeenUpTo
    <3>2. l <= k + 1 <=> l <= k \/ l = k + 1
      BY <1>9
    <3> QED BY <3>1, <3>2
  <2> QED BY <2>4 DEF SeenUpTo
<1>18. i \in 1 .. (n + 1) /\ t[i] = m /\ n + 1 = i + (k + 1) /\ k + 1 \in Nat
  BY <1>1, <1>7, <1>4, <1>8 DEF m
<1>19. \A l \in 1 .. (k + 1) : t[i + l] = ToolResult(m.calls[l])
  <2>1. ASSUME NEW l \in 1 .. (k + 1) PROVE t[i + l] = ToolResult(m.calls[l])
    <3>1. CASE l = k + 1
      BY <1>1, <1>11, <1>18, <3>1
    <3>2. CASE l # k + 1
      <4>1. l \in 1 .. k /\ i + l \in 1 .. n
        BY <1>7, <3>2
      <4> QED BY <1>1, <1>7, <4>1
    <3> QED BY <3>1, <3>2
  <2> QED BY <2>1
<1>20. r.pending = m.calls
  BY <1>7, <1>12 DEF r
<1>21. Waiting(t, r, i, b, k + 1)
  BY <1>1, <1>7, <1>10, <1>16, <1>17, <1>18, <1>19, <1>20 DEF Waiting
<1> QED
  BY <1>1, <1>18, <1>21 DEF InOrder, t, r

\* After any part of an orderly conversation the output is paired, or its last
\* block is cut short where the conversation is.
LEMMA PassInOrder ==
    ASSUME NEW T, NEW C, Messaging(T, C), NEW conv \in Seq(T), Orderly(conv)
    PROVE  InOrder(T, conv, PassState(conv))
<1> DEFINE S == {r \in Seq(T) : Orderly(r) => InOrder(T, r, PassState(r))}
<1>1. <<>> \in S
  <2>1. Len(<<>>) = 0 /\ <<>> \in Seq(T)
    BY EmptySeq
  <2>2. Paired(<<>>)
    BY <2>1 DEF Paired
  <2>3. InOrder(T, <<>>, PassState(<<>>))
    BY <2>1, <2>2, PassEmpty DEF InOrder, Ready, PassStart
  <2> QED BY <2>1, <2>3
<1>2. ASSUME NEW r \in Seq(T), r \in S, NEW x \in T PROVE Append(r, x) \in S
  <2>1. SUFFICES ASSUME Orderly(Append(r, x))
                 PROVE  InOrder(T, Append(r, x), PassState(Append(r, x)))
    BY AppendProperties
  <2> DEFINE s == PassState(r)
             f == InsertSynthetic(s)
             t == Append(r, x)
             n == PassStep(s, x)
  <2>2. s \in PassType(T, C) /\ InOrder(T, r, s)
    BY <1>2, <2>1, OrderlyBefore, PassTyped
  <2>3. PassState(t) = n
    BY PassAppend
  <2>4. t \in Seq(T) /\ Len(t) = Len(r) + 1 /\ t[Len(r) + 1] = x /\ Len(r) \in Nat
    BY AppendProperties, LenProperties
  <2> HIDE DEF s
  <2>5. Paired(f.out) /\ f.out \in Seq(T) /\ f.pending = <<>>
    <3>1. f \in PassType(T, C) /\ f.pending = <<>>
      BY <2>2, Inserted
    <3> QED BY <2>2, <3>1, InsertPairs DEF PassType
  <2>6. InOrder(T, t, n)
    <3>1. CASE Role(x) = "toolResult"
      BY <2>1, <2>2, <3>1, NextResult
    <3>2. CASE Role(x) = "user"
      <4>1. n.out = Append(f.out, x) /\ n.pending = <<>>
        BY <2>2, <3>2, Passed
      <4>2. Paired(n.out)
        BY <2>5, <3>2, <4>1, PairedUser
      <4> HIDE DEF f, n, t
      <4> QED BY <2>4, <3>2, <4>1, <4>2 DEF InOrder, Ready
    <3>3. CASE Role(x) = "assistant" /\ IsSkipped(x)
      <4>1. n = f
        BY <2>2, <3>3, Passed
      <4> HIDE DEF f, n, t
      <4> QED BY <2>4, <2>5, <3>3, <4>1 DEF InOrder, Ready
    <3>4. CASE Role(x) = "assistant" /\ ~IsSkipped(x)
      <4>1. /\ n.out = Append(f.out, x) /\ n.pending = x.calls
            /\ x.calls # <<>> => n.seen = {}
        BY <2>2, <3>4, Passed
      <4>2. x.calls \in Seq(C) /\ Len(x.calls) \in Nat
        BY <3>4, LenProperties DEF Messaging
      <4> HIDE DEF f, n, t
      <4>3. Partial(n.out, f.out, x, 0)
        <5>1. /\ Len(n.out) = Len(f.out) + 1 /\ n.out[Len(f.out) + 1] = x /\ Len(f.out) \in Nat
              /\ \A l \in 1 .. Len(f.out) : n.out[l] = f.out[l]
          BY <2>5, <4>1, AppendProperties, LenProperties
        <5> QED BY <5>1 DEF Partial
      <4>4. SeenUpTo(x.calls, n.seen, 0)
        <5>1. ASSUME NEW l \in 1 .. Len(x.calls) PROVE n.seen = {} /\ ~(l <= 0)
          <6>1. x.calls # <<>>
            BY <4>2, EmptySeq
          <6> QED BY <4>1, <6>1
        <5> QED BY <5>1 DEF SeenUpTo
      <4>5. Waiting(t, n, Len(r) + 1, f.out, 0)
        <5>1. 0 <= Len(x.calls) /\ Len(t) = (Len(r) + 1) + 0
          BY <2>4, <4>2
        <5>2. \A l \in 1 .. 0 : FALSE
          OBVIOUS
        <5> QED BY <2>4, <2>5, <3>4, <4>1, <4>3, <4>4, <5>1, <5>2 DEF Waiting
      <4>6. Len(r) + 1 \in 1 .. Len(t)
        BY <2>4
      <4> QED BY <2>5, <4>5, <4>6 DEF InOrder
    <3> QED BY <3>1, <3>2, <3>3, <3>4 DEF Messaging
  <2> QED BY <2>3, <2>6
<1> HIDE DEF S
<1>3. Seq(T) \subseteq S
  BY <1>1, <1>2, SequencesReached
<1> QED
  BY <1>3 DEF S

\* A conversation whose results follow their calls in order, the last ones
\* perhaps missing, becomes one that a provider accepts: every call is answered
\* once, directly after the message that made it (transform-messages.ts:155).
THEOREM RepairPairs ==
    ASSUME NEW T, NEW C, Messaging(T, C), NEW conv \in Seq(T), Orderly(conv)
    PROVE  WellPaired(Transform(conv))
<1>1. PassState(conv) \in PassType(T, C) /\ InOrder(T, conv, PassState(conv))
  BY PassTyped, PassInOrder
<1>2. Paired(InsertSynthetic(PassState(conv)).out)
  BY <1>1, InsertPairs
<1>3. Transform(conv) \in Seq(T) /\ Paired(Transform(conv))
  BY <1>2, Repaired DEF Transform
<1> QED
  BY <1>3, PairedAccepted

=============================================================================
